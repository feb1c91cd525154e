# HF-WiFiModule: specification and verification

TLA+ models of the firmware of the HF WiFi module (a serial-to-WiFi bridge on the ESP8266
non-OS SDK) and of the Android application that configures it, the TLC configurations
that check them, and TLAPS proofs. Paths are relative to the repository's `src/`.

1. [The system](#the-system) – inventory
2. [The modules](#the-modules) – what models what
3. [The runs](#the-runs) – what is checked, bounds, fairness
4. [The theorems](#the-theorems) – what is proved, from what, how
5. [Where code and text disagree](#where-code-and-text-disagree)
6. [Not modelled, abstractions](#abstractions-and-what-is-not-modelled)
7. [Plan](#plan)

## The system

The build is that of `firmware/app/include/user_config.h`: `PLUG_DEVICE`, `AP_CACHE`
with `AP_CACHE_NUMBER` 5, no SSL, no DNS client, `BEACON_TIME` 300000. `user_init`
(`user_main.c`) initialises pins and UART and calls `user_esp_platform_init`; everything
after that is a callback.

**Who runs concurrently.** One SDK event loop runs timer, connection, scan and smartconfig
callbacks to completion: between two callbacks anything may happen, inside one nothing.
Two contexts interrupt it: the UART interrupt and the FRC1 hardware timer (`hw_timer.c`),
which do not interrupt each other. On the phone a session has three threads.

| part | state it keeps | operations | hard about it |
|---|---|---|---|
| Station life cycle, `user_esp_platform.c` | `esp_param` in RAM and flash, `client_timer`, `beacon_timer`, `device_recon_count`, `m_reconnect_count`, `ping_status`, `device_status`, `user_conn` | init, check_ip, ap_change, reset_mode, connect/recon/recv/sent callbacks, beacon, upgrade_rsp, smartconfig_done | one `os_timer` carries eight unrelated callbacks, the last to arm it wins; a wrapping failure counter compared with `==`; power cuts |
| UART receive, `driver/uart.c`, `user_uart.c` | hardware FIFO, ring `pRxBuffer`, its two pointers and `Space`, interrupt flags | interrupt handler, `Uart_rx_buff_enq`, `rx_buff_deq`, pump | two handlers on one ring; interrupts cleared before or after the copy |
| TCP client (mode 1), `user_tcp_client.c` | connection, `tcp_reconn_timer`, `tcp_reconn_count`, READY pin | init, connect/recon/discon callbacks, reconnect | started again by `check_ip` at any time; failures nobody looks at |
| Web server (mode 3), `user_webserver.c` | statics of the request collector, `sta_conf`, `ap_conf`, `rstparm`, `restart_10ms`, `pscaninfo` | every GET and POST, 10 ms timer, scan callback | all clients share the statics; requests split over segments |
| Firmware upload, same file | `upgrade_lock`, SDK upgrade flag, function statics of `local_upgrade_download`, two timers | start, data, time-out, deinit, reset | counters that survive an aborted upload; deferred deinit |
| SmartConfig session, Android `__EsptouchTask` and its sockets | result list, flags, sockets | UI, worker and listener threads | unsynchronised flags, interrupts of the wrong thread |
| SmartConfig coding, Android `protocol/`, `ApplicationUtil`, firmware `smartconfig_done` | none | text → datagram lengths → text → settings | fields without fixed width, codes heard in any order |
| UART transmit, `driver/uart.c` | hardware FIFO, ring `pTxBuffer`, its interrupt enable | `tx_buff_enq`, `uart0_tx_buffer`, transmit branch of the handler, `UART_CheckOutputFinished` | two ways into one FIFO, a handler that switches itself off |
| Device timers, `user_esp_platform_timer.c` | the timer list, the server's clock, one `os_timer` and its `wait_param` | list from the cloud, hourly countdown, firing, reloading | a parameter in a frame that has returned; unsigned differences of seconds |
| Keys, `driver/key.c` | level, two timers, the pin's interrupt type | handler, `key_50ms_cb`, `key_5s_cb` | bouncing pin against two timers and a switched edge |
| SPI overlap, `driver/spi_overlap.c` | the HSPI registers, two saved sets, the selection | initialise, select, read flash | every way from one device to another must leave the same registers |
| SPI master and slave, `driver/spi.c` | registers; the slave's buffers and two ready lines | byte, command, LCD write; slave handler | inherited phase bits; a transfer that ends inside the handler |
| I2C, `driver/i2c_master.c` | the two pins | init, start, stop, bytes, acknowledges | the order of every edge is the protocol |
| UDP client, device find, JSON, GPIO, LED | see *Not modelled* | | |

The transmit ring, the keys, SPI and I2C are drivers without a caller in this build (the
network callbacks use `uart0_tx_buffer`): they are modelled as libraries, against every
order of calls their interface allows.

**Interactions.** `check_ip` starts the service of the work mode (`user_tcp_client_init`,
UDP, web server) each time the station has an address; the first connection of a service
starts the serial pump (`user_uart_init`); the TCP client restarts the whole module after
`MAX_RECONN_COUNT` attempts; the web server changes the station configuration and re-arms
`client_timer` (`restart_10ms_cb` → `check_ip`); the phone's settings arrive in
`smartconfig_done`; the cloud sends commands that arm `client_timer`.

**What makes each part correct.** Station: it always gets another try, at the next AP if
this one fails; configuration survives power cuts; leftovers of one connection do not
disturb the next. UART: no accepted byte is lost, repeated or reordered. TCP client: the
READY pin tells the truth, retries end in a connection or a restart. Web server: no
request disturbs the next one's parsing, no timer follows a pointer that is gone. Upload:
what is reported as success is the file. Drivers: whoever is selected hears, and only he;
a transfer carries what it was called with, whatever ran before; no byte, edge or packet is
lost that the hardware did not lose. Device timers: none is early, late or forgotten.
Session: it ends, and its result is what happened. Coding: what was typed is what is stored.
The `hazards` of `PROJECT.json` list, line by line, where each of these could break.

## The modules

`MC…` modules give values to CONSTANTs and put together what one run explores (`MCWeb`,
`MCPhone`, `MCDrivers`); every other module is translated from the lines `PROJECT.json` → `map` names. A definition commented *Mutant of X* is a plausible
bug in X: the property it is paired with in `mutants` fails when X is replaced by it.

**EspPlatform.tla** – `user_esp_platform.c`. `client_timer` is the variable `ctimer`, the
callback that is pending: arming it replaces whatever was there, as
`os_timer_disarm; os_timer_setfn; os_timer_arm` does. Variables keep the code's statics
(`recon` = `device_recon_count` with its wrap `CountMod`, `apChanges` =
`m_reconnect_count`, `ping` = `ping_status`, `status` = `device_status`); `param` is
`esp_param` and `flash` its sector. Actions: `PlatformInit`, `CheckIpTimer` (also fired as
`user_esp_platform_reconnect`), `ApChange`, `ConnectCb`, `ReconCb`, `Recv…` (one per kind
of message), `SentBeacon`, `UpgradeRsp`, `SmartLinkFlag`/`Plain`/`Over`, what the web
server calls (`WebSetStation`, `WebRestart`, `WebPost`), power loss, and the SDK's station
machine (external). `RemoteClose` is a clean close: this build registers no disconnect
callback, so nothing is told.

**ByteStream.tla, UartRx.tla** – the abstract stream (a bounded FIFO that hands out its
oldest bytes) and the receive path: the FIFO, the interrupt handler with one pass of its
loop per action in the order of its if-else chain, the ring, the pump. `ImplementsByteStream`
is the refinement.

**TcpClient.tla** – the callbacks and the timer of the TCP client, with `route` (has the
station an address) changing freely.

**Bridge.tla** – EspPlatform and TcpClient in one event loop; `check_ip` is where they
meet. `ImplementsTcpClient` says that next to the real station the client still behaves as
TcpClient.tla allows, so what is proved there holds here.

**WebServer.tla, WebSettings.tla, WebUpload.tla** – `user_webserver.c`, split at
`upgrade_lock`: while it is up, every segment is file data and nothing of WebServer.tla
runs. WebServer has the collector, the 10 ms timer, the buffers as "null", "empty" or "set",
and the scan pages. WebSettings refines its two buffers into fields: each of its actions is
WebServer's conjoined with what the setters (`wifi_station_set`, `wifi_softap_set`) read
from the body's pairs in order, what the timer callback stores, and what GET wifi reports.
**MCWeb.tla** is WebSettings with seven bodies to post.

**EsptouchTask.tla** – the three threads of a SmartConfig session, one action per step
between two accesses to shared fields. **SmartConfigCode.tla** – the settings from the
screen to the flash: `getAllPasswd` makes the text, `DatumCode` the datagram lengths,
`Receive` is the SDK's receiver (external; it knows a triple only by what is in it),
`LinkFlag`/`LinkPlain` are `smartconfig_done`. The exclusive or of `DatumCode` and `CRC8` is
written as arithmetic, bit by bit, so that it can be proved about. **MCPhone.tla** puts them in
sequence: the codes are made, then a session sends them.

**UartTx.tla** – the task that calls `tx_buff_enq`, `uart0_tx_buffer` and
`UART_CheckOutputFinished`, one action between two looks at what the handler shares; the
handler; the wire.

**DeviceTimer.tla** – time passes in seconds; the armed timer is `armed`, what it was given
is `frame`. `Clobber` is the reuse of the stack `frame` points into. A message that names timers
but holds no list (`TimersMsgNoList`) frees the old one and leaves its timer armed.

**Key.tla** – one key: its pin may move between any two steps of handler and timers.

**SpiOverlap.tla** – the registers, reduced to what the selections tell apart: which saved
set, edge, chip-select set-up, clock, pin. `Switched` follows `hspi_dev_sel` by where it comes from and where it goes.
**SpiMaster.tla** – the four transfers of the master with the phase bits each sets and inherits.
**SpiSlave.tla** – the slave's handler word by word against a master that obeys the ready
lines. **I2cMaster.tla** – every function as its sequence of `i2c_master_setDC` calls, and a
slave that watches the edges. **MCDrivers.tla** is the bench: no driver calls another, so
each is run while the others rest.

**EspPlatformProofs** (the bridge too), **UartProofs, TcpClientProofs, WebServerProofs** (with
WebSettings), **WebUploadProofs, EsptouchProofs** (session and coding), **DriverProofs** – the
theorems. **Counting.tla** – lemmas about counting and walking along a sequence, for
WebServerProofs and EsptouchProofs.

## The runs

| run | shows | size |
|---|---|---|
| `platform` | the station's invariants and progress under every interleaving of boot, power loss, WiFi loss, cloud, phone and web | 527,962 states |
| `uart` | nothing is lost or reordered, the ring implements the stream, the handler returns, everything is delivered | 26,288 states |
| `tcp` | the READY pin is honest, retries end in a connection or a restart | 143 states |
| `bridge` | the client beside the station implements its own module; a stalled client is revived while the station itself retries | 157,222 states |
| `bridge_stalls` (violation) | with the cloud connection up nobody retries for the client again | stops at the counterexample |
| `web` (MCWeb) | parsing resynchronises, the settings stored are those of one request, scan pages stay in step | 130,112 states |
| `web_upload` | an undisturbed upload is exact, erased ahead, and gives the server back | 24,821 states |
| `upload_success` (violation) | an aborted upload makes the next success a lie | stops at the counterexample |
| `phone` (MCPhone) | codes are self-describing, settings arrive; a session ends, blocks until enough answered, fails early only for a cancel and says so, reports what happened | 31,697 states |
| `smart_port` (MCPhone, violation) | a port below 4096 does not arrive | stops at the counterexample |
| `esptouch_wait` (violation) | the interrupt never reaches the sleeping thread | stops at the counterexample |
| `drivers` (MCDrivers) | ten properties of the seven drivers, each driver against every order of its calls and its hardware | 215,415 states |

**Bounds and why they are enough.**

* `platform`: three AP ids reach every case of the probe loop (next, wrap, the id the wrap
  test skips); three failures with a counter that wraps at 5 can pass the limit, which is
  what `FailuresChangeAp` excludes; one AP change before the restart and one loss of WiFi
  are enough to reach every callback from every state of the others, since neither is
  compared with anything else.
* `uart`: a ring of 4 behind a FIFO of 2 with threshold 2 wraps at every offset, refuses,
  overflows and raises each interrupt; 7 bytes go round almost twice. The theorems hold
  for every size.
* `tcp`: 8 of 120 retries; the theorems hold for every limit.
* `bridge`: two APs, one failure, one retry, one loss. The product is large; each limit is
  there to be reached once.
* `web`: two entries per page and up to three access points give a full page, a short last
  page and a page too many; a body is one unit, the collector only compares sums. The bodies
  name both sections in both orders, an unknown `authmode`, no section and no SSID; at most
  `MaxWaiting` = 2 of them are read within the 10 ms of one timer, which is what it takes to
  mix two requests. Settings and pages share nothing but the collector and a restart; MCWeb's
  `busy` explores each at full width with a single request of the other kind.
* `web_upload`: a file of up to 4 units in segments of up to 2 with 2 units erased at a
  time; `MaxUnits` 6 lets two uploads follow each other in one counter.
* `phone`: ports of 1, 3 and 4 hexadecimal digits, octets of one and two, no address, no
  port, passwords with dashes, empty, just fitting, of the greatest length and beginning with the flag
  of the settings, SSIDs at the limits of 2, 3 and 31. The session does not depend on what it sends and is explored on one
  setting, with two devices and one, two or "any number" expected, so that too few, enough
  and more than there are all happen.
* `drivers`: overlap: two dividers with and without the system clock, reads with a short last
  chunk and behind the end of the chip; master: three bytes, and SPI_USER found without a phase,
  with the data phase of a write and with every phase of a read; slave: 3 words, so a handler can be caught before,
  between and after them, and 3 packets; I2C: an address to write to and one to read from;
  transmit: a ring and a FIFO of 3, 4 bytes by each of the two ways; timers: none, one, two
  with a common moment, a fixed one among periodic ones, an action the plug does not know,
  an hour of 2 s in a week of 7; key: 2 and 5 ticks.

**Fairness and why the code gives it.** `platform`, `bridge`: pending timers fire, init runs
after a reset, the SDK reports the outcome of every join and of every connection attempt and
notices a connection whose station is gone. Nothing is assumed of cloud, phone, user or of
the AP being reachable. `uart`: pending interrupts are taken, the timer ticks, the hardware
raises its receive time-out, and some connection starts the pump. `tcp`: the timer fires,
attempts end, and the keep-alive `connect_cb` switches on notices a dead peer. `web_upload`:
the 120 s timer fires. `phone`: threads are scheduled and time passes; the user need not
cancel and no device need answer. `drivers` (transmit path only): the wire moves, the task
goes on, and an enabled interrupt is taken at the next instruction, so that a task which
keeps disabling it does not starve the handler (strong fairness).

`AllDelivered` and `HandlerReturns` are conditional on the ring having room (`Fits`), because
without flow control nothing else can be promised: with a ring that refuses the FIFO and the FIFO at its threshold the interrupt handler's loop
does not end.

`CHECK_DEADLOCK FALSE` stands where the system may really stop: a station with nothing to
join and nobody to configure it, a drained UART with no more bytes, a session that is over,
a configuration that has arrived.

**The web server exception.** `FailuresChangeAp` and `OnlineClosesSoftAp` are stated for
modes other than 3. In mode 3 `restart_10ms_cb` calls `check_ip(1)` right after it told the
station to connect; the station is still CONNECTING, so `check_ip` re-arms itself with the
argument NULL: the reset flag is dropped, the pending `ap_change` is replaced, and
`device_recon_count` can pass 5; from there it must wrap (251 more failures) before the AP
is changed again. No text of the repository promises otherwise, so the exception is written
into the properties rather than claimed as a divergence. For the same reason `RetryGoesOn`
assumes that the user does not send the station to other access points for ever.

**The initial states.** The module starts with no station record and either an erased
parameter sector (`Factory`) or one that holds work mode 3 already (`Provisioned`). The second
is there because `check_ip` serves mode 3 and `smartconfig_done` keeps it, but its `case 3`
does not assign `wifiwork_mode` and nothing else in this build does: only a parameter sector
written before this firmware can hold it. Starting from the factory alone, the web server
would be unreachable.

## The theorems

Checked by TLAPS for every value of the constants that satisfies the `ASSUME`s of the
modules. Most are sign, order and finiteness conditions: a positive capacity, a counter that
wraps above its limit, at least two AP ids, a finite set of devices, bodies and buffers of
their types. Five say more, and what the code says:

* SpiOverlap: the data registers hold whole words (`BufBytes % 4 = 0`; `SPI_BUFF_BYTE_NUM` is 32), which
  is what lets `hspi_overlap_flash_read` cut a read into chunks of aligned words.
* I2cMaster: `InitClocks` is a whole number of bytes with their acknowledges, and one, and
  more than two of them (28 in the code, written as `for (i = 0; i < 28; i++)`). With any
  other number a slave that was reading may be left in the middle of a byte.
* UartTx: threshold and limit lie within the FIFO (`TxThresh`, `TxLimit`).
* SmartConfigCode: an address is four numbers of a byte and a port one of 16 bits, or nothing;
  the spinner has four modes; an SSID has at most 32 characters and neither it nor the
  password has a character 0. Nothing is assumed of a password's length: `Send` and `Receive`
  have the limits of the code.
* DeviceTimer: a weekly time lies within a week, since it is compared with the second of the
  week the server sent.

**EspPlatformProofs** – `TypeOK`, `FailuresChangeAp`, `OnlineClosesSoftAp`, `ApRoundRobin`,
`ParamDurable`, `ConfiguredCanBoot`, `NoBeaconInHandshake`, `StatusHonest`. None of the
properties is inductive: whether a callback is harmless depends on what cannot be pending
when it fires. `IInv` says that: station ids are contiguous from 0 and the current one is stored
(`Stations`); whatever needs an AP has one (`HasStation`); the SDK's default opmode is left
before anything starts (`StationMode`); nothing runs beside smartconfig or right after a
reset (`SmartAlone`, `BootQuiet`); RAM and flash agree (`ParamsAgree`); and, the heart of
it, no poll and no AP change is pending on the shared timer while a connection exists
(`PollsWhenIdle`). There is one lemma per callback, one step per conjunct; `NextApIsNext`
shows that the probe loop of `ap_change`, whose wrap test skips the last id, still visits
stored ids in turn, because a contiguous set is always met on the first probe.

For the bridge: `ImplementsTcpClient` for every number of access points and both limits:
each step of the composition is a step of the station, so `IInv`
carries over (`StationStep`), and a step or a stutter of the client under the mapping
`conn <- tconn, route <- (wifi = "GOT_IP")`; the restart of either part is the restart
of both. `ReadyHonestInModule` then takes `ReadyHonest`, proved for the client alone, into
the composed module.

**UartProofs** – the receive half: `TypeOK`, `RingConsistent`, `InOrder` and the refinement
`ImplementsByteStream`. `InOrder` is about concatenations; the induction is done on `Order`,
the same fact position by position, with lemmas about the wrap-around (`WrapTwice`,
`WrapInjective`) and about the copy (`EnqStores`). That the ring never fills completely
(`space >= 1`, from the strict `<` of `Uart_rx_buff_enq`) is needed: `rx_buff_deq` takes
equal pointers for an empty ring.

The transmit half: `TxInOrder` and `FinishedHonest`. `TxInv` adds to the types how the ring's
pointers and its count of free places agree (`TxRingGood`), that what was queued is what is
on the wire, in the FIFO and in the ring, one after the other (`SentGood`), what a byte was
dropped for (`DropsExplained`) and what the task has already seen when it asks whether
everything is out (`FinishGood`): from its look at an empty FIFO on, until more is handed over,
the FIFO holds the last bytes the ring gave up and nothing else (`FifoQueued`; `WireAndFifo` makes
the statement about the wire of it). `CopiedStores` and `InsertTakesOldest` are the two copies,
into the ring and out of it, each around the wrap.

**TcpClientProofs** – `TypeOK` and `ReadyHonest`; with `BootQuiet` (after a restart nothing
is left of the connection) they are inductive.

**WebServerProofs** – `ParserResyncs` and `PagesInStep` for every page size and any number of
access points. The second needs that the page count fits the list while it is there
(`PagesCover`), so that every page that exists has an entry, and that nothing is counted when
a scan starts (`ScanFresh`).

`SettingsTaken` is proved for every set of bodies, of any length. `SettingsInv` says that the
buffers are empty when nothing waits and hold exactly what the body gives when one request
does. Each setter walks over the body pair by pair, which the model writes as a recursive
function; `Walk` shows that there is such a walk, `StationRead` and `SoftapRead` that it is
what the setters return, and the effect of one pair is a lemma of its own
(`StationPairEffect`, `SoftapPairEffect`). Along the walk the setter's flag says whether the
pair stands in its section (`FlagStands`), and a field that one pair only writes ends with
that pair's text (`WrittenOnce`, `FieldTaken`). That needs the body to give a name at most
once in a section: a second, shorter text leaves the tail of the first. `ReportRead` reads the
module's own report back through the same lemmas. `SettingsRefineServer` shows that the server
with its settings takes only steps of WebServer, so that `ParserResyncs` and `PagesInStep`
hold in it as well.

**WebUploadProofs** – `LockHasContext`, `ErasedAhead`, `CleanUploadExact` for every length of
file, segment and erase unit. The invariant adds how far an undisturbed upload is: its
counters agree with the position in the file and flash holds exactly what came (`Followed`).

**EsptouchProofs** – `ResultsAsPromised`, `EarlyFailureIsCancelled`, `BlocksUntilEnough` for any
finite set of devices. `Marks` and `Verdict` relate the flags the threads leave each other, before and
after each unsynchronised step, to what is in the list (`Shape`). `Early` is the argument about a session
that ends before its time: as long as the user has not cancelled, whoever interrupts it, and the
worker that goes on because of it, finds the verdict already there, and the verdict counts answers.

The coding: `CodesSelfDescribing` and `SettingsArrive` for every SSID and password and every
address and port of their types. The inductive invariant `CodeInv` says, for each stage, that
the codes are those of what was typed, and that what the module has heard is the text the phone
made. Four arguments carry it:

* Exclusive or and CRC are bytes (`XorIsByte`, `CrcIsByte`), so each half of a triple is between
  40 and 295, the header between 296 and 423, and all of them are below the guide codes;
  `TripleOfByte` takes byte, checksum and place out of the triple again.
* The receiver knows a triple only by its header. No two headers are equal while the index is at
  most `IndexMax` – the reason `DataCode` refuses more – so what it puts together is the datum
  (`DatumOverheard`), and the password is where the datum's second byte says.
* A number is read back from its digits (`HexOfByte`, `HexOfPort`), an octet because it has two,
  a port if it has four; from 256 to 4095 it has three, which is where `smart_port` finds the
  code wrong.
* `smartconfig_done` looks for the password behind a dash. `FrameOfText` says at which position
  each part of the text stands, and no hexadecimal digit is a dash (`HexIsNotDash`), so the dash
  found is the one before the password whatever dashes the password has (`SettingsRead`). From
  the third digit of the port on, where it starts to look, no earlier dash is left – also for a
  port of only two digits, whose closing dash is the third character.

**DriverProofs** – one inductive invariant for each driver of MCDrivers but the UART's.

* Overlap: `SelectionExact` and `FlashReadExact`. `OverlapInv` says which registers the saved
  sets and the live set hold for each selection (`BackupsGood`, `LinesGood`, `TunedGood`) and
  how far a read is, chunk by chunk (`ReadGood`).
* SPI master: `PhasesExact`. The command register is the last function's (`AsAsked`), the
  phases and the data are those of the functions that set them last (`Inherited`), what is read
  stays until the reader has it (`ReadKept`).
* SPI slave: `ExchangeExact` for every size of buffer and any number of packets. `Followed`
  says, for each place in the handler, which words are already of the new packet.
* I2C: `TransferExact`. `I2cInv` has, for each function of the driver, a predicate that says
  what the two lines, the master and the slave have done after every call of
  `i2c_master_setDC` in it (`Starting`, `Stopping`, `Writing`, `Checking`, `Reading`,
  `Acking`, `Initing`) and what both rest in between (`Rest`). `Freed` counts the clocks left
  until a slave caught in a byte lets go of the line; it is what the assumption on
  `InitClocks` is for.
* Timers: `TimersOnTime`. `TimersGood` and `ArmedGood` say that what is armed is the least of
  the waits and what it was computed from; `WaitExact` that a wait ends on its moment, modulo
  hour or week.
* Key: `KeyHonest`. `KeyWaits`, `KeyFell`, `KeyLevelKnown`, `KeyUpShort` and `KeyHeld` relate
  the edge the driver waits for, its timers and what the pin has done since.

Type correctness is proved for the station, the receive path and the client as theorems of
their own and is the first conjunct of every other inductive invariant.

**Only model-checked.** Liveness (`ServiceStarts`, `RetryGoesOn`, `HandlerReturns`,
`AllDelivered`, `RetriesUntilRestart`, `CloudRetryRevives`, `LockReleased`, `SessionEnds`,
`TxDrains`): fairness and ENABLED are out of the prover's reach. Every other property of the
passing runs is stated by a theorem. The theorems are about the components' own specifications
(and the bridge's, and WebSettings'); MCPhone and MCDrivers interleave components without
touching the variables of the one that rests, so each step of theirs is a step or a stutter of
every component.

## Where code and text disagree

Each has a violation run and a finding in `PROJECT.json`.

* `smart_port`: port 80 typed on the phone is stored as 20480. The phone pads numbers to
  two digits, `smartconfig_done` reads four. `SettingsArrive` therefore speaks of ports from
  4096 on only.
* `bridge_stalls`: change.txt V1.0.7 promises a restart after two minutes of connection
  retries; `espconn_connect` without an address fails at once, its result is ignored, and no
  timer is armed.
* `upload_success`: "local upgrade success" after an upload whose header was taken for data,
  because the statics of an aborted one were still there.
* `esptouch_wait`: `__interrupt` interrupts the thread that calls it, not the one that waits.

Observed without a run: the reboot after a finished cloud upgrade is armed on `client_timer`
and taken away by the next callback that arms it (`user_esp_platform.c` 706 against 956,
983); GET wifi frees what a POST wifi filled for its 10 ms timer (`user_webserver.c` 1277);
change.txt V1.0.8 item 3 ("restart after reconnecting to WiFi failed") counts AP changes
since boot, not failures; a cancel before the task exists does nothing, which the comment
above `mLock` (`HFSmartConfig.java`) means to prevent; the flag of the settings is part of the
text, so that a password which itself begins with `<@#&>` and is sent without settings is taken
apart as if it were settings (excluded from `SettingsArrive` by `LooksSet`); mode 3 chosen on the phone is not
stored; a POST wifi read into the buffers of one still waiting leaves the tail of a longer
text behind its own (the setters copy without the final 0), and a token shorter than the one
stored keeps its tail; the section flag of the setters is uninitialised for pairs before the
first section (a nondeterministic choice in WebSettings); an unknown `authmode` makes the
soft-AP open and drops the rest of the message; a fixed device timer that has fired is due
"in 0 seconds" and stops all others; a timer list longer than one segment is read from its
last segment only (`recv_cb` collects in `pbuffer` but hands `pusrdata` to
`user_platform_timer_start`); a token posted while the answer to an activation is on its way
counts as activated by that answer, because `user_esp_platform_set_token` draws no new nonce.

**Conditions written into the driver properties.** These are moments in which the code
cannot do better, or does not; each is a ghost variable, named in the comment of the property
that excludes it. `raced`: the SPI slave's handler forgets a transfer that ends between its
reading and its clearing of the flags; `hasty`: a master that looks at a ready line before
the handler has moved it. `caught`: the 28 clocks of `i2c_master_init` do not free a slave
that had a whole byte and had not acknowledged it. `dropped`:
`uart_tx_one_char` looks at the FIFO and then writes. `blind`: an edge in the moment in which
the key driver changes what it waits for. `lost`: the frame of `wait_param` has been reused.
`late` in SpiOverlap: a device initialised on the HSPI pins while an overlapped one is
selected hears flash transfers; re-initialising the selected device leaves its old settings in
force until it is selected again.

Two other weaknesses are not excluded but part of what the property says. `UART_CheckOutputFinished`
looks at the FIFO and then at the ring, and the handler may move bytes in between: after its TRUE
`FinishedHonest` finds every byte on the wire but the last ones of the ring, at most one FIFO of
them. The 9-bit write of the LCD sets no phase: `PhasesExact` has it repeat the data phase of the
function before it, after `spi_byte_write_espslave` that function's byte, and has a plain write
take over the address and dummy phases initialisation found until a function for the ESP8266 slave
clears them.

## Abstractions and what is not modelled

* Delays: a pending timer may fire at any moment. Safety properties therefore hold for every
  delay; a property that needs one timer to be faster than another is not stated.
* Message parsing, JSON and HTTP texts, reply formats. A message is its kind.
* The synchronized body of `__interrupt` is one step; so is a callback of the event loop.
* `user_conn.state`, which `check_ip` sets to NONE on a live connection too: only the beacon reads
  it, whose timer `check_ip` stops and only a later event of the connection arms again.
* A NULL dereference on the module is the exception reset it ends in; an uncaught exception
  in the Android application ends it (`listener = "crashed"`).
* Buffer overruns (a 32 byte SSID without terminator, a fragment of a cloud message beyond
  its buffer) are kept out by guards: `Fits` in SmartConfigCode.
* The SDK (`firmware/include`, `firmware/lib`) is external: its station machine, espconn,
  upgrade, smartconfig receiver and flash protection are modelled as `firmware/app` uses them.
* A cloud download and a web upload share the SDK's upgrade flag; the interplay is not
  modelled.
* Drivers: a register is the fields the properties tell apart, a bus is its edges; electrical
  timing (`i2c_master_wait`, set-up times) is left out. A list of more than 20 device timers
  overflows an array of the code and is kept out.
* Not modelled: UDP client and device find (no state beyond a socket), the JSON tree's
  formatting (`user_json.c`, but for the calls the settings take), the HSPI test functions of
  `spi.c`, line configuration of the UART, GPIO and LED, DNS, SSL and the switch of plug
  devices, the parsing of cloud messages and the HTTP texts, the application's screens, tools
  and images.

## Plan

Done, in this order: the station (EspPlatform and its proofs), the receive path (ByteStream,
UartRx and proofs), the TCP client and its composition with the station, the web server and
the upload, the phone's session, the coding of the settings; then the settings of the web
server, the transmit path, the device timers, the drivers, and proofs for the bridge's
refinement, the web server, the upload, the session, the drivers, the transmit path, the
settings of the web server and the coding of the settings.

Next, most important first:

1. The data path from the pump to the sockets: bytes taken off the ring while no connection
   is up; UDP client and device find with it.
2. The 2048 byte buffer of the cloud messages (`recv_cb`) and what its parser makes of
   fragments.
3. Proofs: the step lemmas a liveness argument would need (what a pending timer or a decreasing
   count cannot undo), since the temporal part itself stays with TLC.
