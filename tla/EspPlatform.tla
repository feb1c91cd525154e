----------------------------- MODULE EspPlatform -----------------------------
(***************************************************************************)
(* The station life cycle of the module: firmware/app/user/                *)
(* user_esp_platform.c.  One event loop runs every callback to completion, *)
(* so each callback (timer, connection, smartconfig, boot) is one action.  *)
(*                                                                         *)
(* The one os_timer client_timer is shared by eight unrelated callbacks:   *)
(* os_timer_disarm + os_timer_setfn + os_timer_arm replaces whatever was   *)
(* pending.  ctimer is the callback that is pending, or "off".             *)
(*                                                                         *)
(* Delays are abstracted: a pending timer may fire at any moment.          *)
(***************************************************************************)
EXTENDS Naturals, FiniteSets

CONSTANTS
  ApCacheNumber,   \* AP_CACHE_NUMBER: station records the SDK keeps
  MaxServerFails,  \* the 5 of recon_cb: server failures before the AP changes
  CountMod,        \* device_recon_count is a uint8: it wraps at CountMod
  MaxApChanges,    \* M_MAX_RECONN_COUNT: AP changes before the device restarts
  MaxWifiLoss,     \* bound: how often the access point drops the station
  UnaskedPing      \* may the cloud say "ping success" without a beacon frame?

ASSUME ConstantsOK ==
  /\ ApCacheNumber \in Nat \ {0, 1}
  /\ MaxServerFails \in Nat \ {0}
  /\ CountMod \in Nat /\ CountMod > MaxServerFails
  /\ MaxApChanges \in Nat
  /\ MaxWifiLoss \in Nat
  /\ UnaskedPing \in BOOLEAN

VARIABLES
  phase,     \* "boot": user_esp_platform_init has yet to run; "run": the event loop
  wifi,      \* wifi_station_get_connect_status
  ap,        \* wifi_station_get_current_ap_id
  saved,     \* the AP ids that hold a station_config
  opmode,    \* wifi_get_opmode, kept in flash by the SDK
  smart,     \* is smartconfig running?
  conn,      \* user_conn, the connection to the cloud
  ctimer,    \* the callback client_timer is armed with
  btimer,    \* is beacon_timer armed?
  recon,     \* device_recon_count
  apChanges, \* m_reconnect_count
  ping,      \* ping_status
  pinged,    \* has a beacon frame been sent on this connection?
  status,    \* device_status
  svc,       \* the service check_ip has started since boot
  upg,       \* is a cloud firmware download running?
  param,     \* esp_param in RAM
  flash,     \* the esp_param sector
  lost       \* access point losses so far, bounded by MaxWifiLoss

wifiVars  == <<wifi, ap, saved, lost>>
cloudVars == <<conn, btimer, ping, pinged, status>>
countVars == <<recon, apChanges>>
paramVars == <<param, flash>>
vars == <<phase, wifi, ap, saved, opmode, smart, conn, ctimer, btimer, recon,
          apChanges, ping, pinged, status, svc, upg, param, flash, lost>>

ApIds == 0 .. ApCacheNumber - 1

WifiFailed == {"WRONG_PASSWORD", "NO_AP_FOUND", "CONNECT_FAIL"}
WifiStatus == {"IDLE", "CONNECTING", "GOT_IP"} \cup WifiFailed

\* wifiwork_mode: 1 TCP client, 2 UDP, 3 web server; 0 is accepted by the
\* parser and starts nothing; Erased is the value of an erased sector.
Erased    == 255
WorkModes == 0 .. 3 \cup {Erased}

\* activeflag: 0 not activated, 1 activated, Erased never written.
ActiveFlags == {0, 1, Erased}

\* cfg stands for wificonfigflag = 1.
Params == [active : ActiveFlags, mode : WorkModes, cfg : BOOLEAN]

Callbacks == {"off", "check_ip0", "check_ip1", "reconnect", "ap_change",
              "upgrade_reboot", "reboot", "timer_get", "restart"}

DeviceStatus == {"none", "connecting", "active_done", "active_fail", "server_fail"}

\* Mutant of Save: the assignment to esp_param without the save.
SaveRamOnly(p) == param' = p /\ UNCHANGED flash

\* system_param_save_with_protect: both copies agree afterwards.
Save(p) == param' = p /\ flash' = p

----------------------------------------------------------------------------
(* A restart, whatever its cause: RAM is lost; flash, the station records,   *)
(* the current AP id and the opmode (which the SDK stores) stay.             *)
LoseRam ==
  /\ phase' = "boot"
  /\ wifi' = "IDLE"
  /\ smart' = FALSE
  /\ conn' = "idle" /\ pinged' = FALSE
  /\ ctimer' = "off" /\ btimer' = FALSE
  /\ recon' = 0 /\ apChanges' = 0
  /\ ping' = 0 /\ status' = "none"
  /\ svc' = "none" /\ upg' = FALSE
  /\ param' = flash
  /\ UNCHANGED <<opmode, flash, lost>>

Reboot == LoseRam /\ UNCHANGED <<ap, saved>>

PowerCycle == phase = "run" /\ Reboot

(* user_esp_platform_init, with the RESTORE pin read once (grounded: forget *)
(* the configuration).  An unconfigured module listens for smartconfig; a   *)
(* configured one joins its access point and polls for an address.          *)
\* Mutant of StartSmartconfig: wifi_set_opmode forgotten.
StartSmartconfigAnyMode(p) == ~p.cfg /\ smart' = TRUE /\ UNCHANGED <<opmode, wifi, ctimer>>

StartSmartconfig(p) ==
  /\ ~p.cfg
  /\ opmode' = "STATION"
  /\ smart' = TRUE
  /\ UNCHANGED <<wifi, ctimer>>

StartStation(p) ==
  /\ p.cfg
  /\ wifi' = IF saved = {} THEN "IDLE" ELSE "CONNECTING"
  /\ ctimer' = IF opmode = "SOFTAP" THEN "off" ELSE "check_ip1"
  /\ UNCHANGED <<opmode, smart>>

PlatformInit(restore) ==
  LET p == IF restore THEN [flash EXCEPT !.cfg = FALSE] ELSE flash
  IN  /\ phase = "boot"
      /\ phase' = "run"
      /\ param' = p
      /\ flash' = IF restore THEN p ELSE flash
      /\ StartSmartconfig(p) \/ StartStation(p)
      /\ UNCHANGED <<ap, saved, lost, cloudVars, countVars, svc, upg>>

----------------------------------------------------------------------------
\* Mutant of ResetMode: the timer stays disarmed.
ResetModeNoTimer ==
  /\ opmode' = IF opmode = "STATION" THEN "STATIONAP" ELSE opmode
  /\ ctimer' = "off"

(* user_esp_platform_reset_mode: open the soft-AP, change the AP in 5 s.    *)
ResetMode ==
  /\ opmode' = IF opmode = "STATION" THEN "STATIONAP" ELSE opmode
  /\ ctimer' = "ap_change"

\* The service of the work mode, started as soon as there is an address.
Service(mode) ==
  CASE mode = 1 -> "tcp" [] mode = 2 -> "udp" [] mode = 3 -> "web" [] OTHER -> svc

\* Mutant of StopBeacon: os_timer_disarm(&beacon_timer) forgotten.
LeaveBeacon == UNCHANGED btimer

StopBeacon == btimer' = FALSE

(* user_esp_platform_check_ip(reset_flag).  An address: (re)connect to the  *)
(* cloud, start the service.  espconn_connect on a live connection answers  *)
(* ESPCONN_ISCONN.  user_conn.state = ESPCONN_NONE (1133) is left out: only  *)
(* sent_beacon reads the state (579), its timer is stopped here, and what    *)
(* arms it again, recv_cb (896), is an event with which the SDK has set the  *)
(* state of the connection anew.                                             *)
CheckIpOnline(reset) ==
  /\ wifi = "GOT_IP"
  /\ ctimer' = "off"
  /\ StopBeacon
  /\ conn' = IF conn = "idle" THEN "connecting" ELSE conn
  /\ pinged' = IF conn = "idle" THEN FALSE ELSE pinged
  /\ status' = "connecting"
  /\ recon' = IF reset THEN 0 ELSE recon
  /\ svc' = Service(param.mode)
  /\ UNCHANGED <<opmode, ping, apChanges>>

CheckIpFailed ==
  /\ wifi \in WifiFailed
  /\ ResetMode
  /\ UNCHANGED <<cloudVars, countVars, svc>>

\* Mutant of CheckIpPending: polls once only.
CheckIpPendingOnce ==
  /\ wifi \in {"IDLE", "CONNECTING"}
  /\ ctimer' = "off"
  /\ UNCHANGED <<opmode, cloudVars, countVars, svc>>

\* No verdict yet: poll again in 100 ms, with the argument NULL (reset_flag 0).
CheckIpPending ==
  /\ wifi \in {"IDLE", "CONNECTING"}
  /\ ctimer' = "check_ip0"
  /\ UNCHANGED <<opmode, cloudVars, countVars, svc>>

CheckIp(reset) == CheckIpOnline(reset) \/ CheckIpFailed \/ CheckIpPending

CheckIpTimer ==
  /\ ctimer \in {"check_ip0", "check_ip1", "reconnect"}
  /\ CheckIp(ctimer = "check_ip1")
  /\ UNCHANGED <<phase, wifiVars, smart, paramVars, upg>>

----------------------------------------------------------------------------
(* user_esp_platform_ap_change: the probe loop tries the ids after the      *)
(* current one and wraps, skipping the last id except as a first choice.    *)
LeastOf(S) == CHOOSE i \in S : \A j \in S : i <= j

\* Mutant of NextAp: the last id is skipped as a first choice too.
NextApSkipLast(cur) ==
  LET ahead == {i \in saved : i > cur /\ i < ApCacheNumber - 1}
  IN  IF ahead # {} THEN LeastOf(ahead) ELSE LeastOf(saved)

NextAp(cur) ==
  LET start == IF cur = ApCacheNumber - 1 THEN 0 ELSE cur + 1
      ahead == {i \in saved : i >= start /\ (i = start \/ i < ApCacheNumber - 1)}
  IN  IF ahead # {} THEN LeastOf(ahead) ELSE LeastOf(saved)

ApChange ==
  /\ ctimer = "ap_change"
  /\ ap' = NextAp(ap)
  /\ \/ /\ apChanges < MaxApChanges
        /\ apChanges' = apChanges + 1
        /\ recon' = 0
        /\ ctimer' = "check_ip0"
        /\ wifi' = "CONNECTING"
        /\ UNCHANGED <<phase, saved, opmode, smart, cloudVars, svc, upg, paramVars, lost>>
     \/ /\ apChanges = MaxApChanges    \* m_reconnect_count > M_MAX_RECONN_COUNT
        /\ LoseRam /\ UNCHANGED saved

----------------------------------------------------------------------------
(* The callbacks of user_conn.  This build registers connectcb and reconcb  *)
(* only: a clean close of either side (RemoteClose, espconn_disconnect)     *)
(* calls nothing.                                                           *)

\* user_esp_platform_sent: the activation or identification frame.
Activated(p) == [p EXCEPT !.active = IF p.active = Erased THEN 0 ELSE p.active]

\* Mutant of CloseSoftAp: the soft-AP stays open.
KeepSoftAp == UNCHANGED opmode

CloseSoftAp == opmode' = IF opmode = "STATIONAP" THEN "STATION" ELSE opmode

ConnectCb ==
  /\ conn = "connecting" /\ wifi = "GOT_IP"
  /\ conn' = "up"
  /\ CloseSoftAp
  /\ recon' = 0
  /\ param' = Activated(param)
  /\ UNCHANGED <<phase, wifiVars, smart, ctimer, btimer, apChanges, ping, pinged,
                 status, svc, upg, flash>>

ReconCb ==
  LET fails == (recon + 1) % CountMod
  IN  /\ conn # "idle"
      /\ conn' = "idle"
      /\ StopBeacon
      /\ recon' = fails
      /\ \/ /\ fails = MaxServerFails
            /\ status' = "server_fail"
            /\ ResetMode
         \/ /\ fails # MaxServerFails
            /\ ctimer' = "reconnect"
            /\ UNCHANGED <<opmode, status>>
      /\ UNCHANGED <<phase, wifiVars, smart, apChanges, ping, pinged, svc, upg, paramVars>>

RemoteClose ==
  /\ conn = "up"
  /\ conn' = "idle"
  /\ UNCHANGED <<phase, wifiVars, opmode, smart, ctimer, btimer, countVars, ping,
                 pinged, status, svc, upg, paramVars>>

----------------------------------------------------------------------------
(* user_esp_platform_recv_cb: whatever arrives re-arms the beacon timer.    *)
Recv(msg) ==
  /\ conn = "up" /\ wifi = "GOT_IP"
  /\ btimer' = TRUE
  /\ UNCHANGED <<phase, wifiVars, opmode, smart, conn, countVars, svc, pinged>>

\* "activate_status": 1 with the nonce of the last activation frame.
RecvActivated ==
  /\ Recv("activated")
  /\ status' = "active_done"
  /\ Save([param EXCEPT !.active = 1])
  /\ UNCHANGED <<ctimer, ping, upg>>

RecvRefused ==
  /\ Recv("refused")
  /\ status' = "active_fail"
  /\ UNCHANGED <<ctimer, ping, upg, paramVars>>

\* "sys_upgrade": system_upgrade_start answers false while one is running.
RecvUpgrade ==
  /\ Recv("sys_upgrade")
  /\ upg' = TRUE
  /\ UNCHANGED <<ctimer, ping, status, paramVars>>

\* "sys_reboot" and "/v1/device/timers/" arm client_timer.
RecvCommand ==
  /\ Recv("command")
  /\ ctimer' \in {"reboot", "timer_get"}
  /\ UNCHANGED <<ping, status, upg, paramVars>>

RecvPing ==
  /\ Recv("ping success")
  /\ pinged \/ UnaskedPing
  /\ ping' = 1
  /\ UNCHANGED <<ctimer, status, upg, paramVars>>

\* A fragment of 1460 bytes, GET, POST, "timers", "device", anything else.
RecvOther ==
  /\ Recv("other")
  /\ UNCHANGED <<ctimer, ping, status, upg, paramVars>>

(* user_esp_platform_sent_beacon, fired by beacon_timer. *)
SentBeacon ==
  /\ btimer
  /\ LET beacon == conn = "up" /\ param.active # 0
     IN  /\ conn' = IF beacon /\ ping = 0 THEN "idle" ELSE conn
         /\ btimer' = (beacon /\ ping = 1)
         /\ pinged' = (pinged \/ (beacon /\ ping = 1))
         /\ ping' = IF beacon THEN 0 ELSE ping
  /\ UNCHANGED <<phase, wifiVars, opmode, smart, ctimer, countVars, status, svc,
                 upg, paramVars>>

(* user_esp_platform_upgrade_rsp: the download ended. *)
UpgradeRsp(ok) ==
  /\ upg
  /\ upg' = FALSE
  /\ ctimer' = IF ok THEN "upgrade_reboot" ELSE ctimer
  /\ UNCHANGED <<phase, wifiVars, opmode, smart, cloudVars, countVars, svc, paramVars>>

\* client_timer fires with one of the callbacks that touch nothing else here.
TimerGet ==
  /\ ctimer = "timer_get"
  /\ ctimer' = "off"
  /\ UNCHANGED <<phase, wifiVars, opmode, smart, cloudVars, countVars, svc, upg, paramVars>>

RestartTimer == ctimer \in {"restart", "reboot", "upgrade_reboot"} /\ Reboot

----------------------------------------------------------------------------
(* smartconfig_done.                                                        *)

\* wifi_station_set_config stores the record under an id in use or the next
\* free one and makes it current.
StoreStation ==
  \E i \in ApIds :
    /\ \A j \in ApIds : j < i => j \in saved
    /\ saved' = saved \cup {i}
    /\ ap' = i

\* wifi_station_disconnect and wifi_station_connect follow.
SetStation == StoreStation /\ wifi' = "CONNECTING" /\ UNCHANGED lost

\* SC_STATUS_LINK with the HFCONFIGFLAG prefix: modes 0-2 are stored, mode 3
\* (and any other) leaves esp_param.wifiwork_mode alone.  An SSID of at most
\* two characters is not joined.
SmartLinkFlag(mode, longSsid) ==
  /\ smart
  /\ Save([param EXCEPT !.mode = IF mode \in 0 .. 2 THEN mode ELSE param.mode])
  /\ \/ longSsid /\ SetStation
     \/ ~longSsid /\ UNCHANGED wifiVars
  /\ UNCHANGED <<phase, opmode, smart, ctimer, cloudVars, countVars, svc, upg>>

\* SC_STATUS_LINK without it: a module that already has a mode joins, another
\* one restarts.
SmartLinkPlain ==
  /\ smart
  /\ \/ /\ param.mode \in 1 .. 15
        /\ SetStation
        /\ Save(param)
        /\ UNCHANGED ctimer
     \/ /\ param.mode \notin 1 .. 15
        /\ ctimer' = "restart"
        /\ UNCHANGED <<wifiVars, paramVars>>
  /\ UNCHANGED <<phase, opmode, smart, cloudVars, countVars, svc, upg>>

\* SC_STATUS_LINK_OVER: the station has its address and told the phone.
SmartLinkOver ==
  /\ smart /\ wifi = "GOT_IP"
  /\ smart' = FALSE
  /\ Save([param EXCEPT !.cfg = TRUE])
  /\ ctimer' = "check_ip1"
  /\ UNCHANGED <<phase, wifiVars, opmode, cloudVars, countVars, svc, upg>>

----------------------------------------------------------------------------
(* What the web server (work mode 3) calls in this component.               *)

\* restart_10ms_cb with a station_config: join, then check_ip(1), which finds
\* the station connecting.
WebSetStation ==
  /\ svc = "web"
  /\ SetStation
  /\ ctimer' = "check_ip0"
  /\ UNCHANGED <<phase, opmode, smart, cloudVars, countVars, svc, upg, paramVars>>

\* restart_10ms_cb with a softap_config, or the "upgrade reset" request: the
\* module restarts, after the station_config that came with it is stored.
WebRestart ==
  /\ svc = "web"
  /\ LoseRam
  /\ StoreStation \/ UNCHANGED <<ap, saved>>

\* POST wifi: user_esp_platform_set_connect_status(DEVICE_CONNECTING), and
\* user_esp_platform_set_token if the request carries a token.
WebPost(token) ==
  /\ svc = "web"
  /\ status' = "connecting"
  /\ IF token THEN Save([param EXCEPT !.active = 0]) ELSE UNCHANGED paramVars
  /\ UNCHANGED <<phase, wifiVars, opmode, smart, ctimer, conn, btimer, ping, pinged,
                 countVars, svc, upg>>

----------------------------------------------------------------------------
(* The SDK's station state machine (external).                              *)
WifiOutcome ==
  /\ wifi = "CONNECTING"
  /\ wifi' \in {"GOT_IP"} \cup WifiFailed
  /\ UNCHANGED <<phase, ap, saved, lost, opmode, smart, ctimer, cloudVars, countVars,
                 svc, upg, paramVars>>

\* The SDK goes on trying the current AP after a failure.
WifiRecovered ==
  /\ wifi \in WifiFailed
  /\ wifi' = "GOT_IP"
  /\ UNCHANGED <<phase, ap, saved, lost, opmode, smart, ctimer, cloudVars, countVars,
                 svc, upg, paramVars>>

WifiLost ==
  /\ wifi = "GOT_IP"
  /\ lost < MaxWifiLoss
  /\ lost' = lost + 1
  /\ wifi' = "CONNECTING"
  /\ UNCHANGED <<phase, ap, saved, opmode, smart, ctimer, cloudVars, countVars,
                 svc, upg, paramVars>>

----------------------------------------------------------------------------
\* The factory state: an erased parameter sector, no station record, the SDK's
\* default opmode.
Factory == [active |-> Erased, mode |-> Erased, cfg |-> FALSE]

\* A module that comes with its work mode written: check_ip serves mode 3 and
\* smartconfig_done keeps it, but nothing in this build assigns it, so a web
\* server has it from a parameter sector that is older than the firmware.
Provisioned == [active |-> Erased, mode |-> 3, cfg |-> FALSE]

Init ==
  /\ phase = "boot" /\ wifi = "IDLE" /\ ap = 0 /\ saved = {} /\ opmode = "SOFTAP"
  /\ smart = FALSE /\ conn = "idle" /\ ctimer = "off" /\ btimer = FALSE
  /\ recon = 0 /\ apChanges = 0 /\ ping = 0 /\ pinged = FALSE /\ status = "none"
  /\ svc = "none" /\ upg = FALSE /\ lost = 0
  /\ flash \in {Factory, Provisioned} /\ param = flash

Boot == \E restore \in BOOLEAN : PlatformInit(restore)

Timers == CheckIpTimer \/ ApChange \/ TimerGet \/ RestartTimer

Cloud ==
  \/ ConnectCb \/ ReconCb \/ RemoteClose
  \/ RecvActivated \/ RecvRefused \/ RecvUpgrade \/ RecvCommand \/ RecvPing \/ RecvOther
  \/ SentBeacon
  \/ \E ok \in BOOLEAN : UpgradeRsp(ok)

Smartconfig ==
  \/ \E mode \in 0 .. 3, longSsid \in BOOLEAN : SmartLinkFlag(mode, longSsid)
  \/ SmartLinkPlain \/ SmartLinkOver

Web == WebSetStation \/ WebRestart \/ \E token \in BOOLEAN : WebPost(token)

Next ==
  \/ Boot \/ PowerCycle
  \/ Timers \/ Cloud \/ Smartconfig
  \/ Web
  \/ WifiOutcome \/ WifiRecovered \/ WifiLost

Spec == Init /\ [][Next]_vars

(* A pending timer fires, init runs after a reset, the SDK reports the       *)
(* outcome of every join and of every connection attempt, and notices a     *)
(* connection whose station is gone.  Nothing is assumed of the cloud, of    *)
(* the phone or of the user.                                                 *)
Fairness ==
  /\ WF_vars(Boot)
  /\ WF_vars(Timers)
  /\ WF_vars(SentBeacon)
  /\ WF_vars(WifiOutcome)
  /\ WF_vars(ReconCb /\ conn = "connecting")
  /\ WF_vars(ReconCb /\ wifi # "GOT_IP")

FairSpec == Spec /\ Fairness

----------------------------------------------------------------------------
TypeOK ==
  /\ phase \in {"boot", "run"}
  /\ wifi \in WifiStatus
  /\ ap \in ApIds
  /\ saved \in SUBSET ApIds
  /\ opmode \in {"STATION", "SOFTAP", "STATIONAP"}
  /\ smart \in BOOLEAN
  /\ conn \in {"idle", "connecting", "up"}
  /\ ctimer \in Callbacks
  /\ btimer \in BOOLEAN
  /\ recon \in 0 .. CountMod - 1
  /\ apChanges \in 0 .. MaxApChanges
  /\ ping \in {0, 1}
  /\ pinged \in BOOLEAN
  /\ status \in DeviceStatus
  /\ svc \in {"none", "tcp", "udp", "web"}
  /\ upg \in BOOLEAN
  /\ param \in Params
  /\ flash \in Params
  /\ lost \in 0 .. MaxWifiLoss

(* The fifth server failure always leads to another AP: device_recon_count   *)
(* never passes the limit recon_cb compares it with, and at the limit no     *)
(* attempt is under way and the AP change (or a reboot) is pending, although *)
(* one timer carries all of it.  The web server is excepted: it replaces the *)
(* AP change and drops check_ip's reset_flag, see the README.                *)
FailuresChangeAp ==
  svc # "web" =>
    /\ recon <= MaxServerFails
    /\ recon = MaxServerFails =>
         conn = "idle" /\ ctimer \in {"ap_change", "upgrade_reboot"}

(* reset_mode opens the soft-AP as a fallback and connect_cb closes it: the  *)
(* module never keeps it open while it serves its cloud connection.          *)
OnlineClosesSoftAp == conn = "up" /\ svc # "web" => opmode = "STATION"

(* The probe loop of ap_change ends only if some id holds a station record:  *)
(* whenever it can run, one does, and the loop then visits the stored APs in *)
(* turn, the last id included, although its wrap-around test skips that id.  *)
ApRoundRobin ==
  (phase = "run" /\ param.cfg) \/ ctimer = "ap_change" =>
    /\ ap \in saved
    /\ NextAp(ap) = (ap + 1) % Cardinality(saved)

(* A power cut never costs what the module acknowledged: RAM and flash agree *)
(* on the configuration and the work mode, and an activation the cloud was   *)
(* told of is in flash.                                                      *)
ParamDurable ==
  phase = "run" =>
    /\ param.cfg = flash.cfg
    /\ param.mode = flash.mode
    /\ param.active = 1 <=> flash.active = 1

(* A configured module can always join on its own after a restart: there is  *)
(* a station record to join and the stored opmode lets init start polling.   *)
ConfiguredCanBoot == flash.cfg => saved # {} /\ opmode # "SOFTAP"

(* A beacon timer left over from an earlier connection never fires into the  *)
(* handshake of the next one (it would disconnect it).                       *)
NoBeaconInHandshake == btimer => conn # "connecting"

(* What the status page shows of the cloud: a live connection is never       *)
(* reported as a server failure, and "active_done" means the activation is   *)
(* stored.                                                                   *)
StatusHonest ==
  /\ conn = "up" => status \notin {"none", "server_fail"}
  /\ status = "active_done" => flash.active = 1

(* A configured module starts the service of its work mode after every       *)
(* boot, whatever the access points do (or restarts and tries again).        *)
ServiceStarts ==
  (phase = "run" /\ param.cfg) ~>
    (phase = "boot" \/ svc # "none" \/ param.mode \notin 1 .. 3)

(* After a failed connection the module keeps trying until the cloud is      *)
(* being connected again or the restart of ap_change has happened, provided  *)
(* that nobody goes on sending it to other access points from the web page.  *)
RetryGoesOn ==
  <>[][~WebSetStation]_vars =>
    ((ctimer \in {"check_ip0", "reconnect", "ap_change"}) ~>
       (phase = "boot" \/ conn # "idle"))

=============================================================================
