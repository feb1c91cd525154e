---------------------------- MODULE SmartConfigCode ----------------------------
(***************************************************************************)
(* The way of a setting from the phone's screen into the module's flash.   *)
(*                                                                         *)
(* The Android application folds the work mode, the server's address and   *)
(* port and the WiFi password into one text (HFSmartConfig,                *)
(* ApplicationUtil) and sends it as the lengths of UDP datagrams           *)
(* (DatumCode, DataCode); the SDK of the module recovers the text from the *)
(* lengths it overhears (external) and smartconfig_done takes it apart.    *)
(*                                                                         *)
(* A character is its ASCII code, a text a sequence of them, a datagram    *)
(* its length.  An address is the sequence of the numbers typed between    *)
(* its dots, a port a sequence of at most one number.                      *)
(***************************************************************************)
EXTENDS Integers, Sequences, FiniteSets

CONSTANTS
  Modes,      \* positions of the mode spinner
  Ips, Ports, \* what the user types as the server's address and port
  Passwords,  \* what the user types as the password
  Ssids,      \* the network the phone is in
  Bssid, PhoneIp, \* its access point, and the phone's own address
  Params      \* what is in the module's flash before

Byte == 0 .. 255
Char == 1 .. 255
Port == 0 .. 65535

ASSUME SmartConfigOK ==
  /\ Modes \subseteq 0 .. 3
  /\ Ips \subseteq {<<>>} \cup [1 .. 4 -> Byte] /\ Ports \subseteq {<<>>} \cup [1 .. 1 -> Port]
  /\ Passwords \subseteq Seq(Char)
  /\ Ssids \subseteq Seq(Char) /\ \A ssid \in Ssids : Len(ssid) <= 32
  /\ Bssid \in Seq(Byte) /\ PhoneIp \in [1 .. 4 -> Byte]

VARIABLES
  stage,  \* "idle", "typed", "sending", "received" or "linked"
  typed,  \* the settings on the phone
  codes,  \* the lengths of the datagrams, three for each byte
  conf,   \* the station_config the SDK gives to smartconfig_done
  param,  \* the fields of esp_param that smartconfig_done sets
  joined  \* the station_config given to wifi_station_set_config, or "none"

codeVars == <<stage, typed, codes, conf, param, joined>>

----------------------------------------------------------------------------
(* The text.                                                                *)
Dash == 45
Flag == <<60, 64, 35, 38, 62>>    \* "<@#&>", HFCONFIGFLAG on both sides

\* Integer.toHexString and toUpperCase, of two digits at least.
Digit(d) == IF d < 10 THEN 48 + d ELSE 55 + d
Width(n) == IF n < 256 THEN 2 ELSE IF n < 4096 THEN 3 ELSE 4
Place == <<1, 16, 256, 4096>>

intStrToHexStr(n) ==
  [i \in 1 .. Width(n) |-> Digit((n \div Place[Width(n) - i + 1]) % 16)]

IpStrToHexStr(parts) ==
  LET part(i) == IF i \in DOMAIN parts THEN intStrToHexStr(parts[i]) ELSE <<>>
  IN  part(1) \o part(2) \o part(3) \o part(4)

isConfigInfosNil(t) ==
  t.mode = 0 \/ (t.mode # 3 /\ (t.ip = <<>> \/ t.port = <<>>))

theHexSendStr(t) ==
  Flag \o <<Dash, Digit(t.mode), Dash>> \o IpStrToHexStr(t.ip)
       \o <<Dash>> \o IpStrToHexStr(t.port)

getAllPasswd(t) ==
  IF isConfigInfosNil(t) THEN t.pwd ELSE theHexSendStr(t) \o <<Dash>> \o t.pwd

----------------------------------------------------------------------------
(* The codes.                                                               *)

\* A bit of the exclusive or of many bytes is set if an odd number of them has it.
TotalXor(bytes) ==
  LET odd(place) == Cardinality({i \in DOMAIN bytes : (bytes[i] \div place) % 2 = 1}) % 2
  IN  odd(1) + 2 * odd(2) + 4 * odd(4) + 8 * odd(8)
        + 16 * odd(16) + 32 * odd(32) + 64 * odd(64) + 128 * odd(128)

\* CRC8, polynomial 0x8C: a byte of the table, and the sum of a sequence.
CrcShift(r) == IF r % 2 = 1 THEN TotalXor(<<r \div 2, 140>>) ELSE r \div 2

CrcTable ==
  LET two(r) == CrcShift(CrcShift(r))
      four(r) == two(two(r))
  IN  [dividend \in Byte |-> four(four(dividend))]

Crc8(bytes) ==
  LET value[i \in 0 .. Len(bytes)] ==
        IF i = 0 THEN 0 ELSE CrcTable[TotalXor(<<value[i - 1], bytes[i]>>)]
  IN  value[Len(bytes)]

\* The bytes of a datum.  totalLen and the xor count the SSID, which is sent
\* only when it is hidden; this application always says it is not.
DatumBytes(ssid, pwd) ==
  LET totalLen == 5 + Len(PhoneIp) + Len(pwd) + Len(ssid)
      head == <<totalLen, Len(pwd), Crc8(ssid), Crc8(Bssid)>>
  IN  head \o <<TotalXor(head \o PhoneIp \o pwd \o ssid)>> \o PhoneIp \o pwd

\* splitUint8To2bytes.
High(u8) == u8 \div 16
Low(u8)  == u8 % 16

IndexMax == 127   \* DataCode refuses a larger index
ExtraLen == 40    \* added to every datum code

GuideCodes == {512, 513, 514, 515}

\* Mutant of DataCode: the index is not part of the checksum.
DataCodeCrcOfByte(u8, index) ==
  LET crc == Crc8(<<u8>>)
  IN  << ExtraLen + 16 * High(crc) + High(u8),
         ExtraLen + 256 + index,
         ExtraLen + 16 * Low(crc) + Low(u8) >>

\* One byte: the high halves, the sequence header, the low halves.
DataCode(u8, index) ==
  LET crc == Crc8(<<u8, index>>)
  IN  << ExtraLen + 16 * High(crc) + High(u8),
         ExtraLen + 256 + index,
         ExtraLen + 16 * Low(crc) + Low(u8) >>

DatumCode(ssid, pwd) ==
  LET bytes == DatumBytes(ssid, pwd)
  IN  [i \in DOMAIN bytes |-> DataCode(bytes[i], i - 1)]

----------------------------------------------------------------------------
(* The receiver in the SDK (external): it knows a triple by the sequence    *)
(* header in its middle, in whatever order the loop of the sender is heard, *)
(* and the password by its length, the second byte.                         *)
SeqHeader(triple) == triple[2] - ExtraLen - 256
DataByte(triple)  == 16 * Low(triple[1] - ExtraLen) + Low(triple[3] - ExtraLen)
DataCrc(triple)   == 16 * High(triple[1] - ExtraLen) + High(triple[3] - ExtraLen)

Overheard(triples) ==
  [i \in 1 .. Len(triples) |->
    DataByte(CHOOSE t \in {triples[j] : j \in DOMAIN triples} : SeqHeader(t) = i - 1)]

PasswordIn(bytes) == SubSeq(bytes, 10, 9 + bytes[2])

\* Both fields of station_config hold their text and its final 0.
Fits(ssid, pwd) == Len(ssid) < 32 /\ Len(pwd) < 64

----------------------------------------------------------------------------
(* smartconfig_done.  Beyond the end of the text are zeros.                 *)
CharAt(text, i) == IF i \in DOMAIN text THEN text[i] ELSE 0

HasFlag(text) == \A i \in DOMAIN Flag : CharAt(text, i) = Flag[i]

\* m_str_to_ch: any other character is 0.
m_str_to_ch(ch) ==
  CASE ch \in 48 .. 57  -> ch - 48
    [] ch \in 97 .. 102 -> ch - 87
    [] ch \in 65 .. 70  -> ch - 55
    [] OTHER            -> 0

m_str_to_hex(text, i) ==
  16 * m_str_to_ch(CharAt(text, i)) + m_str_to_ch(CharAt(text, i + 1))

\* What follows the next dash from position i on; nothing if there is none.
AfterDash(text, i) ==
  LET dashes == {j \in DOMAIN text : j >= i /\ text[j] = Dash}
  IN  IF dashes = {} THEN Len(text) + 1
      ELSE 1 + CHOOSE j \in dashes : \A k \in dashes : j <= k

From(text, i) == SubSeq(text, i, Len(text))

LinkMode(text) == m_str_to_ch(CharAt(text, 7))

LinkIp(text) == [k \in 1 .. 4 |-> m_str_to_hex(text, 9 + 2 * (k - 1))]

\* Mutant of LinkPort: the dash before the port is not skipped.
LinkPortAtDash(text) == 256 * m_str_to_hex(text, 17) + m_str_to_hex(text, 19)

\* Four digits are read, however many there are.
LinkPort(text) == 256 * m_str_to_hex(text, 18) + m_str_to_hex(text, 20)

\* Behind the port, which is looked for from its third digit on; in mode 3
\* behind the second dash after the mode.
LinkPassword(text) ==
  CASE LinkMode(text) \in 0 .. 2 -> From(text, AfterDash(text, 20))
    [] LinkMode(text) = 3        -> From(text, AfterDash(text, AfterDash(text, 9)))
    [] OTHER                     -> <<>>

----------------------------------------------------------------------------
NoConf == [ssid |-> <<>>, pwd |-> <<>>]

CodeInit ==
  /\ stage = "idle"
  /\ typed = [mode |-> 0, ip |-> <<>>, port |-> <<>>, pwd |-> <<>>, ssid |-> <<>>]
  /\ codes = <<>> /\ conf = NoConf /\ joined = NoConf
  /\ param \in Params

\* The user sets up the module; HFSetupActivity starts with nothing set.
Type ==
  /\ stage = "idle"
  /\ stage' = "typed"
  /\ \E mode \in Modes, ip \in Ips, port \in Ports, pwd \in Passwords, ssid \in Ssids :
       typed' = [mode |-> mode, ip |-> ip, port |-> port, pwd |-> pwd, ssid |-> ssid]
  /\ UNCHANGED <<codes, conf, param, joined>>

\* EsptouchGenerator.
Codes(t) == DatumCode(t.ssid, getAllPasswd(t))

\* startConfigBtn, up to the codes of the session (a text that needs a larger
\* index ends the application).
Send ==
  /\ stage = "typed"
  /\ Len(DatumBytes(typed.ssid, getAllPasswd(typed))) - 1 <= IndexMax
  /\ codes' = Codes(typed)
  /\ stage' = "sending"
  /\ UNCHANGED <<typed, conf, param, joined>>

\* The SDK has heard every code.  What smartconfig_done would read from a text
\* without a final 0 is not defined, so none is handed over.
Receive ==
  /\ stage = "sending"
  /\ LET pwd == PasswordIn(Overheard(codes))
     IN  /\ Fits(typed.ssid, pwd)
         /\ conf' = [ssid |-> typed.ssid, pwd |-> pwd]
  /\ stage' = "received"
  /\ UNCHANGED <<typed, codes, param, joined>>

\* SC_STATUS_LINK with the flag.  An SSID of at most two characters is not joined.
LinkFlag ==
  /\ stage = "received" /\ HasFlag(conf.pwd)
  /\ stage' = "linked"
  /\ param' = IF LinkMode(conf.pwd) \in 0 .. 2
              THEN [mode |-> LinkMode(conf.pwd), ip |-> LinkIp(conf.pwd),
                    port |-> LinkPort(conf.pwd)]
              ELSE param
  /\ joined' = IF Len(conf.ssid) > 2
               THEN [ssid |-> conf.ssid, pwd |-> LinkPassword(conf.pwd)]
               ELSE joined
  /\ UNCHANGED <<typed, codes, conf>>

\* SC_STATUS_LINK without it: a module that has a work mode joins, another one
\* restarts.
LinkPlain ==
  /\ stage = "received" /\ ~HasFlag(conf.pwd)
  /\ stage' = "linked"
  /\ joined' = IF param.mode \in 1 .. 15 THEN conf ELSE joined
  /\ UNCHANGED <<typed, codes, conf, param>>

CodeNext == Type \/ Send \/ Receive \/ LinkFlag \/ LinkPlain

CodeSpec == CodeInit /\ [][CodeNext]_codeVars

----------------------------------------------------------------------------
(* Every triple can be understood on its own, whichever part of the loop the *)
(* module hears first and in whatever order: no length is a guide code, the  *)
(* header cannot be taken for data, no two bytes share one, and the checksum *)
(* covers the byte and its place.                                            *)
CodesSelfDescribing ==
  \A i \in DOMAIN codes :
    LET t == codes[i]
    IN  /\ {t[1], t[2], t[3]} \cap GuideCodes = {}
        /\ t[1] < ExtraLen + 256 /\ t[3] < ExtraLen + 256 /\ t[2] >= ExtraLen + 256
        /\ \A j \in DOMAIN codes : SeqHeader(codes[j]) = SeqHeader(t) => i = j
        /\ DataCrc(t) = Crc8(<<DataByte(t), SeqHeader(t)>>)

\* README 1.0.2, "the password bug": the network joined is the one typed.
NetworkArrives == joined # NoConf => joined = [ssid |-> typed.ssid, pwd |-> typed.pwd]

\* A password that looks like settings, sent without any.
LooksSet == isConfigInfosNil(typed) /\ HasFlag(typed.pwd)

(* smartconfig_done: the network is joined with the password as it was typed, *)
(* with settings before it or without, with dashes in it, and whatever the    *)
(* settings are; work mode and address arrive digit by digit, and a port that *)
(* has four hexadecimal digits.  (Not a password that begins with the flag of *)
(* the settings, sent without settings.)                                      *)
SettingsArrive ==
  /\ ~LooksSet => NetworkArrives
  /\ stage = "linked" /\ typed.mode \in 1 .. 2 /\ ~isConfigInfosNil(typed) =>
       /\ param.mode = typed.mode
       /\ param.ip = typed.ip
       /\ typed.port[1] >= 4096 => param.port = typed.port[1]

(* smartconfig_done, "IP address and port": the port the module connects to  *)
(* is the port that was typed.                                               *)
PortArrives ==
  stage = "linked" /\ typed.mode \in 1 .. 2 /\ ~isConfigInfosNil(typed) =>
    param.port = typed.port[1]
=============================================================================
