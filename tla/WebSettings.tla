----------------------------- MODULE WebSettings -----------------------------
(***************************************************************************)
(* The settings of GET wifi and POST wifi: wifi_station_get, _set and      *)
(* wifi_softap_get, _set of user_webserver.c under json_ws_send and        *)
(* json_parse of user_json.c.                                              *)
(*                                                                         *)
(* WebServer.tla knows of the two buffers only whether an SSID is in them. *)
(* Here they have their fields, and so has the configuration of the SDK    *)
(* they end in; every action is WebServer's own with its effect on these.  *)
(*                                                                         *)
(* A body is the sequence of its pair names, each with its text (none for  *)
(* an object); a text is a sequence of pieces no longer than its field.    *)
(***************************************************************************)
EXTENDS WebServer, Integers, Sequences

CONSTANTS
  Bodies,     \* the bodies posted
  MaxWaiting, \* bound: bodies posted within the 10 ms of one timer
  FactoryAp,  \* the soft-AP a new module opens
  Pieces      \* what a text is made of

Names == {"Station", "Softap", "ssid", "password", "token", "authmode", "channel"}
Channels == 0 .. 13
Text == Seq(Pieces)

\* The texts of the authentication modes and of the channels.
AuthName ==
  [AUTH_OPEN |-> "OPEN", AUTH_WEP |-> "WEP", AUTH_WPA_PSK |-> "WPAPSK",
   AUTH_WPA2_PSK |-> "WPA2PSK", AUTH_WPA_WPA2_PSK |-> "WPAPSK/WPA2PSK"]
Decimal == <<"0", "1", "2", "3", "4", "5", "6", "7", "8", "9", "10", "11", "12", "13">>
SoftapAuth == {"AUTH_OPEN", "AUTH_WPA_PSK", "AUTH_WPA2_PSK", "AUTH_WPA_WPA2_PSK"}

StaConf == [ssid : Text, password : Text]
ApConf == [ssid : Text, password : Text, authmode : SoftapAuth, channel : Channels]
Pairs == [name : Names, text : Text]
Body == Seq(Pairs)

ASSUME WebSettingsOK == Bodies \subseteq Body /\ MaxWaiting \in Nat /\ FactoryAp \in ApConf
ASSUME PiecesOK == /\ \A m \in SoftapAuth : AuthName[m] \in Pieces
                   /\ \A n \in Channels : Decimal[n + 1] \in Pieces

VARIABLES
  staConf, apConf,   \* *sta_conf, *ap_conf
  stored,            \* what the SDK keeps in flash for both, and esp_param.token
  posted             \* ghost: the last body read into the buffers, and how many were

settingsVars == <<staConf, apConf, stored, posted>>

\* os_zalloc: what a NULL pointer is given before a body is read.
EmptySta == [ssid |-> <<>>, password |-> <<>>]
EmptyAp == [ssid |-> <<>>, password |-> <<>>, authmode |-> "AUTH_OPEN", channel |-> 0]
NoPost == [body |-> <<>>, count |-> 0]

SettingsInit ==
  /\ Init
  /\ staConf = EmptySta /\ apConf = EmptyAp
  /\ stored = [sta |-> EmptySta, ap |-> FactoryAp, token |-> <<>>]
  /\ posted = NoPost

----------------------------------------------------------------------------
(* Reading a body.  Both setters go over the whole of it, each with an eye   *)
(* on which section it is in.                                                *)

Pair(name, text) == [name |-> name, text |-> text]

\* os_memcpy of os_strlen(text) bytes: no final 0, the rest of the field stays.
Memcpy(field, text) == text \o SubSeq(field, Len(text) + 1, Len(field))

Sections == {"Station", "Softap"}

\* station_tree and softap_tree after a pair name.
InSection(section, on, pair) ==
  \/ pair.name = section
  \/ on /\ pair.name \notin Sections

\* jsontree_write_int and jsonparse_get_value_as_int: what is no number is 0.
Digits(n) == <<Decimal[n + 1]>>
IsNumber(text) == \E n \in Channels : text = Digits(n)
IntOf(text) == IF IsNumber(text) THEN CHOOSE n \in Channels : text = Digits(n) ELSE 0

IsAuth(text) == \E m \in SoftapAuth : text = <<AuthName[m]>>
AuthOf(text) == CHOOSE m \in SoftapAuth : text = <<AuthName[m]>>

\* Mutant of StationPair: the section of the soft-AP does not end the station's.
StationPairAnywhere(st, pair) ==
  LET on == st.on \/ pair.name = "Station"
  IN  IF ~on THEN [st EXCEPT !.on = on]
      ELSE CASE pair.name \in {"ssid", "password"} ->
                  [st EXCEPT !.on = on, !.conf[pair.name] = Memcpy(@, pair.text)]
             [] pair.name = "token" -> [st EXCEPT !.on = on, !.token = Memcpy(@, pair.text)]
             [] OTHER -> [st EXCEPT !.on = on]

\* A pair of wifi_station_set; the token goes to flash at once.
StationPair(st, pair) ==
  LET on == InSection("Station", st.on, pair)
  IN  IF ~on THEN [st EXCEPT !.on = on]
      ELSE CASE pair.name \in {"ssid", "password"} ->
                  [st EXCEPT !.on = on, !.conf[pair.name] = Memcpy(@, pair.text)]
             [] pair.name = "token" -> [st EXCEPT !.on = on, !.token = Memcpy(@, pair.text)]
             [] OTHER -> [st EXCEPT !.on = on]

\* A pair of wifi_softap_set.  An authmode it does not know ends the reading.
SoftapPair(st, pair) ==
  LET on == InSection("Softap", st.on, pair)
  IN  IF st.done THEN st
      ELSE IF ~on THEN [st EXCEPT !.on = on]
      ELSE CASE pair.name = "authmode" /\ ~IsAuth(pair.text) ->
                  [st EXCEPT !.done = TRUE, !.conf.authmode = "AUTH_OPEN"]
             [] pair.name = "authmode" /\ IsAuth(pair.text) ->
                  [st EXCEPT !.on = on, !.conf.authmode = AuthOf(pair.text)]
             [] pair.name = "channel" -> [st EXCEPT !.on = on, !.conf.channel = IntOf(pair.text)]
             [] pair.name \in {"ssid", "password"} ->
                  [st EXCEPT !.on = on, !.conf[pair.name] = Memcpy(@, pair.text)]
             [] OTHER -> [st EXCEPT !.on = on]

\* json_parse calls each setter once, with the flag as the stack left it.
SetStation(body, flag) ==
  LET read[i \in 0 .. Len(body)] ==
        IF i = 0 THEN [on |-> flag, conf |-> staConf, token |-> stored.token]
        ELSE StationPair(read[i - 1], body[i])
  IN  read[Len(body)]

SetSoftap(body, flag) ==
  LET read[i \in 0 .. Len(body)] ==
        IF i = 0 THEN [on |-> flag, done |-> FALSE, conf |-> apConf]
        ELSE SoftapPair(read[i - 1], body[i])
  IN  read[Len(body)].conf

\* The answer to GET wifi as a body: json_ws_send with the two getters.
Report(config) ==
  <<Pair("Station", <<>>), Pair("ssid", config.sta.ssid),
    Pair("password", config.sta.password),
    Pair("Softap", <<>>), Pair("authmode", <<AuthName[config.ap.authmode]>>),
    Pair("channel", Digits(config.ap.channel)), Pair("ssid", config.ap.ssid),
    Pair("password", config.ap.password)>>

----------------------------------------------------------------------------
Freed == staConf' = EmptySta /\ apConf' = EmptyAp /\ posted' = NoPost

GetSettings == GetWifi /\ Freed /\ UNCHANGED stored

PostSettings(body, stationFlag, softapFlag) ==
  LET s == SetStation(body, stationFlag)
      a == SetSoftap(body, softapFlag)
  IN  /\ posted.count < MaxWaiting
      /\ PostWifi(s.conf.ssid # <<>>, a.ssid # <<>>)
      /\ stored' = [stored EXCEPT !.token = s.token]
      /\ IF s.conf.ssid # <<>> \/ a.ssid # <<>>
         THEN /\ staConf' = s.conf /\ apConf' = a
              /\ posted' = [body |-> body, count |-> posted.count + 1]
         ELSE Freed

\* What restart_10ms_cb hands to the SDK: each part that has an SSID.
Applied ==
  [stored EXCEPT !.sta = IF staConf.ssid # <<>> THEN staConf ELSE @,
                 !.ap = IF apConf.ssid # <<>> THEN apConf ELSE @]

\* Without the buffers the callback meets NULL before it has applied anything.
ApplySettings ==
  /\ Restart10ms
  /\ IF rst = "wifi"
     THEN Freed /\ stored' = IF sta = "null" THEN stored ELSE Applied
     ELSE UNCHANGED settingsVars

\* A restart, also the one the scan callback ends in, loses the buffers.
SettingsRestart == Restart /\ Freed /\ UNCHANGED stored
SettingsScanCb(n) ==
  /\ ScanCb(n)
  /\ UNCHANGED stored
  /\ IF info.alloc THEN UNCHANGED <<staConf, apConf, posted>> ELSE Freed

SettingsRequests ==
  \/ GetSettings
  \/ \E body \in Bodies \cup {Report(stored)}, f, g \in BOOLEAN : PostSettings(body, f, g)
  \/ /\ \/ SplitHead \/ Fragment \/ OtherRequest \/ PostReboot
        \/ GetScan \/ (\E page \in 1 .. MaxAps : GetPage(page)) \/ GetFinish
     /\ UNCHANGED settingsVars

SettingsNext ==
  \/ SettingsRequests \/ ApplySettings \/ SettingsRestart
  \/ \E n \in 0 .. MaxAps : SettingsScanCb(n)

SettingsSpec == SettingsInit /\ [][SettingsNext]_<<vars, settingsVars>>

----------------------------------------------------------------------------
\* Pair i stands in that section, and has that name in it.
Stands(body, section, i) ==
  \E j \in 1 .. i : /\ body[j].name = section
                    /\ \A k \in j + 1 .. i : body[k].name \notin Sections

At(body, section, name, i) == body[i].name = name /\ Stands(body, section, i)

\* A body whose every setting stands in a section, once, with an authmode and a channel
\* the module knows.
Sectioned(body) ==
  /\ body # <<>> /\ body[1].name \in Sections
  /\ \A i \in DOMAIN body : /\ body[i].name = "authmode" => IsAuth(body[i].text)
                            /\ body[i].name = "channel" => IsNumber(body[i].text)
  /\ \A section \in Sections, name \in {"ssid", "password", "authmode", "channel"} :
       \A i, j \in DOMAIN body : At(body, section, name, i) /\ At(body, section, name, j) => i = j

\* The text a body gives for a name in a section.
Given(body, section, name) ==
  IF \E i \in DOMAIN body : At(body, section, name, i)
  THEN body[CHOOSE i \in DOMAIN body : At(body, section, name, i)].text
  ELSE <<>>

ReadExactly(body) ==
  /\ \A name \in {"ssid", "password"} :
       /\ staConf[name] = Given(body, "Station", name)
       /\ apConf[name] = Given(body, "Softap", name)
  /\ LET mode == Given(body, "Softap", "authmode")
         channel == Given(body, "Softap", "channel")
     IN  /\ apConf.authmode = IF mode = <<>> THEN "AUTH_OPEN"
                              ELSE AuthOf(mode)
         /\ apConf.channel = IF channel = <<>> THEN 0 ELSE IntOf(channel)

(* What waits for the 10 ms timer is what one request asked for, section by   *)
(* section, whatever was posted, applied, freed or lost before it; and to     *)
(* post what the module reports of itself changes nothing.  (Not if a second  *)
(* request is read into the buffers of one still waiting, or a body gives a   *)
(* name twice: a longer text of the first shows behind the second's.)         *)
SettingsTaken ==
  posted.count = 1 /\ Sectioned(posted.body) =>
    /\ ReadExactly(posted.body)
    /\ posted.body = Report(stored) => Applied = stored
=============================================================================
