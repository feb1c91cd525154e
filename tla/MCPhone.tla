------------------------------- MODULE MCPhone -------------------------------
(***************************************************************************)
(* The phone: the settings typed on it become codes, and a session of      *)
(* three threads sends the codes and collects the answers.  Every setting  *)
(* is followed into the module's flash; the session does not depend on     *)
(* what it sends and is run on one of them, to a module without settings.  *)
(*                                                                         *)
(* The inputs: every branch of the text (no settings, an address without a *)
(* port, ports of one, three and four digits, octets of one and two),      *)
(* passwords with dashes or none at all, the longest one a phone accepts,  *)
(* one that just fits the module and one that looks like settings, SSIDs   *)
(* at their limits.                                                        *)
(***************************************************************************)
EXTENDS EsptouchTask, SmartConfigCode

MCModes == 0 .. 3
MCIps == {<<>>, <<192, 168, 1, 114>>, <<10, 0, 0, 15>>}
MCPorts == {<<>>, <<5>>, <<500>>, <<4096>>, <<65535>>}

\* A password of n characters: "abc-abc-...".
Password(n) == [i \in 1 .. n |-> IF i % 4 = 0 THEN 45 ELSE 96 + (i % 4)]

\* A password that begins as settings do, "<@#&>2345".
Flagged == Flag \o <<50, 51, 52, 53>>

MCPasswords == {Password(0), Password(8), Password(41), Password(63), Flagged}
MCShortSsid == <<97, 98>>
MCSsids == {MCShortSsid} \cup {[i \in 1 .. n |-> 96 + (i % 26)] : n \in {3, 31}}
MCBssid == <<24, 254, 52, 154, 163, 196>>
MCPhoneIp == <<192, 168, 1, 2>>
MCParams == {[mode |-> 255, ip |-> <<255, 255, 255, 255>>, port |-> 65535],
             [mode |-> 2, ip |-> <<10, 0, 0, 1>>, port |-> 7000]}

----------------------------------------------------------------------------
PhoneInit == Init /\ CodeInit

\* HFSetupActivity, startConfigBtn; the module at the other end.
Setup == CodeNext /\ UNCHANGED vars

\* doInBackground starts the session when the codes are made.
Shortest == [mode |-> 0, ip |-> <<>>, port |-> <<>>, pwd |-> <<>>, ssid |-> MCShortSsid]

Session(A) ==
  /\ stage \in {"sending", "received", "linked"} /\ typed = Shortest
  /\ param.mode = 255
  /\ A /\ UNCHANGED codeVars

PhoneNext == Setup \/ Session(Next)

PhoneSpec ==
  /\ PhoneInit /\ [][PhoneNext]_<<vars, codeVars>>
  /\ WF_<<vars, codeVars>>(Session(Running(Elapse)))
  /\ WF_<<vars, codeVars>>(Session(Running(CancelInterrupt)))
  /\ WF_<<vars, codeVars>>(Session(Running(Worker)))
  /\ WF_<<vars, codeVars>>(Session(Running(Listener)))
=============================================================================
