------------------------------ MODULE WebServer ------------------------------
(***************************************************************************)
(* The requests of the web server (work mode 3): webserver_recv and the    *)
(* callbacks of firmware/app/user/user_webserver.c.                        *)
(*                                                                         *)
(* webserver_recv is called once per TCP segment, of any client, and keeps *)
(* everything it knows between two calls in statics.  Three conversations  *)
(* share it: the collection of a request (check_data, save_data), the      *)
(* network configuration with its 10 ms timer, and the scan pages.  The    *)
(* fourth, the firmware upload, is WebUpload.tla: while it holds           *)
(* upgrade_lock no segment gets here.                                      *)
(*                                                                         *)
(* A body is one unit long.                                                *)
(***************************************************************************)
EXTENDS Naturals

CONSTANTS
  PageSize,   \* 8: access points on a page of the scan result
  MaxAps      \* bound: access points a scan finds

ASSUME WebOK == PageSize \in Nat \ {0} /\ MaxAps \in Nat

VARIABLES
  counted, expected,     \* save_data: totallength, dat_sumlength
  sta, ap,               \* sta_conf, ap_conf: "null", "empty" or "set"
  rst, timer,            \* rstparm->parmtype, restart_10ms
  info, scanning,        \* pscaninfo with whether it is allocated; is a scan under way?
  list, bss,             \* bss_head as a length, bss as the entries walked
  mixed                  \* history: was a page of the last scan sent during this one?

parseVars  == <<counted, expected>>
confVars   == <<sta, ap, rst, timer>>
scanVars   == <<info, scanning, list, bss, mixed>>
vars == <<parseVars, confVars, scanVars>>

NoInfo == [alloc |-> FALSE, pages |-> 0, sn |-> 0, cnt |-> 0]

Init ==
  /\ counted = 0 /\ expected = 0
  /\ sta = "null" /\ ap = "null" /\ rst = "null" /\ timer = "off"
  /\ info = NoInfo /\ scanning = FALSE /\ list = 0 /\ bss = 0 /\ mixed = FALSE

\* system_restart, or the reset an exception (a NULL dereference) ends in.
Restart ==
  /\ counted' = 0 /\ expected' = 0
  /\ sta' = "null" /\ ap' = "null" /\ rst' = "null" /\ timer' = "off"
  /\ info' = NoInfo /\ scanning' = FALSE /\ list' = 0 /\ bss' = 0 /\ mixed' = FALSE

----------------------------------------------------------------------------
(* check_data and save_data.  A segment with a header is dropped when its    *)
(* Content-Length is not what came with it, which sets dat_sumlength all     *)
(* the same; save_data then has nothing left to collect.                     *)

\* Mutant of Save: the counters are not reset for a GET that carries a body.
SaveNoReset(cl, body) ==
  LET got  == counted + body
      want == IF cl = {} THEN expected ELSE CHOOSE n \in cl : TRUE
  IN  IF got = want THEN counted' = 0 /\ expected' = 0
                    ELSE counted' = got /\ expected' = want

\* cl is the set of Content-Length values in the header: none or one.
Save(cl, body) ==
  LET got  == counted + body
      want == IF cl = {} THEN expected ELSE CHOOSE n \in cl : TRUE
  IN  IF got = want \/ (cl = {} /\ got # 0)
      THEN counted' = 0 /\ expected' = 0
      ELSE counted' = got /\ expected' = want

\* A header whose body is still to come: dropped.
SplitHead ==
  /\ expected' = 1
  /\ UNCHANGED <<counted, confVars, scanVars>>

\* A segment without a header.
Fragment ==
  /\ counted' = 0 /\ expected' = 0
  /\ UNCHANGED <<confVars, scanVars>>

\* A complete GET or POST.
Get  == \E body \in {0, 1} : Save({}, body)
Post == \E body \in {0, 1} : Save({body}, body)

\* info, status, switch, reboot, getuser, anything unknown: a reply.
OtherRequest == (Get \/ Post) /\ UNCHANGED <<confVars, scanVars>>

----------------------------------------------------------------------------
(* The network configuration.                                                *)

\* GET wifi: both buffers are allocated for the reply, freed and set to NULL.
GetWifi ==
  /\ Get
  /\ sta' = "null" /\ ap' = "null"
  /\ UNCHANGED <<rst, timer, scanVars>>

Filled(conf, given) ==
  IF given THEN "set" ELSE IF conf = "null" THEN "empty" ELSE conf

\* POST wifi, with an SSID for the station, the soft-AP, both or neither.
PostWifi(staGiven, apGiven) ==
  /\ Post
  /\ IF "set" \in {Filled(sta, staGiven), Filled(ap, apGiven)}
     THEN /\ sta' = Filled(sta, staGiven) /\ ap' = Filled(ap, apGiven)
          /\ rst' = "wifi" /\ timer' = "armed"
     ELSE /\ sta' = "null" /\ ap' = "null" /\ rst' = "null"
          /\ timer' = "off"
  /\ UNCHANGED scanVars

\* POST reboot: the parameter is allocated but its type is not set.
PostReboot ==
  /\ Post
  /\ rst' = IF rst = "null" THEN "unset" ELSE rst
  /\ timer' = "armed"
  /\ UNCHANGED <<sta, ap, scanVars>>

\* restart_10ms_cb.  It reads sta_conf, which GET wifi may have set to NULL; a
\* soft-AP configuration ends in a restart, a station configuration is joined
\* (WebSetStation of EspPlatform.tla).
Restart10ms ==
  /\ timer = "armed"
  /\ \/ /\ rst = "wifi"
        /\ IF sta = "null" \/ ap \in {"null", "set"}
           THEN Restart
           ELSE /\ sta' = "null" /\ ap' = "null" /\ rst' = "null" /\ timer' = "off"
                /\ UNCHANGED <<parseVars, scanVars>>
     \/ /\ rst # "wifi"
        /\ timer' = "off"
        /\ UNCHANGED <<parseVars, sta, ap, rst, scanVars>>

----------------------------------------------------------------------------
(* Scanning.                                                                 *)

\* Mutant of GetScan: the count of the last scan is kept.
GetScanKeepsCount ==
  /\ Get
  /\ info' = [info EXCEPT !.alloc = TRUE]
  /\ scanning' = TRUE /\ mixed' = FALSE
  /\ UNCHANGED <<confVars, list, bss>>

\* GET scan.  wifi_station_scan refuses a second scan while one is under way.
GetScan ==
  /\ Get
  /\ info' = [info EXCEPT !.alloc = TRUE, !.sn = 0, !.cnt = 0]
  /\ scanning' = TRUE /\ mixed' = FALSE
  /\ UNCHANGED <<confVars, list, bss>>

\* json_scan_cb with the n access points the SDK found.  It writes through
\* pscaninfo, which a page request may have freed since the scan began.
ScanCb(n) ==
  /\ scanning
  /\ IF ~info.alloc THEN Restart
     ELSE /\ scanning' = FALSE
          /\ info' = [info EXCEPT !.pages = (n + PageSize - 1) \div PageSize]
          /\ list' = n
          /\ bss' = 0
          /\ UNCHANGED <<mixed, parseVars, confVars>>

\* The entries of a page: the last one may be shorter.
OnPage(page) ==
  LET left == list - (page - 1) * PageSize
  IN  IF left >= PageSize THEN PageSize ELSE left

\* scan_get: one step for each row; past the last entry bss is NULL and starts again.
Walked(rows) == (bss + rows) % list

\* GET scan&page=: the page after the entries walked so far.
GetPage(page) ==
  /\ Get
  /\ IF page > info.pages
     THEN UNCHANGED scanVars
     ELSE /\ UNCHANGED <<scanning, list>>
          /\ \/ /\ list = 0
                /\ info' = NoInfo
                /\ UNCHANGED <<bss, mixed>>
             \/ /\ list # 0 /\ info.sn = page
                /\ info' = [info EXCEPT !.sn = 0]
                /\ UNCHANGED <<bss, mixed>>
             \/ /\ list # 0 /\ info.sn # page
                /\ IF info.cnt + OnPage(page) > list
                   THEN info' = [info EXCEPT !.sn = page] /\ UNCHANGED <<bss, mixed>>
                   ELSE /\ info' = [info EXCEPT !.sn = page, !.cnt = @ + OnPage(page)]
                        /\ bss' = Walked(OnPage(page))
                        /\ mixed' = (mixed \/ scanning)
  /\ UNCHANGED confVars

\* GET scan&finish: the list is freed.
GetFinish ==
  /\ Get
  /\ list' = 0
  /\ UNCHANGED <<confVars, info, scanning, bss, mixed>>

----------------------------------------------------------------------------
Requests ==
  \/ SplitHead \/ Fragment \/ OtherRequest
  \/ GetWifi \/ (\E s, a \in BOOLEAN : PostWifi(s, a)) \/ PostReboot
  \/ GetScan \/ (\E page \in 1 .. MaxAps : GetPage(page)) \/ GetFinish

Next == Requests \/ Restart10ms \/ (\E n \in 0 .. MaxAps : ScanCb(n)) \/ Restart

Spec == Init /\ [][Next]_vars

----------------------------------------------------------------------------
(* Whatever arrived before, in whole or in pieces, a complete POST is never  *)
(* refused: save_data starts it from a count of zero.                        *)
ParserResyncs == counted = 0

(* The pages of one scan list each access point at most once, in whatever     *)
(* order and however often the pages are asked for: the cursor scan_get walks *)
(* the list with stands where the count of served entries says.  (Not if the *)
(* pages of the last scan are asked for while the next one runs.)            *)
PagesInStep == ~scanning /\ ~mixed /\ list # 0 =>
  info.cnt <= list /\ bss = info.cnt % list
=============================================================================
