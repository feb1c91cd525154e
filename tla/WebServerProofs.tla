---------------------------- MODULE WebServerProofs ----------------------------
(***************************************************************************)
(* The request collector and the scan pages of the web server, for every   *)
(* size of a page and any number of access points; and its settings, for   *)
(* every set of bodies.                                                    *)
(***************************************************************************)
EXTENDS WebSettings, Counting, SequenceTheorems, TLAPS

TypeOK ==
  /\ expected \in Nat
  /\ info \in [alloc : BOOLEAN, pages : Nat, sn : Nat, cnt : Nat]
  /\ scanning \in BOOLEAN /\ mixed \in BOOLEAN
  /\ list \in Nat /\ bss \in Nat

\* A scan starts with nothing served, and serving meanwhile is marked.
ScanFresh == scanning /\ ~mixed => info.cnt = 0

\* The pages are those of the list, while it is there.
PagesCover == list # 0 => info.pages = (list + PageSize - 1) \div PageSize

IInv == TypeOK /\ ParserResyncs /\ ScanFresh /\ PagesCover /\ PagesInStep

----------------------------------------------------------------------------
(* A page that exists has an entry.                                          *)
LEMMA DivTimes ==
  ASSUME NEW n \in Nat, NEW d \in Nat \ {0}
  PROVE  n \div d \in Nat /\ d * (n \div d) <= n
OBVIOUS

LEMMA TimesMonotone ==
  ASSUME NEW a \in Nat, NEW b \in Nat, NEW d \in Nat, a <= b
  PROVE  a * d <= b * d
OBVIOUS

LEMMA PageHasEntries ==
  ASSUME TypeOK, PagesCover, list # 0, NEW page \in Nat \ {0}, page <= info.pages
  PROVE  OnPage(page) \in 1 .. list
<1> DEFINE left == list - (page - 1) * PageSize
<1>1. list \in Nat /\ PageSize \in Nat \ {0} /\ page - 1 \in Nat
  BY WebOK DEF TypeOK
<1>2. info.pages \in Nat /\ PageSize * info.pages <= list + PageSize - 1
  BY <1>1, DivTimes, list + PageSize - 1 \in Nat DEF PagesCover
<1>3. page * PageSize <= info.pages * PageSize
  BY <1>1, <1>2, TimesMonotone
<1>4. (page - 1) * PageSize = page * PageSize - PageSize
  BY <1>1
<1>5. (page - 1) * PageSize \in Nat
  BY <1>1
<1>6. left \in 1 .. list
  BY <1>1, <1>2, <1>3, <1>4, <1>5
<1>7. OnPage(page) = IF left >= PageSize THEN PageSize ELSE left
  BY DEF OnPage
<1> QED BY <1>1, <1>6, <1>7

----------------------------------------------------------------------------
LEMMA NoInfoType ==
  NoInfo \in [alloc : BOOLEAN, pages : Nat, sn : Nat, cnt : Nat] /\ NoInfo.cnt = 0
  BY DEF NoInfo

LEMMA InitInductive == Init => IInv
<1> SUFFICES ASSUME Init PROVE IInv
  OBVIOUS
<1>1. TypeOK
  BY NoInfoType DEF Init, TypeOK
<1>2. ParserResyncs /\ ScanFresh
  BY DEF Init, ParserResyncs, ScanFresh
<1>3. PagesCover /\ PagesInStep
  BY DEF Init, PagesCover, PagesInStep
<1> QED BY <1>1, <1>2, <1>3 DEF IInv

LEMMA RestartInductive == Restart => IInv'
<1> SUFFICES ASSUME Restart PROVE IInv'
  OBVIOUS
<1>1. TypeOK'
  BY NoInfoType DEF Restart, TypeOK
<1>2. ParserResyncs' /\ ScanFresh'
  BY DEF Restart, ParserResyncs, ScanFresh
<1>3. PagesCover' /\ PagesInStep'
  BY DEF Restart, PagesCover, PagesInStep
<1> QED BY <1>1, <1>2, <1>3 DEF IInv

(* Whatever save_data collects, it starts again from nothing.                *)
LEMMA Collected ==
  ASSUME IInv, Get \/ Post
  PROVE  ParserResyncs' /\ expected' \in Nat
<1>1. counted = 0 /\ expected \in Nat
  BY DEF IInv, ParserResyncs, TypeOK
<1>2. CASE Get
  <2>1. PICK body \in {0, 1} : Save({}, body)
    BY <1>2 DEF Get
  <2>2. body \in Nat /\ counted + body = body
    BY <1>1
  <2>3. counted' = 0 /\ (expected' = 0 \/ expected' = expected)
    BY <2>1, <2>2 DEF Save
  <2> QED BY <1>1, <2>3 DEF ParserResyncs
<1>3. CASE Post
  <2>1. PICK body \in {0, 1} : Save({body}, body)
    BY <1>3 DEF Post
  <2>2. counted + body = body /\ (CHOOSE n \in {body} : TRUE) = body
    BY <1>1
  <2>3. counted' = 0 /\ expected' = 0
    BY <2>1, <2>2 DEF Save
  <2> QED BY <2>3 DEF ParserResyncs
<1> QED BY <1>2, <1>3

(* What leaves the scan alone.                                               *)
LEMMA ScanUntouched ==
  ASSUME IInv, UNCHANGED scanVars, ParserResyncs', expected' \in Nat
  PROVE  IInv'
  BY DEF scanVars, IInv, TypeOK, ScanFresh, PagesCover, PagesInStep

LEMMA GetScanInductive == IInv /\ GetScan => IInv'
<1> SUFFICES ASSUME IInv, GetScan PROVE IInv'
  OBVIOUS
<1>1. ParserResyncs' /\ expected' \in Nat
  BY Collected DEF GetScan
<1>2. info' = [info EXCEPT !.alloc = TRUE, !.sn = 0, !.cnt = 0]
  BY DEF GetScan
<1>3. info'.cnt = 0 /\ info'.pages = info.pages
      /\ info' \in [alloc : BOOLEAN, pages : Nat, sn : Nat, cnt : Nat]
  BY <1>2 DEF IInv, TypeOK
<1> QED BY <1>1, <1>3 DEF GetScan, IInv, TypeOK, ScanFresh, PagesCover, PagesInStep

LEMMA ScanCbInductive ==
  ASSUME IInv, NEW n \in Nat, ScanCb(n)
  PROVE  IInv'
<1>1. CASE ~info.alloc
  BY <1>1, RestartInductive DEF ScanCb
<1>2. CASE info.alloc
  <2>1. /\ info' = [info EXCEPT !.pages = (n + PageSize - 1) \div PageSize]
        /\ list' = n /\ bss' = 0 /\ scanning /\ scanning' = FALSE
        /\ UNCHANGED <<mixed, parseVars, confVars>>
    BY <1>2 DEF ScanCb, IInv, TypeOK
  <2>2. (n + PageSize - 1) \div PageSize \in Nat
    BY DivTimes, WebOK, n + PageSize - 1 \in Nat
  <2>3. /\ info' \in [alloc : BOOLEAN, pages : Nat, sn : Nat, cnt : Nat]
        /\ info'.pages = (n + PageSize - 1) \div PageSize /\ info'.cnt = info.cnt
    BY <2>1, <2>2 DEF IInv, TypeOK
  <2>4. TypeOK' /\ ParserResyncs' /\ ScanFresh' /\ PagesCover'
    <3>1. TypeOK'
      <4>1. scanning' \in BOOLEAN /\ mixed' \in BOOLEAN
        BY <2>1 DEF IInv, TypeOK
      <4>2. expected' \in Nat /\ list' \in Nat /\ bss' \in Nat
        BY <2>1 DEF parseVars, IInv, TypeOK
      <4> QED BY <2>3, <4>1, <4>2 DEF TypeOK
    <3>2. ParserResyncs' /\ ScanFresh'
      BY <2>1 DEF parseVars, IInv, ParserResyncs, ScanFresh
    <3>3. PagesCover'
      BY <2>1, <2>3 DEF PagesCover
    <3> QED BY <3>1, <3>2, <3>3
  <2>5. PagesInStep'
    <3>1. ~mixed => info'.cnt = 0
      BY <2>1, <2>3 DEF IInv, ScanFresh
    <3>2. n # 0 => 0 <= n /\ 0 % n = 0
      OBVIOUS
    <3> QED BY <2>1, <3>1, <3>2 DEF PagesInStep
  <2> QED BY <2>4, <2>5 DEF IInv
<1> QED BY <1>1, <1>2

(* The cursor walks as far as the count goes, and ends where it began.       *)
LEMMA WalkedInStep ==
  ASSUME NEW n \in Nat \ {0}, NEW c \in Nat, NEW r \in Nat \ {0}, c + r <= n
  PROVE  ((c % n) + r) % n = (c + r) % n /\ (c + r) % n \in Nat
<1>1. c % n = c
  OBVIOUS
<1>2. (c + r) % n \in Nat
  OBVIOUS
<1> QED BY <1>1, <1>2

LEMMA GetPageInductive ==
  ASSUME IInv, NEW page \in Nat \ {0}, GetPage(page)
  PROVE  IInv'
<1>1. ParserResyncs' /\ expected' \in Nat
  BY Collected DEF GetPage
<1>2. CASE UNCHANGED scanVars
  BY <1>1, <1>2, ScanUntouched
<1>3. CASE /\ list = 0 /\ info' = NoInfo
           /\ UNCHANGED <<scanning, list, bss, mixed>>
  BY <1>1, <1>3 DEF NoInfo, IInv, TypeOK, ScanFresh, PagesCover, PagesInStep
<1>4. CASE /\ list # 0 /\ info' \in {[info EXCEPT !.sn = 0], [info EXCEPT !.sn = page]}
           /\ UNCHANGED <<scanning, list, bss, mixed>>
  <2>1. /\ info' \in [alloc : BOOLEAN, pages : Nat, sn : Nat, cnt : Nat]
        /\ info'.pages = info.pages /\ info'.cnt = info.cnt
    BY <1>4 DEF IInv, TypeOK
  <2> QED BY <1>1, <1>4, <2>1 DEF IInv, TypeOK, ScanFresh, PagesCover, PagesInStep
<1>5. CASE /\ list # 0 /\ page <= info.pages /\ ~(info.cnt + OnPage(page) > list)
           /\ info' = [info EXCEPT !.sn = page, !.cnt = @ + OnPage(page)]
           /\ bss' = Walked(OnPage(page)) /\ mixed' = (mixed \/ scanning)
           /\ UNCHANGED <<scanning, list>>
  <2> DEFINE rows == OnPage(page)
  <2>1. /\ rows \in Nat \ {0} /\ list \in Nat \ {0} /\ info.cnt \in Nat /\ bss \in Nat
        /\ info.cnt + rows <= list
    BY <1>5, PageHasEntries DEF IInv, TypeOK
  <2>2. /\ info' \in [alloc : BOOLEAN, pages : Nat, sn : Nat, cnt : Nat]
        /\ info'.pages = info.pages /\ info'.cnt = info.cnt + rows
    <3>1. info' = [info EXCEPT !.sn = page, !.cnt = info.cnt + rows]
      BY <1>5
    <3>2. info.cnt + rows \in Nat
      BY <2>1
    <3> HIDE DEF rows
    <3> QED BY <3>1, <3>2 DEF IInv, TypeOK
  <2>3. bss' = (bss + rows) % list /\ bss' \in Nat
    BY <1>5, <2>1 DEF Walked
  <2>4. mixed' \in BOOLEAN /\ (~mixed' => ~mixed /\ ~scanning)
    BY <1>5 DEF IInv, TypeOK
  <2>5. TypeOK' /\ ScanFresh' /\ PagesCover'
    BY <1>1, <1>5, <2>2, <2>3, <2>4 DEF IInv, TypeOK, ScanFresh, PagesCover
  <2>6. ASSUME ~mixed' PROVE info'.cnt <= list /\ bss' = info'.cnt % list
    <3>1. bss = info.cnt % list
      BY <2>4, <2>6, <1>5 DEF IInv, PagesInStep
    <3> QED BY <2>1, <2>2, <2>3, <3>1, WalkedInStep
  <2>7. PagesInStep'
    BY <1>5, <2>6 DEF PagesInStep
  <2> QED BY <1>1, <2>5, <2>7 DEF IInv
<1>6. CASE page > info.pages
  BY <1>2, <1>6 DEF GetPage
<1>7. CASE ~(page > info.pages)
  <2>1. page <= info.pages
    BY <1>7 DEF IInv, TypeOK
  <2> QED BY <1>3, <1>4, <1>5, <1>7, <2>1, Zenon DEF GetPage
<1> QED BY <1>6, <1>7

LEMMA GetFinishInductive == IInv /\ GetFinish => IInv'
<1> SUFFICES ASSUME IInv, GetFinish PROVE IInv'
  OBVIOUS
<1>1. ParserResyncs' /\ expected' \in Nat
  BY Collected DEF GetFinish
<1> QED BY <1>1 DEF GetFinish, IInv, TypeOK, ScanFresh, PagesCover, PagesInStep

(* Everything else keeps away from the scan, or restarts the module.         *)
LEMMA OthersInductive ==
  ASSUME IInv, \/ SplitHead \/ Fragment \/ OtherRequest \/ GetWifi \/ PostReboot
               \/ (\E s, a \in BOOLEAN : PostWifi(s, a)) \/ Restart10ms \/ UNCHANGED vars
  PROVE  IInv'
<1>1. CASE SplitHead \/ Fragment
  BY <1>1, ScanUntouched DEF SplitHead, Fragment, IInv, ParserResyncs
<1>2. CASE OtherRequest \/ GetWifi \/ PostReboot \/ \E s, a \in BOOLEAN : PostWifi(s, a)
  <2>1. (Get \/ Post) /\ UNCHANGED scanVars
    BY <1>2 DEF OtherRequest, GetWifi, PostReboot, PostWifi
  <2> QED BY <2>1, Collected, ScanUntouched
<1>3. CASE Restart10ms
  <2>1. Restart \/ UNCHANGED <<parseVars, scanVars>>
    BY <1>3 DEF Restart10ms
  <2> QED BY <2>1, RestartInductive, ScanUntouched DEF parseVars, IInv, TypeOK, ParserResyncs
<1>4. CASE UNCHANGED vars
  BY <1>4, ScanUntouched DEF vars, parseVars, IInv, TypeOK, ParserResyncs
<1> QED BY <1>1, <1>2, <1>3, <1>4

LEMMA StepInductive == IInv /\ [Next]_vars => IInv'
<1> SUFFICES ASSUME IInv, [Next]_vars PROVE IInv'
  OBVIOUS
<1>1. 1 .. MaxAps \subseteq Nat \ {0} /\ 0 .. MaxAps \subseteq Nat
  BY WebOK
<1> QED BY <1>1, RestartInductive, GetScanInductive, ScanCbInductive, GetPageInductive,
           GetFinishInductive, OthersInductive DEF Next, Requests

THEOREM Inductive == Spec => []IInv
  BY InitInductive, StepInductive, PTL DEF Spec

(* However requests are split, repeated or interleaved, save_data meets the  *)
(* next complete one with a count of zero.                                   *)
THEOREM ParserAlwaysResyncs == Spec => []ParserResyncs
<1>1. IInv => ParserResyncs
  BY DEF IInv
<1> QED BY <1>1, Inductive, PTL

(* scan_get's cursor stands where the count of served entries says: no       *)
(* access point of one scan is listed twice.                                 *)
THEOREM PagesAlwaysInStep == Spec => []PagesInStep
<1>1. IInv => PagesInStep
  BY DEF IInv
<1> QED BY <1>1, Inductive, PTL

----------------------------------------------------------------------------
(* Reading a body, pair by pair.                                             *)

\* A value that one step in A at most writes, from what it was at first.
LEMMA WrittenOnce ==
  ASSUME NEW n \in Nat, NEW A, \A i, j \in 1 .. n : i \in A /\ j \in A => i = j,
         NEW v, NEW val, NEW empty, v[0] = empty,
         \A i \in 1 .. n : /\ i \notin A => v[i] = v[i - 1]
                           /\ i \in A /\ v[i - 1] = empty => v[i] = val[i]
  PROVE  /\ (\A k \in 1 .. n : k \notin A) => v[n] = empty
         /\ \A k \in 1 .. n : k \in A => v[n] = val[k]
<1> DEFINE Good(i) == /\ (\A k \in 1 .. i : k \notin A) => v[i] = empty
                      /\ \A k \in 1 .. i : k \in A => v[i] = val[k]
           T == {i \in 0 .. n : Good(i)}
<1>1. 0 \in T
  OBVIOUS
<1>2. ASSUME NEW i \in 1 .. n, i - 1 \in T PROVE i \in T
  <2>1. Good(i - 1)
    BY <1>2
  <2>2. \A k \in 1 .. i : k = i \/ k \in 1 .. i - 1
    OBVIOUS
  <2>3. CASE i \notin A
    <3>1. v[i] = v[i - 1]
      BY <2>3
    <3>2. (\A k \in 1 .. i : k \notin A) => v[i] = empty
      BY <2>1, <3>1
    <3>3. \A k \in 1 .. i : k \in A => v[i] = val[k]
      BY <2>1, <2>2, <2>3, <3>1
    <3> QED BY <3>2, <3>3
  <2>4. CASE i \in A
    <3>1. \A k \in 1 .. i - 1 : k \notin A
      BY <2>4
    <3>2. v[i - 1] = empty
      BY <2>1, <3>1
    <3>3. v[i] = val[i]
      BY <2>4, <3>2
    <3>4. (\A k \in 1 .. i : k \notin A) => v[i] = empty
      BY <2>4
    <3>5. \A k \in 1 .. i : k \in A => v[i] = val[k]
      BY <2>2, <3>1, <3>3
    <3> QED BY <3>4, <3>5
  <2> QED BY <2>3, <2>4
<1>3. \A i \in 0 .. n : i \in T
  <2> HIDE DEF T
  <2> QED BY <1>1, <1>2, CountsUp
<1>4. Good(n)
  BY <1>3
<1> QED BY <1>4

LEMMA Copied ==
  ASSUME NEW f \in Text, NEW t \in Text
  PROVE  Memcpy(f, t) \in Text /\ (f = <<>> => Memcpy(f, t) = t)
<1>1. SubSeq(f, Len(t) + 1, Len(f)) \in Text
  BY DEF Text
<1>2. Memcpy(f, t) \in Text
  BY <1>1 DEF Memcpy, Text
<1>3. ASSUME f = <<>> PROVE Memcpy(f, t) = t
  <2>1. Len(f) = 0 /\ Len(t) \in Nat
    BY <1>3 DEF Text
  <2>2. SubSeq(f, Len(t) + 1, Len(f)) = <<>>
    BY <2>1
  <2> QED BY <2>2, ConcatEmptySeq DEF Memcpy, Text
<1> QED BY <1>2, <1>3

StaStates == [on : BOOLEAN, conf : StaConf, token : Text]
ApStates == [on : BOOLEAN, done : BOOLEAN, conf : ApConf]

\* What a pair does to one field, whatever the pair.
LEMMA StationPairEffect ==
  ASSUME NEW st \in StaStates, NEW pair \in Pairs
  PROVE  LET t == StationPair(st, pair)
             on == InSection("Station", st.on, pair)
         IN  /\ t \in StaStates /\ (t.on <=> on)
             /\ ~(on /\ pair.name = "ssid") => t.conf.ssid = st.conf.ssid
             /\ on /\ pair.name = "ssid" => t.conf.ssid = Memcpy(st.conf.ssid, pair.text)
             /\ ~(on /\ pair.name = "password") => t.conf.password = st.conf.password
             /\ on /\ pair.name = "password" =>
                  t.conf.password = Memcpy(st.conf.password, pair.text)
<1> DEFINE on == InSection("Station", st.on, pair)
<1>1. on \in BOOLEAN
  BY DEF InSection, StaStates
<1>2. /\ pair.text \in Text /\ st.conf \in StaConf /\ st.token \in Text
      /\ st.conf.ssid \in Text /\ st.conf.password \in Text
  BY DEF StaStates, StaConf, Pairs
<1>3. /\ Memcpy(st.conf.ssid, pair.text) \in Text
      /\ Memcpy(st.conf.password, pair.text) \in Text
      /\ Memcpy(st.token, pair.text) \in Text
  BY <1>2, Copied
<1>4. StationPair(st, pair) =
        IF ~on THEN [st EXCEPT !.on = on]
        ELSE CASE pair.name \in {"ssid", "password"} ->
                  [st EXCEPT !.on = on, !.conf[pair.name] = Memcpy(@, pair.text)]
             [] pair.name = "token" -> [st EXCEPT !.on = on, !.token = Memcpy(@, pair.text)]
             [] OTHER -> [st EXCEPT !.on = on]
  BY DEF StationPair
<1> HIDE DEF on
<1>5. CASE ~on \/ pair.name \notin {"ssid", "password", "token"}
  <2>1. StationPair(st, pair) = [st EXCEPT !.on = on]
    BY <1>4, <1>5
  <2>2. [st EXCEPT !.on = on] \in StaStates /\ [st EXCEPT !.on = on].on = on
        /\ [st EXCEPT !.on = on].conf = st.conf
    BY <1>1 DEF StaStates
  <2> QED BY <1>5, <2>1, <2>2 DEF on
<1>6. CASE on /\ pair.name = "ssid"
  <2>1. PICK c : c = [st.conf EXCEPT !.ssid = Memcpy(st.conf.ssid, pair.text)]
    OBVIOUS
  <2>2. c \in StaConf /\ c.ssid = Memcpy(st.conf.ssid, pair.text) /\ c.password = st.conf.password
    BY <1>2, <1>3, <2>1 DEF StaConf
  <2>3. StationPair(st, pair) = [st EXCEPT !.on = on, !.conf = c]
    BY <1>4, <1>6, <2>1
  <2>4. /\ [st EXCEPT !.on = on, !.conf = c] \in StaStates
        /\ [st EXCEPT !.on = on, !.conf = c].on = on /\ [st EXCEPT !.on = on, !.conf = c].conf = c
    BY <1>1, <2>2 DEF StaStates
  <2> QED BY <1>6, <2>2, <2>3, <2>4 DEF on
<1>7. CASE on /\ pair.name = "password"
  <2>1. PICK c : c = [st.conf EXCEPT !.password = Memcpy(st.conf.password, pair.text)]
    OBVIOUS
  <2>2. c \in StaConf /\ c.password = Memcpy(st.conf.password, pair.text) /\ c.ssid = st.conf.ssid
    BY <1>2, <1>3, <2>1 DEF StaConf
  <2>3. StationPair(st, pair) = [st EXCEPT !.on = on, !.conf = c]
    BY <1>4, <1>7, <2>1
  <2>4. /\ [st EXCEPT !.on = on, !.conf = c] \in StaStates
        /\ [st EXCEPT !.on = on, !.conf = c].on = on /\ [st EXCEPT !.on = on, !.conf = c].conf = c
    BY <1>1, <2>2 DEF StaStates
  <2> QED BY <1>7, <2>2, <2>3, <2>4 DEF on
<1>8. CASE on /\ pair.name = "token"
  <2>1. StationPair(st, pair) = [st EXCEPT !.on = on, !.token = Memcpy(@, pair.text)]
    BY <1>4, <1>8
  <2> QED BY <1>1, <1>2, <1>3, <1>8, <2>1 DEF StaStates, StaConf, on
<1> QED BY <1>5, <1>6, <1>7, <1>8

LEMMA TextsRead ==
  ASSUME NEW text
  PROVE  /\ IntOf(text) \in Channels
         /\ IsAuth(text) => AuthOf(text) \in SoftapAuth
<1>1. IntOf(text) \in Channels
  <2>1. 0 \in Channels
    BY DEF Channels
  <2>2. IsNumber(text) => (CHOOSE n \in Channels : text = Digits(n)) \in Channels
    BY Zenon DEF IsNumber
  <2> QED BY <2>1, <2>2, Zenon DEF IntOf
<1>2. IsAuth(text) => AuthOf(text) \in SoftapAuth
  BY Zenon DEF IsAuth, AuthOf
<1> QED BY <1>1, <1>2

LEMMA SoftapPairEffect ==
  ASSUME NEW st \in ApStates, NEW pair \in Pairs
  PROVE  LET t == SoftapPair(st, pair)
             on == InSection("Softap", st.on, pair)
         IN  /\ t \in ApStates
             /\ ~st.done /\ (pair.name = "authmode" => IsAuth(pair.text)) =>
                  /\ ~t.done /\ (t.on <=> on)
                  /\ ~(on /\ pair.name = "ssid") => t.conf.ssid = st.conf.ssid
                  /\ on /\ pair.name = "ssid" => t.conf.ssid = Memcpy(st.conf.ssid, pair.text)
                  /\ ~(on /\ pair.name = "password") => t.conf.password = st.conf.password
                  /\ on /\ pair.name = "password" =>
                       t.conf.password = Memcpy(st.conf.password, pair.text)
                  /\ ~(on /\ pair.name = "authmode") => t.conf.authmode = st.conf.authmode
                  /\ on /\ pair.name = "authmode" => t.conf.authmode = AuthOf(pair.text)
                  /\ ~(on /\ pair.name = "channel") => t.conf.channel = st.conf.channel
                  /\ on /\ pair.name = "channel" => t.conf.channel = IntOf(pair.text)
<1> DEFINE on == InSection("Softap", st.on, pair)
<1>1. on \in BOOLEAN
  BY DEF InSection, ApStates
<1>2. /\ pair.text \in Text /\ st.conf \in ApConf
      /\ st.conf.ssid \in Text /\ st.conf.password \in Text
  BY DEF ApStates, ApConf, Pairs
<1>3. /\ Memcpy(st.conf.ssid, pair.text) \in Text
      /\ Memcpy(st.conf.password, pair.text) \in Text
      /\ IntOf(pair.text) \in Channels /\ (IsAuth(pair.text) => AuthOf(pair.text) \in SoftapAuth)
      /\ "AUTH_OPEN" \in SoftapAuth
  BY <1>2, Copied, TextsRead DEF SoftapAuth
<1>4. SoftapPair(st, pair) =
      IF st.done THEN st
      ELSE IF ~on THEN [st EXCEPT !.on = on]
      ELSE CASE pair.name = "authmode" /\ ~IsAuth(pair.text) ->
                  [st EXCEPT !.done = TRUE, !.conf.authmode = "AUTH_OPEN"]
             [] pair.name = "authmode" /\ IsAuth(pair.text) ->
                  [st EXCEPT !.on = on, !.conf.authmode = AuthOf(pair.text)]
             [] pair.name = "channel" -> [st EXCEPT !.on = on, !.conf.channel = IntOf(pair.text)]
             [] pair.name \in {"ssid", "password"} ->
                  [st EXCEPT !.on = on, !.conf[pair.name] = Memcpy(@, pair.text)]
             [] OTHER -> [st EXCEPT !.on = on]
  BY DEF SoftapPair
<1> HIDE DEF on
<1>5. CASE st.done
  BY <1>4, <1>5
<1>6. CASE ~st.done /\ (~on \/ pair.name \notin {"ssid", "password", "authmode", "channel"})
  <2>1. SoftapPair(st, pair) = [st EXCEPT !.on = on]
    BY <1>4, <1>6
  <2>2. [st EXCEPT !.on = on] \in ApStates /\ [st EXCEPT !.on = on].on = on
        /\ [st EXCEPT !.on = on].conf = st.conf /\ [st EXCEPT !.on = on].done = st.done
    BY <1>1 DEF ApStates
  <2> QED BY <1>6, <2>1, <2>2 DEF on
<1>7. CASE ~st.done /\ on /\ pair.name = "authmode" /\ ~IsAuth(pair.text)
  <2>1. SoftapPair(st, pair) = [st EXCEPT !.done = TRUE, !.conf.authmode = "AUTH_OPEN"]
    BY <1>4, <1>7
  <2>2. PICK c : c = [st.conf EXCEPT !.authmode = "AUTH_OPEN"]
    OBVIOUS
  <2>3. c \in ApConf
    BY <1>2, <1>3, <2>2 DEF ApConf
  <2>4. SoftapPair(st, pair) = [st EXCEPT !.done = TRUE, !.conf = c]
    BY <2>1, <2>2
  <2>5. [st EXCEPT !.done = TRUE, !.conf = c] \in ApStates
    BY <2>3 DEF ApStates
  <2> QED BY <1>7, <2>4, <2>5
<1>8. CASE ~st.done /\ on /\ pair.name = "ssid"
  <2>1. PICK c : c = [st.conf EXCEPT !.ssid = Memcpy(st.conf.ssid, pair.text)]
    OBVIOUS
  <2>2. c \in ApConf /\ c.ssid = Memcpy(st.conf.ssid, pair.text)
    BY <1>2, <1>3, <1>8, <2>1 DEF ApConf
  <2>3. c.password = st.conf.password /\ c.authmode = st.conf.authmode /\ c.channel = st.conf.channel
    BY <1>2, <2>1 DEF ApConf
  <2>4. SoftapPair(st, pair) = [st EXCEPT !.on = on, !.conf = c]
    BY <1>4, <1>8, <2>1
  <2>5. /\ [st EXCEPT !.on = on, !.conf = c] \in ApStates
        /\ [st EXCEPT !.on = on, !.conf = c].on = on /\ [st EXCEPT !.on = on, !.conf = c].conf = c
        /\ [st EXCEPT !.on = on, !.conf = c].done = st.done
    BY <1>1, <2>2 DEF ApStates
  <2> QED BY <1>8, <2>2, <2>3, <2>4, <2>5 DEF on
<1>9. CASE ~st.done /\ on /\ pair.name = "password"
  <2>1. PICK c : c = [st.conf EXCEPT !.password = Memcpy(st.conf.password, pair.text)]
    OBVIOUS
  <2>2. c \in ApConf /\ c.password = Memcpy(st.conf.password, pair.text)
    BY <1>2, <1>3, <1>9, <2>1 DEF ApConf
  <2>3. c.ssid = st.conf.ssid /\ c.authmode = st.conf.authmode /\ c.channel = st.conf.channel
    BY <1>2, <2>1 DEF ApConf
  <2>4. SoftapPair(st, pair) = [st EXCEPT !.on = on, !.conf = c]
    BY <1>4, <1>9, <2>1
  <2>5. /\ [st EXCEPT !.on = on, !.conf = c] \in ApStates
        /\ [st EXCEPT !.on = on, !.conf = c].on = on /\ [st EXCEPT !.on = on, !.conf = c].conf = c
        /\ [st EXCEPT !.on = on, !.conf = c].done = st.done
    BY <1>1, <2>2 DEF ApStates
  <2> QED BY <1>9, <2>2, <2>3, <2>4, <2>5 DEF on
<1>10. CASE ~st.done /\ on /\ pair.name = "authmode" /\ IsAuth(pair.text)
  <2>1. PICK c : c = [st.conf EXCEPT !.authmode = AuthOf(pair.text)]
    OBVIOUS
  <2>2. c \in ApConf /\ c.authmode = AuthOf(pair.text)
    BY <1>2, <1>3, <1>10, <2>1 DEF ApConf
  <2>3. c.ssid = st.conf.ssid /\ c.password = st.conf.password /\ c.channel = st.conf.channel
    BY <1>2, <2>1 DEF ApConf
  <2>4. SoftapPair(st, pair) = [st EXCEPT !.on = on, !.conf = c]
    BY <1>4, <1>10, <2>1
  <2>5. /\ [st EXCEPT !.on = on, !.conf = c] \in ApStates
        /\ [st EXCEPT !.on = on, !.conf = c].on = on /\ [st EXCEPT !.on = on, !.conf = c].conf = c
        /\ [st EXCEPT !.on = on, !.conf = c].done = st.done
    BY <1>1, <2>2 DEF ApStates
  <2> QED BY <1>10, <2>2, <2>3, <2>4, <2>5 DEF on
<1>11. CASE ~st.done /\ on /\ pair.name = "channel"
  <2>1. PICK c : c = [st.conf EXCEPT !.channel = IntOf(pair.text)]
    OBVIOUS
  <2>2. c \in ApConf /\ c.channel = IntOf(pair.text)
    BY <1>2, <1>3, <1>11, <2>1 DEF ApConf
  <2>3. c.ssid = st.conf.ssid /\ c.password = st.conf.password /\ c.authmode = st.conf.authmode
    BY <1>2, <2>1 DEF ApConf
  <2>4. SoftapPair(st, pair) = [st EXCEPT !.on = on, !.conf = c]
    BY <1>4, <1>11, <2>1
  <2>5. /\ [st EXCEPT !.on = on, !.conf = c] \in ApStates
        /\ [st EXCEPT !.on = on, !.conf = c].on = on /\ [st EXCEPT !.on = on, !.conf = c].conf = c
        /\ [st EXCEPT !.on = on, !.conf = c].done = st.done
    BY <1>1, <2>2 DEF ApStates
  <2> QED BY <1>11, <2>2, <2>3, <2>4, <2>5 DEF on
<1> QED BY <1>5, <1>6, <1>7, <1>8, <1>9, <1>10, <1>11

LEMMA BodyPairs ==
  ASSUME NEW body \in Body
  PROVE  Len(body) \in Nat /\ \A i \in 1 .. Len(body) : body[i] \in Pairs
BY DEF Body

\* What wifi_station_set reads is a walk from pair to pair.
LEMMA StationRead ==
  ASSUME staConf \in StaConf, stored.token \in Text, NEW body \in Body, NEW flag \in BOOLEAN
  PROVE  \E g \in [0 .. Len(body) -> StaStates] :
           /\ g[0] = [on |-> flag, conf |-> staConf, token |-> stored.token]
           /\ \A i \in 1 .. Len(body) : g[i] = StationPair(g[i - 1], body[i])
           /\ SetStation(body, flag) = g[Len(body)]
<1> DEFINE n == Len(body)
           s0 == [on |-> flag, conf |-> staConf, token |-> stored.token]
           step == [i \in 1 .. n |-> [s \in StaStates |-> StationPair(s, body[i])]]
           Whole(h) == h = [i \in 0 .. n |-> IF i = 0 THEN s0 ELSE StationPair(h[i - 1], body[i])]
           f == CHOOSE h : Whole(h)
<1>1. n \in Nat /\ s0 \in StaStates /\ \A i \in 1 .. n : body[i] \in Pairs
  <2>1. n \in Nat /\ \A i \in 1 .. n : body[i] \in Pairs
    BY BodyPairs
  <2>2. s0 \in StaStates
    BY DEF StaStates
  <2> QED BY <2>1, <2>2
<1>2. \A i \in 1 .. n : \A s \in StaStates : StationPair(s, body[i]) \in StaStates
  BY <1>1, StationPairEffect
<1>3. \E g \in [0 .. n -> StaStates] :
        g[0] = s0 /\ \A i \in 1 .. n : g[i] = StationPair(g[i - 1], body[i])
  <2> HIDE DEF n, s0
  <2>1. step \in [1 .. n -> [StaStates -> StaStates]]
    BY <1>2
  <2>2. \A i \in 1 .. n : \A s \in StaStates : step[i][s] = StationPair(s, body[i])
    OBVIOUS
  <2> HIDE DEF step
  <2>3. PICK g : IsWalk(StaStates, n, s0, step, g)
    BY <1>1, <2>1, Walk, Zenon DEF Steps
  <2>4. \A i \in 1 .. n : i - 1 \in 0 .. n
    BY <1>1
  <2> QED BY <2>2, <2>3, <2>4 DEF IsWalk
<1> HIDE DEF n, s0, step
<1>4. PICK g \in [0 .. n -> StaStates] :
        g[0] = s0 /\ \A i \in 1 .. n : g[i] = StationPair(g[i - 1], body[i])
  BY <1>3
<1>5. Whole(g)
  <2>1. \A i \in 0 .. n : g[i] = IF i = 0 THEN s0 ELSE StationPair(g[i - 1], body[i])
    BY <1>1, <1>4
  <2> QED BY <1>4, <2>1
<1>6. Whole(f)
  <2> HIDE DEF Whole
  <2> QED BY <1>5, Zenon
<1>7. SetStation(body, flag) = f[n]
  BY Zenon DEF SetStation, n, s0
<1> HIDE DEF f
<1>8. f[0] = s0 /\ \A i \in 1 .. n : f[i] = StationPair(f[i - 1], body[i])
  BY <1>1, <1>6
<1>9. \A i \in 0 .. n : f[i] \in StaStates
  <2> DEFINE T == {i \in 0 .. n : f[i] \in StaStates}
  <2>1. 0 \in T
    BY <1>1, <1>8
  <2>2. \A i \in 1 .. n : i - 1 \in T => i \in T
    BY <1>1, <1>2, <1>8
  <2> HIDE DEF T
  <2>3. \A i \in 0 .. n : i \in T
    BY <1>1, <2>1, <2>2, CountsUp
  <2> QED BY <2>3 DEF T
<1>10. f \in [0 .. n -> StaStates]
  <2>1. f = [i \in 0 .. n |-> f[i]]
    BY <1>6
  <2> QED BY <1>9, <2>1
<1> QED BY <1>7, <1>8, <1>10 DEF n, s0

\* What wifi_softap_set reads is a walk from pair to pair.
LEMMA SoftapRead ==
  ASSUME apConf \in ApConf, NEW body \in Body, NEW flag \in BOOLEAN
  PROVE  \E g \in [0 .. Len(body) -> ApStates] :
           /\ g[0] = [on |-> flag, done |-> FALSE, conf |-> apConf]
           /\ \A i \in 1 .. Len(body) : g[i] = SoftapPair(g[i - 1], body[i])
           /\ SetSoftap(body, flag) = g[Len(body)].conf
<1> DEFINE n == Len(body)
           s0 == [on |-> flag, done |-> FALSE, conf |-> apConf]
           step == [i \in 1 .. n |-> [s \in ApStates |-> SoftapPair(s, body[i])]]
           Whole(h) == h = [i \in 0 .. n |-> IF i = 0 THEN s0 ELSE SoftapPair(h[i - 1], body[i])]
           f == CHOOSE h : Whole(h)
<1>1. n \in Nat /\ s0 \in ApStates /\ \A i \in 1 .. n : body[i] \in Pairs
  <2>1. n \in Nat /\ \A i \in 1 .. n : body[i] \in Pairs
    BY BodyPairs
  <2>2. s0 \in ApStates
    BY DEF ApStates
  <2> QED BY <2>1, <2>2
<1>2. \A i \in 1 .. n : \A s \in ApStates : SoftapPair(s, body[i]) \in ApStates
  BY <1>1, SoftapPairEffect
<1>3. \E g \in [0 .. n -> ApStates] :
        g[0] = s0 /\ \A i \in 1 .. n : g[i] = SoftapPair(g[i - 1], body[i])
  <2> HIDE DEF n, s0
  <2>1. step \in [1 .. n -> [ApStates -> ApStates]]
    BY <1>2
  <2>2. \A i \in 1 .. n : \A s \in ApStates : step[i][s] = SoftapPair(s, body[i])
    OBVIOUS
  <2> HIDE DEF step
  <2>3. PICK g : IsWalk(ApStates, n, s0, step, g)
    BY <1>1, <2>1, Walk, Zenon DEF Steps
  <2>4. \A i \in 1 .. n : i - 1 \in 0 .. n
    BY <1>1
  <2> QED BY <2>2, <2>3, <2>4 DEF IsWalk
<1> HIDE DEF n, s0, step
<1>4. PICK g \in [0 .. n -> ApStates] :
        g[0] = s0 /\ \A i \in 1 .. n : g[i] = SoftapPair(g[i - 1], body[i])
  BY <1>3
<1>5. Whole(g)
  <2>1. \A i \in 0 .. n : g[i] = IF i = 0 THEN s0 ELSE SoftapPair(g[i - 1], body[i])
    BY <1>1, <1>4
  <2> QED BY <1>4, <2>1
<1>6. Whole(f)
  <2> HIDE DEF Whole
  <2> QED BY <1>5, Zenon
<1>7. SetSoftap(body, flag) = f[n].conf
  BY Zenon DEF SetSoftap, n, s0
<1> HIDE DEF f
<1>8. f[0] = s0 /\ \A i \in 1 .. n : f[i] = SoftapPair(f[i - 1], body[i])
  BY <1>1, <1>6
<1>9. \A i \in 0 .. n : f[i] \in ApStates
  <2> DEFINE T == {i \in 0 .. n : f[i] \in ApStates}
  <2>1. 0 \in T
    BY <1>1, <1>8
  <2>2. \A i \in 1 .. n : i - 1 \in T => i \in T
    BY <1>1, <1>2, <1>8
  <2> HIDE DEF T
  <2>3. \A i \in 0 .. n : i \in T
    BY <1>1, <2>1, <2>2, CountsUp
  <2> QED BY <2>3 DEF T
<1>10. f \in [0 .. n -> ApStates]
  <2>1. f = [i \in 0 .. n |-> f[i]]
    BY <1>6
  <2> QED BY <1>9, <2>1
<1> QED BY <1>7, <1>8, <1>10 DEF n, s0

\* A pair stands in a section when it opens it, or the pair before stands in it and
\* no other section opens.
LEMMA StandsMoves ==
  ASSUME NEW body \in Body, NEW section \in Sections, NEW i \in 1 .. Len(body)
  PROVE  Stands(body, section, i) <=>
           \/ body[i].name = section
           \/ i > 1 /\ Stands(body, section, i - 1) /\ body[i].name \notin Sections
<1>0. Len(body) \in Nat
  BY BodyPairs
<1>1. ASSUME Stands(body, section, i), body[i].name # section
      PROVE  i > 1 /\ Stands(body, section, i - 1) /\ body[i].name \notin Sections
  <2>1. PICK j \in 1 .. i : /\ body[j].name = section
                            /\ \A k \in j + 1 .. i : body[k].name \notin Sections
    BY <1>1 DEF Stands
  <2>2. j # i
    BY <1>1, <2>1
  <2>3. j \in 1 .. i - 1 /\ i > 1 /\ i \in j + 1 .. i /\ \A k \in j + 1 .. i - 1 : k \in j + 1 .. i
    BY <1>0, <2>2
  <2> QED BY <2>1, <2>3 DEF Stands
<1>2. ASSUME body[i].name = section PROVE Stands(body, section, i)
  <2>1. i \in 1 .. i /\ \A k \in i + 1 .. i : body[k].name \notin Sections
    BY <1>0
  <2> QED BY <1>2, <2>1 DEF Stands
<1>3. ASSUME i > 1, Stands(body, section, i - 1), body[i].name \notin Sections
      PROVE  Stands(body, section, i)
  <2>1. PICK j \in 1 .. i - 1 : /\ body[j].name = section
                                /\ \A k \in j + 1 .. i - 1 : body[k].name \notin Sections
    BY <1>3 DEF Stands
  <2>2. j \in 1 .. i /\ \A k \in j + 1 .. i : k = i \/ k \in j + 1 .. i - 1
    BY <1>0
  <2> QED BY <1>3, <2>1, <2>2 DEF Stands
<1> QED BY <1>1, <1>2, <1>3

\* The flag each setter keeps says whether the pair stands in its section.
LEMMA FlagStands ==
  ASSUME NEW body \in Body, NEW section \in Sections, body[1].name \in Sections, NEW on,
         \A i \in 1 .. Len(body) : on[i] <=> InSection(section, on[i - 1], body[i])
  PROVE  \A i \in 1 .. Len(body) : on[i] <=> Stands(body, section, i)
<1> DEFINE n == Len(body)
           T == {i \in 0 .. n : i = 0 \/ (on[i] <=> Stands(body, section, i))}
<1>0. n \in Nat
  BY BodyPairs
<1>1. 0 \in T
  BY <1>0
<1>2. ASSUME NEW i \in 1 .. n, i - 1 \in T PROVE i \in T
  <2>1. on[i] <=> \/ body[i].name = section
                  \/ on[i - 1] /\ body[i].name \notin Sections
    BY DEF InSection
  <2>2. Stands(body, section, i) <=>
           \/ body[i].name = section
           \/ i > 1 /\ Stands(body, section, i - 1) /\ body[i].name \notin Sections
    BY StandsMoves
  <2>3. i \in 0 .. n /\ (i = 1 \/ (i > 1 /\ i - 1 # 0))
    BY <1>0
  <2>4. CASE i = 1
    BY <2>1, <2>2, <2>3, <2>4
  <2>5. CASE i > 1 /\ i - 1 # 0
    <3>1. on[i - 1] <=> Stands(body, section, i - 1)
      BY <1>2, <2>5
    <3> QED BY <2>1, <2>2, <2>3, <2>5, <3>1
  <2> QED BY <2>3, <2>4, <2>5
<1>3. \A i \in 0 .. n : i \in T
  <2> HIDE DEF T, n
  <2> QED BY <1>0, <1>1, <1>2, CountsUp
<1>4. \A i \in 1 .. n : i \in 0 .. n /\ i # 0
  BY <1>0
<1> QED BY <1>3, <1>4

\* A name is given at most once in a section.
Once(body, section, name) ==
  \A i, j \in DOMAIN body : At(body, section, name, i) /\ At(body, section, name, j) => i = j

\* The text of the one pair of that name.
LEMMA GivenAt ==
  ASSUME NEW body \in Body, NEW section, NEW name, Once(body, section, name),
         NEW k \in DOMAIN body, At(body, section, name, k)
  PROVE  Given(body, section, name) = body[k].text
<1> DEFINE c == CHOOSE i \in DOMAIN body : At(body, section, name, i)
<1>1. \E i \in DOMAIN body : At(body, section, name, i)
  OBVIOUS
<1>2. c \in DOMAIN body /\ At(body, section, name, c)
  BY <1>1, Zenon
<1>3. c = k
  <2> HIDE DEF c
  <2> QED BY <1>2, Zenon DEF Once
<1>4. Given(body, section, name) = body[c].text
  BY <1>1, Zenon DEF Given
<1> HIDE DEF c
<1> QED BY <1>3, <1>4

\* A field that only the pair of that name writes, pair after pair.
Written(body, section, name, v, val, empty) ==
  /\ v[0] = empty
  /\ \A i \in 1 .. Len(body) :
       /\ ~At(body, section, name, i) => v[i] = v[i - 1]
       /\ At(body, section, name, i) /\ v[i - 1] = empty => v[i] = val[i]

\* What becomes of it: the value of that name's pair, or what it was at first.
Taken(body, section, name, v, val, empty) ==
  \/ Given(body, section, name) = <<>> /\ v[Len(body)] = empty
  \/ \E k \in 1 .. Len(body) :
       /\ body[k].name = name
       /\ Given(body, section, name) = body[k].text /\ v[Len(body)] = val[k]

LEMMA FieldTaken ==
  ASSUME NEW body \in Body, NEW section, NEW name, Once(body, section, name),
         NEW v, NEW val, NEW empty, Written(body, section, name, v, val, empty)
  PROVE  Taken(body, section, name, v, val, empty)
<1> DEFINE n == Len(body)
           A == {i \in 1 .. n : At(body, section, name, i)}
<1>0. n \in Nat /\ DOMAIN body = 1 .. n
  BY DEF Body
<1>1. \A i, j \in 1 .. n : i \in A /\ j \in A => i = j
  BY <1>0 DEF Once
<1>2. \A i \in 1 .. n : /\ i \notin A => v[i] = v[i - 1]
                        /\ i \in A /\ v[i - 1] = empty => v[i] = val[i]
  BY DEF Written
<1>3. /\ (\A k \in 1 .. n : k \notin A) => v[n] = empty
      /\ \A k \in 1 .. n : k \in A => v[n] = val[k]
  <2> HIDE DEF A, n
  <2> QED BY <1>0, <1>1, <1>2, WrittenOnce DEF Written
<1>4. CASE \A k \in 1 .. n : k \notin A
  <2>1. ~\E i \in DOMAIN body : At(body, section, name, i)
    BY <1>0, <1>4
  <2>2. Given(body, section, name) = <<>>
    BY <2>1, Zenon DEF Given
  <2> QED BY <1>3, <1>4, <2>2 DEF Taken
<1>5. ASSUME NEW k \in 1 .. n, k \in A
      PROVE  /\ body[k].name = name
             /\ Given(body, section, name) = body[k].text /\ v[n] = val[k]
  <2>1. k \in DOMAIN body /\ At(body, section, name, k)
    BY <1>0, <1>5
  <2>2. Given(body, section, name) = body[k].text
    BY <2>1, GivenAt
  <2>3. body[k].name = name
    BY <2>1 DEF At
  <2> QED BY <1>3, <1>5, <2>2, <2>3
<1>6. CASE \E k \in 1 .. n : k \in A
  <2>1. PICK k \in 1 .. n : k \in A
    BY <1>6
  <2>2. /\ body[k].name = name
        /\ Given(body, section, name) = body[k].text /\ v[n] = val[k]
    BY <1>5, <2>1
  <2> QED BY <2>2, Zenon DEF Taken
<1> QED BY <1>4, <1>6, Zenon

----------------------------------------------------------------------------
(* From empty buffers the setters take what a body gives, section by section. *)

\* What wifi_station_set makes of empty buffers and a body of sections.
LEMMA StationTaken ==
  ASSUME staConf = EmptySta, stored.token \in Text, NEW body \in Body, Sectioned(body),
         NEW flag \in BOOLEAN
  PROVE  \A name \in {"ssid", "password"} :
           SetStation(body, flag).conf[name] = Given(body, "Station", name)
<1> DEFINE n == Len(body)
<1>0. staConf \in StaConf /\ n \in Nat /\ \A i \in 1 .. n : body[i] \in Pairs /\ i - 1 \in 0 .. n
  <2>1. staConf \in StaConf
    BY DEF EmptySta, StaConf, Text
  <2>2. n \in Nat /\ \A i \in 1 .. n : body[i] \in Pairs
    BY BodyPairs
  <2>3. \A i \in 1 .. n : i - 1 \in 0 .. n
    BY <2>2
  <2> QED BY <2>1, <2>2, <2>3
<1>1. PICK g \in [0 .. n -> StaStates] :
        /\ g[0] = [on |-> flag, conf |-> staConf, token |-> stored.token]
        /\ \A i \in 1 .. n : g[i] = StationPair(g[i - 1], body[i])
        /\ SetStation(body, flag) = g[n]
  BY <1>0, StationRead
<1>2. \A i \in 1 .. n : g[i - 1] \in StaStates /\ g[i - 1].conf.ssid \in Text
                        /\ g[i - 1].conf.password \in Text /\ body[i].text \in Text
  BY <1>0, <1>1 DEF StaStates, StaConf, Pairs
<1>3. \A i \in 1 .. n :
        LET at == InSection("Station", g[i - 1].on, body[i])
        IN  /\ g[i].on <=> at
            /\ ~(at /\ body[i].name = "ssid") => g[i].conf.ssid = g[i - 1].conf.ssid
            /\ at /\ body[i].name = "ssid" =>
                 g[i].conf.ssid = Memcpy(g[i - 1].conf.ssid, body[i].text)
            /\ ~(at /\ body[i].name = "password") => g[i].conf.password = g[i - 1].conf.password
            /\ at /\ body[i].name = "password" =>
                 g[i].conf.password = Memcpy(g[i - 1].conf.password, body[i].text)
  BY <1>0, <1>1, <1>2, StationPairEffect
<1>4. \A i \in 1 .. n : g[i].on <=> Stands(body, "Station", i)
  <2> DEFINE on == [i \in 0 .. n |-> g[i].on]
  <2>1. \A i \in 1 .. n : on[i] = g[i].on /\ on[i - 1] = g[i - 1].on
    BY <1>0
  <2> HIDE DEF on
  <2>2. \A i \in 1 .. n : on[i] <=> InSection("Station", on[i - 1], body[i])
    BY <1>3, <2>1
  <2>3. "Station" \in Sections /\ body[1].name \in Sections
    BY DEF Sections, Sectioned
  <2>4. \A i \in 1 .. n : on[i] <=> Stands(body, "Station", i)
    BY <2>2, <2>3, FlagStands
  <2> QED BY <2>1, <2>4
<1>5. \A i \in 1 .. n : \A name :
        InSection("Station", g[i - 1].on, body[i]) /\ body[i].name = name
          <=> At(body, "Station", name, i)
  BY <1>3, <1>4 DEF At
<1>6. g[0].conf.ssid = <<>> /\ g[0].conf.password = <<>>
  BY <1>1 DEF EmptySta
<1>7. Once(body, "Station", "ssid") /\ Once(body, "Station", "password")
  BY DEF Sectioned, Once, Sections
<1> DEFINE val == [i \in 1 .. n |-> body[i].text]
<1>8. \A i \in 1 .. n : val[i] = body[i].text
  OBVIOUS
<1> HIDE DEF val
<1>9. g[n].conf.ssid = Given(body, "Station", "ssid")
  <2> DEFINE v == [i \in 0 .. n |-> g[i].conf.ssid]
  <2>1. v[0] = g[0].conf.ssid /\ v[n] = g[n].conf.ssid
        /\ \A i \in 1 .. n : v[i] = g[i].conf.ssid /\ v[i - 1] = g[i - 1].conf.ssid
    BY <1>0
  <2> HIDE DEF v
  <2>2. ASSUME NEW i \in 1 .. n
        PROVE  /\ ~At(body, "Station", "ssid", i) => v[i] = v[i - 1]
               /\ At(body, "Station", "ssid", i) /\ v[i - 1] = <<>> => v[i] = val[i]
    <3>1. g[i - 1].conf.ssid = <<>> => Memcpy(g[i - 1].conf.ssid, body[i].text) = body[i].text
      BY <1>2, Copied
    <3>2. /\ ~At(body, "Station", "ssid", i) => g[i].conf.ssid = g[i - 1].conf.ssid
          /\ At(body, "Station", "ssid", i) =>
               g[i].conf.ssid = Memcpy(g[i - 1].conf.ssid, body[i].text)
      BY <1>3, <1>5, Zenon
    <3> QED BY <1>8, <2>1, <3>1, <3>2
  <2>3. Written(body, "Station", "ssid", v, val, <<>>)
    BY <1>6, <2>1, <2>2 DEF Written
  <2>4. Taken(body, "Station", "ssid", v, val, <<>>)
    BY <1>7, <2>3, FieldTaken, Zenon
  <2> QED BY <1>8, <2>1, <2>4 DEF Taken
<1>10. g[n].conf.password = Given(body, "Station", "password")
  <2> DEFINE v == [i \in 0 .. n |-> g[i].conf.password]
  <2>1. v[0] = g[0].conf.password /\ v[n] = g[n].conf.password
        /\ \A i \in 1 .. n : v[i] = g[i].conf.password /\ v[i - 1] = g[i - 1].conf.password
    BY <1>0
  <2> HIDE DEF v
  <2>2. ASSUME NEW i \in 1 .. n
        PROVE  /\ ~At(body, "Station", "password", i) => v[i] = v[i - 1]
               /\ At(body, "Station", "password", i) /\ v[i - 1] = <<>> => v[i] = val[i]
    <3>1. g[i - 1].conf.password = <<>> => Memcpy(g[i - 1].conf.password, body[i].text) = body[i].text
      BY <1>2, Copied
    <3>2. /\ ~At(body, "Station", "password", i) => g[i].conf.password = g[i - 1].conf.password
          /\ At(body, "Station", "password", i) =>
               g[i].conf.password = Memcpy(g[i - 1].conf.password, body[i].text)
      BY <1>3, <1>5, Zenon
    <3> QED BY <1>8, <2>1, <3>1, <3>2
  <2>3. Written(body, "Station", "password", v, val, <<>>)
    BY <1>6, <2>1, <2>2 DEF Written
  <2>4. Taken(body, "Station", "password", v, val, <<>>)
    BY <1>7, <2>3, FieldTaken, Zenon
  <2> QED BY <1>8, <2>1, <2>4 DEF Taken
<1> QED BY <1>1, <1>9, <1>10

LEMMA TextsGiven ==
  ASSUME NEW text
  PROVE  (IsAuth(text) => text # <<>>) /\ (IsNumber(text) => text # <<>>)
<1>1. \A x : <<x>> # <<>>
  OBVIOUS
<1>2. IsAuth(text) => text # <<>>
  <2> SUFFICES ASSUME NEW x, text = <<x>> PROVE text # <<>>
    BY Zenon DEF IsAuth
  <2> QED BY <1>1
<1>3. IsNumber(text) => text # <<>>
  <2> SUFFICES ASSUME NEW x, text = <<x>> PROVE text # <<>>
    BY Zenon DEF IsNumber, Digits
  <2> QED BY <1>1
<1> QED BY <1>2, <1>3

\* What wifi_softap_set makes of an empty buffer and a body of sections.
LEMMA SoftapTaken ==
  ASSUME apConf = EmptyAp, NEW body \in Body, Sectioned(body), NEW flag \in BOOLEAN
  PROVE  LET c == SetSoftap(body, flag)
             mode == Given(body, "Softap", "authmode")
             channel == Given(body, "Softap", "channel")
         IN  /\ c.ssid = Given(body, "Softap", "ssid")
             /\ c.password = Given(body, "Softap", "password")
             /\ c.authmode = IF mode = <<>> THEN "AUTH_OPEN" ELSE AuthOf(mode)
             /\ c.channel = IF channel = <<>> THEN 0 ELSE IntOf(channel)
<1> DEFINE n == Len(body)
<1>0. apConf \in ApConf /\ n \in Nat /\ \A i \in 1 .. n : body[i] \in Pairs /\ i - 1 \in 0 .. n
  <2>1. apConf \in ApConf
    BY DEF EmptyAp, ApConf, Text, SoftapAuth, Channels
  <2>2. n \in Nat /\ \A i \in 1 .. n : body[i] \in Pairs
    BY BodyPairs
  <2>3. \A i \in 1 .. n : i - 1 \in 0 .. n
    BY <2>2
  <2> QED BY <2>1, <2>2, <2>3
<1>1. PICK g \in [0 .. n -> ApStates] :
        /\ g[0] = [on |-> flag, done |-> FALSE, conf |-> apConf]
        /\ \A i \in 1 .. n : g[i] = SoftapPair(g[i - 1], body[i])
        /\ SetSoftap(body, flag) = g[n].conf
  BY <1>0, SoftapRead
<1>2. \A i \in 1 .. n : g[i - 1] \in ApStates /\ g[i - 1].conf.ssid \in Text
                        /\ g[i - 1].conf.password \in Text /\ body[i].text \in Text
  BY <1>0, <1>1 DEF ApStates, ApConf, Pairs
<1>3. \A i \in 1 .. n : /\ body[i].name = "authmode" => IsAuth(body[i].text)
                        /\ body[i].name = "channel" => IsNumber(body[i].text)
  <2>1. DOMAIN body = 1 .. n
    BY DEF Body
  <2> QED BY <2>1, Zenon DEF Sectioned
<1>4. \A i \in 0 .. n : ~g[i].done
  <2> DEFINE T == {i \in 0 .. n : ~g[i].done}
  <2>1. 0 \in T
    BY <1>0, <1>1
  <2>2. ASSUME NEW i \in 1 .. n, i - 1 \in T PROVE i \in T
    <3>1. ~g[i - 1].done /\ i \in 0 .. n
      BY <1>0, <2>2
    <3>2. ~g[i].done
      BY <1>0, <1>1, <1>2, <1>3, <3>1, SoftapPairEffect
    <3> QED BY <3>1, <3>2
  <2> HIDE DEF T
  <2>3. \A i \in 0 .. n : i \in T
    BY <1>0, <2>1, <2>2, CountsUp
  <2> QED BY <2>3 DEF T
<1>5. ASSUME NEW i \in 1 .. n
      PROVE
        LET at == InSection("Softap", g[i - 1].on, body[i])
        IN  /\ g[i].on <=> at
            /\ ~(at /\ body[i].name = "ssid") => g[i].conf.ssid = g[i - 1].conf.ssid
            /\ at /\ body[i].name = "ssid" =>
                 g[i].conf.ssid = Memcpy(g[i - 1].conf.ssid, body[i].text)
            /\ ~(at /\ body[i].name = "password") => g[i].conf.password = g[i - 1].conf.password
            /\ at /\ body[i].name = "password" =>
                 g[i].conf.password = Memcpy(g[i - 1].conf.password, body[i].text)
            /\ ~(at /\ body[i].name = "authmode") => g[i].conf.authmode = g[i - 1].conf.authmode
            /\ at /\ body[i].name = "authmode" => g[i].conf.authmode = AuthOf(body[i].text)
            /\ ~(at /\ body[i].name = "channel") => g[i].conf.channel = g[i - 1].conf.channel
            /\ at /\ body[i].name = "channel" => g[i].conf.channel = IntOf(body[i].text)
  <2>1. ~g[i - 1].done
    BY <1>0, <1>4
  <2>2. g[i - 1] \in ApStates /\ body[i] \in Pairs /\ g[i] = SoftapPair(g[i - 1], body[i])
        /\ (body[i].name = "authmode" => IsAuth(body[i].text))
    BY <1>0, <1>1, <1>2, <1>3
  <2> QED BY <2>1, <2>2, SoftapPairEffect
<1>6. \A i \in 1 .. n : g[i].on <=> Stands(body, "Softap", i)
  <2> DEFINE on == [i \in 0 .. n |-> g[i].on]
  <2>1. \A i \in 1 .. n : on[i] = g[i].on /\ on[i - 1] = g[i - 1].on
    BY <1>0
  <2> HIDE DEF on
  <2>2. \A i \in 1 .. n : on[i] <=> InSection("Softap", on[i - 1], body[i])
    BY <1>5, <2>1
  <2>3. "Softap" \in Sections /\ body[1].name \in Sections
    BY DEF Sections, Sectioned
  <2>4. \A i \in 1 .. n : on[i] <=> Stands(body, "Softap", i)
    BY <2>2, <2>3, FlagStands
  <2> QED BY <2>1, <2>4
<1>7. \A i \in 1 .. n : \A name :
        InSection("Softap", g[i - 1].on, body[i]) /\ body[i].name = name
          <=> At(body, "Softap", name, i)
  BY <1>5, <1>6 DEF At
<1>8. /\ g[0].conf.ssid = <<>> /\ g[0].conf.password = <<>>
      /\ g[0].conf.authmode = "AUTH_OPEN" /\ g[0].conf.channel = 0
  BY <1>1 DEF EmptyAp
<1>9. /\ Once(body, "Softap", "ssid") /\ Once(body, "Softap", "password")
      /\ Once(body, "Softap", "authmode") /\ Once(body, "Softap", "channel")
  BY DEF Sectioned, Once, Sections
<1> DEFINE val == [i \in 1 .. n |-> body[i].text]
<1>10. \A i \in 1 .. n : val[i] = body[i].text
  OBVIOUS
<1> HIDE DEF val
<1>11. g[n].conf.ssid = Given(body, "Softap", "ssid")
  <2> DEFINE v == [i \in 0 .. n |-> g[i].conf.ssid]
  <2>1. v[0] = g[0].conf.ssid /\ v[n] = g[n].conf.ssid
        /\ \A i \in 1 .. n : v[i] = g[i].conf.ssid /\ v[i - 1] = g[i - 1].conf.ssid
    BY <1>0
  <2> HIDE DEF v
  <2>2. ASSUME NEW i \in 1 .. n
        PROVE  /\ ~At(body, "Softap", "ssid", i) => v[i] = v[i - 1]
               /\ At(body, "Softap", "ssid", i) /\ v[i - 1] = <<>> => v[i] = val[i]
    <3>1. g[i - 1].conf.ssid = <<>> => Memcpy(g[i - 1].conf.ssid, body[i].text) = body[i].text
      BY <1>2, Copied
    <3>2. /\ ~At(body, "Softap", "ssid", i) => g[i].conf.ssid = g[i - 1].conf.ssid
          /\ At(body, "Softap", "ssid", i) =>
               g[i].conf.ssid = Memcpy(g[i - 1].conf.ssid, body[i].text)
      BY <1>5, <1>7, Zenon
    <3> QED BY <1>10, <2>1, <3>1, <3>2
  <2>3. Written(body, "Softap", "ssid", v, val, <<>>)
    BY <1>8, <2>1, <2>2 DEF Written
  <2>4. Taken(body, "Softap", "ssid", v, val, <<>>)
    BY <1>9, <2>3, FieldTaken, Zenon
  <2> QED BY <1>10, <2>1, <2>4 DEF Taken
<1>12. g[n].conf.password = Given(body, "Softap", "password")
  <2> DEFINE v == [i \in 0 .. n |-> g[i].conf.password]
  <2>1. v[0] = g[0].conf.password /\ v[n] = g[n].conf.password
        /\ \A i \in 1 .. n : v[i] = g[i].conf.password /\ v[i - 1] = g[i - 1].conf.password
    BY <1>0
  <2> HIDE DEF v
  <2>2. ASSUME NEW i \in 1 .. n
        PROVE  /\ ~At(body, "Softap", "password", i) => v[i] = v[i - 1]
               /\ At(body, "Softap", "password", i) /\ v[i - 1] = <<>> => v[i] = val[i]
    <3>1. g[i - 1].conf.password = <<>> => Memcpy(g[i - 1].conf.password, body[i].text) = body[i].text
      BY <1>2, Copied
    <3>2. /\ ~At(body, "Softap", "password", i) => g[i].conf.password = g[i - 1].conf.password
          /\ At(body, "Softap", "password", i) =>
               g[i].conf.password = Memcpy(g[i - 1].conf.password, body[i].text)
      BY <1>5, <1>7, Zenon
    <3> QED BY <1>10, <2>1, <3>1, <3>2
  <2>3. Written(body, "Softap", "password", v, val, <<>>)
    BY <1>8, <2>1, <2>2 DEF Written
  <2>4. Taken(body, "Softap", "password", v, val, <<>>)
    BY <1>9, <2>3, FieldTaken, Zenon
  <2> QED BY <1>10, <2>1, <2>4 DEF Taken
<1>13. g[n].conf.authmode = IF Given(body, "Softap", "authmode") = <<>> THEN "AUTH_OPEN"
                          ELSE AuthOf(Given(body, "Softap", "authmode"))
  <2> DEFINE v == [i \in 0 .. n |-> g[i].conf.authmode]
             read == [i \in 1 .. n |-> AuthOf(body[i].text)]
  <2>1. v[0] = g[0].conf.authmode /\ v[n] = g[n].conf.authmode
        /\ \A i \in 1 .. n : v[i] = g[i].conf.authmode /\ v[i - 1] = g[i - 1].conf.authmode
    BY <1>0
  <2>2. \A i \in 1 .. n : read[i] = AuthOf(body[i].text)
    OBVIOUS
  <2> HIDE DEF v, read
  <2>3. ASSUME NEW i \in 1 .. n
        PROVE  /\ ~At(body, "Softap", "authmode", i) => v[i] = v[i - 1]
               /\ At(body, "Softap", "authmode", i) /\ v[i - 1] = "AUTH_OPEN" => v[i] = read[i]
    <3>1. /\ ~At(body, "Softap", "authmode", i) => g[i].conf.authmode = g[i - 1].conf.authmode
          /\ At(body, "Softap", "authmode", i) => g[i].conf.authmode = AuthOf(body[i].text)
      BY <1>5, <1>7, Zenon
    <3> QED BY <2>1, <2>2, <3>1
  <2>4. Written(body, "Softap", "authmode", v, read, "AUTH_OPEN")
    BY <1>8, <2>1, <2>3 DEF Written
  <2>5. Taken(body, "Softap", "authmode", v, read, "AUTH_OPEN")
    BY <1>9, <2>4, FieldTaken, Zenon
  <2>6. \A i \in 1 .. n : body[i].name = "authmode" => body[i].text # <<>>
    BY <1>3, TextsGiven, Zenon
  <2> QED BY <2>1, <2>2, <2>5, <2>6 DEF Taken
<1>14. g[n].conf.channel = IF Given(body, "Softap", "channel") = <<>> THEN 0
                          ELSE IntOf(Given(body, "Softap", "channel"))
  <2> DEFINE v == [i \in 0 .. n |-> g[i].conf.channel]
             read == [i \in 1 .. n |-> IntOf(body[i].text)]
  <2>1. v[0] = g[0].conf.channel /\ v[n] = g[n].conf.channel
        /\ \A i \in 1 .. n : v[i] = g[i].conf.channel /\ v[i - 1] = g[i - 1].conf.channel
    BY <1>0
  <2>2. \A i \in 1 .. n : read[i] = IntOf(body[i].text)
    OBVIOUS
  <2> HIDE DEF v, read
  <2>3. ASSUME NEW i \in 1 .. n
        PROVE  /\ ~At(body, "Softap", "channel", i) => v[i] = v[i - 1]
               /\ At(body, "Softap", "channel", i) /\ v[i - 1] = 0 => v[i] = read[i]
    <3>1. /\ ~At(body, "Softap", "channel", i) => g[i].conf.channel = g[i - 1].conf.channel
          /\ At(body, "Softap", "channel", i) => g[i].conf.channel = IntOf(body[i].text)
      BY <1>5, <1>7, Zenon
    <3> QED BY <2>1, <2>2, <3>1
  <2>4. Written(body, "Softap", "channel", v, read, 0)
    BY <1>8, <2>1, <2>3 DEF Written
  <2>5. Taken(body, "Softap", "channel", v, read, 0)
    BY <1>9, <2>4, FieldTaken, Zenon
  <2>6. \A i \in 1 .. n : body[i].name = "channel" => body[i].text # <<>>
    BY <1>3, TextsGiven, Zenon
  <2> QED BY <2>1, <2>2, <2>5, <2>6 DEF Taken
<1> QED BY <1>1, <1>11, <1>12, <1>13, <1>14

----------------------------------------------------------------------------
(* What a configuration leaves in the buffers.                               *)

Stored == [sta : StaConf, ap : ApConf, token : Text]

SettingsTypeOK ==
  /\ staConf \in StaConf /\ apConf \in ApConf /\ stored \in Stored
  /\ posted \in [body : Body, count : Nat]

\* Between two configurations the buffers are as os_zalloc gives them.
BuffersEmpty == posted.count = 0 => staConf = EmptySta /\ apConf = EmptyAp

\* What one request left in them is what it gave.
BuffersRead == posted.count = 1 /\ Sectioned(posted.body) => ReadExactly(posted.body)

SettingsInv == SettingsTypeOK /\ BuffersEmpty /\ BuffersRead

(* What the module reports of itself, read back.                             *)

LEMMA NamesTellApart ==
  /\ \A m \in SoftapAuth : IsAuth(<<AuthName[m]>>) /\ AuthOf(<<AuthName[m]>>) = m
  /\ \A n \in Channels : IsNumber(Digits(n)) /\ IntOf(Digits(n)) = n
<1>1. ASSUME NEW m \in SoftapAuth PROVE IsAuth(<<AuthName[m]>>) /\ AuthOf(<<AuthName[m]>>) = m
  <2> DEFINE text == <<AuthName[m]>>
  <2>1. IsAuth(text)
    BY Zenon DEF IsAuth
  <2>2. AuthOf(text) \in SoftapAuth /\ text = <<AuthName[AuthOf(text)]>>
    <3>1. \E k \in SoftapAuth : text = <<AuthName[k]>>
      BY <2>1, Zenon DEF IsAuth
    <3> HIDE DEF text
    <3> QED BY <3>1, Zenon DEF AuthOf
  <2>3. ASSUME NEW k \in SoftapAuth, <<AuthName[m]>> = <<AuthName[k]>> PROVE k = m
    <3>1. AuthName[m] = AuthName[k]
      BY <2>3
    <3> QED BY <3>1 DEF SoftapAuth, AuthName
  <2> QED BY <2>1, <2>2, <2>3, Zenon
<1>2. ASSUME NEW n \in Channels PROVE IsNumber(Digits(n)) /\ IntOf(Digits(n)) = n
  <2> DEFINE text == Digits(n)
             c == CHOOSE k \in Channels : text = Digits(k)
  <2>1. IsNumber(text)
    BY Zenon DEF IsNumber
  <2>2. c \in Channels /\ text = Digits(c)
    <3>1. \E k \in Channels : text = Digits(k)
      BY <2>1, Zenon DEF IsNumber
    <3> HIDE DEF text
    <3> QED BY <3>1, Zenon
  <2>3. ASSUME NEW k \in Channels, Digits(n) = Digits(k) PROVE k = n
    <3>1. Decimal[n + 1] = Decimal[k + 1]
      BY <2>3 DEF Digits
    <3> QED BY <3>1 DEF Channels, Decimal
  <2>4. IntOf(text) = c
    BY <2>1, Zenon DEF IntOf
  <2> HIDE DEF c
  <2> QED BY <2>1, <2>2, <2>3, <2>4, Zenon
<1> QED BY <1>1, <1>2

LEMMA ReportRead ==
  ASSUME stored \in Stored
  PROVE  LET body == Report(stored)
         IN  /\ body \in Body
             /\ Sectioned(body) =>
                  /\ Given(body, "Station", "ssid") = stored.sta.ssid
                  /\ Given(body, "Station", "password") = stored.sta.password
                  /\ Given(body, "Softap", "authmode") = <<AuthName[stored.ap.authmode]>>
                  /\ Given(body, "Softap", "channel") = Digits(stored.ap.channel)
                  /\ Given(body, "Softap", "ssid") = stored.ap.ssid
                  /\ Given(body, "Softap", "password") = stored.ap.password
<1>1. /\ stored.sta.ssid \in Text /\ stored.sta.password \in Text
      /\ stored.ap.ssid \in Text /\ stored.ap.password \in Text
      /\ stored.ap.authmode \in SoftapAuth /\ stored.ap.channel \in Channels
  BY DEF Stored, StaConf, ApConf
<1>2. <<>> \in Text /\ <<AuthName[stored.ap.authmode]>> \in Text /\ Digits(stored.ap.channel) \in Text
  <2>1. AuthName[stored.ap.authmode] \in Pieces
    BY <1>1, PiecesOK
  <2>2. Decimal[stored.ap.channel + 1] \in Pieces
    BY <1>1, PiecesOK
  <2> QED BY <2>1, <2>2 DEF Text, Digits
<1>3. \A name \in Names, text \in Text :
        /\ Pair(name, text) \in Pairs
        /\ Pair(name, text).name = name /\ Pair(name, text).text = text
  BY DEF Pair, Pairs
<1> DEFINE body == Report(stored)
<1>4. PICK mode \in Text : mode = <<AuthName[stored.ap.authmode]>>
  BY <1>2
<1>5. PICK channel \in Text : channel = Digits(stored.ap.channel)
  BY <1>2
<1>6. body = <<Pair("Station", <<>>), Pair("ssid", stored.sta.ssid),
               Pair("password", stored.sta.password),
               Pair("Softap", <<>>), Pair("authmode", mode), Pair("channel", channel),
               Pair("ssid", stored.ap.ssid), Pair("password", stored.ap.password)>>
  BY <1>4, <1>5 DEF Report
<1> HIDE DEF body
<1>7. body \in Body /\ DOMAIN body = 1 .. 8 /\ Len(body) = 8
  BY <1>1, <1>2, <1>3, <1>6 DEF Body, Names
<1>8. /\ body[1].name = "Station"
      /\ body[2].name = "ssid" /\ body[2].text = stored.sta.ssid
      /\ body[3].name = "password" /\ body[3].text = stored.sta.password
      /\ body[4].name = "Softap"
      /\ body[5].name = "authmode" /\ body[5].text = mode
      /\ body[6].name = "channel" /\ body[6].text = channel
      /\ body[7].name = "ssid" /\ body[7].text = stored.ap.ssid
      /\ body[8].name = "password" /\ body[8].text = stored.ap.password
  BY <1>1, <1>2, <1>3, <1>6 DEF Names
<1>9. /\ Stands(body, "Station", 2) /\ Stands(body, "Station", 3)
      /\ Stands(body, "Softap", 5) /\ Stands(body, "Softap", 6)
      /\ Stands(body, "Softap", 7) /\ Stands(body, "Softap", 8)
  <2>1. \A k \in 2 .. 3 : body[k].name \notin Sections
    <3>1. \A k \in 2 .. 3 : k = 2 \/ k = 3
      OBVIOUS
    <3> QED BY <1>8, <3>1 DEF Sections
  <2>2. \A k \in 5 .. 8 : body[k].name \notin Sections
    <3>1. \A k \in 5 .. 8 : k = 5 \/ k = 6 \/ k = 7 \/ k = 8
      OBVIOUS
    <3> QED BY <1>8, <3>1 DEF Sections
  <2>3. ASSUME NEW i \in 2 .. 3 PROVE Stands(body, "Station", i)
    <3>1. 1 \in 1 .. i /\ \A k \in 1 + 1 .. i : k \in 2 .. 3
      OBVIOUS
    <3> QED BY <1>8, <2>1, <3>1 DEF Stands
  <2>4. ASSUME NEW i \in 5 .. 8 PROVE Stands(body, "Softap", i)
    <3>1. 4 \in 1 .. i /\ \A k \in 4 + 1 .. i : k \in 5 .. 8
      OBVIOUS
    <3> QED BY <1>8, <2>2, <3>1 DEF Stands
  <2> QED BY <2>3, <2>4
<1>10. ASSUME Sectioned(body)
       PROVE  /\ Given(body, "Station", "ssid") = stored.sta.ssid
              /\ Given(body, "Station", "password") = stored.sta.password
              /\ Given(body, "Softap", "authmode") = mode
              /\ Given(body, "Softap", "channel") = channel
              /\ Given(body, "Softap", "ssid") = stored.ap.ssid
              /\ Given(body, "Softap", "password") = stored.ap.password
  <2>1. \A section \in Sections, name \in {"ssid", "password", "authmode", "channel"} :
          Once(body, section, name)
    BY <1>10 DEF Sectioned, Once
  <2>2. /\ Once(body, "Station", "ssid") /\ Once(body, "Station", "password")
        /\ Once(body, "Softap", "authmode") /\ Once(body, "Softap", "channel")
        /\ Once(body, "Softap", "ssid") /\ Once(body, "Softap", "password")
    BY <2>1 DEF Sections
  <2>3. /\ At(body, "Station", "ssid", 2) /\ At(body, "Station", "password", 3)
        /\ At(body, "Softap", "authmode", 5) /\ At(body, "Softap", "channel", 6)
        /\ At(body, "Softap", "ssid", 7) /\ At(body, "Softap", "password", 8)
    BY <1>8, <1>9 DEF At
  <2>4. /\ 2 \in DOMAIN body /\ 3 \in DOMAIN body /\ 5 \in DOMAIN body
        /\ 6 \in DOMAIN body /\ 7 \in DOMAIN body /\ 8 \in DOMAIN body
    BY <1>7
  <2>5. Given(body, "Station", "ssid") = body[2].text
    BY <1>7, <2>2, <2>3, <2>4, GivenAt, Zenon
  <2>6. Given(body, "Station", "password") = body[3].text
    BY <1>7, <2>2, <2>3, <2>4, GivenAt, Zenon
  <2>7. Given(body, "Softap", "authmode") = body[5].text
    BY <1>7, <2>2, <2>3, <2>4, GivenAt, Zenon
  <2>8. Given(body, "Softap", "channel") = body[6].text
    BY <1>7, <2>2, <2>3, <2>4, GivenAt, Zenon
  <2>9. Given(body, "Softap", "ssid") = body[7].text
    BY <1>7, <2>2, <2>3, <2>4, GivenAt, Zenon
  <2>10. Given(body, "Softap", "password") = body[8].text
    BY <1>7, <2>2, <2>3, <2>4, GivenAt, Zenon
  <2> QED BY <1>8, <2>5, <2>6, <2>7, <2>8, <2>9, <2>10
<1> QED BY <1>4, <1>5, <1>7, <1>10 DEF body

LEMMA ReportChangesNothing ==
  ASSUME SettingsTypeOK, Sectioned(Report(stored)), ReadExactly(Report(stored))
  PROVE  Applied = stored
<1> DEFINE body == Report(stored)
<1>1. /\ Given(body, "Station", "ssid") = stored.sta.ssid
      /\ Given(body, "Station", "password") = stored.sta.password
      /\ Given(body, "Softap", "authmode") = <<AuthName[stored.ap.authmode]>>
      /\ Given(body, "Softap", "channel") = Digits(stored.ap.channel)
      /\ Given(body, "Softap", "ssid") = stored.ap.ssid
      /\ Given(body, "Softap", "password") = stored.ap.password
  BY ReportRead DEF SettingsTypeOK
<1>2. stored.ap.authmode \in SoftapAuth /\ stored.ap.channel \in Channels
  BY DEF SettingsTypeOK, Stored, ApConf
<1>3. /\ IsAuth(<<AuthName[stored.ap.authmode]>>) /\ IsNumber(Digits(stored.ap.channel))
      /\ AuthOf(<<AuthName[stored.ap.authmode]>>) = stored.ap.authmode
      /\ IntOf(Digits(stored.ap.channel)) = stored.ap.channel
  BY <1>2, NamesTellApart
<1>4. <<AuthName[stored.ap.authmode]>> # <<>> /\ Digits(stored.ap.channel) # <<>>
  BY <1>3, TextsGiven
<1> HIDE DEF body
<1>5. /\ staConf.ssid = stored.sta.ssid /\ staConf.password = stored.sta.password
      /\ apConf.ssid = stored.ap.ssid /\ apConf.password = stored.ap.password
      /\ apConf.authmode = stored.ap.authmode /\ apConf.channel = stored.ap.channel
  <2>1. ReadExactly(body)
    BY DEF body
  <2> QED BY <1>1, <1>3, <1>4, <2>1 DEF ReadExactly
<1>6. staConf = stored.sta /\ apConf = stored.ap
  BY <1>5 DEF SettingsTypeOK, Stored, StaConf, ApConf
<1> QED BY <1>6 DEF Applied, SettingsTypeOK, Stored

----------------------------------------------------------------------------
(* No request, timer, scan or restart breaks it.                            *)

LEMMA EmptyTyped ==
  EmptySta \in StaConf /\ EmptyAp \in ApConf /\ NoPost \in [body : Body, count : Nat]
  /\ NoPost.count = 0
BY DEF EmptySta, EmptyAp, NoPost, StaConf, ApConf, Body, Text, SoftapAuth, Channels

LEMMA SettingsInitInductive == SettingsInit => SettingsInv
<1> SUFFICES ASSUME SettingsInit PROVE SettingsInv
  OBVIOUS
<1>1. posted.count = 0 /\ posted.count # 1
  BY EmptyTyped DEF SettingsInit
<1>2. stored \in Stored
  BY EmptyTyped, WebSettingsOK DEF SettingsInit, Stored, Text
<1>3. SettingsTypeOK
  BY EmptyTyped, <1>2 DEF SettingsInit, SettingsTypeOK
<1> QED BY <1>1, <1>3 DEF SettingsInit, SettingsInv, BuffersEmpty, BuffersRead

LEMMA FreedInductive ==
  ASSUME Freed, stored' \in Stored
  PROVE  SettingsInv'
<1>1. posted'.count = 0 /\ posted'.count # 1
  BY EmptyTyped DEF Freed
<1>2. SettingsTypeOK'
  BY EmptyTyped DEF Freed, SettingsTypeOK
<1> QED BY <1>1, <1>2 DEF Freed, SettingsInv, BuffersEmpty, BuffersRead

LEMMA SettingsUntouched == SettingsInv /\ UNCHANGED settingsVars => SettingsInv'
<1> SUFFICES ASSUME SettingsInv, UNCHANGED settingsVars PROVE SettingsInv'
  OBVIOUS
<1>1. /\ staConf' = staConf /\ apConf' = apConf /\ stored' = stored /\ posted' = posted
  BY DEF settingsVars
<1>2. SettingsTypeOK' /\ BuffersEmpty'
  BY <1>1 DEF SettingsInv, SettingsTypeOK, BuffersEmpty
<1>3. BuffersRead'
  BY <1>1 DEF SettingsInv, BuffersRead, ReadExactly
<1> QED BY <1>2, <1>3 DEF SettingsInv

LEMMA AppliedTyped == SettingsTypeOK => Applied \in Stored
BY DEF SettingsTypeOK, Applied, Stored

\* What the setters return is of the types of the buffers.
LEMMA ReadTyped ==
  ASSUME SettingsTypeOK, NEW body \in Body, NEW f \in BOOLEAN, NEW g \in BOOLEAN
  PROVE  SetStation(body, f) \in StaStates /\ SetSoftap(body, g) \in ApConf
<1>1. staConf \in StaConf /\ stored.token \in Text /\ apConf \in ApConf /\ Len(body) \in 0 .. Len(body)
  BY BodyPairs DEF SettingsTypeOK, Stored
<1>2. SetStation(body, f) \in StaStates
  <2>1. PICK h \in [0 .. Len(body) -> StaStates] : SetStation(body, f) = h[Len(body)]
    BY <1>1, StationRead
  <2> QED BY <1>1, <2>1
<1>3. SetSoftap(body, g) \in ApConf
  <2>1. PICK h \in [0 .. Len(body) -> ApStates] : SetSoftap(body, g) = h[Len(body)].conf
    BY <1>1, SoftapRead
  <2>2. h[Len(body)] \in ApStates
    BY <1>1, <2>1
  <2> QED BY <2>1, <2>2 DEF ApStates
<1> QED BY <1>2, <1>3

LEMMA PostSettingsInductive ==
  ASSUME SettingsInv, NEW body \in Bodies \cup {Report(stored)},
         NEW f \in BOOLEAN, NEW g \in BOOLEAN, PostSettings(body, f, g)
  PROVE  SettingsInv'
<1> DEFINE s == SetStation(body, f)
           a == SetSoftap(body, g)
<1>1. body \in Body /\ SettingsTypeOK
  BY ReportRead, WebSettingsOK DEF SettingsInv, SettingsTypeOK
<1>2. s \in StaStates /\ a \in ApConf
  BY <1>1, ReadTyped
<1>3. s.conf \in StaConf /\ s.token \in Text
  BY <1>2 DEF StaStates
<1>4. stored' = [stored EXCEPT !.token = s.token]
  BY DEF PostSettings
<1>5. stored' \in Stored
  BY <1>1, <1>3, <1>4 DEF SettingsTypeOK, Stored
<1>6. \/ Freed
      \/ /\ staConf' = s.conf /\ apConf' = a
         /\ posted' = [body |-> body, count |-> posted.count + 1]
  BY DEF PostSettings
<1>7. CASE Freed
  BY <1>5, <1>7, FreedInductive
<1>8. CASE /\ staConf' = s.conf /\ apConf' = a
           /\ posted' = [body |-> body, count |-> posted.count + 1]
  <2>1. posted.count \in Nat /\ posted'.count = posted.count + 1 /\ posted'.body = body
    BY <1>1, <1>8 DEF SettingsTypeOK
  <2>2. SettingsTypeOK'
    <3>1. posted' \in [body : Body, count : Nat]
      BY <1>1, <1>8, <2>1
    <3> QED BY <1>2, <1>3, <1>5, <1>8, <3>1 DEF SettingsTypeOK
  <2>3. BuffersEmpty'
    BY <2>1 DEF BuffersEmpty
  <2>4. ASSUME posted'.count = 1, Sectioned(body)
        PROVE  ReadExactly(body)'
    <3>1. posted.count = 0
      BY <2>1, <2>4
    <3>2. staConf = EmptySta /\ apConf = EmptyAp /\ stored.token \in Text
      BY <1>1, <3>1 DEF SettingsInv, BuffersEmpty, SettingsTypeOK, Stored
    <3>3. \A name \in {"ssid", "password"} : s.conf[name] = Given(body, "Station", name)
      BY <1>1, <2>4, <3>2, StationTaken
    <3>4. LET mode == Given(body, "Softap", "authmode")
              channel == Given(body, "Softap", "channel")
          IN  /\ a.ssid = Given(body, "Softap", "ssid")
              /\ a.password = Given(body, "Softap", "password")
              /\ a.authmode = IF mode = <<>> THEN "AUTH_OPEN" ELSE AuthOf(mode)
              /\ a.channel = IF channel = <<>> THEN 0 ELSE IntOf(channel)
      BY <1>1, <2>4, <3>2, SoftapTaken
    <3> HIDE DEF s, a
    <3> QED BY <1>8, <3>3, <3>4 DEF ReadExactly
  <2>5. BuffersRead'
    BY <2>1, <2>4 DEF BuffersRead
  <2> QED BY <2>2, <2>3, <2>5 DEF SettingsInv
<1> QED BY <1>6, <1>7, <1>8

LEMMA SettingsStepInductive ==
  SettingsInv /\ [SettingsNext]_<<vars, settingsVars>> => SettingsInv'
<1> SUFFICES ASSUME SettingsInv, [SettingsNext]_<<vars, settingsVars>> PROVE SettingsInv'
  OBVIOUS
<1>0. stored \in Stored
  BY DEF SettingsInv, SettingsTypeOK
<1>1. CASE GetSettings
  BY <1>0, <1>1, FreedInductive DEF GetSettings
<1>2. CASE \E body \in Bodies \cup {Report(stored)}, f, g \in BOOLEAN : PostSettings(body, f, g)
  BY <1>2, PostSettingsInductive
<1>3. CASE UNCHANGED settingsVars
  BY <1>3, SettingsUntouched
<1>4. CASE ApplySettings
  <2>1. CASE rst = "wifi"
    <3>1. Freed /\ (stored' = stored \/ stored' = Applied)
      BY <1>4, <2>1 DEF ApplySettings
    <3>2. stored' \in Stored
      BY <1>0, <3>1, AppliedTyped DEF SettingsInv
    <3> QED BY <3>1, <3>2, FreedInductive
  <2>2. CASE rst # "wifi"
    <3>1. UNCHANGED settingsVars
      BY <1>4, <2>2 DEF ApplySettings
    <3> QED BY <3>1, SettingsUntouched
  <2> QED BY <2>1, <2>2
<1>5. CASE SettingsRestart
  BY <1>0, <1>5, FreedInductive DEF SettingsRestart
<1>6. ASSUME NEW n \in 0 .. MaxAps, SettingsScanCb(n) PROVE SettingsInv'
  <2>1. stored' = stored /\ (Freed \/ UNCHANGED <<staConf, apConf, posted>>)
    BY <1>6 DEF SettingsScanCb
  <2>2. CASE Freed
    BY <1>0, <2>1, <2>2, FreedInductive
  <2>3. CASE UNCHANGED <<staConf, apConf, posted>>
    <3>1. UNCHANGED settingsVars
      BY <2>1, <2>3 DEF settingsVars
    <3> QED BY <3>1, SettingsUntouched
  <2> QED BY <2>1, <2>2, <2>3
<1>7. \/ GetSettings
      \/ \E body \in Bodies \cup {Report(stored)}, f, g \in BOOLEAN : PostSettings(body, f, g)
      \/ UNCHANGED settingsVars
      \/ ApplySettings \/ SettingsRestart \/ \E n \in 0 .. MaxAps : SettingsScanCb(n)
  BY DEF SettingsNext, SettingsRequests
<1> QED BY <1>1, <1>2, <1>3, <1>4, <1>5, <1>6, <1>7

\* The invariant of the settings.
THEOREM SettingsInductive == SettingsSpec => []SettingsInv
<1> QED BY SettingsInitInductive, SettingsStepInductive, PTL DEF SettingsSpec

\* What waits for the timer is what one request asked for, and to post what the module
\* reports of itself changes nothing: wifi_station_set, wifi_softap_set, restart_10ms_cb.
THEOREM SettingsAlwaysTaken == SettingsSpec => []SettingsTaken
<1>1. SettingsInv => SettingsTaken
  <2> SUFFICES ASSUME SettingsInv, posted.count = 1, Sectioned(posted.body)
               PROVE  /\ ReadExactly(posted.body)
                      /\ posted.body = Report(stored) => Applied = stored
    BY DEF SettingsTaken
  <2>1. ReadExactly(posted.body)
    BY DEF SettingsInv, BuffersRead
  <2>2. ASSUME posted.body = Report(stored) PROVE Applied = stored
    <3>1. Sectioned(Report(stored)) /\ ReadExactly(Report(stored)) /\ SettingsTypeOK
      BY <2>1, <2>2, Zenon DEF SettingsInv
    <3> QED BY <3>1, ReportChangesNothing
  <2> QED BY <2>1, <2>2
<1> QED BY <1>1, SettingsInductive, PTL

----------------------------------------------------------------------------
(* The server with its settings is the server.                               *)

LEMMA SettingsStepIsServers ==
  [SettingsNext]_<<vars, settingsVars>> => [Next]_vars
<1>1. ASSUME NEW body, NEW f, NEW g, PostSettings(body, f, g) PROVE Next
  <2>1. \E s, a \in BOOLEAN : PostWifi(s, a)
    BY <1>1 DEF PostSettings
  <2> QED BY <2>1, Zenon DEF Next, Requests
<1>2. GetSettings => Next
  BY Zenon DEF GetSettings, Next, Requests
<1>3. ApplySettings => Next
  BY Zenon DEF ApplySettings, Next
<1>4. SettingsRestart => Next
  BY Zenon DEF SettingsRestart, Next
<1>5. ASSUME NEW n \in 0 .. MaxAps, SettingsScanCb(n) PROVE Next
  BY <1>5, Zenon DEF SettingsScanCb, Next
<1>6. (\/ SplitHead \/ Fragment \/ OtherRequest \/ PostReboot
       \/ GetScan \/ (\E page \in 1 .. MaxAps : GetPage(page)) \/ GetFinish) => Next
  BY Zenon DEF Next, Requests
<1>7. SettingsNext => Next
  BY <1>1, <1>2, <1>3, <1>4, <1>5, <1>6, Zenon DEF SettingsNext, SettingsRequests
<1> QED BY <1>7

\* Whatever is in the buffers, the server takes the steps of WebServer.tla, so that
\* what holds of its parser and its pages holds with the settings too.
THEOREM SettingsRefineServer == SettingsSpec => Spec
<1>1. SettingsInit => Init
  BY DEF SettingsInit
<1> QED BY <1>1, SettingsStepIsServers, PTL DEF SettingsSpec, Spec
=============================================================================
