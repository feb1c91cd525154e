------------------------------ MODULE WebUpload ------------------------------
(***************************************************************************)
(* The firmware upload of the web server: upgrade_lock and                 *)
(* local_upgrade_download in firmware/app/user/user_webserver.c.           *)
(*                                                                         *)
(* POST upgrade start raises upgrade_lock; from then on webserver_recv     *)
(* hands every segment of every client to local_upgrade_download, whose    *)
(* counters are function statics: nothing but a finished download or a     *)
(* restart resets them.  While the lock is down a segment goes to          *)
(* WebServer.tla and changes nothing here.                                 *)
(*                                                                         *)
(* Lengths are counted in units; the header of an upload is one unit.      *)
(***************************************************************************)
EXTENDS Naturals, Sequences

CONSTANTS
  FileLen,    \* bound: length of a firmware file
  Chunk,      \* bound: units of it in one segment
  EraseUnit,  \* LIMIT_ERASE_SIZE, 64 KiB
  MaxUnits,   \* bound: units totallength has counted, and units erased
  Polls       \* do other clients talk to the server during an upload?

ASSUME UploadOK ==
  /\ FileLen \in Nat \ {0} /\ Chunk \in Nat \ {0}
  /\ EraseUnit \in Nat /\ EraseUnit >= Chunk
  /\ MaxUnits \in Nat /\ Polls \in BOOLEAN

VARIABLES
  lock, flag,      \* upgrade_lock, the SDK's upgrade flag
  total, sum,      \* local_upgrade_download: totallength, sumlength
  toErase,         \* local_upgrade_download: erase_length
  erased, written, \* units erased; what was written: file unit i, or 0 for another
  check, deinit,   \* is upgrade_check_timer, app_upgrade_10s armed?
  open,            \* has the SDK an upgrade context to write into?
  file, pos,       \* the host: its file's length and the units sent
  clean            \* history: the only traffic since a start with nothing counted?

imageVars == <<total, sum, toErase, erased, written>>
hostVars  == <<file, pos, clean>>
vars == <<lock, flag, imageVars, check, deinit, open, hostVars>>

Init ==
  /\ lock = 0 /\ flag = "idle" /\ total = 0 /\ sum = 0 /\ toErase = 0 /\ erased = 0
  /\ written = <<>> /\ check = FALSE /\ deinit = FALSE /\ open = FALSE
  /\ file = 0 /\ pos = 0 /\ clean = FALSE

\* system_restart: the POST upgrade reset request, or any other cause.
Restart ==
  /\ lock' = 0 /\ flag' = "idle" /\ total' = 0 /\ sum' = 0 /\ toErase' = 0 /\ erased' = 0
  /\ written' = <<>> /\ check' = FALSE /\ deinit' = FALSE /\ open' = FALSE
  /\ file' = 0 /\ pos' = 0 /\ clean' = FALSE

\* Mutant of UploadStart: the 120 s timer is forgotten.
UploadStartNoTimer ==
  /\ lock = 0
  /\ lock' = 1 /\ flag' = "start"
  /\ open' = TRUE /\ written' = <<>> /\ erased' = 0
  /\ file' = 0 /\ pos' = 0 /\ clean' = (total = 0)
  /\ UNCHANGED <<check, total, sum, toErase, deinit>>

\* POST upgrade start.  The statics of local_upgrade_download are left alone.
UploadStart ==
  /\ lock = 0
  /\ lock' = 1 /\ flag' = "start" /\ check' = TRUE
  /\ open' = TRUE /\ written' = <<>> /\ erased' = 0
  /\ file' = 0 /\ pos' = 0 /\ clean' = (total = 0)
  /\ UNCHANGED <<total, sum, toErase, deinit>>

\* The end of local_upgrade_download with t of s units in.
Finish(t, s) ==
  IF t = s
  THEN /\ total' = 0 /\ sum' = 0
       /\ flag' = "finish" /\ lock' = 0 /\ check' = FALSE /\ deinit' = TRUE
  ELSE total' = t /\ sum' = s /\ UNCHANGED <<flag, lock, check, deinit>>

\* Mutant of EraseNext: what is left is forgotten.
EraseOnce(n) ==
  erased' = erased + (IF n >= EraseUnit THEN EraseUnit ELSE n) /\ toErase' = 0

\* Erase ahead of the data: n units are still to be erased.
EraseNext(n) ==
  IF n >= EraseUnit
  THEN erased' = erased + EraseUnit /\ toErase' = n - EraseUnit
  ELSE erased' = erased + n /\ toErase' = 0

\* local_upgrade_download taking the segment for file data.
Download(units) ==
  /\ total + Len(units) <= MaxUnits   \* bound
  /\ EraseNext(toErase)
  /\ written' = written \o units
  /\ Finish(total + Len(units), sum)

FileUnits(from, n) == [i \in 1 .. n |-> from + i]

\* The host begins its file: the header with its length, and the first k units.
\* Only a download that has counted nothing yet takes it for a header.
Begin(n, k) ==
  /\ lock = 1
  /\ file' = n /\ pos' = k /\ clean' = (clean /\ total = 0 /\ erased = 0)
  /\ \/ /\ total = 0 /\ n # 0
        /\ erased + n <= MaxUnits                 \* bound
        /\ EraseNext(n)
        /\ written' = written \o FileUnits(0, k)
        /\ Finish(k, n)
     \/ /\ total = 0 /\ n = 0       \* upgrade_check_func in 10 ms
        /\ sum' = 0 /\ check' = TRUE
        /\ UNCHANGED <<total, toErase, erased, written, flag, lock, deinit>>
     \/ total # 0 /\ Download(<<0>> \o FileUnits(0, k))
  /\ UNCHANGED open

\* The host goes on with it.
Continue(k) ==
  /\ lock = 1 /\ pos + k <= file
  /\ pos' = pos + k
  /\ Download(FileUnits(pos, k))
  /\ UNCHANGED <<open, file, clean>>

\* A GET of another client.
Poll ==
  /\ Polls /\ lock = 1
  /\ clean' = FALSE
  /\ Download(<<0>>)
  /\ UNCHANGED <<open, file, pos>>

\* upgrade_check_func, 120 s after the start or 10 ms after an empty file.
CheckUpgrade ==
  /\ check /\ check' = FALSE
  /\ lock' = IF flag = "idle" THEN lock ELSE 0
  /\ flag' = IF flag = "start" THEN "idle" ELSE flag
  /\ open' = (open /\ flag # "start")
  /\ UNCHANGED <<imageVars, deinit, hostVars>>

\* Mutant of Deinit: the flag is not looked at.
DeinitAlways ==
  /\ deinit /\ deinit' = FALSE
  /\ open' = FALSE
  /\ UNCHANGED <<lock, flag, imageVars, check, hostVars>>

\* local_upgrade_deinit, 10 ms after the end, unless the next upload has begun.
Deinit ==
  /\ deinit /\ deinit' = FALSE
  /\ open' = (open /\ flag = "start")
  /\ UNCHANGED <<lock, flag, imageVars, check, hostVars>>

----------------------------------------------------------------------------
Segment ==
  \/ \E n \in 0 .. FileLen, k \in 0 .. Chunk : k <= n /\ Begin(n, k)
  \/ \E k \in 1 .. Chunk : Continue(k)
  \/ Poll

Next == UploadStart \/ Segment \/ CheckUpgrade \/ Deinit \/ Restart

Spec == Init /\ [][Next]_vars

(* A pending timer fires.                                                    *)
FairSpec == Spec /\ WF_vars(CheckUpgrade)

----------------------------------------------------------------------------
(* While upgrade_lock diverts every segment to the upload, there is an       *)
(* upgrade to write to: the deferred deinit of the last one does not end it. *)
LockHasContext == lock = 1 => open

(* No unit of a clean upload is written to flash that is not erased yet.     *)
ErasedAhead == lock = 1 /\ clean => Len(written) <= erased

\* The flash holds the host's file, all of it and nothing else.
Exact == written = FileUnits(0, file)

(* A clean upload reported as a success is the file, and no sector beyond it *)
(* was erased.                                                               *)
CleanUploadExact == flag = "finish" /\ clean => Exact /\ erased = file

(* An upload never keeps the web server to itself: lock falls after 120 s.   *)
LockReleased == (lock = 1) ~> (lock = 0)

(* upgrade_check_func prints "local upgrade success" and answers so: then    *)
(* the file is in flash.                                                     *)
SuccessMeansExact == flag = "finish" => Exact
=============================================================================
