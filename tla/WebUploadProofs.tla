---------------------------- MODULE WebUploadProofs ----------------------------
(***************************************************************************)
(* The firmware upload for every length of a file, of a segment and of the *)
(* flash that is erased at a time.                                         *)
(***************************************************************************)
EXTENDS WebUpload, SequenceTheorems, TLAPS

TypeOK ==
  /\ lock \in {0, 1} /\ flag \in {"idle", "start", "finish"}
  /\ total \in Nat /\ sum \in Nat /\ toErase \in Nat /\ erased \in Nat
  /\ written \in Seq(Nat)
  /\ check \in BOOLEAN /\ deinit \in BOOLEAN /\ open \in BOOLEAN
  /\ file \in Nat /\ pos \in Nat /\ clean \in BOOLEAN

\* While the lock is up the upload is started and has its context.
Started == lock = 1 => open /\ flag = "start"

\* The host has sent nothing, or only an empty file.
NothingYet == total = 0 /\ erased = 0 /\ written = <<>> /\ file = 0 /\ pos = 0

\* The counters agree with what the host has sent, and the flash with both: what is
\* not erased yet is still to be erased.
Underway ==
  /\ total = pos /\ pos < file /\ sum = file
  /\ written = FileUnits(0, pos)
  /\ pos <= erased /\ erased + toErase = file

Followed == lock = 1 /\ clean => NothingYet \/ Underway

IInv == TypeOK /\ Started /\ Followed /\ CleanUploadExact

----------------------------------------------------------------------------
LEMMA FileUnitsType ==
  ASSUME NEW p \in Nat, NEW n \in Nat
  PROVE  /\ FileUnits(p, n) \in Seq(Nat)
         /\ Len(FileUnits(p, n)) = n
         /\ \A i \in 1 .. n : FileUnits(p, n)[i] = p + i
<1>1. \A i \in 1 .. n : p + i \in Nat
  OBVIOUS
<1> QED BY <1>1 DEF FileUnits

\* A segment goes on where the last one ended.
LEMMA FileUnitsGoOn ==
  ASSUME NEW p \in Nat, NEW k \in Nat
  PROVE  FileUnits(0, p) \o FileUnits(p, k) = FileUnits(0, p + k)
<1> DEFINE a == FileUnits(0, p)
           b == FileUnits(p, k)
           c == FileUnits(0, p + k)
<1>1. /\ a \in Seq(Nat) /\ Len(a) = p /\ \A i \in 1 .. p : a[i] = 0 + i
      /\ b \in Seq(Nat) /\ Len(b) = k /\ \A i \in 1 .. k : b[i] = p + i
      /\ c \in Seq(Nat) /\ Len(c) = p + k /\ \A i \in 1 .. (p + k) : c[i] = 0 + i
  <2>1. 0 \in Nat /\ p + k \in Nat
    OBVIOUS
  <2>2. a \in Seq(Nat) /\ Len(a) = p /\ \A i \in 1 .. p : a[i] = 0 + i
    BY <2>1, FileUnitsType
  <2>3. b \in Seq(Nat) /\ Len(b) = k /\ \A i \in 1 .. k : b[i] = p + i
    BY FileUnitsType
  <2>4. c \in Seq(Nat) /\ Len(c) = p + k /\ \A i \in 1 .. (p + k) : c[i] = 0 + i
    BY <2>1, FileUnitsType
  <2> QED BY <2>2, <2>3, <2>4
<1> HIDE DEF a, b, c
<1>2. a \o b \in Seq(Nat) /\ Len(a \o b) = p + k
  BY <1>1
<1>3. ASSUME NEW i \in 1 .. (p + k)
      PROVE  (a \o b)[i] = c[i]
  BY <1>1
<1>4. a \o b = c
  BY <1>1, <1>2, <1>3, SeqEqual
<1> QED BY <1>4 DEF a, b, c

LEMMA UnitsFollow ==
  /\ FileUnits(0, pos)' = FileUnits(0, pos')
  /\ FileUnits(0, file)' = FileUnits(0, file')
  BY DEF FileUnits

\* The end of local_upgrade_download, whatever it counted.
LEMMA FinishKeeps ==
  ASSUME TypeOK, Started, lock = 1, NEW t \in Nat, Finish(t, sum), open' = open,
         erased' \in Nat, toErase' \in Nat, written' \in Seq(Nat),
         file' \in Nat, pos' \in Nat, clean' \in BOOLEAN
  PROVE  /\ TypeOK' /\ Started'
         /\ clean' = FALSE => Followed' /\ CleanUploadExact'
<1>1. total' \in Nat /\ sum' \in Nat
  BY DEF Finish, TypeOK
<1>2. /\ lock' \in {0, 1} /\ flag' \in {"idle", "start", "finish"}
      /\ check' \in BOOLEAN /\ deinit' \in BOOLEAN
  BY DEF Finish, TypeOK
<1>3. TypeOK'
  BY <1>1, <1>2 DEF TypeOK
<1>4. Started'
  BY DEF Finish, Started
<1> QED BY <1>3, <1>4 DEF Followed, CleanUploadExact

LEMMA NoUnits == FileUnits(0, 0) = <<>>
  BY DEF FileUnits

\* What an erase leaves: the lengths still add up, it covers one more segment, and
\* what is no longer than a segment is erased at once.
LEMMA EraseAdds ==
  ASSUME TypeOK, NEW n \in Nat, EraseNext(n)
  PROVE  /\ erased' \in Nat /\ toErase' \in Nat
         /\ erased' + toErase' = erased + n
         /\ \A k \in 0 .. Chunk : k <= n => erased + k <= erased'
         /\ n <= Chunk => erased' = erased + n
<1>1. Chunk \in Nat /\ EraseUnit \in Nat /\ Chunk <= EraseUnit /\ erased \in Nat
  BY UploadOK DEF TypeOK
<1>2. CASE n >= EraseUnit
  <2>1. erased' = erased + EraseUnit /\ toErase' = n - EraseUnit
    BY <1>2 DEF EraseNext
  <2> QED BY <1>1, <1>2, <2>1
<1>3. CASE ~(n >= EraseUnit)
  <2>1. erased' = erased + n /\ toErase' = 0
    BY <1>3 DEF EraseNext
  <2> QED BY <1>1, <1>3, <2>1
<1> QED BY <1>2, <1>3

----------------------------------------------------------------------------
LEMMA InitInductive == Init => IInv
<1> SUFFICES ASSUME Init PROVE IInv
  OBVIOUS
<1>1. <<>> \in Seq(Nat)
  OBVIOUS
<1>2. TypeOK
  BY <1>1 DEF Init, TypeOK
<1> QED BY <1>2 DEF Init, IInv, Started, Followed, CleanUploadExact

LEMMA BeginInductive ==
  ASSUME IInv, NEW n \in 0 .. FileLen, NEW k \in 0 .. Chunk, k <= n, Begin(n, k)
  PROVE  IInv'
<1> USE UploadOK DEF IInv, TypeOK, Started
<1>0. lock = 1 /\ open /\ open' /\ flag = "start" /\ n \in Nat /\ k \in Nat
  BY DEF Begin
<1>1. CASE total = 0 /\ n # 0 /\ EraseNext(n) /\ Finish(k, n)
           /\ written' = written \o FileUnits(0, k)
  <2>1. /\ erased' \in Nat /\ toErase' \in Nat /\ erased' + toErase' = erased + n
        /\ erased + k <= erased'
        /\ n <= Chunk => erased' = erased + n
    BY <1>0, <1>1, EraseAdds
  <2>2. FileUnits(0, k) \in Seq(Nat)
    BY <1>0, FileUnitsType
  <2>3. written' \in Seq(Nat)
    BY <1>1, <2>2
  <2>4. file' = n /\ pos' = k
    BY DEF Begin
  <2>5. TypeOK'
    BY <1>0, <1>1, <2>1, <2>3 DEF Begin, Finish
  <2>6. Started'
    BY <1>0, <1>1 DEF Finish
  <2>7. ASSUME clean' PROVE NothingYet \/ Underway
    BY <1>0, <2>7 DEF Begin, Followed
  <2>8. ASSUME clean' PROVE written' = FileUnits(0, k) /\ erased = 0
    <3>1. erased = 0 /\ total = 0
      BY <2>8 DEF Begin
    <3>2. written = <<>>
      BY <2>7, <2>8, <3>1, NoUnits DEF NothingYet, Underway
    <3> QED BY <1>1, <2>2, <3>1, <3>2
  <2>9. Followed'
    <3> SUFFICES ASSUME lock' = 1, clean' PROVE Underway'
      BY DEF Followed
    <3>1. k # n /\ total' = k /\ sum' = n
      BY <1>1 DEF Finish
    <3> erased = 0 /\ written' = FileUnits(0, k)
      BY <2>8
    <3>2. k <= erased'
      BY <1>0, <2>1
    <3>3. pos' < file' /\ total' = pos' /\ sum' = file'
      BY <1>0, <2>4, <3>1
    <3>4. erased' + toErase' = file'
      <4>1. erased + n = n
        BY <1>0
      <4> QED BY <2>1, <2>4, <4>1
    <3>5. written' = FileUnits(0, pos')
      BY <2>4
    <3> QED BY <2>4, <3>2, <3>3, <3>4, <3>5, UnitsFollow DEF Underway
  <2>10. CleanUploadExact'
    <3> SUFFICES ASSUME flag' = "finish", clean' PROVE Exact' /\ erased' = file'
      BY DEF CleanUploadExact
    <3>1. k = n
      BY <1>0, <1>1 DEF Finish
    <3> erased = 0 /\ written' = FileUnits(0, k)
      BY <2>8
    <3>2. written' = FileUnits(0, file')
      BY <2>4, <3>1
    <3>4. erased' = file'
      BY <1>0, <2>1, <2>4, <3>1
    <3> QED BY <3>2, <3>4, UnitsFollow DEF Exact
  <2> QED BY <2>5, <2>6, <2>9, <2>10
<1>2. CASE total = 0 /\ n = 0 /\ sum' = 0 /\ check' = TRUE
           /\ UNCHANGED <<total, toErase, erased, written, flag, lock, deinit>>
  <2>1. file' = 0 /\ pos' = 0 /\ (clean' => clean /\ erased = 0 /\ total = 0)
    <3> HIDE DEF IInv, TypeOK, Started
    <3>1. file' = n /\ pos' = k /\ k = 0
      BY <1>2 DEF Begin
    <3> QED BY <1>2, <3>1 DEF Begin
  <2>2. clean' \in BOOLEAN /\ open' = open
    BY DEF Begin
  <2>3. TypeOK' /\ Started'
    BY <1>0, <1>2, <2>1, <2>2
  <2>4. ASSUME clean' PROVE written = <<>>
    <3>1. CASE NothingYet
      BY <3>1 DEF NothingYet
    <3>2. CASE Underway
      BY <2>1, <2>4, <3>2, NoUnits DEF Underway
    <3> QED BY <1>0, <2>1, <2>4, <3>1, <3>2 DEF Followed
  <2>5. Followed'
    BY <1>2, <2>1, <2>4 DEF Followed, NothingYet
  <2>6. CleanUploadExact'
    BY <1>0, <1>2 DEF CleanUploadExact
  <2> QED BY <2>3, <2>5, <2>6
<1>3. CASE total # 0 /\ Download(<<0>> \o FileUnits(0, k))
  <2>1. FileUnits(0, k) \in Seq(Nat) /\ <<0>> \in Seq(Nat)
    BY <1>0, FileUnitsType
  <2>2. <<0>> \o FileUnits(0, k) \in Seq(Nat)
    BY <2>1
  <2>3. written' \in Seq(Nat) /\ Len(<<0>> \o FileUnits(0, k)) \in Nat
    BY <1>3, <2>2 DEF Download
  <2>4. erased' \in Nat /\ toErase' \in Nat
    BY <1>3, EraseAdds DEF Download
  <2>5. clean' = FALSE /\ file' \in Nat /\ pos' \in Nat /\ open' = open
    BY <1>0, <1>3 DEF Begin
  <2> DEFINE t == total + Len(<<0>> \o FileUnits(0, k))
  <2>6. t \in Nat /\ Finish(t, sum)
    BY <1>3, <2>3 DEF Download
  <2>7. TypeOK /\ Started /\ clean' \in BOOLEAN
    BY <2>5
  <2> HIDE DEF t, TypeOK, Started
  <2>8. /\ TypeOK' /\ Started'
        /\ clean' = FALSE => Followed' /\ CleanUploadExact'
    BY <1>0, <2>3, <2>4, <2>5, <2>6, <2>7, FinishKeeps
  <2> QED BY <2>5, <2>8
<1> QED BY <1>1, <1>2, <1>3 DEF Begin

LEMMA ContinueInductive ==
  ASSUME IInv, NEW k \in 1 .. Chunk, Continue(k)
  PROVE  IInv'
<1> USE UploadOK DEF IInv, TypeOK, Started
<1>0. /\ lock = 1 /\ open /\ open' /\ flag = "start" /\ k \in Nat /\ k # 0
      /\ pos + k <= file /\ pos' = pos + k /\ file' = file /\ clean' = clean
  BY DEF Continue
<1>1. FileUnits(pos, k) \in Seq(Nat) /\ Len(FileUnits(pos, k)) = k
  BY <1>0, FileUnitsType
<1>2. /\ EraseNext(toErase) /\ written' = written \o FileUnits(pos, k)
      /\ Finish(total + k, sum)
  BY <1>1 DEF Continue, Download
<1>3. /\ erased' \in Nat /\ toErase' \in Nat /\ erased' + toErase' = erased + toErase
      /\ k <= toErase => erased + k <= erased'
      /\ toErase <= Chunk => erased' = erased + toErase
  <2>1. TypeOK /\ toErase \in Nat /\ k \in 0 .. Chunk
    BY <1>0
  <2> HIDE DEF IInv, TypeOK, Started
  <2> QED BY <1>2, <2>1, EraseAdds
<1>4. written' \in Seq(Nat)
  BY <1>1, <1>2
<1>5. TypeOK' /\ Started'
  <2>1. total + k \in Nat /\ pos' \in Nat /\ file' \in Nat /\ clean' \in BOOLEAN /\ open' = open
    BY <1>0 DEF Continue
  <2> QED BY <1>0, <1>2, <1>3, <1>4, <2>1, FinishKeeps
<1>6. ASSUME clean'
      PROVE  /\ Underway /\ total + k = pos'
             /\ written' = FileUnits(0, pos') /\ pos' <= erased' /\ erased' + toErase' = file'
  <2>1. Underway
    BY <1>0, <1>6 DEF Followed, NothingYet
  <2>2. written' = FileUnits(0, pos + k)
    BY <1>0, <1>2, <2>1, FileUnitsGoOn DEF Underway
  <2>3. pos + k <= erased'
    <3>2. pos + k <= file /\ pos <= erased /\ erased + toErase = file
      BY <1>0, <2>1 DEF Underway
    <3>3. CASE k <= toErase
      BY <1>0, <1>3, <3>2, <3>3
    <3>4. CASE ~(k <= toErase)
      BY <1>0, <1>3, <3>2, <3>4
    <3> QED BY <3>3, <3>4
  <2> QED BY <1>0, <1>3, <2>1, <2>2, <2>3 DEF Underway
<1>7. Followed'
  <2> SUFFICES ASSUME lock' = 1, clean' PROVE Underway'
    BY DEF Followed
  <2>1. total + k # sum /\ total' = total + k /\ sum' = sum
    BY <1>0, <1>2 DEF Finish
  <2> QED BY <1>0, <1>6, <2>1 DEF Underway, FileUnits
<1>8. CleanUploadExact'
  <2> SUFFICES ASSUME flag' = "finish", clean' PROVE Exact' /\ erased' = file'
    BY DEF CleanUploadExact
  <2>1. total + k = sum
    BY <1>0, <1>2 DEF Finish
  <2>2. pos' = file' /\ erased' = file'
    BY <1>0, <1>3, <1>6, <2>1 DEF Underway
  <2> QED BY <1>6, <2>2 DEF Exact, FileUnits
<1> QED BY <1>5, <1>7, <1>8

LEMMA StepInductive == IInv /\ [Next]_vars => IInv'
<1> SUFFICES ASSUME IInv, [Next]_vars
             PROVE  IInv'
  OBVIOUS
<1> USE DEF IInv, TypeOK, Started
<1>1. CASE UploadStart
  <2>1. TypeOK' /\ Started'
    <3>1. <<>> \in Seq(Nat)
      OBVIOUS
    <3> QED BY <1>1, <3>1 DEF UploadStart
  <2>2. Followed'
    BY <1>1 DEF UploadStart, Followed, NothingYet
  <2>3. CleanUploadExact'
    BY <1>1 DEF UploadStart, CleanUploadExact
  <2> QED BY <2>1, <2>2, <2>3
<1>2. ASSUME NEW n \in 0 .. FileLen, NEW k \in 0 .. Chunk, k <= n, Begin(n, k)
      PROVE  IInv'
  BY <1>2, BeginInductive
<1>3. ASSUME NEW k \in 1 .. Chunk, Continue(k)
      PROVE  IInv'
  BY <1>3, ContinueInductive
<1>4. CASE Poll
  <2>1. <<0>> \in Seq(Nat) /\ Len(<<0>>) = 1
    OBVIOUS
  <2>2. written' \in Seq(Nat) /\ erased' \in Nat /\ toErase' \in Nat
    BY <1>4, <2>1, EraseAdds DEF Poll, Download
  <2>3. /\ lock = 1 /\ total + 1 \in Nat /\ Finish(total + 1, sum)
        /\ open' = open /\ file' \in Nat /\ pos' \in Nat /\ clean' = FALSE
    BY <1>4, <2>1 DEF Poll, Download
  <2> QED BY <2>2, <2>3, FinishKeeps
<1>5. CASE CheckUpgrade
  <2>1. lock' \in {0, 1} /\ flag' \in {"idle", "start", "finish"} /\ lock' = 0
    BY <1>5 DEF CheckUpgrade
  <2>2. check' \in BOOLEAN /\ open' \in BOOLEAN
    BY <1>5 DEF CheckUpgrade
  <2>3. TypeOK'
    BY <1>5, <2>1, <2>2 DEF CheckUpgrade, imageVars, hostVars
  <2>4. Started' /\ Followed'
    BY <2>1 DEF Followed
  <2>5. CleanUploadExact'
    BY <1>5 DEF CheckUpgrade, imageVars, hostVars, CleanUploadExact, Exact, FileUnits
  <2> QED BY <2>3, <2>4, <2>5
<1>6. CASE Deinit
  <2>1. TypeOK' /\ Started'
    BY <1>6 DEF Deinit, imageVars, hostVars
  <2>2. Followed'
    BY <1>6 DEF Deinit, imageVars, hostVars, Followed, NothingYet, Underway, FileUnits
  <2>3. CleanUploadExact'
    BY <1>6 DEF Deinit, imageVars, hostVars, CleanUploadExact, Exact, FileUnits
  <2> QED BY <2>1, <2>2, <2>3
<1>7. CASE Restart
  <2>1. TypeOK'
    <3>1. <<>> \in Seq(Nat)
      OBVIOUS
    <3> QED BY <1>7, <3>1 DEF Restart
  <2> QED BY <1>7, <2>1 DEF Restart, Followed, CleanUploadExact
<1>8. CASE UNCHANGED vars
  <2>1. TypeOK' /\ Started'
    BY <1>8 DEF vars, imageVars, hostVars
  <2>2. Followed'
    BY <1>8 DEF vars, imageVars, hostVars, Followed, NothingYet, Underway, FileUnits
  <2>3. CleanUploadExact'
    BY <1>8 DEF vars, imageVars, hostVars, CleanUploadExact, Exact, FileUnits
  <2> QED BY <2>1, <2>2, <2>3
<1> QED BY <1>1, <1>2, <1>3, <1>4, <1>5, <1>6, <1>7, <1>8 DEF Next, Segment

THEOREM Inductive == Spec => []IInv
  BY InitInductive, StepInductive, PTL DEF Spec

(* The deinit deferred after one upload never takes the context of the next *)
(* (local_upgrade_deinit looks at the flag).                                *)
THEOREM LockAlwaysHasContext == Spec => []LockHasContext
<1>1. IInv => LockHasContext
  BY DEF IInv, Started, LockHasContext
<1> QED BY <1>1, Inductive, PTL

(* Erasing in units of EraseUnit, one per segment, stays ahead of the data   *)
(* of every file that is sent undisturbed.                                   *)
THEOREM AlwaysErasedAhead == Spec => []ErasedAhead
<1>1. IInv => ErasedAhead
  <2> SUFFICES ASSUME IInv, lock = 1, clean PROVE Len(written) <= erased
    BY DEF ErasedAhead
  <2>1. CASE NothingYet
    BY <2>1 DEF NothingYet
  <2>2. CASE Underway
    BY <2>2, FileUnitsType DEF Underway, IInv, TypeOK
  <2> QED BY <2>1, <2>2 DEF IInv, Followed
<1> QED BY <1>1, Inductive, PTL

(* An undisturbed upload that is reported a success left the file in flash,  *)
(* unit for unit, and erased no more than it needed.                         *)
THEOREM CleanUploadsExact == Spec => []CleanUploadExact
<1>1. IInv => CleanUploadExact
  BY DEF IInv
<1> QED BY <1>1, Inductive, PTL
=============================================================================
