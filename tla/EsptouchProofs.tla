---------------------------- MODULE EsptouchProofs ----------------------------
(***************************************************************************)
(* What a SmartConfig session returns, and when, for any number of devices *)
(* and every entry of the count spinner.                                   *)
(*                                                                         *)
(* The three threads share unsynchronised fields; Verdict says what each   *)
(* of them may rely on while the user has not cancelled and the sending is *)
(* not over.                                                               *)
(*                                                                         *)
(* And what the session sends: for every setting typed, the text, its      *)
(* codes and what is read from them.                                       *)
(***************************************************************************)
EXTENDS EsptouchTask, SmartConfigCode, Counting, FiniteSetTheorems, SequenceTheorems, TLAPS

TypeOK ==
  /\ worker \in {"create", "send", "sendData", "wait", "interrupt", "result", "done"}
  /\ time \in {"sending", "waiting", "over"}
  /\ expect \in Nat \ {0}
  /\ results \in Seq(Entries) /\ got \in SUBSET Devices
  /\ mIsCancelled \in BOOLEAN /\ mIsInterrupt \in BOOLEAN /\ mIsSuc \in BOOLEAN

\* One failed result, entered when the list was empty.
OneFailed == Len(results) = 1 /\ ~results[1].suc

\* Different devices, all of them configured.
OnlySuccesses ==
  /\ \A i \in 1 .. Len(results) : results[i].suc
  /\ \A i, j \in 1 .. Len(results) : results[i].bssid = results[j].bssid => i = j

Shape ==
  \/ worker = "done" /\ OneFailed
  \/ OnlySuccesses /\ (worker = "done" => Len(results) # 0)

\* Before the task exists nobody can have interrupted or cancelled it.
Unborn ==
  worker = "create" => listener = "off" /\ ~mIsInterrupt /\ ~mIsSuc /\ ~mIsCancelled

\* mIsSuc is never set too early, and onCancel marks the task before it interrupts it.
Marks ==
  /\ mIsSuc => Len(results) >= expect
  /\ ui = "cancelling" => mIsCancelled

\* While codes are sent and the user has not cancelled, only enough answers end anything.
Verdict ==
  time = "sending" /\ ~mIsCancelled =>
    /\ mIsInterrupt => mIsSuc
    /\ listener = "judge" => Len(results) >= expect
    /\ listener = "interrupt" => mIsSuc
    /\ worker \notin {"wait", "interrupt"}
    /\ worker = "result" => mIsSuc

IInv == TypeOK /\ Shape /\ Unborn /\ Marks /\ Verdict

----------------------------------------------------------------------------
LEMMA EntryTypes ==
  /\ \A d \in Devices : Success(d) \in Entries /\ Success(d).suc /\ Success(d).bssid = {d}
  /\ \A c \in BOOLEAN : Fail(c) \in Entries /\ ~Fail(c).suc /\ Fail(c).cancelled = c
  BY DEF Entries, Success, Fail

LEMMA ExpectIsPositive == \A selected \in 0 .. MaxSelected : ExpectOf(selected) \in Nat \ {0}
<1>1. Cardinality(Devices) \in Nat
  BY DevicesAssumption, FS_CardinalityType
<1> QED BY <1>1, DevicesAssumption DEF ExpectOf

LEMMA LenType == TypeOK => Len(results) \in Nat /\ DOMAIN results = 1 .. Len(results)
  BY DEF TypeOK

LEMMA InitInductive == Init => IInv
<1> SUFFICES ASSUME Init PROVE IInv
  OBVIOUS
<1>1. results = <<>> /\ Len(results) = 0 /\ results \in Seq(Entries)
  BY DEF Init
<1>2. TypeOK
  <2>1. expect \in Nat \ {0} /\ got \in SUBSET Devices
    BY DEF Init
  <2> QED BY <1>1, <2>1 DEF Init, TypeOK
<1>3. Shape
  BY <1>1 DEF Init, Shape, OnlySuccesses
<1>4. Unborn /\ Marks /\ Verdict
  BY DEF Init, Unborn, Marks, Verdict
<1> QED BY <1>2, <1>3, <1>4 DEF IInv

(* Most steps leave the list and the number expected alone.                  *)
LEMMA SameResults ==
  ASSUME IInv, UNCHANGED <<results, expect>>, worker' = "done" => worker = "done",
         worker = "done" => worker' = "done"
  PROVE  Shape' /\ (mIsSuc' = mIsSuc => (mIsSuc' => Len(results') >= expect'))
  BY DEF IInv, Shape, OneFailed, OnlySuccesses, Marks

LEMMA ElapseInductive == IInv /\ Elapse => IInv'
<1> SUFFICES ASSUME IInv, Elapse PROVE IInv'
  OBVIOUS
<1>1. Shape'
  BY SameResults DEF Elapse
<1>2. TypeOK' /\ Unborn' /\ Marks' /\ Verdict'
  BY DEF Elapse, flags, sockets, IInv, TypeOK, Unborn, Marks, Verdict
<1> QED BY <1>1, <1>2 DEF IInv

LEMMA UserInductive == IInv /\ UserInterface => IInv'
<1> SUFFICES ASSUME IInv, UserInterface PROVE IInv'
  OBVIOUS
<1>1. UNCHANGED <<results, expect, worker, listener, time, got, mIsSuc>>
  BY DEF UserInterface, Cancel, CancelInterrupt
<1>2. Shape'
  BY <1>1, SameResults
<1>3. CASE Cancel
  <2>1. mIsInterrupt' = mIsInterrupt /\ mIsCancelled' \in {mIsCancelled, TRUE}
    BY <1>3 DEF Cancel, sockets
  <2>2. worker = "create" => mIsCancelled' = mIsCancelled
    BY <1>3 DEF Cancel
  <2>3. ui' = "cancelling" => mIsCancelled'
    BY <1>3 DEF Cancel
  <2>4. TypeOK'
    BY <1>1, <2>1 DEF IInv, TypeOK
  <2>5. Unborn'
    BY <1>1, <2>1, <2>2 DEF IInv, Unborn
  <2>6. Marks'
    BY <1>1, <2>3 DEF IInv, Marks
  <2>7. Verdict'
    BY <1>1, <2>1 DEF IInv, Verdict
  <2> QED BY <1>2, <2>4, <2>5, <2>6, <2>7 DEF IInv
<1>4. CASE CancelInterrupt
  <2>1. mIsCancelled /\ mIsCancelled' = mIsCancelled /\ mIsInterrupt' \in {mIsInterrupt, TRUE}
    BY <1>4 DEF CancelInterrupt, Interrupt, IInv, Marks
  <2>2. worker # "create"
    BY <2>1 DEF IInv, Unborn
  <2>3. ui' = "gone"
    BY <1>4 DEF CancelInterrupt
  <2>4. TypeOK'
    BY <1>1, <2>1 DEF IInv, TypeOK
  <2>5. Unborn' /\ Verdict'
    BY <1>1, <2>1, <2>2 DEF Unborn, Verdict
  <2>6. Marks'
    BY <1>1, <2>3 DEF IInv, Marks
  <2> QED BY <1>2, <2>4, <2>5, <2>6 DEF IInv
<1> QED BY <1>2, <1>3, <1>4 DEF UserInterface, IInv

LEMMA CreateInductive ==
  ASSUME IInv, NEW selected \in 0 .. MaxSelected, Create(selected)
  PROVE  IInv'
<1>1. expect' \in Nat \ {0}
  BY ExpectIsPositive DEF Create
<1>2. worker = "create" /\ worker' = "send" /\ listener' = "loop"
  BY DEF Create
<1>3. ~mIsInterrupt' /\ ~mIsSuc' /\ ~mIsCancelled'
  BY <1>2 DEF Create, flags, IInv, Unborn
<1>4. TypeOK'
  BY <1>1, <1>2 DEF Create, flags, IInv, TypeOK
<1>5. Shape'
  BY <1>2 DEF Create, IInv, Shape, OnlySuccesses
<1>6. Unborn' /\ Marks' /\ Verdict'
  BY <1>2, <1>3 DEF Create, IInv, Unborn, Marks, Verdict
<1> QED BY <1>4, <1>5, <1>6 DEF IInv

LEMMA WorkerInductive ==
  IInv /\ (SendHead \/ SendData \/ WaitEnds \/ WorkerInterrupt) => IInv'
<1> SUFFICES ASSUME IInv, SendHead \/ SendData \/ WaitEnds \/ WorkerInterrupt PROVE IInv'
  OBVIOUS
<1> USE DEF SendHead, SendData, WaitEnds, WorkerInterrupt, LeaveSending, flags
<1>1. /\ UNCHANGED <<results, expect, listener, time, got, mIsSuc, mIsCancelled, ui>>
      /\ worker \notin {"create", "done"}
      /\ worker' \in {"send", "sendData", "wait", "interrupt", "result"}
      /\ mIsInterrupt' \in {mIsInterrupt, TRUE}
  BY DEF Interrupt
<1>2. Shape'
  BY <1>1, SameResults
<1>3. TypeOK'
  BY <1>1 DEF IInv, TypeOK
<1>4. Unborn' /\ Marks'
  BY <1>1 DEF IInv, Unborn, Marks
<1>5. Verdict'
  <2> SUFFICES ASSUME time = "sending", ~mIsCancelled
               PROVE  /\ mIsInterrupt' => mIsSuc
                      /\ worker' \notin {"wait", "interrupt"}
                      /\ worker' = "result" => mIsSuc
    BY <1>1 DEF IInv, Verdict
  <2>1. SendHead \/ SendData
    BY DEF IInv, Verdict
  <2>2. mIsInterrupt => mIsSuc
    BY DEF IInv, Verdict
  <2>3. mIsInterrupt' = mIsInterrupt
    BY <2>1 DEF sockets
  <2> QED BY <2>1, <2>2, <2>3
<1> QED BY <1>2, <1>3, <1>4, <1>5 DEF IInv

(* The list that is returned: as it is, or with one failed result.           *)
LEMMA GetInductive == IInv /\ GetResultList => IInv'
<1> SUFFICES ASSUME IInv, GetResultList PROVE IInv'
  OBVIOUS
<1>1. /\ worker = "result" /\ worker' = "done"
      /\ UNCHANGED <<expect, listener, time, got, mIsSuc, mIsCancelled, mIsInterrupt, ui>>
  BY DEF GetResultList, flags
<1>2. OnlySuccesses
  BY <1>1 DEF IInv, Shape
<1>3. CASE results = <<>>
  <2>1. results' = <<Fail(mIsCancelled)>>
    BY <1>3 DEF GetResultList
  <2>2. Len(results') = 1 /\ ~results'[1].suc /\ results' \in Seq(Entries)
    BY <2>1, EntryTypes DEF IInv, TypeOK
  <2>3. ~mIsSuc
    BY <1>3 DEF IInv, TypeOK, Marks
  <2>4. Shape'
    BY <1>1, <2>2 DEF Shape, OneFailed
  <2>5. TypeOK'
    BY <1>1, <2>2 DEF IInv, TypeOK
  <2>6. Unborn' /\ Marks'
    BY <1>1, <2>3 DEF IInv, Unborn, Marks
  <2>7. Verdict'
    BY <1>1, <2>3 DEF IInv, Verdict
  <2> QED BY <2>4, <2>5, <2>6, <2>7 DEF IInv
<1>4. CASE results # <<>>
  <2>1. results' = results
    BY <1>4 DEF GetResultList
  <2>2. Len(results) # 0
    BY <1>4 DEF IInv, TypeOK
  <2>3. Shape'
    BY <1>1, <1>2, <2>1, <2>2 DEF Shape, OnlySuccesses
  <2>4. TypeOK' /\ Unborn' /\ Marks' /\ Verdict'
    BY <1>1, <2>1 DEF IInv, TypeOK, Unborn, Marks, Verdict
  <2> QED BY <2>3, <2>4 DEF IInv
<1> QED BY <1>3, <1>4

(* The listener.                                                             *)
LEMMA ListenerInductive ==
  ASSUME IInv, ListenHead \/ Acquire \/ ReceiveNothing \/ Judge \/ ListenEnd
               \/ \E d \in Devices : ReceiveAnswer(d)
  PROVE  IInv'
<1> USE DEF ListenHead, Acquire, ReceiveNothing, Judge, ListenEnd, ReceiveAnswer, flags
<1>1. /\ UNCHANGED <<results, expect, worker, time, mIsCancelled, ui>>
      /\ got' \in SUBSET Devices
      /\ mIsInterrupt' \in {mIsInterrupt, TRUE}
      /\ listener # "off"
  BY DEF Interrupt, IInv, TypeOK
<1>2. mIsSuc' \in BOOLEAN /\ (mIsSuc' => Len(results) >= expect)
  <2>1. CASE Judge
    <3>1. mIsSuc' = (Len(results) >= expect)
      BY <2>1
    <3>2. (Len(results) >= expect) \in BOOLEAN
      OBVIOUS
    <3>3. mIsSuc' \in BOOLEAN
      BY <3>1, <3>2
    <3> QED BY <3>1, <3>3
  <2>2. CASE ~Judge
    <3>1. mIsSuc' = mIsSuc
      BY <2>2
    <3> QED BY <3>1 DEF IInv, TypeOK, Marks
  <2> QED BY <2>1, <2>2
<1>3. Shape'
  BY <1>1, SameResults
<1>4. TypeOK'
  BY <1>1, <1>2 DEF IInv, TypeOK
<1>5. Unborn' /\ Marks'
  BY <1>1, <1>2 DEF IInv, Unborn, Marks
<1>6. Verdict'
  <2> SUFFICES ASSUME time = "sending", ~mIsCancelled
               PROVE  /\ mIsInterrupt' => mIsSuc'
                      /\ listener' = "judge" => Len(results) >= expect
                      /\ listener' = "interrupt" => mIsSuc'
                      /\ worker = "result" => mIsSuc'
    BY <1>1 DEF IInv, Verdict
  <2>1. /\ mIsInterrupt => mIsSuc
        /\ mIsSuc => Len(results) >= expect
        /\ listener = "judge" => Len(results) >= expect
        /\ listener = "interrupt" => mIsSuc
        /\ worker = "result" => mIsSuc
    BY DEF IInv, Verdict, Marks
  <2>2. Len(results) \in Nat /\ expect \in Nat
    BY LenType DEF IInv, TypeOK
  <2>3. ~(Len(results) < expect) => Len(results) >= expect
    BY <2>2
  <2>4. CASE Judge
    BY <2>1, <2>4
  <2>5. CASE ListenEnd
    BY <2>1, <2>5
  <2>6. CASE ListenHead
    BY <2>1, <2>3, <2>6
  <2>7. CASE Acquire \/ ReceiveNothing
    BY <2>1, <2>7
  <2>8. CASE \E d \in Devices : ReceiveAnswer(d)
    BY <2>1, <2>8
  <2> QED BY <2>4, <2>5, <2>6, <2>7, <2>8
<1> QED BY <1>3, <1>4, <1>5, <1>6 DEF IInv

(* __putEsptouchResult enters a device once.                                 *)
LEMMA PutInductive == IInv /\ Put => IInv'
<1> SUFFICES ASSUME IInv, Put PROVE IInv'
  OBVIOUS
<1>1. /\ UNCHANGED <<expect, worker, time, mIsCancelled, mIsInterrupt, mIsSuc, ui>>
      /\ got' = {} /\ listener = "put" /\ listener' \in {"crashed", "loop"}
  BY DEF Put, flags
<1>2. worker # "create"
  BY <1>1 DEF IInv, Unborn
<1>3. CASE results' = results
  <2>1. Shape'
    BY <1>1, <1>3, SameResults
  <2>2. TypeOK' /\ Unborn' /\ Marks' /\ Verdict'
    BY <1>1, <1>2, <1>3 DEF IInv, TypeOK, Unborn, Marks, Verdict
  <2> QED BY <2>1, <2>2 DEF IInv
<1>4. CASE results' # results
  <2>1. PICK d \in got : /\ results' = Append(results, Success(d))
                         /\ ~(results # <<>> /\ ~results[1].suc)
                         /\ ~ \E i \in DOMAIN results : results[i].bssid = {d}
    BY <1>4 DEF Put
  <2>2. d \in Devices /\ Success(d) \in Entries /\ results \in Seq(Entries)
    BY <2>1, EntryTypes DEF IInv, TypeOK
  <2>3. Success(d).suc /\ Success(d).bssid = {d}
    BY <2>2, EntryTypes
  <2>4. /\ results' \in Seq(Entries)
        /\ Len(results) \in Nat /\ Len(results') = Len(results) + 1
        /\ \A i \in 1 .. Len(results) : results'[i] = results[i]
        /\ results'[Len(results) + 1] = Success(d)
    BY <2>1, <2>2
  <2>5. OnlySuccesses
    <3>1. ~OneFailed
      BY <2>1, <2>4 DEF OneFailed
    <3> QED BY <3>1 DEF IInv, Shape
  <2>6. \A i \in 1 .. Len(results) : results[i].bssid # {d}
    BY <2>1, <2>2
  <2>7. \A i \in 1 .. Len(results') : i \in 1 .. Len(results) \/ i = Len(results) + 1
    BY <2>4
  <2>8. OnlySuccesses'
    <3>1. \A i \in 1 .. Len(results') : results'[i].suc
      BY <2>3, <2>4, <2>5, <2>7 DEF OnlySuccesses
    <3>2. ASSUME NEW i \in 1 .. Len(results'), NEW j \in 1 .. Len(results'),
                 results'[i].bssid = results'[j].bssid
          PROVE  i = j
      <4>1. CASE i \in 1 .. Len(results) /\ j \in 1 .. Len(results)
        BY <3>2, <4>1, <2>4, <2>5 DEF OnlySuccesses
      <4>2. CASE i \in 1 .. Len(results) /\ j = Len(results) + 1
        BY <3>2, <4>2, <2>3, <2>4, <2>6
      <4>3. CASE i = Len(results) + 1 /\ j \in 1 .. Len(results)
        BY <3>2, <4>3, <2>3, <2>4, <2>6
      <4> QED BY <2>7, <4>1, <4>2, <4>3
    <3> QED BY <3>1, <3>2 DEF OnlySuccesses
  <2>9. Shape'
    BY <2>4, <2>8 DEF Shape
  <2>10. TypeOK'
    BY <1>1, <2>4 DEF IInv, TypeOK
  <2>11. Len(results) >= expect => Len(results') >= expect
    BY <2>4 DEF IInv, TypeOK
  <2>12. Unborn' /\ Marks'
    BY <1>1, <1>2, <2>11 DEF IInv, Unborn, Marks
  <2>13. Verdict'
    BY <1>1 DEF IInv, Verdict
  <2> QED BY <2>9, <2>10, <2>12, <2>13 DEF IInv
<1> QED BY <1>3, <1>4

LEMMA StepInductive == IInv /\ [Next]_vars => IInv'
<1>1. IInv /\ UNCHANGED vars => IInv'
  <2> SUFFICES ASSUME IInv, UNCHANGED vars PROVE IInv'
    OBVIOUS
  <2>1. Shape'
    BY SameResults DEF vars
  <2>2. TypeOK' /\ Unborn' /\ Marks' /\ Verdict'
    BY DEF vars, IInv, TypeOK, Unborn, Marks, Verdict
  <2> QED BY <2>1, <2>2 DEF IInv
<1> QED BY <1>1, ElapseInductive, UserInductive, CreateInductive, WorkerInductive,
           GetInductive, ListenerInductive, PutInductive DEF Next, Worker, Listener

THEOREM Inductive == Spec => []IInv
  BY InitInductive, StepInductive, PTL DEF Spec

----------------------------------------------------------------------------
(* Only __getEsptouchResultList ends the session, and only leaving the       *)
(* sending loop leads into the wait.                                         *)
LEMMA DoneByGet ==
  ASSUME [Next]_vars, worker # "done", worker' = "done"
  PROVE  GetResultList
<1> USE DEF LeaveSending
<1>1. ~UNCHANGED vars /\ ~Elapse /\ ~UserInterface /\ ~Listener
  BY DEF vars, Elapse, UserInterface, Cancel, CancelInterrupt, Listener, ListenHead,
         Acquire, ReceiveNothing, Put, Judge, ListenEnd, ReceiveAnswer
<1>2. Worker
  BY <1>1 DEF Next
<1> QED BY <1>2 DEF Worker, Create, SendHead, SendData, WaitEnds, WorkerInterrupt

LEMMA WaitBySend ==
  ASSUME [Next]_vars, worker = "send", worker' = "wait"
  PROVE  SendHead
<1>1. ~UNCHANGED vars /\ ~Elapse /\ ~UserInterface /\ ~Listener
  BY DEF vars, Elapse, UserInterface, Cancel, CancelInterrupt, Listener, ListenHead,
         Acquire, ReceiveNothing, Put, Judge, ListenEnd, ReceiveAnswer
<1>2. Worker
  BY <1>1 DEF Next
<1> QED BY <1>2 DEF Worker, Create, SendData, WaitEnds, WorkerInterrupt, GetResultList

(* executeForResults keeps the promise of its interface, whichever thread    *)
(* ends the session.                                                         *)
THEOREM ResultsAlwaysAsPromised == Spec => []ResultsAsPromised
<1>1. IInv => ResultsAsPromised
  <2> SUFFICES ASSUME IInv, worker = "done"
               PROVE  \/ Len(results) = 1 /\ ~results[1].suc
                      \/ results # <<>> /\ Distinct /\ \A i \in DOMAIN results : results[i].suc
    BY DEF ResultsAsPromised
  <2>1. Len(results) \in Nat /\ DOMAIN results = 1 .. Len(results)
    BY LenType DEF IInv
  <2>2. CASE OneFailed
    BY <2>2 DEF OneFailed
  <2>3. CASE OnlySuccesses /\ Len(results) # 0
    <3>1. results # <<>>
      BY <2>3
    <3> QED BY <2>1, <2>3, <3>1 DEF OnlySuccesses, Distinct
  <2> QED BY <2>2, <2>3 DEF IInv, Shape
<1> QED BY <1>1, Inductive, PTL

\* Before the time of the session is over, and unless the user cancels, only enough
\* answers end the listening, the waiting and the session.
Early ==
  time # "over" /\ ~mIsCancelled =>
    /\ mIsInterrupt \/ "worker" \in interrupted => mIsSuc
    /\ listener = "judge" => Len(results) >= expect
    /\ listener = "interrupt" => mIsSuc
    /\ worker \in {"interrupt", "result"} => mIsSuc

EarlyInv == Early /\ EarlyFailureIsCancelled

LEMMA EarlyInitInductive == Init => EarlyInv
  BY DEF Init, EarlyInv, Early, EarlyFailureIsCancelled

(* The worker and the user: the list is not touched until it is returned.    *)
LEMMA EarlyThreadsInductive ==
  ASSUME IInv, EarlyInv,
         Elapse \/ UserInterface \/ (\E selected \in 0 .. MaxSelected : Create(selected))
         \/ SendHead \/ SendData \/ WaitEnds \/ WorkerInterrupt
  PROVE  EarlyInv'
<1>1. results' = results /\ (worker' = "done" <=> worker = "done")
  BY DEF Elapse, UserInterface, Cancel, CancelInterrupt, Create, SendHead, SendData, WaitEnds,
         WorkerInterrupt, LeaveSending
<1>2. time' # "over" => time # "over"
  BY DEF Elapse, UserInterface, Cancel, CancelInterrupt, Create, SendHead, SendData, WaitEnds,
         WorkerInterrupt
<1>3. EarlyFailureIsCancelled'
  BY <1>1, <1>2 DEF EarlyInv, EarlyFailureIsCancelled
<1>4. ASSUME time' # "over", ~mIsCancelled'
      PROVE  /\ mIsInterrupt' \/ "worker" \in interrupted' => mIsSuc'
             /\ listener' = "judge" => Len(results') >= expect'
             /\ listener' = "interrupt" => mIsSuc'
             /\ worker' \in {"interrupt", "result"} => mIsSuc'
  <2>1. ~mIsCancelled /\ ~CancelInterrupt
    BY <1>4 DEF Elapse, UserInterface, Cancel, CancelInterrupt, Create, SendHead, SendData,
                WaitEnds, WorkerInterrupt, flags, IInv, TypeOK, Marks
  <2>2. /\ mIsInterrupt \/ "worker" \in interrupted => mIsSuc
        /\ listener = "judge" => Len(results) >= expect
        /\ listener = "interrupt" => mIsSuc
        /\ worker \in {"interrupt", "result"} => mIsSuc
    BY <1>2, <1>4, <2>1 DEF EarlyInv, Early
  <2>3. CASE Elapse \/ Cancel
    BY <2>2, <2>3 DEF Elapse, Cancel, flags, sockets
  <2>4. CASE \E selected \in 0 .. MaxSelected : Create(selected)
    BY <2>2, <2>4 DEF Create, flags, sockets
  <2>5. CASE SendHead \/ SendData
    BY <2>2, <2>5 DEF SendHead, SendData, LeaveSending, flags, sockets
  <2>6. CASE WaitEnds
    BY <1>4, <2>2, <2>6 DEF WaitEnds, flags, sockets
  <2>7. CASE WorkerInterrupt
    <3>1. mIsSuc /\ mIsSuc' = mIsSuc
      BY <2>2, <2>7 DEF WorkerInterrupt
    <3>2. listener' = listener /\ results' = results /\ expect' = expect
      BY <2>7 DEF WorkerInterrupt
    <3> QED BY <2>2, <3>1, <3>2
  <2> QED BY <2>1, <2>3, <2>4, <2>5, <2>6, <2>7 DEF UserInterface
<1> QED BY <1>3, <1>4 DEF EarlyInv, Early

(* The list is returned: with no device only after a cancel, or at the end.  *)
LEMMA EarlyGetInductive == IInv /\ EarlyInv /\ GetResultList => EarlyInv'
<1> SUFFICES ASSUME IInv, EarlyInv, GetResultList PROVE EarlyInv'
  OBVIOUS
<1>1. /\ worker = "result" /\ worker' = "done"
      /\ UNCHANGED <<expect, listener, time, mIsSuc, mIsCancelled, mIsInterrupt, interrupted>>
  BY DEF GetResultList, flags
<1>2. ASSUME results = <<>>, time # "over" PROVE mIsCancelled
  <2>1. ~mIsSuc
    BY <1>2 DEF IInv, TypeOK, Marks
  <2> QED BY <1>1, <1>2, <2>1 DEF EarlyInv, Early
<1>3. EarlyFailureIsCancelled'
  <2>1. CASE results = <<>>
    <3>1. results'[1] = Fail(mIsCancelled)
      BY <2>1 DEF GetResultList
    <3>2. results'[1].cancelled = mIsCancelled
      BY <3>1 DEF Fail
    <3> QED BY <1>1, <1>2, <2>1, <3>2 DEF EarlyFailureIsCancelled
  <2>2. CASE results # <<>>
    <3>1. results' = results /\ OnlySuccesses
      BY <1>1, <2>2 DEF GetResultList, IInv, Shape
    <3>2. 1 \in 1 .. Len(results)
      BY <2>2 DEF IInv, TypeOK
    <3> QED BY <3>1, <3>2 DEF OnlySuccesses, EarlyFailureIsCancelled
  <2> QED BY <2>1, <2>2
<1>4. Early'
  <2> SUFFICES ASSUME time # "over", ~mIsCancelled
               PROVE  /\ mIsInterrupt \/ "worker" \in interrupted => mIsSuc
                      /\ listener = "judge" => Len(results') >= expect
                      /\ listener = "interrupt" => mIsSuc
    BY <1>1 DEF Early
  <2>1. results' = results
    BY <1>2 DEF GetResultList
  <2> QED BY <2>1 DEF EarlyInv, Early
<1> QED BY <1>3, <1>4 DEF EarlyInv

(* The listener: it publishes the verdict before the interrupt.              *)
LEMMA EarlyListenerInductive == IInv /\ EarlyInv /\ Listener => EarlyInv'
<1> SUFFICES ASSUME IInv, EarlyInv, Listener PROVE EarlyInv'
  OBVIOUS
<1> USE DEF Listener, ListenHead, Acquire, ReceiveNothing, ReceiveAnswer, Judge, ListenEnd, flags
<1>1. /\ UNCHANGED <<expect, worker, time, mIsCancelled>>
      /\ "worker" \in interrupted' <=> "worker" \in interrupted
  <2>1. UNCHANGED <<expect, worker, time, mIsCancelled>>
    BY DEF Put
  <2>2. "worker" \in interrupted' <=> "worker" \in interrupted
    <3>1. CASE ListenEnd
      <4>1. Interrupt("listener")
        BY <3>1
      <4>2. interrupted' = interrupted \/ interrupted' = interrupted \cup {"listener"}
        BY <4>1, Zenon DEF Interrupt
      <4>3. "worker" # "listener"
        OBVIOUS
      <4> QED BY <4>2, <4>3
    <3>2. CASE ~ListenEnd
      <4>1. interrupted' = interrupted
        BY <3>2 DEF Put
      <4> QED BY <4>1
    <3> QED BY <3>1, <3>2
  <2> QED BY <2>1, <2>2
<1>2. /\ Len(results) \in Nat /\ expect \in Nat \ {0} /\ results \in Seq(Entries)
      /\ \A d \in got : d \in Devices
  BY LenType DEF IInv, TypeOK
<1>3. /\ Len(results') \in Nat /\ Len(results') >= Len(results)
      /\ Len(results) # 0 => results'[1] = results[1]
  <2>1. CASE results' = results
    BY <1>2, <2>1
  <2>2. CASE \E d \in got : results' = Append(results, Success(d))
    <3>1. PICK d \in got : results' = Append(results, Success(d))
      BY <2>2
    <3>2. Success(d) \in Entries
      BY <1>2, EntryTypes
    <3> QED BY <1>2, <3>1, <3>2
  <2> QED BY <2>1, <2>2 DEF Put
<1>4. EarlyFailureIsCancelled'
  <2>1. worker = "done" => Len(results) # 0
    BY DEF IInv, Shape, OneFailed
  <2> QED BY <1>1, <1>3, <2>1 DEF EarlyInv, EarlyFailureIsCancelled
<1>5. ASSUME time # "over", ~mIsCancelled
      PROVE  /\ mIsInterrupt' \/ "worker" \in interrupted' => mIsSuc'
             /\ listener' = "judge" => Len(results') >= expect
             /\ listener' = "interrupt" => mIsSuc'
             /\ worker \in {"interrupt", "result"} => mIsSuc'
  <2>1. /\ mIsInterrupt \/ "worker" \in interrupted => mIsSuc
        /\ mIsSuc => Len(results) >= expect
        /\ listener = "judge" => Len(results) >= expect
        /\ listener = "interrupt" => mIsSuc
        /\ worker \in {"interrupt", "result"} => mIsSuc
    BY <1>5 DEF EarlyInv, Early, IInv, Marks
  <2>2. ~(Len(results) < expect) => Len(results) >= expect
    BY <1>2
  <2>3. CASE Judge
    BY <1>1, <2>1, <2>3
  <2>4. CASE ListenEnd
    BY <1>1, <2>1, <2>4
  <2>5. CASE ListenHead
    BY <1>1, <2>1, <2>2, <2>5
  <2>6. CASE Acquire \/ ReceiveNothing
    BY <1>1, <2>1, <2>6
  <2>7. CASE \E d \in Devices : ReceiveAnswer(d)
    BY <1>1, <1>5, <2>1, <2>7
  <2>8. CASE Put
    <3>1. /\ UNCHANGED <<mIsInterrupt, mIsSuc>> /\ listener' \in {"crashed", "loop"}
      BY <2>8 DEF Put
    <3> QED BY <1>1, <2>1, <3>1
  <2> QED BY <2>3, <2>4, <2>5, <2>6, <2>7, <2>8
<1> QED BY <1>1, <1>4, <1>5 DEF EarlyInv, Early

(* A session that comes back without a device before its time was cancelled  *)
(* and says so, whichever of the three threads ended it and in whatever      *)
(* order they ran.                                                           *)
THEOREM EarlyFailureAlwaysCancelled == Spec => []EarlyFailureIsCancelled
<1>1. IInv /\ EarlyInv /\ [Next]_vars => EarlyInv'
  <2> SUFFICES ASSUME IInv, EarlyInv, [Next]_vars PROVE EarlyInv'
    OBVIOUS
  <2>1. CASE UNCHANGED vars
    BY <2>1 DEF vars, flags, EarlyInv, Early, EarlyFailureIsCancelled
  <2>2. CASE GetResultList
    BY <2>2, EarlyGetInductive
  <2>3. CASE Listener
    BY <2>3, EarlyListenerInductive
  <2>4. CASE Next /\ ~GetResultList /\ ~Listener
    BY <2>4, EarlyThreadsInductive DEF Next, Worker
  <2> QED BY <2>1, <2>2, <2>3, <2>4
<1>2. EarlyInv => EarlyFailureIsCancelled
  BY DEF EarlyInv
<1> QED BY <1>1, <1>2, EarlyInitInductive, Inductive, PTL DEF Spec

(* While codes are sent, executeForResults returns with enough results or    *)
(* for a cancel, and waits 15 s for nothing but a cancel.                    *)
THEOREM AlwaysBlocksUntilEnough == Spec => BlocksUntilEnough
<1>1. IInv /\ [Next]_vars =>
        [time = "sending" =>
           /\ worker # "done" /\ worker' = "done" /\ ~mIsCancelled =>
                Len(results') >= expect /\ results'[1].suc
           /\ worker = "send" /\ worker' = "wait" => mIsCancelled]_vars
  <2> SUFFICES ASSUME IInv, [Next]_vars, time = "sending"
               PROVE  /\ worker # "done" /\ worker' = "done" /\ ~mIsCancelled =>
                           Len(results') >= expect /\ results'[1].suc
                      /\ worker = "send" /\ worker' = "wait" => mIsCancelled
    OBVIOUS
  <2>1. ASSUME worker # "done", worker' = "done", ~mIsCancelled
        PROVE  Len(results') >= expect /\ results'[1].suc
    <3>1. GetResultList /\ worker = "result"
      BY <2>1, DoneByGet DEF GetResultList
    <3>2. Len(results) >= expect /\ Len(results) \in Nat /\ expect \in Nat \ {0}
      BY <2>1, <3>1, LenType DEF IInv, TypeOK, Marks, Verdict
    <3>3. results # <<>> /\ 1 \in 1 .. Len(results)
      BY <3>2
    <3>4. results' = results /\ OnlySuccesses
      BY <3>1, <3>3 DEF GetResultList, IInv, Shape
    <3> QED BY <3>2, <3>3, <3>4 DEF OnlySuccesses
  <2>2. ASSUME worker = "send", worker' = "wait" PROVE mIsCancelled
    <3>1. SendHead /\ mIsInterrupt /\ ~mIsSuc
      BY <2>2, WaitBySend DEF SendHead, LeaveSending
    <3> QED BY <3>1 DEF IInv, TypeOK, Verdict
  <2> QED BY <2>1, <2>2
<1> QED BY <1>1, Inductive, PTL DEF Spec, BlocksUntilEnough

----------------------------------------------------------------------------
(* The checksums of the codes are bytes.                                     *)
Odd(bytes, place) == Cardinality({i \in DOMAIN bytes : (bytes[i] \div place) % 2 = 1}) % 2

LEMMA OddIsBit ==
  ASSUME NEW bytes, NEW n \in Nat, DOMAIN bytes = 1 .. n, NEW place
  PROVE  Odd(bytes, place) \in 0 .. 1
<1> DEFINE Odds == {i \in DOMAIN bytes : (bytes[i] \div place) % 2 = 1}
<1>1. Odds \in SUBSET (1 .. n) /\ IsFiniteSet(1 .. n)
  BY FS_Interval
<1>2. Cardinality(Odds) \in Nat
  <2> HIDE DEF Odds
  <2>1. IsFiniteSet(Odds)
    BY <1>1, FS_Subset
  <2> QED BY <2>1, FS_CardinalityType
<1>3. Odd(bytes, place) = Cardinality(Odds) % 2
  BY DEF Odd
<1> HIDE DEF Odds
<1> QED BY <1>2, <1>3

LEMMA XorIsByte ==
  ASSUME NEW bytes, NEW n \in Nat, DOMAIN bytes = 1 .. n
  PROVE  TotalXor(bytes) \in Byte
<1>1. \A place : \E bit \in 0 .. 1 : bit = Odd(bytes, place)
  BY OddIsBit
<1>2. PICK a \in 0 .. 1, b \in 0 .. 1, c \in 0 .. 1, d \in 0 .. 1 :
        a = Odd(bytes, 1) /\ b = Odd(bytes, 2) /\ c = Odd(bytes, 4) /\ d = Odd(bytes, 8)
  BY <1>1, Zenon
<1>3. PICK e \in 0 .. 1, f \in 0 .. 1, g \in 0 .. 1, h \in 0 .. 1 :
        e = Odd(bytes, 16) /\ f = Odd(bytes, 32) /\ g = Odd(bytes, 64) /\ h = Odd(bytes, 128)
  BY <1>1, Zenon
<1>4. TotalXor(bytes) = a + 2 * b + 4 * c + 8 * d + 16 * e + 32 * f + 64 * g + 128 * h
  BY <1>2, <1>3 DEF TotalXor, Odd
<1>5. a + 2 * b + 4 * c + 8 * d + 16 * e + 32 * f + 64 * g + 128 * h \in 0 .. 255
  OBVIOUS
<1> QED BY <1>4, <1>5 DEF Byte

LEMMA PairXorIsByte == \A a, b : TotalXor(<<a, b>>) \in Byte
<1> TAKE a, b
<1>1. DOMAIN <<a, b>> = 1 .. 2
  OBVIOUS
<1> QED BY <1>1, XorIsByte

LEMMA CrcShiftIsByte == \A r \in Byte : CrcShift(r) \in Byte
  BY PairXorIsByte DEF CrcShift, Byte

LEMMA CrcTableIsByte == CrcTable \in [Byte -> Byte]
<1> DEFINE two(r) == CrcShift(CrcShift(r))
           four(r) == two(two(r))
<1>1. \A r \in Byte : two(r) \in Byte
  BY CrcShiftIsByte, Zenon
<1>2. \A r \in Byte : four(r) \in Byte
  <2> HIDE DEF two
  <2> QED BY <1>1, Zenon
<1>3. CrcTable = [r \in Byte |-> four(four(r))]
  BY DEF CrcTable
<1> HIDE DEF four
<1> QED BY <1>2, <1>3

LEMMA CrcIsByte ==
  ASSUME NEW bytes, Len(bytes) \in Nat
  PROVE  Crc8(bytes) \in Byte
<1> DEFINE n == Len(bytes)
           next(i, s) == CrcTable[TotalXor(<<s, bytes[i]>>)]
           step == [i \in 1 .. n |-> [s \in Byte |-> next(i, s)]]
           Whole(h) == h = [i \in 0 .. n |-> IF i = 0 THEN 0 ELSE next(i, h[i - 1])]
           value == CHOOSE h : Whole(h)
<1>1. \A i, s : next(i, s) \in Byte
  BY PairXorIsByte, CrcTableIsByte
<1>2. Crc8(bytes) = value[n]
  BY Zenon DEF Crc8
<1> HIDE DEF next
<1>3. step \in [1 .. n -> [Byte -> Byte]] /\ \A i \in 1 .. n : \A s \in Byte : step[i][s] = next(i, s)
  BY <1>1
<1> HIDE DEF n, step
<1>4. PICK g : IsWalk(Byte, n, 0, step, g)
  <2>1. n \in Nat /\ 0 \in Byte
    BY DEF n, Byte
  <2> QED BY <1>3, <2>1, Walk, Zenon DEF Steps
<1>5. Whole(g)
  <2>1. n \in Nat
    BY DEF n
  <2>2. \A i \in 0 .. n : g[i] = IF i = 0 THEN 0 ELSE next(i, g[i - 1])
    <3>1. \A i \in 1 .. n : i - 1 \in 0 .. n
      BY <2>1
    <3>2. \A i \in 1 .. n : g[i] = next(i, g[i - 1])
      BY <1>3, <1>4, <3>1 DEF IsWalk
    <3> QED BY <1>4, <2>1, <3>2 DEF IsWalk
  <2> QED BY <1>4, <2>2 DEF IsWalk
<1>6. Whole(value)
  <2> HIDE DEF Whole
  <2> QED BY <1>5, Zenon
<1>7. value[n] = IF n = 0 THEN 0 ELSE next(n, value[n - 1])
  <2> HIDE DEF value
  <2>1. n \in 0 .. n
    BY DEF n
  <2> QED BY <1>6, <2>1
<1> QED BY <1>1, <1>2, <1>7 DEF Byte

----------------------------------------------------------------------------
(* A byte and its place come out of their three datagrams.                   *)
Understood(t, u8, index) ==
  /\ {t[1], t[2], t[3]} \cap GuideCodes = {}
  /\ t[1] < ExtraLen + 256 /\ t[3] < ExtraLen + 256 /\ t[2] >= ExtraLen + 256
  /\ SeqHeader(t) = index /\ DataByte(t) = u8 /\ DataCrc(t) = Crc8(<<u8, index>>)

LEMMA TripleOfByte ==
  ASSUME NEW u8 \in Byte, NEW index \in 0 .. IndexMax
  PROVE  Understood(DataCode(u8, index), u8, index)
<1> DEFINE crc == Crc8(<<u8, index>>)
           t == DataCode(u8, index)
<1>1. crc \in Byte
  BY CrcIsByte
<1>2. DataCode(u8, index) = << 40 + 16 * (crc \div 16) + (u8 \div 16), 40 + 256 + index,
                               40 + 16 * (crc % 16) + (u8 % 16) >>
  BY DEF DataCode, ExtraLen, High, Low
<1> HIDE DEF crc
<1>3. /\ t[1] = 40 + 16 * (crc \div 16) + (u8 \div 16) /\ t[2] = 40 + 256 + index
      /\ t[3] = 40 + 16 * (crc % 16) + (u8 % 16)
  BY <1>2
<1> HIDE DEF t
<1>4. /\ crc \div 16 \in 0 .. 15 /\ crc % 16 \in 0 .. 15 /\ crc = 16 * (crc \div 16) + (crc % 16)
      /\ u8 \div 16 \in 0 .. 15 /\ u8 % 16 \in 0 .. 15 /\ u8 = 16 * (u8 \div 16) + (u8 % 16)
  BY <1>1 DEF Byte
<1>5. \A a, b \in 0 .. 15 : (16 * a + b) \div 16 = a /\ (16 * a + b) % 16 = b
  OBVIOUS
<1>6. /\ (t[1] - 40) \div 16 = crc \div 16 /\ (t[1] - 40) % 16 = u8 \div 16
      /\ (t[3] - 40) \div 16 = crc % 16 /\ (t[3] - 40) % 16 = u8 % 16
  <2>1. t[1] - 40 = 16 * (crc \div 16) + (u8 \div 16) /\ t[3] - 40 = 16 * (crc % 16) + (u8 % 16)
    BY <1>3, <1>4
  <2> QED BY <1>4, <1>5, <2>1
<1>7. DataByte(t) = u8 /\ DataCrc(t) = crc
  BY <1>4, <1>6 DEF DataByte, DataCrc, High, Low, ExtraLen
<1>8. t[1] \in 40 .. 295 /\ t[2] \in 296 .. 423 /\ t[3] \in 40 .. 295 /\ SeqHeader(t) = index
  BY <1>3, <1>4 DEF SeqHeader, ExtraLen, IndexMax
<1>9. Understood(t, u8, index)
  BY <1>7, <1>8 DEF Understood, crc, GuideCodes, ExtraLen
<1> QED BY <1>9 DEF t

\* Two texts, one behind the other.
LEMMA Appended ==
  ASSUME NEW S, NEW front \in Seq(S), NEW back \in Seq(S)
  PROVE  /\ front \o back \in Seq(S)
         /\ Len(front \o back) = Len(front) + Len(back)
         /\ \A i \in 1 .. Len(front) : (front \o back)[i] = front[i]
         /\ \A i \in 1 .. Len(back) : (front \o back)[Len(front) + i] = back[i]
<1>1. Len(front) \in Nat /\ Len(back) \in Nat
  BY LenProperties
<1>2. /\ front \o back \in Seq(S)
      /\ Len(front \o back) = Len(front) + Len(back)
      /\ \A i \in 1 .. Len(front) + Len(back) : (front \o back)[i] =
           IF i <= Len(front) THEN front[i] ELSE back[i - Len(front)]
  BY ConcatProperties
<1>3. \A i \in 1 .. Len(front) : (front \o back)[i] = front[i]
  BY <1>1, <1>2
<1>4. \A i \in 1 .. Len(back) : (front \o back)[Len(front) + i] = back[i]
  <2>1. ASSUME NEW i \in 1 .. Len(back) PROVE (front \o back)[Len(front) + i] = back[i]
    <3> DEFINE k == Len(front) + i
    <3>1. k \in 1 .. Len(front) + Len(back) /\ ~(k <= Len(front)) /\ k - Len(front) = i
      BY <1>1
    <3> QED BY <1>2, <3>1
  <2> QED BY <2>1
<1> QED BY <1>2, <1>3, <1>4

BothIn(text, front, back) ==
  /\ \A i \in 1 .. Len(front) : text[i] = front[i]
  /\ \A i \in 1 .. Len(back) : text[Len(front) + i] = back[i]

LEMMA TwoTexts ==
  ASSUME NEW S, NEW front \in Seq(S), NEW back \in Seq(S)
  PROVE  BothIn(front \o back, front, back)
BY Appended DEF BothIn

LEMMA AppendedType ==
  ASSUME NEW S, NEW front \in Seq(S), NEW back \in Seq(S)
  PROVE  front \o back \in Seq(S) /\ Len(front \o back) = Len(front) + Len(back)
BY Appended

LEMMA InFront ==
  ASSUME NEW S, NEW front \in Seq(S), NEW back \in Seq(S), NEW i \in 1 .. Len(front)
  PROVE  (front \o back)[i] = front[i]
BY Appended

LEMMA InBack ==
  ASSUME NEW S, NEW front \in Seq(S), NEW back \in Seq(S), NEW i \in 1 .. Len(back)
  PROVE  (front \o back)[Len(front) + i] = back[i]
BY Appended

LEMMA AtMost32 == \A k \in Nat : k <= 32 => k \in 0 .. 32
  OBVIOUS

\* The text behind it is what is cut off behind the first.
LEMMA CutOff ==
  ASSUME NEW S, NEW front \in Seq(S), NEW back \in Seq(S)
  PROVE  SubSeq(front \o back, Len(front) + 1, Len(front) + Len(back)) = back
<1> DEFINE n == Len(front)  k == Len(back)  text == front \o back
<1>1. n \in Nat /\ k \in Nat
  BY LenProperties
<1>2. text \in Seq(S) /\ \A i \in 1 .. k : text[n + i] = back[i]
  BY Appended
<1>3. \A i \in 1 .. k : back[i] \in S
  BY ElementOfSeq
<1> HIDE DEF n, k, text
<1>4. \A i \in n + 1 .. n + k : text[i] \in S
  <2>1. ASSUME NEW i \in n + 1 .. n + k PROVE text[i] \in S
    <3>1. i - n \in 1 .. k /\ n + (i - n) = i
      BY <1>1
    <3> QED BY <1>2, <1>3, <3>1
  <2> QED BY <2>1
<1> DEFINE cut == SubSeq(text, n + 1, n + k)
<1>5. /\ cut \in Seq(S)
      /\ Len(cut) = IF n + 1 <= n + k THEN (n + k) - (n + 1) + 1 ELSE 0
      /\ \A i \in 1 .. (n + k) - (n + 1) + 1 : cut[i] = text[n + 1 + i - 1]
  <2>1. n + 1 \in Int /\ n + k \in Int
    BY <1>1
  <2> QED BY <1>4, <2>1, SubSeqProperties
<1> HIDE DEF cut
<1>6. Len(cut) = k /\ \A i \in 1 .. k : cut[i] = back[i]
  <2>1. (n + k) - (n + 1) + 1 = k /\ (n + 1 <= n + k <=> k # 0)
    BY <1>1
  <2>2. Len(cut) = k
    BY <1>1, <1>5, <2>1
  <2>3. ASSUME NEW i \in 1 .. k PROVE cut[i] = back[i]
    <3>1. n + 1 + i - 1 = n + i /\ i \in 1 .. (n + k) - (n + 1) + 1
      BY <1>1
    <3> QED BY <1>2, <1>5, <3>1
  <2> QED BY <2>2, <2>3
<1>7. cut = back
  BY <1>5, <1>6, SeqEqual DEF k
<1> QED BY <1>7 DEF cut, text, n, k

\* The bytes of a datum are bytes, and the password stands behind the phone's address.
Fitting(ssid, pwd) ==
  /\ ssid \in Seq(Char) /\ pwd \in Seq(Char) /\ Len(ssid) <= 32
  /\ Len(DatumBytes(ssid, pwd)) - 1 <= IndexMax

LEMMA PhoneIpIsText == PhoneIp \in Seq(Byte) /\ Len(PhoneIp) = 4
<1>1. PhoneIp \in [1 .. 4 -> Byte]
  BY SmartConfigOK DEF SmartConfigOK
<1>2. PhoneIp \in Seq(Byte)
  BY <1>1, 4 \in Nat, SeqDef
<1> QED BY <1>1, <1>2, LenProperties

LEMMA FittingTypes ==
  ASSUME NEW ssid, NEW pwd, Fitting(ssid, pwd)
  PROVE  /\ Len(pwd) \in Nat /\ Len(ssid) \in 0 .. 32
         /\ pwd \in Seq(Byte) /\ ssid \in Seq(Byte)
         /\ Crc8(ssid) \in Byte /\ Crc8(Bssid) \in Byte
<1>1. ssid \in Seq(Char) /\ pwd \in Seq(Char) /\ Len(ssid) <= 32
  BY DEF Fitting
<1>2. Char \subseteq Byte
  BY DEF Char, Byte
<1>3. pwd \in Seq(Byte) /\ ssid \in Seq(Byte)
  BY <1>1, <1>2, SeqMonotonic
<1>4. Len(pwd) \in Nat /\ Len(ssid) \in Nat /\ Len(Bssid) \in Nat
  BY <1>3, SmartConfigOK, LenProperties
<1>5. Crc8(ssid) \in Byte /\ Crc8(Bssid) \in Byte
  BY <1>4, CrcIsByte
<1>6. Len(ssid) \in 0 .. 32
  BY <1>1, <1>4, AtMost32, Zenon
<1> QED BY <1>3, <1>4, <1>5, <1>6, Zenon

\* What stands before the password.
DatumFront(front, a, b, c, d, x) == front = <<a, b, c, d>> \o <<x>> \o PhoneIp
NineBefore(S, front, b) == front \in Seq(S) /\ Len(front) = 9 /\ front[2] = b

LEMMA FrontOfDatum ==
  ASSUME NEW S, NEW a \in S, NEW b \in S, NEW c \in S, NEW d \in S, NEW x \in S, PhoneIp \in Seq(S),
         NEW front, DatumFront(front, a, b, c, d, x)
  PROVE  NineBefore(S, front, b)
<1> DEFINE four == <<a, b, c, d>>
           one == <<x>>
<1>1. four \in Seq(S) /\ Len(four) = 4 /\ four[2] = b
  OBVIOUS
<1>2. one \in Seq(S) /\ Len(one) = 1
  OBVIOUS
<1>3. PhoneIp \in Seq(S) /\ Len(PhoneIp) = 4
  BY PhoneIpIsText
<1> HIDE DEF four, one
<1> DEFINE five == four \o one
<1>4. 2 \in 1 .. Len(four)
  BY <1>1
<1>5. five \in Seq(S) /\ Len(five) = Len(four) + Len(one) /\ five[2] = four[2]
  <2>1. four \o one \in Seq(S) /\ Len(four \o one) = Len(four) + Len(one)
    BY <1>1, <1>2, AppendedType, Zenon
  <2>2. \A i \in 1 .. Len(four) : (four \o one)[i] = four[i]
    BY <1>1, <1>2, Appended, Zenon
  <2> QED BY <1>4, <2>1, <2>2, Zenon
<1> HIDE DEF five
<1>6. Len(five) = 5 /\ 2 \in 1 .. Len(five)
  BY <1>1, <1>2, <1>5
<1>7. /\ five \o PhoneIp \in Seq(S) /\ Len(five \o PhoneIp) = Len(five) + Len(PhoneIp)
      /\ (five \o PhoneIp)[2] = five[2]
  <2>1. five \o PhoneIp \in Seq(S) /\ Len(five \o PhoneIp) = Len(five) + Len(PhoneIp)
    BY <1>3, <1>5, AppendedType, Zenon
  <2>2. (five \o PhoneIp)[2] = five[2]
    BY <1>3, <1>5, <1>6, InFront, Zenon
  <2> QED BY <2>1, <2>2
<1>8. Len(five \o PhoneIp) = 9
  BY <1>3, <1>6, <1>7
<1> QED BY <1>1, <1>5, <1>7, <1>8, Zenon DEF DatumFront, NineBefore, five, four, one

LEMMA DatumIsBytes ==
  ASSUME NEW ssid, NEW pwd, Fitting(ssid, pwd)
  PROVE  /\ DatumBytes(ssid, pwd) \in Seq(Byte)
         /\ Len(DatumBytes(ssid, pwd)) \in 9 .. 128
         /\ PasswordIn(DatumBytes(ssid, pwd)) = pwd
<1>1. /\ Len(pwd) \in Nat /\ Len(ssid) \in 0 .. 32
      /\ pwd \in Seq(Byte) /\ ssid \in Seq(Byte)
      /\ Crc8(ssid) \in Byte /\ Crc8(Bssid) \in Byte
  BY FittingTypes
<1>2. Byte \subseteq Nat
  BY DEF Byte
<1>3. pwd \in Seq(Nat) /\ ssid \in Seq(Nat) /\ PhoneIp \in Seq(Nat) /\ Len(PhoneIp) = 4
  BY <1>1, <1>2, PhoneIpIsText, SeqMonotonic
<1>4. PICK totalLen, head : /\ totalLen = 5 + Len(PhoneIp) + Len(pwd) + Len(ssid)
                            /\ head = <<totalLen, Len(pwd), Crc8(ssid), Crc8(Bssid)>>
  OBVIOUS
<1>5. totalLen \in Nat /\ totalLen = 9 + Len(pwd) + Len(ssid)
  BY <1>1, <1>3, <1>4
<1>6. head \in Seq(Nat)
  <2>1. \A a, b, c, d \in Nat : <<a, b, c, d>> \in Seq(Nat)
    OBVIOUS
  <2>2. Crc8(ssid) \in Nat /\ Crc8(Bssid) \in Nat
    BY <1>1, <1>2, Zenon
  <2> QED BY <1>1, <1>4, <1>5, <2>1, <2>2, Zenon
<1>7. PICK x \in Byte : x = TotalXor(head \o PhoneIp \o pwd \o ssid)
  <2> DEFINE all == head \o PhoneIp \o pwd \o ssid
  <2>1. all \in Seq(Nat)
    BY <1>3, <1>6, ConcatProperties
  <2> HIDE DEF all
  <2>2. Len(all) \in Nat /\ DOMAIN all = 1 .. Len(all)
    BY <2>1, LenProperties
  <2>3. TotalXor(all) \in Byte
    BY <2>2, XorIsByte
  <2> QED BY <2>3 DEF all
<1>8. PICK front : DatumFront(front, totalLen, Len(pwd), Crc8(ssid), Crc8(Bssid), x)
  BY DEF DatumFront
<1>9. PICK bytes : bytes = DatumBytes(ssid, pwd)
  OBVIOUS
<1>10. bytes = front \o pwd
  BY <1>4, <1>7, <1>8, <1>9 DEF DatumBytes, DatumFront
<1>11. front \in Seq(Nat) /\ Len(front) = 9 /\ front[2] = Len(pwd)
  <2>1. Crc8(ssid) \in Nat /\ Crc8(Bssid) \in Nat /\ x \in Nat
    BY <1>1, <1>2, Zenon
  <2>2. totalLen \in Nat /\ Len(pwd) \in Nat
    BY <1>1, <1>5, Zenon
  <2>3. NineBefore(Nat, front, Len(pwd))
    BY <1>3, <1>8, <2>1, <2>2, FrontOfDatum, Zenon
  <2> QED BY <2>3 DEF NineBefore
<1>12. Len(bytes) = 9 + Len(pwd) /\ bytes[2] = Len(pwd)
  <2>1. 2 \in 1 .. Len(front)
    BY <1>11
  <2>2. Len(front \o pwd) = Len(front) + Len(pwd) /\ (front \o pwd)[2] = front[2]
    BY <1>3, <1>11, <2>1, AppendedType, InFront, Zenon
  <2> QED BY <1>10, <1>11, <2>2
<1>13. Len(pwd) <= 119
  <2>1. Len(bytes) - 1 <= 127
    BY <1>9 DEF Fitting, IndexMax
  <2> QED BY <1>1, <1>12, <2>1
<1>14. front \in Seq(Byte)
  <2>1. totalLen \in Byte /\ Len(pwd) \in Byte
    <3>1. \A p \in Nat, q \in 0 .. 32 : p <= 119 => p \in 0 .. 255 /\ 9 + p + q \in 0 .. 255
      OBVIOUS
    <3> QED BY <1>1, <1>5, <1>13, <3>1, Zenon DEF Byte
  <2>2. NineBefore(Byte, front, Len(pwd))
    BY <1>1, <1>8, <2>1, PhoneIpIsText, FrontOfDatum, Zenon
  <2> QED BY <2>2 DEF NineBefore
<1>15. bytes \in Seq(Byte)
  BY <1>1, <1>10, <1>14, ConcatProperties
<1>16. PasswordIn(bytes) = pwd
  <2>1. SubSeq(front \o pwd, Len(front) + 1, Len(front) + Len(pwd)) = pwd
    BY <1>1, <1>14, CutOff
  <2>2. Len(front) + 1 = 10 /\ Len(front) + Len(pwd) = 9 + bytes[2]
    BY <1>11, <1>12
  <2> QED BY <1>10, <2>1, <2>2 DEF PasswordIn
<1>17. Len(bytes) \in 9 .. 128
  <2>1. \A p \in Nat : p <= 119 => 9 + p \in 9 .. 128
    OBVIOUS
  <2> QED BY <1>1, <1>12, <1>13, <2>1, Zenon
<1> QED BY <1>9, <1>15, <1>16, <1>17

\* In whatever order the triples are heard, each byte is at its place.
LEMMA DatumOverheard ==
  ASSUME NEW ssid, NEW pwd, Fitting(ssid, pwd)
  PROVE  Overheard(DatumCode(ssid, pwd)) = DatumBytes(ssid, pwd)
<1> DEFINE bytes == DatumBytes(ssid, pwd)
           n == Len(bytes)
           triples == DatumCode(ssid, pwd)
           Heard(i) == CHOOSE t \in {triples[j] : j \in DOMAIN triples} : SeqHeader(t) = i - 1
<1>1. bytes \in Seq(Byte) /\ n \in Nat /\ n <= 128 /\ DOMAIN bytes = 1 .. n
  <2>1. bytes \in Seq(Byte) /\ Len(bytes) \in 9 .. 128
    BY DatumIsBytes
  <2> HIDE DEF bytes
  <2>2. DOMAIN bytes = 1 .. Len(bytes)
    BY <2>1, LenProperties
  <2>3. \A k \in 9 .. 128 : k \in Nat /\ k <= 128
    OBVIOUS
  <2> QED BY <2>1, <2>2, <2>3, Zenon
<1>2. triples = [i \in 1 .. n |-> DataCode(bytes[i], i - 1)]
  BY <1>1 DEF DatumCode
<1>3. ASSUME NEW i \in 1 .. n PROVE SeqHeader(triples[i]) = i - 1 /\ DataByte(triples[i]) = bytes[i]
  <2>1. bytes[i] \in Byte /\ i - 1 \in 0 .. IndexMax
    BY <1>1 DEF IndexMax
  <2>2. triples[i] = DataCode(bytes[i], i - 1)
    BY <1>2
  <2>3. Understood(triples[i], bytes[i], i - 1)
    BY <2>1, <2>2, TripleOfByte, Zenon
  <2> QED BY <2>3 DEF Understood
<1>4. Len(triples) = n /\ DOMAIN triples = 1 .. n
  BY <1>1, <1>2
<1> HIDE DEF triples, bytes, n
<1>5. ASSUME NEW i \in 1 .. n PROVE DataByte(Heard(i)) = bytes[i]
  <2> DEFINE All == {triples[j] : j \in DOMAIN triples}
  <2>1. triples[i] \in All /\ SeqHeader(triples[i]) = i - 1
    BY <1>3, <1>4
  <2>2. Heard(i) \in All /\ SeqHeader(Heard(i)) = i - 1
    <3> HIDE DEF All
    <3>1. Heard(i) = CHOOSE t \in All : SeqHeader(t) = i - 1
      BY DEF All
    <3> QED BY <2>1, <3>1
  <2> HIDE DEF Heard
  <2>3. PICK j \in 1 .. n : Heard(i) = triples[j]
    BY <1>4, <2>2
  <2>4. j - 1 = i - 1
    BY <1>3, <2>2, <2>3
  <2>5. j = i
    BY <1>1, <2>4
  <2> QED BY <1>3, <2>3, <2>5
<1>6. Overheard(triples) = [i \in 1 .. n |-> bytes[i]]
  <2>1. Overheard(triples) = [i \in 1 .. n |-> DataByte(Heard(i))]
    BY <1>4 DEF Overheard
  <2> HIDE DEF Heard
  <2> QED BY <1>5, <2>1
<1>7. bytes = [i \in 1 .. n |-> bytes[i]]
  BY <1>1
<1> QED BY <1>6, <1>7 DEF triples, bytes

----------------------------------------------------------------------------
(* Numbers and hexadecimal digits.                                           *)
HexDigit == (48 .. 57) \cup (65 .. 70)

LEMMA DigitIsHex ==
  \A d \in 0 .. 15 : Digit(d) \in HexDigit /\ m_str_to_ch(Digit(d)) = d
<1> TAKE d \in 0 .. 15
<1>1. CASE d < 10
  <2>1. Digit(d) = 48 + d /\ 48 + d \in 48 .. 57
    BY <1>1 DEF Digit
  <2> QED BY <2>1 DEF HexDigit, m_str_to_ch
<1>2. CASE ~(d < 10)
  <2>1. Digit(d) = 55 + d /\ 55 + d \in 65 .. 70
    BY <1>2 DEF Digit
  <2> QED BY <2>1 DEF HexDigit, m_str_to_ch
<1> QED BY <1>1, <1>2

LEMMA HexIsNotDash == HexDigit \subseteq Char /\ Dash \notin HexDigit /\ Dash \in Char
  BY DEF HexDigit, Char, Dash

LEMMA HexString ==
  ASSUME NEW n \in Port
  PROVE  /\ intStrToHexStr(n) \in Seq(HexDigit)
         /\ Len(intStrToHexStr(n)) = Width(n)
         /\ \A i \in 1 .. Width(n) :
              intStrToHexStr(n)[i] = Digit((n \div Place[Width(n) - i + 1]) % 16)
<1>1. Width(n) \in 2 .. 4
  BY DEF Width
<1> DEFINE w == Width(n)
           digit(i) == Digit((n \div Place[w - i + 1]) % 16)
<1> HIDE DEF w
<1>2. ASSUME NEW i \in 1 .. w PROVE digit(i) \in HexDigit
  <2>1. w - i + 1 \in 1 .. 4
    BY <1>1 DEF w
  <2>2. Place[w - i + 1] \in {1, 16, 256, 4096}
    BY <2>1 DEF Place
  <2>3. n \div 1 \in Nat /\ n \div 16 \in Nat /\ n \div 256 \in Nat /\ n \div 4096 \in Nat
    BY DEF Port
  <2>4. \A q \in Nat : q % 16 \in 0 .. 15
    OBVIOUS
  <2>5. n \div Place[w - i + 1] \in Nat
    BY <2>2, <2>3
  <2>6. (n \div Place[w - i + 1]) % 16 \in 0 .. 15
    BY <2>4, <2>5
  <2> QED BY <2>6, DigitIsHex
<1>3. intStrToHexStr(n) = [i \in 1 .. w |-> digit(i)]
  BY DEF intStrToHexStr, w
<1>4. w \in Nat /\ w = Width(n)
  BY <1>1 DEF w
<1> HIDE DEF digit
<1>5. intStrToHexStr(n) \in [1 .. w -> HexDigit]
  BY <1>2, <1>3
<1>6. intStrToHexStr(n) \in Seq(HexDigit)
  BY <1>4, <1>5, SeqDef
<1>7. Len(intStrToHexStr(n)) = w
  BY <1>3, <1>4
<1> QED BY <1>3, <1>4, <1>6, <1>7 DEF digit

LEMMA HexOfByte ==
  ASSUME NEW n \in Byte
  PROVE  /\ Len(intStrToHexStr(n)) = 2 /\ intStrToHexStr(n) \in Seq(HexDigit)
         /\ 16 * m_str_to_ch(intStrToHexStr(n)[1]) + m_str_to_ch(intStrToHexStr(n)[2]) = n
<1>1. n \in Port /\ Width(n) = 2
  BY DEF Byte, Port, Width
<1>2. /\ intStrToHexStr(n)[1] = Digit((n \div 16) % 16)
      /\ intStrToHexStr(n)[2] = Digit((n \div 1) % 16)
  <2>1. 2 - 1 + 1 = 2 /\ 2 - 2 + 1 = 1 /\ Place[2] = 16 /\ Place[1] = 1
    BY DEF Place
  <2>2. \A i \in 1 .. 2 : intStrToHexStr(n)[i] = Digit((n \div Place[2 - i + 1]) % 16)
    BY <1>1, HexString
  <2> QED BY <2>1, <2>2
<1>3. (n \div 16) % 16 \in 0 .. 15 /\ (n \div 1) % 16 \in 0 .. 15
      /\ 16 * ((n \div 16) % 16) + ((n \div 1) % 16) = n
  BY DEF Byte
<1>4. Len(intStrToHexStr(n)) = 2 /\ intStrToHexStr(n) \in Seq(HexDigit)
  BY <1>1, HexString
<1> QED BY <1>2, <1>3, <1>4, DigitIsHex

LEMMA HexOfPort ==
  ASSUME NEW n \in Port, n >= 4096
  PROVE  /\ Len(intStrToHexStr(n)) = 4
         /\ 256 * (16 * m_str_to_ch(intStrToHexStr(n)[1]) + m_str_to_ch(intStrToHexStr(n)[2]))
              + (16 * m_str_to_ch(intStrToHexStr(n)[3]) + m_str_to_ch(intStrToHexStr(n)[4])) = n
<1>1. Width(n) = 4
  BY DEF Port, Width
<1>2. /\ intStrToHexStr(n)[1] = Digit((n \div 4096) % 16)
      /\ intStrToHexStr(n)[2] = Digit((n \div 256) % 16)
      /\ intStrToHexStr(n)[3] = Digit((n \div 16) % 16)
      /\ intStrToHexStr(n)[4] = Digit((n \div 1) % 16)
  <2>1. /\ 4 - 1 + 1 = 4 /\ 4 - 2 + 1 = 3 /\ 4 - 3 + 1 = 2 /\ 4 - 4 + 1 = 1
        /\ Place[4] = 4096 /\ Place[3] = 256 /\ Place[2] = 16 /\ Place[1] = 1
    BY DEF Place
  <2>2. \A i \in 1 .. 4 : intStrToHexStr(n)[i] = Digit((n \div Place[4 - i + 1]) % 16)
    <3>1. \A i \in 1 .. Width(n) :
            intStrToHexStr(n)[i] = Digit((n \div Place[Width(n) - i + 1]) % 16)
      BY HexString
    <3> QED BY <1>1, <3>1
  <2> QED BY <2>1, <2>2
<1>3. /\ (n \div 4096) % 16 \in 0 .. 15 /\ (n \div 256) % 16 \in 0 .. 15
      /\ (n \div 16) % 16 \in 0 .. 15 /\ (n \div 1) % 16 \in 0 .. 15
  <2>1. n \div 1 \in Nat /\ n \div 16 \in Nat /\ n \div 256 \in Nat /\ n \div 4096 \in Nat
    BY DEF Port
  <2>2. \A q \in Nat : q % 16 \in 0 .. 15
    OBVIOUS
  <2> QED BY <2>1, <2>2
<1> DEFINE a == (n \div 4096) % 16
           b == (n \div 256) % 16
           c == (n \div 16) % 16
           d == (n \div 1) % 16
<1>4. a \in 0 .. 15 /\ b \in 0 .. 15 /\ c \in 0 .. 15 /\ d \in 0 .. 15
  BY <1>3
<1>5. 256 * (16 * a + b) + (16 * c + d) = n
  <2>1. n = 16 * (n \div 16) + ((n \div 1) % 16)
    BY DEF Port
  <2>2. n \div 16 = 16 * (n \div 256) + ((n \div 16) % 16)
    BY DEF Port
  <2>3. n \div 256 = 16 * (n \div 4096) + ((n \div 256) % 16)
    BY DEF Port
  <2>4. (n \div 4096) % 16 = n \div 4096
    BY DEF Port
  <2>5. n \div 16 \in Nat /\ n \div 256 \in Nat /\ n \div 4096 \in Nat
    BY DEF Port
  <2>6. /\ n = 16 * (n \div 16) + d /\ n \div 16 = 16 * (n \div 256) + c
        /\ n \div 256 = 16 * (n \div 4096) + b /\ a = n \div 4096
    BY <2>1, <2>2, <2>3, <2>4
  <2> HIDE DEF a, b, c, d
  <2> QED BY <1>4, <2>5, <2>6
<1>6. Len(intStrToHexStr(n)) = 4
  <2>1. Len(intStrToHexStr(n)) = Width(n)
    BY HexString
  <2> QED BY <1>1, <2>1
<1>7. /\ m_str_to_ch(intStrToHexStr(n)[1]) = a /\ m_str_to_ch(intStrToHexStr(n)[2]) = b
      /\ m_str_to_ch(intStrToHexStr(n)[3]) = c /\ m_str_to_ch(intStrToHexStr(n)[4]) = d
  <2>1. /\ intStrToHexStr(n)[1] = Digit(a) /\ intStrToHexStr(n)[2] = Digit(b)
        /\ intStrToHexStr(n)[3] = Digit(c) /\ intStrToHexStr(n)[4] = Digit(d)
    BY <1>2
  <2> HIDE DEF a, b, c, d
  <2> QED BY <1>4, <2>1, DigitIsHex
<1> HIDE DEF a, b, c, d
<1> QED BY <1>5, <1>6, <1>7

----------------------------------------------------------------------------
(* Where each part of the text stands.                                       *)
Framed(head, ip, port, pwd) == head \o ip \o <<Dash>> \o port \o <<Dash>> \o pwd

\* A text starts with two parts: the second stands where the first ends.
StartsWith(text, front) ==
  /\ text \in Seq(Char) /\ front \in Seq(Char) /\ Len(front) <= Len(text)
  /\ \A i \in 1 .. Len(front) : text[i] = front[i]

StandsAt(text, n, part) == \A i \in 1 .. Len(part) : text[n + i] = part[i]

LEMMA TwoParts ==
  ASSUME NEW text, NEW front \in Seq(Char), NEW back \in Seq(Char),
         StartsWith(text, front \o back)
  PROVE  StartsWith(text, front) /\ StandsAt(text, Len(front), back)
<1> DEFINE n == Len(front)
           k == Len(back)
<1>1. n \in Nat /\ k \in Nat
  BY LenProperties
<1>2. PICK both : both = front \o back
  OBVIOUS
<1>3. /\ Len(both) = n + k /\ \A i \in 1 .. n : both[i] = front[i]
      /\ \A i \in 1 .. k : both[n + i] = back[i]
  BY <1>2, Appended
<1>4. /\ text \in Seq(Char) /\ Len(both) <= Len(text)
      /\ \A i \in 1 .. Len(both) : text[i] = both[i]
  BY <1>2 DEF StartsWith
<1>5. Len(text) \in Nat
  BY <1>4, LenProperties
<1> HIDE DEF n, k
<1>6. n <= Len(text) /\ \A i \in 1 .. n : text[i] = front[i]
  BY <1>1, <1>3, <1>4, <1>5
<1>7. \A i \in 1 .. k : text[n + i] = back[i]
  <2>1. \A i \in 1 .. k : n + i \in 1 .. Len(both)
    BY <1>1, <1>3
  <2> QED BY <1>3, <1>4, <2>1
<1> QED BY <1>4, <1>6, <1>7 DEF StartsWith, StandsAt, n, k

LEMMA Itself == ASSUME NEW text \in Seq(Char) PROVE StartsWith(text, text)
<1>1. Len(text) \in Nat
  BY LenProperties
<1> QED BY <1>1 DEF StartsWith

Frame(text, head, ip, port, pwd) ==
  LET a == Len(ip)
      p == Len(port)
  IN  /\ text \in Seq(Char) /\ Len(text) = 10 + a + p + Len(pwd)
      /\ \A i \in 1 .. 8 : text[i] = head[i]
      /\ \A i \in 1 .. a : text[8 + i] = ip[i]
      /\ text[9 + a] = Dash
      /\ \A i \in 1 .. p : text[9 + a + i] = port[i]
      /\ text[10 + a + p] = Dash
      /\ SubSeq(text, 11 + a + p, Len(text)) = pwd

LEMMA FrameOfText ==
  ASSUME NEW head \in Seq(Char), Len(head) = 8, NEW ip \in Seq(Char), NEW port \in Seq(Char),
         NEW pwd \in Seq(Char)
  PROVE  Frame(Framed(head, ip, port, pwd), head, ip, port, pwd)
<1>1. PICK dash : dash = <<Dash>>
  OBVIOUS
<1>2. dash \in Seq(Char) /\ Len(dash) = 1 /\ dash[1] = Dash
  BY <1>1, HexIsNotDash
<1>3. PICK a \in Nat, p \in Nat, k \in Nat : a = Len(ip) /\ p = Len(port) /\ k = Len(pwd)
  BY LenProperties
<1>4. PICK t2, t3, t4, t5, text : /\ t2 = head \o ip /\ t3 = t2 \o dash /\ t4 = t3 \o port
                                  /\ t5 = t4 \o dash /\ text = t5 \o pwd
  OBVIOUS
<1>5. t2 \in Seq(Char) /\ Len(t2) = 8 + a
  BY <1>3, <1>4, AppendedType
<1>6. t3 \in Seq(Char) /\ Len(t3) = 9 + a
  <2>1. t3 \in Seq(Char) /\ Len(t3) = Len(t2) + Len(dash)
    BY <1>2, <1>4, <1>5, AppendedType, Zenon
  <2> QED BY <1>2, <1>5, <2>1
<1>7. t4 \in Seq(Char) /\ Len(t4) = 9 + a + p
  <2>1. t4 \in Seq(Char) /\ Len(t4) = Len(t3) + Len(port)
    BY <1>4, <1>6, AppendedType, Zenon
  <2> QED BY <1>3, <1>6, <2>1
<1>8. t5 \in Seq(Char) /\ Len(t5) = 10 + a + p
  <2>1. t5 \in Seq(Char) /\ Len(t5) = Len(t4) + Len(dash)
    BY <1>2, <1>4, <1>7, AppendedType, Zenon
  <2> QED BY <1>2, <1>7, <2>1
<1>9. text \in Seq(Char) /\ Len(text) = 10 + a + p + k
  <2>1. text \in Seq(Char) /\ Len(text) = Len(t5) + Len(pwd)
    BY <1>4, <1>8, AppendedType, Zenon
  <2> QED BY <1>3, <1>8, <2>1
<1>10. StartsWith(text, t5)
  BY <1>4, <1>8, <1>9, Itself, TwoParts
<1>11. StartsWith(text, t4) /\ StandsAt(text, Len(t4), dash)
  BY <1>2, <1>4, <1>7, <1>10, TwoParts, Zenon
<1>12. StartsWith(text, t3) /\ StandsAt(text, Len(t3), port)
  BY <1>4, <1>6, <1>11, TwoParts, Zenon
<1>13. StartsWith(text, t2) /\ StandsAt(text, Len(t2), dash)
  BY <1>2, <1>4, <1>5, <1>12, TwoParts, Zenon
<1>14. StartsWith(text, head) /\ StandsAt(text, Len(head), ip)
  BY <1>4, <1>13, TwoParts, Zenon
<1>15. text[9 + a] = Dash /\ text[10 + a + p] = Dash
  <2>1. 1 \in 1 .. Len(dash)
    BY <1>2
  <2>2. text[Len(t2) + 1] = Dash /\ text[Len(t4) + 1] = Dash
    BY <1>2, <1>11, <1>13, <2>1 DEF StandsAt
  <2> QED BY <1>5, <1>7, <2>2
<1>16. SubSeq(text, 11 + a + p, Len(text)) = pwd
  <2>1. SubSeq(t5 \o pwd, Len(t5) + 1, Len(t5) + Len(pwd)) = pwd
    BY <1>8, CutOff
  <2>2. Len(t5) + 1 = 11 + a + p /\ Len(t5) + Len(pwd) = Len(text)
    BY <1>3, <1>8, <1>9
  <2> QED BY <1>4, <2>1, <2>2
<1>17. \A i \in 1 .. 8 : text[i] = head[i]
  BY <1>14 DEF StartsWith
<1>18. (\A i \in 1 .. a : text[8 + i] = ip[i]) /\ \A i \in 1 .. p : text[9 + a + i] = port[i]
  BY <1>3, <1>6, <1>12, <1>14 DEF StandsAt
<1>19. Framed(head, ip, port, pwd) = text
  BY <1>1, <1>4 DEF Framed
<1> QED BY <1>3, <1>9, <1>15, <1>16, <1>17, <1>18, <1>19 DEF Frame

LEMMA IpText ==
  ASSUME NEW parts \in [1 .. 4 -> Byte]
  PROVE  /\ IpStrToHexStr(parts) \in Seq(HexDigit) /\ Len(IpStrToHexStr(parts)) = 8
         /\ \A k \in 1 .. 4 : 16 * m_str_to_ch(IpStrToHexStr(parts)[2 * k - 1])
                                + m_str_to_ch(IpStrToHexStr(parts)[2 * k]) = parts[k]
<1> DEFINE h(i) == intStrToHexStr(parts[i])
<1>1. \A i \in 1 .. 4 : /\ Len(h(i)) = 2 /\ h(i) \in Seq(HexDigit)
                        /\ 16 * m_str_to_ch(h(i)[1]) + m_str_to_ch(h(i)[2]) = parts[i]
  BY HexOfByte
<1>2. PICK a, b, c, d : a = h(1) /\ b = h(2) /\ c = h(3) /\ d = h(4)
  OBVIOUS
<1>3. IpStrToHexStr(parts) = a \o b \o c \o d
  <2>1. 1 \in DOMAIN parts /\ 2 \in DOMAIN parts /\ 3 \in DOMAIN parts /\ 4 \in DOMAIN parts
    OBVIOUS
  <2> QED BY <1>2, <2>1 DEF IpStrToHexStr
<1>4. /\ a \in Seq(HexDigit) /\ Len(a) = 2 /\ b \in Seq(HexDigit) /\ Len(b) = 2
      /\ c \in Seq(HexDigit) /\ Len(c) = 2 /\ d \in Seq(HexDigit) /\ Len(d) = 2
  BY <1>1, <1>2
<1>5. /\ 16 * m_str_to_ch(a[1]) + m_str_to_ch(a[2]) = parts[1]
      /\ 16 * m_str_to_ch(b[1]) + m_str_to_ch(b[2]) = parts[2]
      /\ 16 * m_str_to_ch(c[1]) + m_str_to_ch(c[2]) = parts[3]
      /\ 16 * m_str_to_ch(d[1]) + m_str_to_ch(d[2]) = parts[4]
  BY <1>1, <1>2
<1> HIDE DEF h
<1>6. PICK t2, t3, t4 : t2 = a \o b /\ t3 = t2 \o c /\ t4 = t3 \o d
  OBVIOUS
<1>7. t2 \in Seq(HexDigit) /\ Len(t2) = 4 /\ t2[1] = a[1] /\ t2[2] = a[2] /\ t2[3] = b[1] /\ t2[4] = b[2]
  <2>1. t2 \in Seq(HexDigit) /\ Len(t2) = Len(a) + Len(b)
    BY <1>4, <1>6, AppendedType, Zenon
  <2>2. (\A i \in 1 .. 2 : t2[i] = a[i]) /\ \A i \in 1 .. 2 : t2[2 + i] = b[i]
    <3>1. /\ \A i \in 1 .. Len(a) : (a \o b)[i] = a[i]
          /\ \A i \in 1 .. Len(b) : (a \o b)[Len(a) + i] = b[i]
      <4>1. BothIn(a \o b, a, b)
        BY <1>4, TwoTexts, Zenon
      <4> QED BY <4>1 DEF BothIn
    <3> QED BY <1>4, <1>6, <3>1
  <2>3. t2[2 + 1] = b[1] /\ t2[2 + 2] = b[2] /\ t2[1] = a[1] /\ t2[2] = a[2]
    BY <2>2
  <2> QED BY <1>4, <2>1, <2>3
<1>8. /\ t3 \in Seq(HexDigit) /\ Len(t3) = 6 /\ \A i \in 1 .. 4 : t3[i] = t2[i]
      /\ t3[5] = c[1] /\ t3[6] = c[2]
  <2>1. t3 \in Seq(HexDigit) /\ Len(t3) = Len(t2) + Len(c)
    BY <1>4, <1>6, <1>7, AppendedType, Zenon
  <2>2. (\A i \in 1 .. 4 : t3[i] = t2[i]) /\ \A i \in 1 .. 2 : t3[4 + i] = c[i]
    BY <1>4, <1>6, <1>7, Appended
  <2>3. t3[4 + 1] = c[1] /\ t3[4 + 2] = c[2]
    BY <2>2
  <2> QED BY <1>4, <1>7, <2>1, <2>2, <2>3
<1>9. /\ t4 \in Seq(HexDigit) /\ Len(t4) = 8 /\ \A i \in 1 .. 6 : t4[i] = t3[i]
      /\ t4[7] = d[1] /\ t4[8] = d[2]
  <2>1. t4 \in Seq(HexDigit) /\ Len(t4) = Len(t3) + Len(d)
    BY <1>4, <1>6, <1>8, AppendedType, Zenon
  <2>2. (\A i \in 1 .. 6 : t4[i] = t3[i]) /\ \A i \in 1 .. 2 : t4[6 + i] = d[i]
    BY <1>4, <1>6, <1>8, Appended
  <2>3. t4[6 + 1] = d[1] /\ t4[6 + 2] = d[2]
    BY <2>2
  <2> QED BY <1>4, <1>8, <2>1, <2>2, <2>3
<1>10. /\ t4[1] = a[1] /\ t4[2] = a[2] /\ t4[3] = b[1] /\ t4[4] = b[2]
       /\ t4[5] = c[1] /\ t4[6] = c[2] /\ t4[7] = d[1] /\ t4[8] = d[2]
  BY <1>7, <1>8, <1>9
<1>11. ASSUME NEW k \in 1 .. 4
       PROVE  16 * m_str_to_ch(t4[2 * k - 1]) + m_str_to_ch(t4[2 * k]) = parts[k]
  <2>1. k = 1 \/ k = 2 \/ k = 3 \/ k = 4
    OBVIOUS
  <2>2. /\ 2 * 1 - 1 = 1 /\ 2 * 1 = 2 /\ 2 * 2 - 1 = 3 /\ 2 * 2 = 4
        /\ 2 * 3 - 1 = 5 /\ 2 * 3 = 6 /\ 2 * 4 - 1 = 7 /\ 2 * 4 = 8
    OBVIOUS
  <2> QED BY <1>5, <1>10, <2>1, <2>2
<1> QED BY <1>3, <1>6, <1>9, <1>11

LEMMA EmptyText == IpStrToHexStr(<<>>) = <<>>
<1>1. \A i : i \notin DOMAIN <<>>
  OBVIOUS
<1>2. IpStrToHexStr(<<>>) = <<>> \o <<>> \o <<>> \o <<>>
  BY <1>1 DEF IpStrToHexStr
<1>3. <<>> \o <<>> = <<>>
  BY EmptySeq, ConcatEmptySeq
<1> QED BY <1>2, <1>3

LEMMA HexLength ==
  ASSUME NEW n \in Port
  PROVE  intStrToHexStr(n) \in Seq(HexDigit) /\ Len(intStrToHexStr(n)) \in {2, 3, 4}
<1>1. Width(n) \in {2, 3, 4}
  BY DEF Width
<1>2. intStrToHexStr(n) \in Seq(HexDigit) /\ Len(intStrToHexStr(n)) = Width(n)
  BY HexString
<1> QED BY <1>1, <1>2

LEMMA PortText ==
  ASSUME NEW parts \in [1 .. 1 -> Port]
  PROVE  IpStrToHexStr(parts) = intStrToHexStr(parts[1])
<1>1. 1 \in DOMAIN parts /\ 2 \notin DOMAIN parts /\ 3 \notin DOMAIN parts /\ 4 \notin DOMAIN parts
  OBVIOUS
<1>2. IpStrToHexStr(parts) = intStrToHexStr(parts[1]) \o <<>> \o <<>> \o <<>>
  BY <1>1 DEF IpStrToHexStr
<1>3. intStrToHexStr(parts[1]) \in Seq(HexDigit)
  <2>1. parts[1] \in Port
    OBVIOUS
  <2> QED BY <2>1, HexString
<1>4. intStrToHexStr(parts[1]) \o <<>> = intStrToHexStr(parts[1])
  BY <1>3, ConcatEmptySeq
<1> QED BY <1>2, <1>4

LEMMA FirstDash ==
  ASSUME NEW text \in Seq(Char), NEW i \in Nat, NEW k \in 1 .. Len(text), i <= k,
         text[k] = Dash, \A j \in 1 .. Len(text) : i <= j /\ j < k => text[j] # Dash
  PROVE  AfterDash(text, i) = k + 1
<1> DEFINE dashes == {j \in DOMAIN text : j >= i /\ text[j] = Dash}
           first == CHOOSE j \in dashes : \A m \in dashes : j <= m
<1>1. Len(text) \in Nat /\ DOMAIN text = 1 .. Len(text)
  BY LenProperties
<1>2. k \in dashes /\ \A m \in dashes : k <= m
  BY <1>1
<1>3. AfterDash(text, i) = 1 + first
  <2>1. dashes # {}
    BY <1>2
  <2> QED BY <2>1 DEF AfterDash
<1>4. dashes \subseteq Int
  BY <1>1
<1> HIDE DEF dashes
<1>5. first \in dashes /\ \A m \in dashes : first <= m
  BY <1>2
<1> HIDE DEF first
<1>6. first <= k /\ k <= first /\ first \in Int /\ k \in Int
  BY <1>2, <1>4, <1>5
<1> QED BY <1>3, <1>6

SettingsHead(mode) == Flag \o <<Dash, Digit(mode), Dash>>

LEMMA HeadText ==
  ASSUME NEW mode \in 0 .. 3
  PROVE  /\ SettingsHead(mode) \in Seq(Char) /\ Len(SettingsHead(mode)) = 8
         /\ \A i \in 1 .. 5 : SettingsHead(mode)[i] = Flag[i]
         /\ SettingsHead(mode)[7] = Digit(mode)
<1>1. mode \in 0 .. 15 /\ Digit(mode) \in Char
  BY DigitIsHex, HexIsNotDash
<1>2. PICK flag, three : flag = Flag /\ three = <<Dash, Digit(mode), Dash>>
  OBVIOUS
<1>3. flag \in Seq(Char) /\ Len(flag) = 5
  BY <1>2 DEF Flag, Char
<1>4. three \in Seq(Char) /\ Len(three) = 3 /\ three[2] = Digit(mode)
  BY <1>1, <1>2, HexIsNotDash
<1>5. PICK both : both = flag \o three
  OBVIOUS
<1>6. both \in Seq(Char) /\ Len(both) = Len(flag) + Len(three)
  BY <1>3, <1>4, <1>5, AppendedType, Zenon
<1>7. (\A i \in 1 .. 5 : both[i] = flag[i]) /\ \A i \in 1 .. 3 : both[5 + i] = three[i]
  <2>1. /\ \A i \in 1 .. Len(flag) : (flag \o three)[i] = flag[i]
        /\ \A i \in 1 .. Len(three) : (flag \o three)[Len(flag) + i] = three[i]
    <3>1. BothIn(flag \o three, flag, three)
      BY <1>3, <1>4, TwoTexts, Zenon
    <3> QED BY <3>1 DEF BothIn
  <2> QED BY <1>3, <1>4, <1>5, <2>1
<1>8. both[5 + 2] = three[2]
  BY <1>7
<1>9. Len(both) = 8 /\ both[7] = Digit(mode)
  BY <1>3, <1>4, <1>6, <1>8
<1>10. \A i \in 1 .. 5 : both[i] = Flag[i]
  BY <1>2, <1>7, Zenon
<1> QED BY <1>2, <1>5, <1>6, <1>9, <1>10 DEF SettingsHead

----------------------------------------------------------------------------
(* What smartconfig_done reads from a text with settings in front.           *)
Settings ==
  [mode : 0 .. 3, ip : {<<>>} \cup [1 .. 4 -> Byte], port : {<<>>} \cup [1 .. 1 -> Port],
   pwd : Seq(Char), ssid : Seq(Char)]

LEMMA SettingsText ==
  ASSUME NEW t \in Settings, ~isConfigInfosNil(t)
  PROVE  /\ Frame(getAllPasswd(t), SettingsHead(t.mode), IpStrToHexStr(t.ip),
                  IpStrToHexStr(t.port), t.pwd)
         /\ IpStrToHexStr(t.ip) \in Seq(HexDigit) /\ Len(IpStrToHexStr(t.ip)) \in {0, 8}
         /\ IpStrToHexStr(t.port) \in Seq(HexDigit) /\ Len(IpStrToHexStr(t.port)) \in {0, 2, 3, 4}
         /\ t.mode # 3 => /\ t.ip \in [1 .. 4 -> Byte] /\ Len(IpStrToHexStr(t.ip)) = 8
                          /\ t.port \in [1 .. 1 -> Port] /\ Len(IpStrToHexStr(t.port)) # 0
<1>1. /\ t.mode \in 0 .. 3 /\ t.pwd \in Seq(Char)
      /\ t.ip = <<>> \/ t.ip \in [1 .. 4 -> Byte]
      /\ t.port = <<>> \/ t.port \in [1 .. 1 -> Port]
  BY DEF Settings
<1>2. <<>> \in Seq(HexDigit) /\ Len(<<>>) = 0
  BY EmptySeq
<1>3. PICK ip, port : ip = IpStrToHexStr(t.ip) /\ port = IpStrToHexStr(t.port)
  OBVIOUS
<1>4. ip \in Seq(HexDigit) /\ Len(ip) \in {0, 8}
  BY <1>1, <1>2, <1>3, EmptyText, IpText
<1>5. port \in Seq(HexDigit) /\ Len(port) \in {0, 2, 3, 4}
  <2>1. CASE t.port = <<>>
    BY <1>2, <1>3, <2>1, EmptyText
  <2>2. CASE t.port \in [1 .. 1 -> Port]
    <3>1. t.port[1] \in Port
      BY <2>2
    <3>2. port = intStrToHexStr(t.port[1])
      BY <1>3, <2>2, PortText
    <3>3. intStrToHexStr(t.port[1]) \in Seq(HexDigit) /\ Len(intStrToHexStr(t.port[1])) \in {2, 3, 4}
      BY <3>1, HexLength
    <3> QED BY <3>2, <3>3
  <2> QED BY <1>1, <2>1, <2>2
<1>6. t.mode # 3 => /\ t.ip \in [1 .. 4 -> Byte] /\ Len(ip) = 8
                    /\ t.port \in [1 .. 1 -> Port] /\ Len(port) # 0
  <2> HAVE t.mode # 3
  <2>1. t.ip \in [1 .. 4 -> Byte] /\ t.port \in [1 .. 1 -> Port]
    BY <1>1 DEF isConfigInfosNil
  <2>2. t.port[1] \in Port
    BY <2>1
  <2>3. port = intStrToHexStr(t.port[1])
    BY <1>3, <2>1, PortText
  <2>4. Len(intStrToHexStr(t.port[1])) \in {2, 3, 4}
    BY <2>2, HexLength
  <2>5. Len(port) # 0
    BY <2>3, <2>4
  <2> QED BY <1>3, <2>1, <2>5, IpText
<1>7. getAllPasswd(t) = Framed(SettingsHead(t.mode), ip, port, t.pwd)
  BY <1>3 DEF getAllPasswd, theHexSendStr, Framed, SettingsHead
<1>8. Frame(Framed(SettingsHead(t.mode), ip, port, t.pwd), SettingsHead(t.mode), ip, port, t.pwd)
  <2>1. ip \in Seq(Char) /\ port \in Seq(Char)
    BY <1>4, <1>5, HexIsNotDash, SeqMonotonic
  <2>2. SettingsHead(t.mode) \in Seq(Char) /\ Len(SettingsHead(t.mode)) = 8
    BY <1>1, HeadText
  <2> QED BY <1>1, <2>1, <2>2, FrameOfText, Zenon
<1> QED BY <1>3, <1>4, <1>5, <1>6, <1>7, <1>8

LEMMA SettingsRead ==
  ASSUME NEW t \in Settings, ~isConfigInfosNil(t), NEW text, text = getAllPasswd(t)
  PROVE  /\ HasFlag(text) /\ LinkMode(text) = t.mode
         /\ LinkPassword(text) = t.pwd
         /\ t.mode # 3 => LinkIp(text) = t.ip
         /\ t.mode # 3 /\ t.port[1] >= 4096 => LinkPort(text) = t.port[1]
<1>1. PICK head, ip, port :
        head = SettingsHead(t.mode) /\ ip = IpStrToHexStr(t.ip) /\ port = IpStrToHexStr(t.port)
  OBVIOUS
<1>2. Frame(text, head, ip, port, t.pwd)
  BY <1>1, SettingsText
<1>3. /\ ip \in Seq(HexDigit) /\ Len(ip) \in {0, 8}
      /\ port \in Seq(HexDigit) /\ Len(port) \in {0, 2, 3, 4}
      /\ t.mode # 3 => /\ t.ip \in [1 .. 4 -> Byte] /\ Len(ip) = 8
                       /\ t.port \in [1 .. 1 -> Port] /\ Len(port) # 0
  BY <1>1, SettingsText
<1>4. PICK a \in Nat, p \in Nat, k \in Nat : a = Len(ip) /\ p = Len(port) /\ k = Len(t.pwd)
  BY <1>3, LenProperties DEF Settings
<1>5. /\ text \in Seq(Char) /\ Len(text) = 10 + a + p + k
      /\ \A i \in 1 .. 8 : text[i] = head[i]
      /\ \A i \in 1 .. a : text[8 + i] = ip[i]
      /\ text[9 + a] = Dash
      /\ \A i \in 1 .. p : text[9 + a + i] = port[i]
      /\ text[10 + a + p] = Dash
      /\ SubSeq(text, 11 + a + p, Len(text)) = t.pwd
  BY <1>2, <1>4 DEF Frame
<1>6. \A i \in 1 .. 10 + a + p : i \in DOMAIN text /\ CharAt(text, i) = text[i]
  <2>1. DOMAIN text = 1 .. Len(text)
    BY <1>5, LenProperties
  <2>2. \A i \in 1 .. 10 + a + p : i \in 1 .. 10 + a + p + k
    OBVIOUS
  <2> QED BY <1>5, <2>1, <2>2 DEF CharAt
<1>7. t.mode \in 0 .. 3 /\ (\A i \in 1 .. 5 : head[i] = Flag[i]) /\ head[7] = Digit(t.mode)
  BY <1>1, HeadText DEF Settings
<1>8. HasFlag(text)
  <2>1. DOMAIN Flag = 1 .. 5
    BY DEF Flag
  <2>2. \A i \in 1 .. 5 : CharAt(text, i) = Flag[i]
    BY <1>5, <1>6, <1>7
  <2> QED BY <2>1, <2>2 DEF HasFlag
<1>9. LinkMode(text) = t.mode
  <2>1. CharAt(text, 7) = Digit(t.mode)
    BY <1>5, <1>6, <1>7
  <2>2. t.mode \in 0 .. 15
    BY <1>7
  <2> QED BY <2>1, <2>2, DigitIsHex DEF LinkMode
<1>10. /\ \A i \in 1 .. a : text[8 + i] # Dash
       /\ \A i \in 1 .. p : text[9 + a + i] # Dash
  <2>1. (\A i \in 1 .. a : ip[i] \in HexDigit) /\ \A i \in 1 .. p : port[i] \in HexDigit
    BY <1>3, <1>4, ElementOfSeq
  <2> QED BY <1>5, <2>1, HexIsNotDash
<1>11. From(text, 11 + a + p) = t.pwd
  BY <1>5 DEF From
<1>12. LinkPassword(text) = t.pwd
  <2>1. CASE t.mode = 3
    <3>1. AfterDash(text, 9) = 10 + a
      <4>1. 9 + a \in 1 .. Len(text) /\ 9 <= 9 + a
        BY <1>5
      <4>2. ASSUME NEW j \in 1 .. Len(text), 9 <= j, j < 9 + a PROVE text[j] # Dash
        <5>1. j - 8 \in 1 .. a /\ 8 + (j - 8) = j
          BY <1>5, <4>2
        <5> QED BY <1>10, <5>1
      <4>3. AfterDash(text, 9) = (9 + a) + 1
        BY <1>5, <4>1, <4>2, FirstDash
      <4> QED BY <4>3
    <3>2. AfterDash(text, 10 + a) = 11 + a + p
      <4>1. 10 + a + p \in 1 .. Len(text) /\ 10 + a <= 10 + a + p /\ 10 + a \in Nat
        <5>1. Len(text) = 10 + a + p + k
          BY <1>5
        <5> QED BY <5>1
      <4>2. ASSUME NEW j \in 1 .. Len(text), 10 + a <= j, j < 10 + a + p PROVE text[j] # Dash
        <5>1. j - 9 - a \in 1 .. p /\ 9 + a + (j - 9 - a) = j
          BY <1>5, <4>2
        <5> QED BY <1>10, <5>1
      <4>3. AfterDash(text, 10 + a) = (10 + a + p) + 1
        BY <1>5, <4>1, <4>2, FirstDash
      <4> QED BY <4>3
    <3> QED BY <1>9, <1>11, <2>1, <3>1, <3>2 DEF LinkPassword
  <2>2. CASE t.mode # 3
    <3>1. AfterDash(text, 20) = 11 + a + p
      <4>1. a = 8 /\ p \in 2 .. 4
        BY <1>3, <1>4, <2>2
      <4>2. 10 + a + p \in 1 .. Len(text) /\ 20 <= 10 + a + p
        BY <1>5, <4>1
      <4>3. ASSUME NEW j \in 1 .. Len(text), 20 <= j, j < 10 + a + p PROVE text[j] # Dash
        <5>1. j - 9 - a \in 1 .. p /\ 9 + a + (j - 9 - a) = j
          BY <1>5, <4>1, <4>3
        <5> QED BY <1>10, <5>1
      <4>4. AfterDash(text, 20) = (10 + a + p) + 1
        BY <1>5, <4>2, <4>3, FirstDash
      <4> QED BY <4>4
    <3>2. LinkMode(text) \in 0 .. 2
      BY <1>7, <1>9, <2>2
    <3> QED BY <1>11, <3>1, <3>2 DEF LinkPassword
  <2> QED BY <2>1, <2>2
<1>13. ASSUME t.mode # 3 PROVE LinkIp(text) = t.ip
  <2>1. a = 8 /\ t.ip \in [1 .. 4 -> Byte]
    BY <1>3, <1>4, <1>13
  <2>2. \A i \in 1 .. 8 : CharAt(text, 8 + i) = ip[i]
    <3>1. \A i \in 1 .. 8 : 8 + i \in 1 .. 10 + a + p
      BY <2>1
    <3> QED BY <1>5, <1>6, <2>1, <3>1
  <2>3. ASSUME NEW k1 \in 1 .. 4 PROVE m_str_to_hex(text, 9 + 2 * (k1 - 1)) = t.ip[k1]
    <3>1. /\ 9 + 2 * (k1 - 1) = 8 + (2 * k1 - 1) /\ (9 + 2 * (k1 - 1)) + 1 = 8 + 2 * k1
          /\ 2 * k1 - 1 \in 1 .. 8 /\ 2 * k1 \in 1 .. 8
      OBVIOUS
    <3>2. 16 * m_str_to_ch(ip[2 * k1 - 1]) + m_str_to_ch(ip[2 * k1]) = t.ip[k1]
      BY <1>1, <2>1, IpText
    <3>3. CharAt(text, 9 + 2 * (k1 - 1)) = ip[2 * k1 - 1]
          /\ CharAt(text, (9 + 2 * (k1 - 1)) + 1) = ip[2 * k1]
      BY <2>2, <3>1
    <3> QED BY <3>2, <3>3 DEF m_str_to_hex
  <2>4. t.ip = [k1 \in 1 .. 4 |-> t.ip[k1]]
    BY <2>1
  <2> QED BY <2>3, <2>4 DEF LinkIp
<1>14. ASSUME t.mode # 3, t.port[1] >= 4096 PROVE LinkPort(text) = t.port[1]
  <2>1. a = 8 /\ t.port \in [1 .. 1 -> Port] /\ t.port[1] \in Port
    BY <1>3, <1>4, <1>14
  <2>2. port = intStrToHexStr(t.port[1])
    BY <1>1, <2>1, PortText
  <2>3. /\ Len(port) = 4
        /\ 256 * (16 * m_str_to_ch(port[1]) + m_str_to_ch(port[2]))
             + (16 * m_str_to_ch(port[3]) + m_str_to_ch(port[4])) = t.port[1]
    BY <1>14, <2>1, <2>2, HexOfPort
  <2>4. \A i \in 1 .. 4 : CharAt(text, 9 + a + i) = port[i]
    <3>1. \A i \in 1 .. 4 : 9 + a + i \in 1 .. 10 + a + p
      BY <1>4, <2>1, <2>3
    <3> QED BY <1>4, <1>5, <1>6, <2>3, <3>1
  <2>5. /\ CharAt(text, 18) = port[1] /\ CharAt(text, 18 + 1) = port[2]
        /\ CharAt(text, 20) = port[3] /\ CharAt(text, 20 + 1) = port[4]
    <3>1. /\ 9 + a + 1 = 18 /\ 9 + a + 2 = 18 + 1 /\ 9 + a + 3 = 20 /\ 9 + a + 4 = 20 + 1
      BY <2>1
    <3> QED BY <2>4, <3>1
  <2> QED BY <2>3, <2>5 DEF LinkPort, m_str_to_hex
<1> QED BY <1>8, <1>9, <1>12, <1>13, <1>14

----------------------------------------------------------------------------
(* The way of the settings.                                                  *)
CodeInv ==
  /\ typed \in Settings /\ Len(typed.ssid) <= 32
  /\ stage \in {"idle", "typed"} => codes = <<>>
  /\ stage \notin {"idle", "typed"} =>
       codes = Codes(typed) /\ Fitting(typed.ssid, getAllPasswd(typed))
  /\ stage \in {"received", "linked"} =>
       conf = [ssid |-> typed.ssid, pwd |-> getAllPasswd(typed)]
  /\ stage # "linked" => joined = NoConf
  /\ SettingsArrive

LEMMA TypedIsSettings ==
  ASSUME NEW mode \in Modes, NEW ip \in Ips, NEW port \in Ports, NEW pwd \in Passwords,
         NEW ssid \in Ssids
  PROVE  /\ [mode |-> mode, ip |-> ip, port |-> port, pwd |-> pwd, ssid |-> ssid] \in Settings
         /\ Len(ssid) <= 32
<1>1. /\ mode \in 0 .. 3 /\ ip \in {<<>>} \cup [1 .. 4 -> Byte]
      /\ port \in {<<>>} \cup [1 .. 1 -> Port]
      /\ pwd \in Seq(Char) /\ ssid \in Seq(Char) /\ Len(ssid) <= 32
  BY SmartConfigOK DEF SmartConfigOK
<1> QED BY <1>1 DEF Settings

LEMMA TextIsText == ASSUME NEW t \in Settings PROVE getAllPasswd(t) \in Seq(Char)
<1>1. CASE isConfigInfosNil(t)
  BY <1>1 DEF getAllPasswd, Settings
<1>2. CASE ~isConfigInfosNil(t)
  BY <1>2, SettingsText DEF Frame
<1> QED BY <1>1, <1>2

LEMMA CodeInitInductive == CodeInit => CodeInv
<1> SUFFICES ASSUME CodeInit PROVE CodeInv
  OBVIOUS
<1>1. typed \in Settings /\ Len(typed.ssid) <= 32
  <2>1. <<>> \in Seq(Char) /\ Len(<<>>) = 0
    BY EmptySeq
  <2> QED BY <2>1 DEF CodeInit, Settings
<1>2. SettingsArrive
  BY DEF CodeInit, SettingsArrive, NetworkArrives
<1> QED BY <1>1, <1>2 DEF CodeInit, CodeInv

LEMMA NotLinked ==
  ASSUME stage' # "linked", joined' = NoConf
  PROVE  SettingsArrive'
BY DEF SettingsArrive, NetworkArrives, NoConf

LEMMA LinkFlagInductive == CodeInv /\ LinkFlag => CodeInv'
<1> SUFFICES ASSUME CodeInv, LinkFlag PROVE CodeInv'
  OBVIOUS
<1>1. /\ typed \in Settings /\ conf = [ssid |-> typed.ssid, pwd |-> getAllPasswd(typed)]
      /\ joined = NoConf
  BY DEF CodeInv, LinkFlag
<1>2. /\ HasFlag(conf.pwd) /\ stage' = "linked" /\ typed' = typed /\ conf' = conf
  BY DEF LinkFlag
<1>3. conf.pwd = getAllPasswd(typed) /\ conf.ssid = typed.ssid
  BY <1>1
<1>4. (typed.mode \in 1 .. 2 /\ ~isConfigInfosNil(typed)) =>
        /\ param'.mode = typed.mode /\ param'.ip = typed.ip
        /\ typed.port[1] >= 4096 => param'.port = typed.port[1]
  <2> HAVE typed.mode \in 1 .. 2 /\ ~isConfigInfosNil(typed)
  <2>1. /\ LinkMode(conf.pwd) = typed.mode /\ LinkIp(conf.pwd) = typed.ip
        /\ typed.port[1] >= 4096 => LinkPort(conf.pwd) = typed.port[1]
    BY <1>1, <1>3, SettingsRead
  <2>2. typed.mode \in 0 .. 2
    OBVIOUS
  <2>3. param' = [mode |-> LinkMode(conf.pwd), ip |-> LinkIp(conf.pwd),
                  port |-> LinkPort(conf.pwd)]
    BY <2>1, <2>2 DEF LinkFlag
  <2> QED BY <2>1, <2>3
<1>5. ~isConfigInfosNil(typed) => joined' \in {NoConf, [ssid |-> typed.ssid, pwd |-> typed.pwd]}
  <2> HAVE ~isConfigInfosNil(typed)
  <2>1. LinkPassword(conf.pwd) = typed.pwd
    BY <1>1, <1>3, SettingsRead
  <2> QED BY <1>1, <1>3, <2>1 DEF LinkFlag
<1>6. isConfigInfosNil(typed) => LooksSet
  BY <1>2, <1>3 DEF LooksSet, getAllPasswd
<1>7. SettingsArrive'
  <2>1. (~LooksSet => NetworkArrives)'
    <3>1. LooksSet' <=> LooksSet
      BY <1>2 DEF LooksSet
    <3> QED BY <1>2, <1>5, <1>6, <3>1 DEF NetworkArrives
  <2> QED BY <1>2, <1>4, <2>1 DEF SettingsArrive
<1>8. codes' = codes /\ stage = "received"
  BY DEF LinkFlag
<1> QED BY <1>2, <1>7, <1>8 DEF CodeInv

LEMMA LinkPlainInductive == CodeInv /\ LinkPlain => CodeInv'
<1> SUFFICES ASSUME CodeInv, LinkPlain PROVE CodeInv'
  OBVIOUS
<1>1. /\ typed \in Settings /\ conf = [ssid |-> typed.ssid, pwd |-> getAllPasswd(typed)]
      /\ joined = NoConf
  BY DEF CodeInv, LinkPlain
<1>2. /\ ~HasFlag(conf.pwd) /\ stage' = "linked" /\ UNCHANGED <<typed, codes, conf>>
      /\ joined' \in {conf, joined} /\ stage = "received"
  BY DEF LinkPlain
<1>3. isConfigInfosNil(typed)
  <2>1. conf.pwd = getAllPasswd(typed)
    BY <1>1
  <2> QED BY <1>1, <1>2, <2>1, SettingsRead
<1>4. conf = [ssid |-> typed.ssid, pwd |-> typed.pwd]
  BY <1>1, <1>3 DEF getAllPasswd
<1>5. SettingsArrive'
  BY <1>1, <1>2, <1>3, <1>4 DEF SettingsArrive, NetworkArrives
<1> QED BY <1>2, <1>5 DEF CodeInv

LEMMA CodeStepInductive == CodeInv /\ [CodeNext]_codeVars => CodeInv'
<1> SUFFICES ASSUME CodeInv, [CodeNext]_codeVars PROVE CodeInv'
  OBVIOUS
<1>1. CASE Type
  <2>1. stage = "idle" /\ stage' = "typed" /\ UNCHANGED <<codes, conf, param, joined>>
    BY <1>1 DEF Type
  <2>2. typed' \in Settings /\ Len(typed'.ssid) <= 32
    <3>1. PICK mode \in Modes, ip \in Ips, port \in Ports, pwd \in Passwords, ssid \in Ssids :
            typed' = [mode |-> mode, ip |-> ip, port |-> port, pwd |-> pwd, ssid |-> ssid]
      BY <1>1 DEF Type
    <3>2. /\ [mode |-> mode, ip |-> ip, port |-> port, pwd |-> pwd, ssid |-> ssid] \in Settings
          /\ Len(ssid) <= 32
      BY TypedIsSettings
    <3>3. typed'.ssid = ssid
      BY <3>1
    <3> QED BY <3>1, <3>2, <3>3
  <2>3. joined' = NoConf /\ codes' = <<>>
    BY <2>1 DEF CodeInv
  <2>4. SettingsArrive'
    BY <2>1, <2>3, NotLinked
  <2> QED BY <2>1, <2>2, <2>3, <2>4 DEF CodeInv
<1>2. CASE Send
  <2>1. stage = "typed" /\ stage' = "sending" /\ UNCHANGED <<typed, conf, param, joined>>
    BY <1>2 DEF Send
  <2>2. codes' = Codes(typed) /\ Fitting(typed.ssid, getAllPasswd(typed))
    <3>1. typed.ssid \in Seq(Char) /\ getAllPasswd(typed) \in Seq(Char)
      BY TextIsText DEF CodeInv, Settings
    <3> QED BY <1>2, <3>1 DEF Send, Fitting, CodeInv
  <2>3. joined' = NoConf
    BY <2>1 DEF CodeInv
  <2>4. SettingsArrive'
    BY <2>1, <2>3, NotLinked
  <2> QED BY <2>1, <2>2, <2>3, <2>4 DEF CodeInv
<1>3. CASE Receive
  <2>1. stage = "sending" /\ stage' = "received" /\ UNCHANGED <<typed, codes, param, joined>>
    BY <1>3 DEF Receive
  <2>2. codes = DatumCode(typed.ssid, getAllPasswd(typed))
        /\ Fitting(typed.ssid, getAllPasswd(typed))
    BY <2>1 DEF CodeInv, Codes
  <2>3. PasswordIn(Overheard(codes)) = getAllPasswd(typed)
    BY <2>2, DatumOverheard, DatumIsBytes
  <2>4. conf' = [ssid |-> typed.ssid, pwd |-> getAllPasswd(typed)]
    BY <1>3, <2>3 DEF Receive
  <2>5. joined' = NoConf
    BY <2>1 DEF CodeInv
  <2>6. SettingsArrive'
    BY <2>1, <2>5, NotLinked
  <2> QED BY <2>1, <2>4, <2>5, <2>6 DEF CodeInv
<1>4. CASE LinkFlag
  BY <1>4, LinkFlagInductive
<1>5. CASE LinkPlain
  BY <1>5, LinkPlainInductive
<1>6. CASE UNCHANGED codeVars
  BY <1>6 DEF codeVars, CodeInv, SettingsArrive, NetworkArrives, LooksSet
<1> QED BY <1>1, <1>2, <1>3, <1>4, <1>5, <1>6 DEF CodeNext

THEOREM CodeInductive == CodeSpec => []CodeInv
  BY CodeInitInductive, CodeStepInductive, PTL DEF CodeSpec

(* smartconfig_done: for every password, address and port, whatever the text *)
(* is and wherever its dashes are, the module joins the network that was     *)
(* typed with the password that was typed, and keeps the settings.           *)
THEOREM SettingsAlwaysArrive == CodeSpec => []SettingsArrive
<1>1. CodeInv => SettingsArrive
  BY DEF CodeInv
<1> QED BY <1>1, CodeInductive, PTL

(* DataCode: every triple of every datum can be understood on its own.       *)
THEOREM CodesAlwaysSelfDescribing == CodeSpec => []CodesSelfDescribing
<1>1. CodeInv => CodesSelfDescribing
  <2> SUFFICES ASSUME CodeInv PROVE CodesSelfDescribing
    OBVIOUS
  <2>1. CASE codes = <<>>
    BY <2>1 DEF CodesSelfDescribing
  <2>2. CASE codes # <<>>
    <3>1. PICK bytes : bytes = DatumBytes(typed.ssid, getAllPasswd(typed))
      OBVIOUS
    <3>2. codes = DatumCode(typed.ssid, getAllPasswd(typed))
          /\ Fitting(typed.ssid, getAllPasswd(typed))
      BY <2>2 DEF CodeInv, Codes
    <3>3. bytes \in Seq(Byte) /\ Len(bytes) \in 9 .. 128
      BY <3>1, <3>2, DatumIsBytes
    <3>4. codes = [i \in DOMAIN bytes |-> DataCode(bytes[i], i - 1)]
      BY <3>1, <3>2 DEF DatumCode
    <3>5. DOMAIN bytes = 1 .. Len(bytes) /\ DOMAIN codes = 1 .. Len(bytes)
      BY <3>3, <3>4, LenProperties
    <3>6. ASSUME NEW i \in DOMAIN codes PROVE Understood(codes[i], bytes[i], i - 1)
      <4>1. i \in 1 .. Len(bytes) /\ codes[i] = DataCode(bytes[i], i - 1)
        BY <3>4, <3>5
      <4>2. bytes[i] \in Byte
        BY <3>3, <4>1, ElementOfSeq
      <4>3. i - 1 \in 0 .. IndexMax
        <5>1. \A n \in 9 .. 128 : \A k \in 1 .. n : k - 1 \in 0 .. 127
          OBVIOUS
        <5> QED BY <3>3, <4>1, <5>1, Zenon DEF IndexMax
      <4> QED BY <4>1, <4>2, <4>3, TripleOfByte, Zenon
    <3>7. \A i, j \in DOMAIN codes : SeqHeader(codes[j]) = SeqHeader(codes[i]) => i = j
      <4>1. \A i \in DOMAIN codes : SeqHeader(codes[i]) = i - 1
        BY <3>6 DEF Understood
      <4>2. \A i \in DOMAIN codes : i \in Int
        BY <3>5
      <4> QED BY <4>1, <4>2
    <3> QED BY <3>6, <3>7, Zenon DEF CodesSelfDescribing, Understood
  <2> QED BY <2>1, <2>2
<1> QED BY <1>1, CodeInductive, PTL
=============================================================================
