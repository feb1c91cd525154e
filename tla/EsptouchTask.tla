---------------------------- MODULE EsptouchTask ----------------------------
(***************************************************************************)
(* One SmartConfig session of the Android application: the user interface  *)
(* thread that shows the progress dialog and may cancel, the AsyncTask's   *)
(* worker that sends the guide and data codes, and the listener thread     *)
(* that collects the answers of the configured devices.  The three share   *)
(* the fields of one __EsptouchTask.                                       *)
(*                                                                         *)
(* Abstractions: a device is its BSSID; the codes sent are not modelled,   *)
(* so a device may answer at any time, more than once or never; `time' is  *)
(* the phase of the session instead of milliseconds (45 s of sending, 15 s *)
(* of waiting, over); the body of the synchronized __interrupt is one step.*)
(***************************************************************************)
EXTENDS Integers, Sequences, FiniteSets

CONSTANTS Devices,     \* BSSIDs of the devices that may answer
          MaxSelected  \* largest entry of the count spinner of the dialog

ASSUME DevicesAssumption == IsFiniteSet(Devices) /\ MaxSelected \in Nat

VARIABLES
  time,          \* "sending", "waiting" or "over"
  ui,            \* the dialog: "shown", "cancelling", "gone"
  worker,        \* where doInBackground is
  listener,      \* where the thread of __listenAsyn is
  expect,        \* mExpectTaskResultCount
  mIsCancelled, mIsInterrupt, mIsSuc,
  results,       \* mEsptouchResultList
  got,           \* devices in the datagram the listener holds
  clientStop, clientClosed, serverClosed,
  multicast,     \* the MulticastLock is held
  interrupted    \* threads whose interrupt status is set

vars == <<time, ui, worker, listener, expect, mIsCancelled, mIsInterrupt,
          mIsSuc, results, got, clientStop, clientClosed, serverClosed,
          multicast, interrupted>>

flags == <<mIsCancelled, mIsInterrupt, mIsSuc>>
sockets == <<clientStop, clientClosed, serverClosed, multicast>>

Success(d) == [suc |-> TRUE, bssid |-> {d}, cancelled |-> FALSE]
Fail(c) == [suc |-> FALSE, bssid |-> {}, cancelled |-> c]
Entries == {Success(d) : d \in Devices} \cup {Fail(c) : c \in BOOLEAN}

(* EsptouchTask.executeForResults turns 0 into Integer.MAX_VALUE: more     *)
(* results than there are devices.                                         *)
ExpectOf(selected) ==
  IF selected = 0 THEN Cardinality(Devices) + 1 ELSE selected

Init ==
  /\ time = "sending" /\ ui = "shown" /\ worker = "create" /\ listener = "off"
  /\ expect = 1
  /\ mIsCancelled = FALSE /\ mIsInterrupt = FALSE /\ mIsSuc = FALSE
  /\ results = <<>> /\ got = {}
  /\ clientStop = FALSE /\ clientClosed = FALSE /\ serverClosed = FALSE
  /\ multicast = FALSE /\ interrupted = {}

-----------------------------------------------------------------------------
(* The time of the session passes.                                         *)
Elapse ==
  /\ worker \notin {"create", "done"}
  /\ \/ time = "sending" /\ time' = "waiting"
     \/ time = "waiting" /\ time' = "over"
  /\ UNCHANGED <<ui, worker, listener, expect, flags, results, got, sockets,
                 interrupted>>

(* __interrupt, called on thread `self': the first caller stops the client,*)
(* closes the server and sets its own interrupt status.  Mutant: the       *)
(* server is left open.                                                    *)
InterruptLeavesServer(self) ==
  /\ mIsInterrupt' = TRUE /\ clientStop' = TRUE
  /\ interrupted' = IF mIsInterrupt THEN interrupted ELSE interrupted \cup {self}
  /\ UNCHANGED <<serverClosed, multicast, clientClosed>>

Interrupt(self) ==
  IF mIsInterrupt
  THEN UNCHANGED <<mIsInterrupt, sockets, interrupted>>
  ELSE /\ mIsInterrupt' = TRUE
       /\ clientStop' = TRUE
       /\ serverClosed' = TRUE
       /\ multicast' = IF serverClosed THEN multicast ELSE FALSE
       /\ interrupted' = interrupted \cup {self}
       /\ UNCHANGED clientClosed

-----------------------------------------------------------------------------
(* User interface thread.  onCancel does nothing while the task does not   *)
(* exist; otherwise interrupt() marks the task, then interrupts it.        *)
Cancel ==
  /\ ui = "shown"
  /\ IF worker = "create"
     THEN ui' = "gone" /\ UNCHANGED mIsCancelled
     ELSE ui' = "cancelling" /\ mIsCancelled' = TRUE
  /\ UNCHANGED <<time, worker, listener, expect, mIsInterrupt, mIsSuc, results,
                 got, sockets, interrupted>>

CancelInterrupt ==
  /\ ui = "cancelling"
  /\ ui' = "gone"
  /\ Interrupt("ui")
  /\ UNCHANGED <<time, worker, listener, expect, mIsCancelled, mIsSuc, results,
                 got>>

UserInterface == Cancel \/ CancelInterrupt

-----------------------------------------------------------------------------
(* Worker thread: doInBackground.                                          *)

(* Creates the task and, in executeForResults, starts the listener.        *)
Create(selected) ==
  /\ worker = "create"
  /\ worker' = "send" /\ listener' = "loop"
  /\ expect' = ExpectOf(selected)
  /\ UNCHANGED <<time, ui, flags, results, got, sockets, interrupted>>

(* The loop of __execute ends with mIsInterrupt or with the time.  Leaving *)
(* it, the worker returns at once if mIsSuc is set and waits otherwise.    *)
LeaveSending == worker' = IF mIsSuc THEN "result" ELSE "wait"

SendHead ==
  /\ worker = "send"
  /\ IF mIsInterrupt THEN LeaveSending ELSE worker' = "sendData"
  /\ UNCHANGED <<time, ui, listener, expect, flags, results, got, sockets,
                 interrupted>>

(* sendData ends: it closes its socket if it was stopped meanwhile.  Then  *)
(* the worker looks whether the time for sending is over.                  *)
SendData ==
  /\ worker = "sendData"
  /\ IF time = "sending" THEN worker' = "send" ELSE LeaveSending
  /\ LET stop == clientStop \/ "worker" \in interrupted
     IN  clientStop' = stop /\ clientClosed' = (clientClosed \/ stop)
  /\ interrupted' = interrupted \ {"worker"}
  /\ UNCHANGED <<time, ui, listener, expect, flags, results, got, serverClosed,
                 multicast>>

(* Thread.sleep(15 s) of executeForResults ends: by the interrupt of this  *)
(* thread, or after its full length, which is the end of the session       *)
(* unless an interrupt had ended the sending early.                        *)
WaitEnds ==
  /\ worker = "wait"
  /\ \/ "worker" \in interrupted
        /\ worker' = IF mIsSuc THEN "result" ELSE "interrupt"
     \/ "worker" \notin interrupted /\ (time = "over" \/ mIsInterrupt)
        /\ worker' = "interrupt"
  /\ interrupted' = interrupted \ {"worker"}
  /\ UNCHANGED <<time, ui, listener, expect, flags, results, got, sockets>>

WorkerInterrupt ==
  /\ worker = "interrupt"
  /\ worker' = "result"
  /\ Interrupt("worker")
  /\ UNCHANGED <<time, ui, listener, expect, mIsCancelled, mIsSuc, results, got>>

(* __getEsptouchResultList: an empty list gets one failed result.          *)
GetResultList ==
  /\ worker = "result"
  /\ worker' = "done"
  /\ results' = IF results = <<>> THEN <<Fail(mIsCancelled)>> ELSE results
  /\ UNCHANGED <<time, ui, listener, expect, flags, got, sockets, interrupted>>

Worker ==
  \/ \E selected \in 0..MaxSelected : Create(selected)
  \/ SendHead \/ SendData \/ WaitEnds \/ WorkerInterrupt \/ GetResultList

-----------------------------------------------------------------------------
(* Listener thread: __listenAsyn.  Mutant: the first answer is enough.     *)
ListenHeadFirst ==
  /\ listener = "loop"
  /\ listener' = IF results = <<>> /\ ~mIsInterrupt THEN "acquire" ELSE "judge"
  /\ UNCHANGED <<time, ui, worker, expect, flags, results, got, sockets,
                 interrupted>>

ListenHead ==
  /\ listener = "loop"
  /\ listener' = IF Len(results) < expect /\ ~mIsInterrupt
                 THEN "acquire" ELSE "judge"
  /\ UNCHANGED <<time, ui, worker, expect, flags, results, got, sockets,
                 interrupted>>

(* receiveSpecLenBytes first takes the multicast lock, closed or not...    *)
Acquire ==
  /\ listener = "acquire"
  /\ listener' = "receive" /\ multicast' = TRUE
  /\ UNCHANGED <<time, ui, worker, expect, flags, results, got, clientStop,
                 clientClosed, serverClosed, interrupted>>

(* ...then receives the answer of a device; after the whole time of the    *)
(* session the answer is dropped and the loop left.  It gets nothing from  *)
(* a time-out, a wrong datagram or a closed socket.  Mutant: a time-out    *)
(* leaves the loop.                                                        *)
ReceiveAnswer(d) ==
  /\ listener = "receive" /\ ~serverClosed
  /\ \/ listener' = "put" /\ got' = {d}
     \/ time = "over" /\ listener' = "judge" /\ got' = {}
  /\ UNCHANGED <<time, ui, worker, expect, flags, results, sockets, interrupted>>

ReceiveNothingLeaves ==
  /\ listener = "receive"
  /\ listener' = "judge"
  /\ UNCHANGED <<time, ui, worker, expect, flags, results, got, sockets,
                 interrupted>>

ReceiveNothing ==
  /\ listener = "receive"
  /\ listener' = "loop"
  /\ UNCHANGED <<time, ui, worker, expect, flags, results, got, sockets,
                 interrupted>>

(* __putEsptouchResult: a device is entered once.  The comparison with the *)
(* null BSSID of a failed result throws, and the process dies.  Mutant: no *)
(* look at what is there already.                                          *)
PutAlways ==
  /\ listener = "put"
  /\ \E d \in got :
       IF results # <<>> /\ ~results[1].suc
       THEN listener' = "crashed" /\ UNCHANGED results
       ELSE listener' = "loop" /\ results' = Append(results, Success(d))
  /\ got' = {}
  /\ UNCHANGED <<time, ui, worker, expect, flags, sockets, interrupted>>

Put ==
  /\ listener = "put"
  /\ \E d \in got :
       IF results # <<>> /\ ~results[1].suc
       THEN listener' = "crashed" /\ UNCHANGED results
       ELSE /\ listener' = "loop"
            /\ results' = IF \E i \in DOMAIN results : results[i].bssid = {d}
                          THEN results ELSE Append(results, Success(d))
  /\ got' = {}
  /\ UNCHANGED <<time, ui, worker, expect, flags, sockets, interrupted>>

(* The verdict, before the interrupt that makes the worker look at it.     *)
Judge ==
  /\ listener = "judge"
  /\ listener' = "interrupt"
  /\ mIsSuc' = (Len(results) >= expect)
  /\ UNCHANGED <<time, ui, worker, expect, mIsCancelled, mIsInterrupt, results,
                 got, sockets, interrupted>>

ListenEnd ==
  /\ listener = "interrupt"
  /\ listener' = "ended"
  /\ Interrupt("listener")
  /\ UNCHANGED <<time, ui, worker, expect, mIsCancelled, mIsSuc, results, got>>

Listener ==
  \/ ListenHead \/ Acquire \/ ReceiveNothing \/ Put \/ Judge \/ ListenEnd
  \/ \E d \in Devices : ReceiveAnswer(d)

-----------------------------------------------------------------------------
Next ==
  /\ listener # "crashed"
  /\ Elapse \/ UserInterface \/ Worker \/ Listener

Spec == Init /\ [][Next]_vars

(* The threads are scheduled and time passes; the user need not cancel and *)
(* devices need not answer.                                                *)
Running(A) == listener # "crashed" /\ A

FairSpec ==
  /\ Spec
  /\ WF_vars(Running(Elapse))
  /\ WF_vars(Running(CancelInterrupt))
  /\ WF_vars(Running(Worker))
  /\ WF_vars(Running(Listener))

-----------------------------------------------------------------------------
Distinct == \A i, j \in DOMAIN results :
              results[i].bssid = results[j].bssid => i = j

(* What executeForResults promises: the list it returns is one failed      *)
(* result, marked when the user cancelled in time, or only successes of    *)
(* different devices (IEsptouchTask.java 25-45; __EsptouchTask 72-124).    *)
ResultsAsPromised ==
  worker = "done" =>
    \/ Len(results) = 1 /\ ~results[1].suc
    \/ results # <<>> /\ Distinct /\ \A i \in DOMAIN results : results[i].suc

(* A session that comes back without a device before its time is over was  *)
(* cancelled by the user, and says so, whichever thread ended it: the      *)
(* dialog shows no "Esptouch fail" for it (HFSmartConfig.java 216-246).    *)
EarlyFailureIsCancelled ==
  worker = "done" /\ time # "over" /\ ~results[1].suc => results[1].cancelled

(* executeForResults blocks until enough devices answered, and no longer:  *)
(* before the end of the sending it returns only with enough results or    *)
(* when cancelled, and falls into the 15 s wait only when cancelled.       *)
BlocksUntilEnough ==
  [][time = "sending" =>
       /\ worker # "done" /\ worker' = "done" /\ ~mIsCancelled =>
            Len(results') >= expect /\ results'[1].suc
       /\ worker = "send" /\ worker' = "wait" => mIsCancelled]_vars

(* Once the session is over both threads have ended and the port of the    *)
(* server is free for the next session.                                    *)
SessionEnds ==
  worker # "create" ~> \/ listener = "crashed"
                       \/ worker = "done" /\ listener = "ended" /\ serverClosed

(* What the comments at __interrupt (131) and in executeForResults (323)   *)
(* say: an interrupt of the task interrupts the thread that waits for the  *)
(* answers.                                                                *)
InterruptEndsWait ==
  mIsInterrupt /\ worker = "wait" => "worker" \in interrupted
=============================================================================
