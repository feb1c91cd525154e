---------------------------- MODULE TcpClientProofs ----------------------------
(***************************************************************************)
(* The READY pin and the retry count of the connection that carries the    *)
(* bytes, for every MAX_RECONN_COUNT.                                      *)
(***************************************************************************)
EXTENDS TcpClient, TLAPS

\* After a restart nothing is left of the connection.
BootQuiet == phase = "boot" => conn = "idle" /\ ~rtimer /\ ~ready

IInv == TypeOK /\ ReadyHonest /\ BootQuiet

LEMMA ZeroCounts == 0 \in 0 .. MaxReconnCount
  BY MaxReconnOK

LEMMA InitInductive == Init => IInv
  BY ZeroCounts DEF Init, IInv, TypeOK, ReadyHonest, UpIsClean, BootQuiet

LEMMA StepInductive == IInv /\ [Next]_vars => IInv'
<1> SUFFICES ASSUME IInv, [Next]_vars
             PROVE  IInv'
  OBVIOUS
<1> USE DEF IInv, TypeOK, ReadyHonest, UpIsClean, BootQuiet
<1>1. CASE Boot \/ RouteChange
  <2>1. UNCHANGED clientVars /\ phase' = "run" /\ route' \in BOOLEAN
    BY <1>1 DEF Boot, RouteChange
  <2> QED BY <2>1 DEF clientVars
<1>2. CASE Restart
  BY <1>2, ZeroCounts DEF Restart
<1>3. CASE ClientInit
  BY <1>3 DEF ClientInit, Connect
<1>4. CASE ConnectCb
  BY <1>4, ZeroCounts DEF ConnectCb
<1>5. CASE ReconCb \/ Discon
  BY <1>5 DEF ReconCb, Discon, Closed
<1>6. CASE Reconnect
  <2>1. CASE /\ rtimer /\ ~rtimer' /\ count < MaxReconnCount /\ Connect
             /\ count' = count + 1 /\ ready' = FALSE
             /\ UNCHANGED <<phase, route, pump>>
    <3>1. count' \in 0 .. MaxReconnCount
      BY <2>1, MaxReconnOK
    <3>2. conn # "up" /\ conn' \in {"idle", "connecting"}
      BY <2>1 DEF Connect
    <3> QED BY <1>6, <2>1, <3>1, <3>2 DEF Reconnect
  <2>2. CASE Restart
    BY <2>2, ZeroCounts DEF Restart
  <2> QED BY <1>6, <2>1, <2>2 DEF Reconnect
<1>7. CASE UNCHANGED vars
  BY <1>7 DEF vars
<1> QED BY <1>1, <1>2, <1>3, <1>4, <1>5, <1>6, <1>7 DEF Next

THEOREM Inductive == Spec => []IInv
  BY InitInductive, StepInductive, PTL DEF Spec

(* No callback leaves a variable outside its type, and the attempts counted *)
(* never pass the limit.                                                    *)
THEOREM TypeCorrect == Spec => []TypeOK
<1>1. IInv => TypeOK
  BY DEF IInv
<1> QED BY <1>1, Inductive, PTL

(* The host can trust the READY pin, up to the pending reconnect timer.     *)
THEOREM ReadyAlwaysHonest == Spec => []ReadyHonest
<1>1. IInv => ReadyHonest
  BY DEF IInv
<1> QED BY <1>1, Inductive, PTL
=============================================================================
