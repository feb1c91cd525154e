------------------------------- MODULE TcpClient -------------------------------
(***************************************************************************)
(* Work mode 1: firmware/app/user/user_tcp_client.c, the connection that   *)
(* carries the serial bytes, with the READY pin of user_gpio.c.            *)
(*                                                                         *)
(* check_ip starts it whenever the station has an address (ClientInit) and *)
(* may start it again at any time; from then on recon_cb, discon and       *)
(* tcp_reconn_timer keep it going.  Bridge.tla puts check_ip beside it.    *)
(***************************************************************************)
EXTENDS Naturals

CONSTANT MaxReconnCount   \* MAX_RECONN_COUNT (120)

ASSUME MaxReconnOK == MaxReconnCount \in Nat

VARIABLES
  phase,   \* "boot" or "run"
  route,   \* has the station an address?
  conn,    \* tcp_client_conn
  rtimer,  \* is tcp_reconn_timer armed?
  count,   \* tcp_reconn_count
  ready,   \* is READY_PIN driven low (ready)?
  pump     \* does the FRC1 timer move serial bytes?

clientVars == <<conn, rtimer, count, ready, pump>>
vars == <<phase, route, conn, rtimer, count, ready, pump>>

Init ==
  /\ phase = "boot" /\ route = FALSE
  /\ conn = "idle" /\ rtimer = FALSE /\ count = 0 /\ ready = FALSE /\ pump = FALSE

\* A restart: RAM is lost and user_gpio_init raises READY_PIN.
Restart ==
  /\ phase = "run"
  /\ phase' = "boot"
  /\ route' = FALSE
  /\ conn' = "idle" /\ rtimer' = FALSE /\ count' = 0 /\ ready' = FALSE /\ pump' = FALSE

\* espconn_connect: without an address (ESPCONN_RTE) or with the connection
\* already in use (ESPCONN_ISCONN) it fails at once, and nobody looks.
Connect == conn' = IF route /\ conn = "idle" THEN "connecting" ELSE conn

\* user_tcp_client_init.
ClientInit ==
  /\ phase = "run" /\ route
  /\ Connect
  /\ UNCHANGED <<phase, route, rtimer, count, ready, pump>>

\* user_tcp_client_connect_cb.
ConnectCb ==
  /\ conn = "connecting" /\ route
  /\ conn' = "up"
  /\ count' = 0
  /\ pump' = TRUE
  /\ ready' = TRUE
  /\ rtimer' = FALSE
  /\ UNCHANGED <<phase, route>>

\* Mutant of Closed: the reconnect timer is not armed.
ClosedNoTimer ==
  /\ conn' = "idle"
  /\ UNCHANGED <<phase, route, rtimer, count, ready, pump>>

Closed ==
  /\ conn' = "idle"
  /\ rtimer' = TRUE
  /\ UNCHANGED <<phase, route, count, ready, pump>>

\* user_tcp_client_recon_cb: refused, timed out, reset, or keep-alive unanswered.
ReconCb == conn # "idle" /\ Closed

\* tcp_client_discon: the server closed the connection.
Discon == conn = "up" /\ Closed

\* Mutant of Reconnect: the attempt is not counted.
ReconnectUncounted ==
  /\ rtimer /\ rtimer' = FALSE
  /\ Connect
  /\ ready' = FALSE
  /\ UNCHANGED <<phase, route, count, pump>>

\* user_tcp_client_reconnect, fired by tcp_reconn_timer.
Reconnect ==
  /\ rtimer /\ rtimer' = FALSE
  /\ \/ count < MaxReconnCount
        /\ Connect
        /\ count' = count + 1
        /\ ready' = FALSE
        /\ UNCHANGED <<phase, route, pump>>
     \/ count >= MaxReconnCount /\ Restart

\* The rest of the module: the event loop starts, the station gets or loses its
\* address, another component restarts the module.
Boot == phase = "boot" /\ phase' = "run" /\ UNCHANGED <<route, clientVars>>

RouteChange == phase = "run" /\ route' = ~route /\ UNCHANGED <<phase, clientVars>>

Next ==
  \/ Boot \/ RouteChange \/ Restart
  \/ ClientInit \/ ConnectCb \/ ReconCb \/ Discon \/ Reconnect

Spec == Init /\ [][Next]_vars

(* The timer fires, every attempt ends, and the keep-alive probes connect_cb *)
(* switches on notice a connection whose station is gone.                    *)
Fairness ==
  /\ WF_vars(Reconnect)
  /\ WF_vars(conn = "connecting" /\ (ConnectCb \/ ReconCb))
  /\ WF_vars(~route /\ ReconCb)

FairSpec == Spec /\ Fairness

----------------------------------------------------------------------------
TypeOK ==
  /\ phase \in {"boot", "run"}
  /\ route \in BOOLEAN
  /\ conn \in {"idle", "connecting", "up"}
  /\ rtimer \in BOOLEAN
  /\ count \in 0 .. MaxReconnCount
  /\ ready \in BOOLEAN
  /\ pump \in BOOLEAN

\* A live connection is never reset by a leftover of an earlier one: no
\* reconnect is pending and none of its failures is still counted.
UpIsClean == conn = "up" => ~rtimer /\ count = 0

(* What the host reads from the READY pin: it is ready whenever the          *)
(* connection is up, whichever of check_ip and the timer made it, it may     *)
(* rely on that connection (nothing of an earlier one is pending against     *)
(* it), and it outlives it only until the pending reconnect timer fires.     *)
ReadyHonest ==
  /\ conn = "up" => ready /\ pump
  /\ UpIsClean
  /\ ready => conn = "up" \/ rtimer

(* change.txt V1.0.7, item 2: while there is WiFi, a server that cannot be   *)
(* reached is retried until it answers or the module restarts.               *)
RetriesUntilRestart ==
  (rtimer \/ conn = "connecting") ~> (conn = "up" \/ phase = "boot" \/ ~route)
=============================================================================
