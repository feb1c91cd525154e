-------------------------------- MODULE Bridge --------------------------------
(***************************************************************************)
(* The station (EspPlatform) and the connection that carries the serial    *)
(* bytes (TcpClient) in one event loop, as work mode 1 runs them.          *)
(*                                                                         *)
(* They meet in three places: check_ip starts the client whenever it finds *)
(* an address (user_esp_platform.c:1161), the client restarts the module   *)
(* after too many attempts (user_tcp_client.c:85), and any restart takes   *)
(* both down.                                                              *)
(***************************************************************************)
EXTENDS EspPlatform

CONSTANT MaxReconnCount   \* MAX_RECONN_COUNT (120)

ASSUME BridgeOK == MaxReconnCount \in Nat

VARIABLES tconn, rtimer, count, ready, pump

T == INSTANCE TcpClient WITH conn <- tconn, route <- wifi = "GOT_IP"

clientVars == <<tconn, rtimer, count, ready, pump>>
bridgeVars == <<vars, clientVars>>

BridgeInit ==
  /\ Init
  /\ tconn = "idle" /\ rtimer = FALSE /\ count = 0 /\ ready = FALSE /\ pump = FALSE

\* Mutants of CheckIpStep: check_ip starts the client the first time only; it
\* drops a connection that is up.
CheckIpStepOnce ==
  /\ CheckIpTimer
  /\ IF wifi = "GOT_IP" /\ param.mode = 1 /\ svc = "none"
     THEN tconn' = "connecting" /\ UNCHANGED <<rtimer, count, ready, pump>>
     ELSE UNCHANGED clientVars

CheckIpStepDrops ==
  /\ CheckIpTimer
  /\ IF wifi = "GOT_IP" /\ param.mode = 1
     THEN tconn' = "connecting" /\ UNCHANGED <<rtimer, count, ready, pump>>
     ELSE UNCHANGED clientVars

\* check_ip with an address in work mode 1 calls user_tcp_client_init.
CheckIpStep ==
  /\ CheckIpTimer
  /\ IF wifi = "GOT_IP" /\ param.mode = 1
     THEN /\ tconn' = IF tconn = "idle" THEN "connecting" ELSE tconn
          /\ UNCHANGED <<rtimer, count, ready, pump>>
     ELSE UNCHANGED clientVars

\* A restart decided by the station, the cloud or the power supply.
RestartStep ==
  /\ PowerCycle \/ RestartTimer \/ WebRestart \/ (ApChange /\ apChanges = MaxApChanges)
  /\ T!Restart

\* Everything else the station does leaves the client alone.
PlatformStep ==
  /\ \/ Boot
     \/ ApChange /\ apChanges < MaxApChanges
     \/ TimerGet
     \/ Cloud \/ Smartconfig
     \/ WebSetStation \/ (\E token \in BOOLEAN : WebPost(token))
     \/ WifiOutcome \/ WifiRecovered \/ WifiLost
  /\ UNCHANGED clientVars

\* The callbacks of the client leave the station alone, except for the restart.
ClientStep ==
  /\ UNCHANGED vars
  /\ T!ConnectCb \/ T!ReconCb \/ T!Discon

ReconnectStep ==
  \/ count < MaxReconnCount /\ UNCHANGED vars /\ T!Reconnect
  \/ count >= MaxReconnCount /\ Reboot /\ T!Reconnect

BridgeNext == CheckIpStep \/ RestartStep \/ PlatformStep \/ ClientStep \/ ReconnectStep

BridgeSpec == BridgeInit /\ [][BridgeNext]_bridgeVars

(* The fairness of both parts.                                              *)
Alone(A) == A /\ UNCHANGED clientVars

BridgeFairness ==
  /\ WF_bridgeVars(Alone(Boot))
  /\ WF_bridgeVars(Alone(ApChange /\ apChanges < MaxApChanges))
  /\ WF_bridgeVars(Alone(TimerGet))
  /\ WF_bridgeVars(CheckIpStep)
  /\ WF_bridgeVars(RestartTimer /\ T!Restart)
  /\ WF_bridgeVars(ApChange /\ apChanges = MaxApChanges /\ T!Restart)
  /\ WF_bridgeVars(Alone(SentBeacon))
  /\ WF_bridgeVars(Alone(WifiOutcome))
  /\ WF_bridgeVars(Alone(ReconCb /\ conn = "connecting"))
  /\ WF_bridgeVars(Alone(ReconCb /\ wifi # "GOT_IP"))
  /\ WF_bridgeVars(ReconnectStep)
  /\ WF_bridgeVars(ClientStep /\ tconn = "connecting")
  /\ WF_bridgeVars(ClientStep /\ wifi # "GOT_IP")

BridgeFairSpec == BridgeSpec /\ BridgeFairness

----------------------------------------------------------------------------
(* Beside the station, the client still does what its own module says: its   *)
(* environment there (an address that comes and goes, check_ip at any time,  *)
(* restarts) is what the station really does.                                *)
ImplementsTcpClient == T!Spec

(* While the station keeps polling or retrying for its own cloud connection, *)
(* the client is revived by it: a bridge whose retries died without an       *)
(* address is connecting again once check_ip succeeds.                       *)
CloudRetryRevives ==
  (svc = "tcp" /\ ctimer \in {"check_ip0", "reconnect", "ap_change"}) ~>
    (phase = "boot" \/ tconn # "idle")

(* change.txt V1.0.7, item 2: "restart after two minutes of connection       *)
(* retries".  With its WiFi up, a bridge does not stay unconnected, running  *)
(* and idle for ever.                                                        *)
UnreachableRestarts ==
  []<>(svc # "tcp" \/ wifi # "GOT_IP" \/ tconn = "up" \/ phase = "boot")
=============================================================================
