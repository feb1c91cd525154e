--------------------------- MODULE EspPlatformProofs ---------------------------
(***************************************************************************)
(* Safety of the station life cycle, alone and with the client beside it,  *)
(* for any number of stored access points and any limits.                  *)
(*                                                                         *)
(* None of the properties is inductive: a callback is harmless because of  *)
(* what cannot be pending, connecting or running when it fires, and IInv   *)
(* says what that is.                                                      *)
(***************************************************************************)
EXTENDS Bridge, TLAPS, FiniteSetTheorems

Polling == {"check_ip0", "check_ip1", "reconnect", "ap_change"}

\* The station records fill the ids from 0 on, and the current id is one of them.
Stations ==
  /\ \E m \in 0 .. ApCacheNumber : saved = 0 .. m - 1
  /\ saved # {} => ap \in saved

\* Whatever needs an access point has one to go to.
HasStation ==
  wifi # "IDLE" \/ conn # "idle" \/ ctimer = "ap_change" \/ flash.cfg => saved # {}

\* The SDK's default opmode is left before anything starts.
StationMode ==
  smart \/ conn # "idle" \/ svc # "none" \/ ctimer \in Polling \/ flash.cfg
    => opmode # "SOFTAP"

\* While smartconfig listens nothing else runs.
SmartAlone ==
  smart =>
    /\ conn = "idle" /\ svc = "none" /\ recon = 0 /\ ~upg /\ status = "none"
    /\ ctimer \in {"off", "restart"}

\* After a reset nothing runs at all.
BootQuiet ==
  phase = "boot" =>
    /\ conn = "idle" /\ svc = "none" /\ recon = 0 /\ ~upg /\ status = "none"
    /\ ~smart /\ ctimer = "off" /\ wifi = "IDLE"

ParamsAgree ==
  /\ param.cfg = flash.cfg
  /\ param.mode = flash.mode
  /\ param.active = 1 <=> flash.active = 1

WebMode == svc = "web" => param.mode = 3

\* No poll and no AP change is pending while a connection exists.
PollsWhenIdle == svc # "web" /\ ctimer \in Polling => conn = "idle"

StatusOfConn == conn # "idle" => status \notin {"none", "server_fail"}

ActiveStored == status = "active_done" => flash.active = 1

IInv ==
  /\ TypeOK
  /\ Stations /\ HasStation /\ StationMode
  /\ SmartAlone /\ BootQuiet
  /\ ParamsAgree /\ WebMode
  /\ PollsWhenIdle /\ FailuresChangeAp /\ OnlineClosesSoftAp /\ NoBeaconInHandshake
  /\ StatusOfConn /\ ActiveStored

-----------------------------------------------------------------------------
(* The probe loop of user_esp_platform_ap_change.                          *)

(* The least element, once one is known.                                   *)
LEMMA LeastIs ==
  ASSUME NEW S \in SUBSET Nat, NEW i \in S, \A j \in S : i <= j
  PROVE  LeastOf(S) = i
<1>1. LeastOf(S) \in S /\ LeastOf(S) <= i
  BY DEF LeastOf
<1>2. LeastOf(S) \in Nat /\ i \in Nat /\ i <= LeastOf(S)
  BY <1>1
<1> QED BY <1>1, <1>2

(* With records 0 .. m - 1 the loop goes from any of them to the next, and *)
(* from the last to 0: skipping the last id in its wrap-around costs       *)
(* nothing, because an id that is stored is always a first choice.         *)
LEMMA NextApIsNext ==
  ASSUME NEW m \in 1 .. ApCacheNumber, saved = 0 .. m - 1, NEW cur \in saved
  PROVE  /\ NextAp(cur) = IF cur = m - 1 THEN 0 ELSE cur + 1
         /\ NextAp(cur) = (cur + 1) % Cardinality(saved)
<1> DEFINE start == IF cur = ApCacheNumber - 1 THEN 0 ELSE cur + 1
           ahead == {i \in saved : i >= start /\ (i = start \/ i < ApCacheNumber - 1)}
<1>1. m \in Nat \ {0} /\ m <= ApCacheNumber /\ ApCacheNumber \in Nat /\ cur \in 0 .. m - 1
  BY ConstantsOK
<1>2. NextAp(cur) = IF cur = m - 1 THEN 0 ELSE cur + 1
  <2>1. LeastOf(saved) = 0
    <3>1. saved \in SUBSET Nat /\ 0 \in saved /\ \A j \in saved : 0 <= j
      BY <1>1
    <3> QED BY <3>1, LeastIs
  <2>2. CASE cur = m - 1 /\ m # ApCacheNumber
    <3>1. start = m /\ ahead = {}
      BY <1>1, <2>2
    <3> QED BY <2>1, <2>2, <3>1 DEF NextAp
  <2>3. CASE cur # m - 1 \/ m = ApCacheNumber
    <3>1. start = IF cur = m - 1 THEN 0 ELSE cur + 1
      BY <1>1, <2>3
    <3>2. ahead \in SUBSET Nat /\ start \in ahead /\ \A j \in ahead : start <= j
      BY <1>1, <3>1
    <3>3. LeastOf(ahead) = start
      BY <3>2, LeastIs
    <3> QED BY <3>1, <3>2, <3>3 DEF NextAp
  <2> QED BY <2>2, <2>3
<1>3. Cardinality(saved) = m
  BY <1>1, FS_Interval
<1>4. (IF cur = m - 1 THEN 0 ELSE cur + 1) = (cur + 1) % m
  BY <1>1
<1> QED BY <1>2, <1>3, <1>4

-----------------------------------------------------------------------------
LEMMA InitInductive == Init => IInv
<1> SUFFICES ASSUME Init PROVE IInv
  OBVIOUS
<1> USE DEF Init, Factory, Provisioned, Erased
<1>1. TypeOK
  <2>1. /\ recon \in 0 .. CountMod - 1 /\ apChanges \in 0 .. MaxApChanges
        /\ lost \in 0 .. MaxWifiLoss /\ ap \in ApIds
    BY ConstantsOK DEF ApIds
  <2>2. Factory \in Params /\ Provisioned \in Params
    BY DEF Params, WorkModes, ActiveFlags
  <2>3. param \in Params /\ flash \in Params
    BY <2>2
  <2> QED BY <2>1, <2>3 DEF TypeOK, WifiStatus, Callbacks, DeviceStatus
<1>2. Stations
  <2>1. saved = 0 .. 0 - 1 /\ 0 \in 0 .. ApCacheNumber
    BY ConstantsOK
  <2> QED BY <2>1 DEF Stations
<1>3. HasStation /\ StationMode /\ SmartAlone /\ BootQuiet
  BY DEF HasStation, StationMode, SmartAlone, BootQuiet, Polling
<1>4. ParamsAgree /\ WebMode /\ ActiveStored
  BY DEF ParamsAgree, WebMode, ActiveStored
<1>5. PollsWhenIdle /\ FailuresChangeAp
  BY ConstantsOK DEF PollsWhenIdle, FailuresChangeAp, Polling
<1>6. OnlineClosesSoftAp /\ NoBeaconInHandshake /\ StatusOfConn
  BY DEF OnlineClosesSoftAp, NoBeaconInHandshake, StatusOfConn
<1> QED BY <1>1, <1>2, <1>3, <1>4, <1>5, <1>6 DEF IInv

-----------------------------------------------------------------------------
(* One lemma per callback, or per group of them.                            *)

(* A restart: whatever was going on, RAM is empty and flash is left.         *)
LEMMA RebootStep ==
  ASSUME IInv, PowerCycle \/ RestartTimer
  PROVE  IInv'
<1> USE DEF IInv, wifiVars, cloudVars, countVars, paramVars, PowerCycle,
    RestartTimer, Reboot, LoseRam
<1>1. TypeOK'
  <2>1. recon' \in 0 .. CountMod - 1 /\ apChanges' \in 0 .. MaxApChanges
    BY ConstantsOK DEF TypeOK
  <2>2. lost' \in 0 .. MaxWifiLoss
    BY ConstantsOK DEF TypeOK
  <2>3. param' \in Params /\ flash' \in Params
    BY DEF TypeOK, Params, WorkModes, ActiveFlags
  <2>4. /\ smart' \in BOOLEAN /\ btimer' \in BOOLEAN /\ pinged' \in BOOLEAN
        /\ upg' \in BOOLEAN
    BY DEF TypeOK
  <2>5. ctimer' \in Callbacks /\ status' \in DeviceStatus /\ wifi' \in WifiStatus
    BY DEF TypeOK, WifiStatus, WifiFailed, Callbacks, DeviceStatus
  <2> QED BY <2>1, <2>2, <2>3, <2>4, <2>5 DEF TypeOK
<1>2. Stations' /\ HasStation'
  BY DEF TypeOK, Params, ParamsAgree, Stations, HasStation
<1>3. StationMode' /\ SmartAlone' /\ BootQuiet'
  BY DEF TypeOK, StationMode, SmartAlone, BootQuiet, Polling
<1>4. ParamsAgree' /\ WebMode' /\ ActiveStored'
  BY DEF TypeOK, Params, WorkModes, ActiveFlags, Erased, ParamsAgree, WebMode,
    ActiveStored, SmartAlone, BootQuiet
<1>5. PollsWhenIdle' /\ FailuresChangeAp'
  BY ConstantsOK DEF TypeOK, WebMode, PollsWhenIdle, FailuresChangeAp,
    SmartAlone, BootQuiet, Polling
<1>6. OnlineClosesSoftAp' /\ NoBeaconInHandshake' /\ StatusOfConn'
  BY DEF TypeOK, WebMode, OnlineClosesSoftAp, NoBeaconInHandshake,
    StatusOfConn, PollsWhenIdle, StationMode, SmartAlone, BootQuiet, Polling
<1> QED BY <1>1, <1>2, <1>3, <1>4, <1>5, <1>6

(* user_esp_platform_init.                                                  *)
LEMMA BootStep ==
  ASSUME IInv, NEW restore \in BOOLEAN, PlatformInit(restore)
  PROVE  IInv'
<1> USE DEF IInv, wifiVars, cloudVars, countVars, paramVars, PlatformInit,
    StartSmartconfig, StartStation
<1>1. TypeOK'
  <2>1. recon' \in 0 .. CountMod - 1 /\ apChanges' \in 0 .. MaxApChanges
    BY ConstantsOK DEF TypeOK
  <2>2. lost' \in 0 .. MaxWifiLoss
    BY ConstantsOK DEF TypeOK
  <2>3. param' \in Params /\ flash' \in Params
    BY DEF TypeOK, Params, WorkModes, ActiveFlags
  <2>4. /\ smart' \in BOOLEAN /\ btimer' \in BOOLEAN /\ pinged' \in BOOLEAN
        /\ upg' \in BOOLEAN
    BY DEF TypeOK
  <2>5. ctimer' \in Callbacks /\ status' \in DeviceStatus /\ wifi' \in WifiStatus
    BY DEF TypeOK, WifiStatus, WifiFailed, Callbacks, DeviceStatus
  <2> QED BY <2>1, <2>2, <2>3, <2>4, <2>5 DEF TypeOK
<1>2. Stations' /\ HasStation'
  BY DEF TypeOK, Params, ParamsAgree, Stations, HasStation
<1>3. StationMode' /\ SmartAlone' /\ BootQuiet'
  BY DEF TypeOK, StationMode, SmartAlone, BootQuiet, Polling
<1>4. ParamsAgree' /\ WebMode' /\ ActiveStored'
  BY DEF TypeOK, Params, WorkModes, ActiveFlags, Erased, ParamsAgree, WebMode,
    ActiveStored, SmartAlone, BootQuiet
<1>5. PollsWhenIdle' /\ FailuresChangeAp'
  BY ConstantsOK DEF TypeOK, WebMode, PollsWhenIdle, FailuresChangeAp,
    SmartAlone, BootQuiet, Polling
<1>6. OnlineClosesSoftAp' /\ NoBeaconInHandshake' /\ StatusOfConn'
  BY DEF TypeOK, WebMode, OnlineClosesSoftAp, NoBeaconInHandshake,
    StatusOfConn, PollsWhenIdle, StationMode, SmartAlone, BootQuiet, Polling
<1> QED BY <1>1, <1>2, <1>3, <1>4, <1>5, <1>6

(* user_esp_platform_check_ip finds an address.                           *)
LEMMA CheckIpOnlineStep ==
  ASSUME IInv, NEW reset \in BOOLEAN, CheckIpOnline(reset),
         ctimer \in Polling \ {"ap_change"}, UNCHANGED <<phase, wifiVars, smart, paramVars, upg>>
  PROVE  IInv'
<1> USE DEF IInv, wifiVars, cloudVars, countVars, paramVars, CheckIpOnline,
    StopBeacon, Service
<1>1. TypeOK'
  <2>1. recon' \in 0 .. CountMod - 1 /\ apChanges' \in 0 .. MaxApChanges
    BY ConstantsOK DEF TypeOK
  <2>2. lost' \in 0 .. MaxWifiLoss
    BY ConstantsOK DEF TypeOK
  <2>3. param' \in Params /\ flash' \in Params
    BY DEF TypeOK, Params, WorkModes, ActiveFlags
  <2>4. /\ smart' \in BOOLEAN /\ btimer' \in BOOLEAN /\ pinged' \in BOOLEAN
        /\ upg' \in BOOLEAN
    BY DEF TypeOK
  <2>5. ctimer' \in Callbacks /\ status' \in DeviceStatus /\ wifi' \in WifiStatus
    BY DEF TypeOK, WifiStatus, WifiFailed, Callbacks, DeviceStatus
  <2> QED BY <2>1, <2>2, <2>3, <2>4, <2>5 DEF TypeOK
<1>2. Stations' /\ HasStation'
  BY DEF TypeOK, Params, ParamsAgree, Stations, HasStation
<1>3. StationMode' /\ SmartAlone' /\ BootQuiet'
  BY DEF TypeOK, StationMode, SmartAlone, BootQuiet, Polling
<1>4. ParamsAgree' /\ WebMode' /\ ActiveStored'
  BY DEF TypeOK, Params, WorkModes, ActiveFlags, Erased, ParamsAgree, WebMode,
    ActiveStored, SmartAlone, BootQuiet
<1>5. PollsWhenIdle' /\ FailuresChangeAp'
  BY ConstantsOK DEF TypeOK, WebMode, PollsWhenIdle, FailuresChangeAp,
    SmartAlone, BootQuiet, Polling
<1>6. OnlineClosesSoftAp' /\ NoBeaconInHandshake' /\ StatusOfConn'
  BY DEF TypeOK, WebMode, OnlineClosesSoftAp, NoBeaconInHandshake,
    StatusOfConn, PollsWhenIdle, StationMode, SmartAlone, BootQuiet, Polling
<1> QED BY <1>1, <1>2, <1>3, <1>4, <1>5, <1>6

(* user_esp_platform_check_ip finds none.                                   *)
LEMMA CheckIpOtherStep ==
  ASSUME IInv, CheckIpFailed \/ CheckIpPending, ctimer \in Polling \ {"ap_change"},
         UNCHANGED <<phase, wifiVars, smart, paramVars, upg>>
  PROVE  IInv'
<1> USE DEF IInv, wifiVars, cloudVars, countVars, paramVars, CheckIpFailed,
    CheckIpPending, ResetMode, WifiFailed
<1>1. TypeOK'
  <2>1. recon' \in 0 .. CountMod - 1 /\ apChanges' \in 0 .. MaxApChanges
    BY ConstantsOK DEF TypeOK
  <2>2. lost' \in 0 .. MaxWifiLoss
    BY ConstantsOK DEF TypeOK
  <2>3. param' \in Params /\ flash' \in Params
    BY DEF TypeOK, Params, WorkModes, ActiveFlags
  <2>4. /\ smart' \in BOOLEAN /\ btimer' \in BOOLEAN /\ pinged' \in BOOLEAN
        /\ upg' \in BOOLEAN
    BY DEF TypeOK
  <2>5. ctimer' \in Callbacks /\ status' \in DeviceStatus /\ wifi' \in WifiStatus
    BY DEF TypeOK, WifiStatus, WifiFailed, Callbacks, DeviceStatus
  <2> QED BY <2>1, <2>2, <2>3, <2>4, <2>5 DEF TypeOK
<1>2. Stations' /\ HasStation'
  BY DEF TypeOK, Params, ParamsAgree, Stations, HasStation
<1>3. StationMode' /\ SmartAlone' /\ BootQuiet'
  BY DEF TypeOK, StationMode, SmartAlone, BootQuiet, Polling
<1>4. ParamsAgree' /\ WebMode' /\ ActiveStored'
  BY DEF TypeOK, Params, WorkModes, ActiveFlags, Erased, ParamsAgree, WebMode,
    ActiveStored, SmartAlone, BootQuiet
<1>5. PollsWhenIdle' /\ FailuresChangeAp'
  BY ConstantsOK DEF TypeOK, WebMode, PollsWhenIdle, FailuresChangeAp,
    SmartAlone, BootQuiet, Polling
<1>6. OnlineClosesSoftAp' /\ NoBeaconInHandshake' /\ StatusOfConn'
  BY DEF TypeOK, WebMode, OnlineClosesSoftAp, NoBeaconInHandshake,
    StatusOfConn, PollsWhenIdle, StationMode, SmartAlone, BootQuiet, Polling
<1> QED BY <1>1, <1>2, <1>3, <1>4, <1>5, <1>6

(* user_esp_platform_connect_cb.                                            *)
LEMMA ConnectStep ==
  ASSUME IInv, ConnectCb
  PROVE  IInv'
<1> USE DEF IInv, wifiVars, cloudVars, countVars, paramVars, ConnectCb,
    CloseSoftAp, Activated
<1>1. TypeOK'
  <2>1. recon' \in 0 .. CountMod - 1 /\ apChanges' \in 0 .. MaxApChanges
    BY ConstantsOK DEF TypeOK
  <2>2. lost' \in 0 .. MaxWifiLoss
    BY ConstantsOK DEF TypeOK
  <2>3. param' \in Params /\ flash' \in Params
    BY DEF TypeOK, Params, WorkModes, ActiveFlags
  <2>4. /\ smart' \in BOOLEAN /\ btimer' \in BOOLEAN /\ pinged' \in BOOLEAN
        /\ upg' \in BOOLEAN
    BY DEF TypeOK
  <2>5. ctimer' \in Callbacks /\ status' \in DeviceStatus /\ wifi' \in WifiStatus
    BY DEF TypeOK, WifiStatus, WifiFailed, Callbacks, DeviceStatus
  <2> QED BY <2>1, <2>2, <2>3, <2>4, <2>5 DEF TypeOK
<1>2. Stations' /\ HasStation'
  BY DEF TypeOK, Params, ParamsAgree, Stations, HasStation
<1>3. StationMode' /\ SmartAlone' /\ BootQuiet'
  BY DEF TypeOK, StationMode, SmartAlone, BootQuiet, Polling
<1>4. ParamsAgree' /\ WebMode' /\ ActiveStored'
  BY DEF TypeOK, Params, WorkModes, ActiveFlags, Erased, ParamsAgree, WebMode,
    ActiveStored, SmartAlone, BootQuiet
<1>5. PollsWhenIdle' /\ FailuresChangeAp'
  BY ConstantsOK DEF TypeOK, WebMode, PollsWhenIdle, FailuresChangeAp,
    SmartAlone, BootQuiet, Polling
<1>6. OnlineClosesSoftAp' /\ NoBeaconInHandshake' /\ StatusOfConn'
  BY DEF TypeOK, WebMode, OnlineClosesSoftAp, NoBeaconInHandshake,
    StatusOfConn, PollsWhenIdle, StationMode, SmartAlone, BootQuiet, Polling
<1> QED BY <1>1, <1>2, <1>3, <1>4, <1>5, <1>6

(* user_esp_platform_recon_cb.                                              *)
LEMMA ReconStep ==
  ASSUME IInv, ReconCb
  PROVE  IInv'
<1> USE DEF IInv, wifiVars, cloudVars, countVars, paramVars, ReconCb,
    StopBeacon, ResetMode
<1>1. TypeOK'
  <2>1. recon' \in 0 .. CountMod - 1 /\ apChanges' \in 0 .. MaxApChanges
    BY ConstantsOK DEF TypeOK
  <2>2. lost' \in 0 .. MaxWifiLoss
    BY ConstantsOK DEF TypeOK
  <2>3. param' \in Params /\ flash' \in Params
    BY DEF TypeOK, Params, WorkModes, ActiveFlags
  <2>4. /\ smart' \in BOOLEAN /\ btimer' \in BOOLEAN /\ pinged' \in BOOLEAN
        /\ upg' \in BOOLEAN
    BY DEF TypeOK
  <2>5. ctimer' \in Callbacks /\ status' \in DeviceStatus /\ wifi' \in WifiStatus
    BY DEF TypeOK, WifiStatus, WifiFailed, Callbacks, DeviceStatus
  <2> QED BY <2>1, <2>2, <2>3, <2>4, <2>5 DEF TypeOK
<1>2. Stations' /\ HasStation'
  BY DEF TypeOK, Params, ParamsAgree, Stations, HasStation
<1>3. StationMode' /\ SmartAlone' /\ BootQuiet'
  BY DEF TypeOK, StationMode, SmartAlone, BootQuiet, Polling
<1>4. ParamsAgree' /\ WebMode' /\ ActiveStored'
  BY DEF TypeOK, Params, WorkModes, ActiveFlags, Erased, ParamsAgree, WebMode,
    ActiveStored, SmartAlone, BootQuiet
<1>5. PollsWhenIdle' /\ FailuresChangeAp'
  BY ConstantsOK DEF TypeOK, WebMode, PollsWhenIdle, FailuresChangeAp,
    SmartAlone, BootQuiet, Polling
<1>6. OnlineClosesSoftAp' /\ NoBeaconInHandshake' /\ StatusOfConn'
  BY DEF TypeOK, WebMode, OnlineClosesSoftAp, NoBeaconInHandshake,
    StatusOfConn, PollsWhenIdle, StationMode, SmartAlone, BootQuiet, Polling
<1> QED BY <1>1, <1>2, <1>3, <1>4, <1>5, <1>6

(* user_esp_platform_recv_cb, whatever arrives.                             *)
LEMMA RecvStep ==
  ASSUME IInv, RecvActivated \/ RecvRefused \/ RecvUpgrade \/ RecvCommand \/ RecvPing
                 \/ RecvOther
  PROVE  IInv'
<1> USE DEF IInv, wifiVars, cloudVars, countVars, paramVars, RecvActivated,
    RecvRefused, RecvUpgrade, RecvCommand, RecvPing, RecvOther, Recv, Save
<1>1. TypeOK'
  <2>1. recon' \in 0 .. CountMod - 1 /\ apChanges' \in 0 .. MaxApChanges
    BY ConstantsOK DEF TypeOK
  <2>2. lost' \in 0 .. MaxWifiLoss
    BY ConstantsOK DEF TypeOK
  <2>3. param' \in Params /\ flash' \in Params
    BY DEF TypeOK, Params, WorkModes, ActiveFlags
  <2>4. /\ smart' \in BOOLEAN /\ btimer' \in BOOLEAN /\ pinged' \in BOOLEAN
        /\ upg' \in BOOLEAN
    BY DEF TypeOK
  <2>5. ctimer' \in Callbacks /\ status' \in DeviceStatus /\ wifi' \in WifiStatus
    BY DEF TypeOK, WifiStatus, WifiFailed, Callbacks, DeviceStatus
  <2> QED BY <2>1, <2>2, <2>3, <2>4, <2>5 DEF TypeOK
<1>2. Stations' /\ HasStation'
  BY DEF TypeOK, Params, ParamsAgree, Stations, HasStation
<1>3. StationMode' /\ SmartAlone' /\ BootQuiet'
  BY DEF TypeOK, StationMode, SmartAlone, BootQuiet, Polling
<1>4. ParamsAgree' /\ WebMode' /\ ActiveStored'
  BY DEF TypeOK, Params, WorkModes, ActiveFlags, Erased, ParamsAgree, WebMode,
    ActiveStored, SmartAlone, BootQuiet
<1>5. PollsWhenIdle' /\ FailuresChangeAp'
  BY ConstantsOK DEF TypeOK, WebMode, PollsWhenIdle, FailuresChangeAp,
    SmartAlone, BootQuiet, Polling
<1>6. OnlineClosesSoftAp' /\ NoBeaconInHandshake' /\ StatusOfConn'
  BY DEF TypeOK, WebMode, OnlineClosesSoftAp, NoBeaconInHandshake,
    StatusOfConn, PollsWhenIdle, StationMode, SmartAlone, BootQuiet, Polling
<1> QED BY <1>1, <1>2, <1>3, <1>4, <1>5, <1>6

(* The beacon, and a close that runs no callback.                           *)
LEMMA BeaconStep ==
  ASSUME IInv, SentBeacon \/ RemoteClose
  PROVE  IInv'
<1> USE DEF IInv, wifiVars, cloudVars, countVars, paramVars, SentBeacon,
    RemoteClose
<1>1. TypeOK'
  <2>1. recon' \in 0 .. CountMod - 1 /\ apChanges' \in 0 .. MaxApChanges
    BY ConstantsOK DEF TypeOK
  <2>2. lost' \in 0 .. MaxWifiLoss
    BY ConstantsOK DEF TypeOK
  <2>3. param' \in Params /\ flash' \in Params
    BY DEF TypeOK, Params, WorkModes, ActiveFlags
  <2>4. /\ smart' \in BOOLEAN /\ btimer' \in BOOLEAN /\ pinged' \in BOOLEAN
        /\ upg' \in BOOLEAN
    BY DEF TypeOK
  <2>5. ctimer' \in Callbacks /\ status' \in DeviceStatus /\ wifi' \in WifiStatus
    BY DEF TypeOK, WifiStatus, WifiFailed, Callbacks, DeviceStatus
  <2> QED BY <2>1, <2>2, <2>3, <2>4, <2>5 DEF TypeOK
<1>2. Stations' /\ HasStation'
  BY DEF TypeOK, Params, ParamsAgree, Stations, HasStation
<1>3. StationMode' /\ SmartAlone' /\ BootQuiet'
  BY DEF TypeOK, StationMode, SmartAlone, BootQuiet, Polling
<1>4. ParamsAgree' /\ WebMode' /\ ActiveStored'
  BY DEF TypeOK, Params, WorkModes, ActiveFlags, Erased, ParamsAgree, WebMode,
    ActiveStored, SmartAlone, BootQuiet
<1>5. PollsWhenIdle' /\ FailuresChangeAp'
  BY ConstantsOK DEF TypeOK, WebMode, PollsWhenIdle, FailuresChangeAp,
    SmartAlone, BootQuiet, Polling
<1>6. OnlineClosesSoftAp' /\ NoBeaconInHandshake' /\ StatusOfConn'
  BY DEF TypeOK, WebMode, OnlineClosesSoftAp, NoBeaconInHandshake,
    StatusOfConn, PollsWhenIdle, StationMode, SmartAlone, BootQuiet, Polling
<1> QED BY <1>1, <1>2, <1>3, <1>4, <1>5, <1>6

(* user_esp_platform_upgrade_rsp, and the device timers.                    *)
LEMMA UpgradeStep ==
  ASSUME IInv, TimerGet \/ (\E ok \in BOOLEAN : UpgradeRsp(ok))
  PROVE  IInv'
<1> USE DEF IInv, wifiVars, cloudVars, countVars, paramVars, TimerGet,
    UpgradeRsp
<1>1. TypeOK'
  <2>1. recon' \in 0 .. CountMod - 1 /\ apChanges' \in 0 .. MaxApChanges
    BY ConstantsOK DEF TypeOK
  <2>2. lost' \in 0 .. MaxWifiLoss
    BY ConstantsOK DEF TypeOK
  <2>3. param' \in Params /\ flash' \in Params
    BY DEF TypeOK, Params, WorkModes, ActiveFlags
  <2>4. /\ smart' \in BOOLEAN /\ btimer' \in BOOLEAN /\ pinged' \in BOOLEAN
        /\ upg' \in BOOLEAN
    BY DEF TypeOK
  <2>5. ctimer' \in Callbacks /\ status' \in DeviceStatus /\ wifi' \in WifiStatus
    BY DEF TypeOK, WifiStatus, WifiFailed, Callbacks, DeviceStatus
  <2> QED BY <2>1, <2>2, <2>3, <2>4, <2>5 DEF TypeOK
<1>2. Stations' /\ HasStation'
  BY DEF TypeOK, Params, ParamsAgree, Stations, HasStation
<1>3. StationMode' /\ SmartAlone' /\ BootQuiet'
  BY DEF TypeOK, StationMode, SmartAlone, BootQuiet, Polling
<1>4. ParamsAgree' /\ WebMode' /\ ActiveStored'
  BY DEF TypeOK, Params, WorkModes, ActiveFlags, Erased, ParamsAgree, WebMode,
    ActiveStored, SmartAlone, BootQuiet
<1>5. PollsWhenIdle' /\ FailuresChangeAp'
  BY ConstantsOK DEF TypeOK, WebMode, PollsWhenIdle, FailuresChangeAp,
    SmartAlone, BootQuiet, Polling
<1>6. OnlineClosesSoftAp' /\ NoBeaconInHandshake' /\ StatusOfConn'
  BY DEF TypeOK, WebMode, OnlineClosesSoftAp, NoBeaconInHandshake,
    StatusOfConn, PollsWhenIdle, StationMode, SmartAlone, BootQuiet, Polling
<1> QED BY <1>1, <1>2, <1>3, <1>4, <1>5, <1>6

(* smartconfig is over; a POST wifi arrives over the web.                   *)
LEMMA LinkOverStep ==
  ASSUME IInv, SmartLinkOver \/ (\E token \in BOOLEAN : WebPost(token))
  PROVE  IInv'
<1> USE DEF IInv, wifiVars, cloudVars, countVars, paramVars, SmartLinkOver,
    WebPost, Save
<1>1. TypeOK'
  <2>1. recon' \in 0 .. CountMod - 1 /\ apChanges' \in 0 .. MaxApChanges
    BY ConstantsOK DEF TypeOK
  <2>2. lost' \in 0 .. MaxWifiLoss
    BY ConstantsOK DEF TypeOK
  <2>3. param' \in Params /\ flash' \in Params
    BY DEF TypeOK, Params, WorkModes, ActiveFlags
  <2>4. /\ smart' \in BOOLEAN /\ btimer' \in BOOLEAN /\ pinged' \in BOOLEAN
        /\ upg' \in BOOLEAN
    BY DEF TypeOK
  <2>5. ctimer' \in Callbacks /\ status' \in DeviceStatus /\ wifi' \in WifiStatus
    BY DEF TypeOK, WifiStatus, WifiFailed, Callbacks, DeviceStatus
  <2> QED BY <2>1, <2>2, <2>3, <2>4, <2>5 DEF TypeOK
<1>2. Stations' /\ HasStation'
  BY DEF TypeOK, Params, ParamsAgree, Stations, HasStation
<1>3. StationMode' /\ SmartAlone' /\ BootQuiet'
  BY DEF TypeOK, StationMode, SmartAlone, BootQuiet, Polling
<1>4. ParamsAgree' /\ WebMode' /\ ActiveStored'
  <2>1. CASE SmartLinkOver
    BY <2>1 DEF TypeOK, Params, WorkModes, ActiveFlags, Erased, ParamsAgree,
      WebMode, ActiveStored, SmartAlone, BootQuiet
  <2>2. CASE \E token \in BOOLEAN : WebPost(token)
    BY <2>2 DEF TypeOK, Params, WorkModes, ActiveFlags, Erased, ParamsAgree,
      WebMode, ActiveStored, SmartAlone, BootQuiet
  <2> QED BY <2>1, <2>2
<1>5. PollsWhenIdle' /\ FailuresChangeAp'
  BY ConstantsOK DEF TypeOK, WebMode, PollsWhenIdle, FailuresChangeAp,
    SmartAlone, BootQuiet, Polling
<1>6. OnlineClosesSoftAp' /\ NoBeaconInHandshake' /\ StatusOfConn'
  BY DEF TypeOK, WebMode, OnlineClosesSoftAp, NoBeaconInHandshake,
    StatusOfConn, PollsWhenIdle, StationMode, SmartAlone, BootQuiet, Polling
<1> QED BY <1>1, <1>2, <1>3, <1>4, <1>5, <1>6

(* What the SDK does with the station.                                      *)
LEMMA WifiStep ==
  ASSUME IInv, WifiOutcome \/ WifiRecovered \/ WifiLost
  PROVE  IInv'
<1> USE DEF IInv, wifiVars, cloudVars, countVars, paramVars, WifiOutcome,
    WifiRecovered, WifiLost, WifiFailed
<1>1. TypeOK'
  <2>1. recon' \in 0 .. CountMod - 1 /\ apChanges' \in 0 .. MaxApChanges
    BY ConstantsOK DEF TypeOK
  <2>2. lost' \in 0 .. MaxWifiLoss
    BY ConstantsOK DEF TypeOK
  <2>3. param' \in Params /\ flash' \in Params
    BY DEF TypeOK, Params, WorkModes, ActiveFlags
  <2>4. /\ smart' \in BOOLEAN /\ btimer' \in BOOLEAN /\ pinged' \in BOOLEAN
        /\ upg' \in BOOLEAN
    BY DEF TypeOK
  <2>5. ctimer' \in Callbacks /\ status' \in DeviceStatus /\ wifi' \in WifiStatus
    BY DEF TypeOK, WifiStatus, WifiFailed, Callbacks, DeviceStatus
  <2> QED BY <2>1, <2>2, <2>3, <2>4, <2>5 DEF TypeOK
<1>2. Stations' /\ HasStation'
  BY DEF TypeOK, Params, ParamsAgree, Stations, HasStation
<1>3. StationMode' /\ SmartAlone' /\ BootQuiet'
  BY DEF TypeOK, StationMode, SmartAlone, BootQuiet, Polling
<1>4. ParamsAgree' /\ WebMode' /\ ActiveStored'
  BY DEF TypeOK, Params, WorkModes, ActiveFlags, Erased, ParamsAgree, WebMode,
    ActiveStored, SmartAlone, BootQuiet
<1>5. PollsWhenIdle' /\ FailuresChangeAp'
  BY ConstantsOK DEF TypeOK, WebMode, PollsWhenIdle, FailuresChangeAp,
    SmartAlone, BootQuiet, Polling
<1>6. OnlineClosesSoftAp' /\ NoBeaconInHandshake' /\ StatusOfConn'
  BY DEF TypeOK, WebMode, OnlineClosesSoftAp, NoBeaconInHandshake,
    StatusOfConn, PollsWhenIdle, StationMode, SmartAlone, BootQuiet, Polling
<1> QED BY <1>1, <1>2, <1>3, <1>4, <1>5, <1>6

(* Nothing changes.                                                         *)
LEMMA StutterStep ==
  ASSUME IInv, UNCHANGED vars
  PROVE  IInv'
<1> USE DEF IInv, wifiVars, cloudVars, countVars, paramVars, vars
<1>1. TypeOK'
  <2>1. recon' \in 0 .. CountMod - 1 /\ apChanges' \in 0 .. MaxApChanges
    BY ConstantsOK DEF TypeOK
  <2>2. lost' \in 0 .. MaxWifiLoss
    BY ConstantsOK DEF TypeOK
  <2>3. param' \in Params /\ flash' \in Params
    BY DEF TypeOK, Params, WorkModes, ActiveFlags
  <2>4. /\ smart' \in BOOLEAN /\ btimer' \in BOOLEAN /\ pinged' \in BOOLEAN
        /\ upg' \in BOOLEAN
    BY DEF TypeOK
  <2>5. ctimer' \in Callbacks /\ status' \in DeviceStatus /\ wifi' \in WifiStatus
    BY DEF TypeOK, WifiStatus, WifiFailed, Callbacks, DeviceStatus
  <2> QED BY <2>1, <2>2, <2>3, <2>4, <2>5 DEF TypeOK
<1>2. Stations' /\ HasStation'
  BY DEF TypeOK, Params, ParamsAgree, Stations, HasStation
<1>3. StationMode' /\ SmartAlone' /\ BootQuiet'
  BY DEF TypeOK, StationMode, SmartAlone, BootQuiet, Polling
<1>4. ParamsAgree' /\ WebMode' /\ ActiveStored'
  BY DEF TypeOK, Params, WorkModes, ActiveFlags, Erased, ParamsAgree, WebMode,
    ActiveStored, SmartAlone, BootQuiet
<1>5. PollsWhenIdle' /\ FailuresChangeAp'
  BY ConstantsOK DEF TypeOK, WebMode, PollsWhenIdle, FailuresChangeAp,
    SmartAlone, BootQuiet, Polling
<1>6. OnlineClosesSoftAp' /\ NoBeaconInHandshake' /\ StatusOfConn'
  BY DEF TypeOK, WebMode, OnlineClosesSoftAp, NoBeaconInHandshake,
    StatusOfConn, PollsWhenIdle, StationMode, SmartAlone, BootQuiet, Polling
<1> QED BY <1>1, <1>2, <1>3, <1>4, <1>5, <1>6

-----------------------------------------------------------------------------
(* wifi_station_set_config stores a record: the ids stay contiguous.       *)
LEMMA StoreStationStores ==
  ASSUME TypeOK, Stations, StoreStation
  PROVE  Stations' /\ saved' # {} /\ ap' \in ApIds /\ saved' \in SUBSET ApIds
<1>1. PICK m \in 0 .. ApCacheNumber : saved = 0 .. m - 1
  BY DEF Stations
<1>2. PICK i \in ApIds : /\ \A j \in ApIds : j < i => j \in saved
                         /\ saved' = saved \cup {i} /\ ap' = i
  BY DEF StoreStation
<1>3. \E n \in 0 .. ApCacheNumber : saved' = 0 .. n - 1
  <2>1. i <= m
    <3>1. CASE i = 0
      BY <3>1, ConstantsOK
    <3>2. CASE i # 0
      <4>1. i - 1 \in ApIds /\ i - 1 < i
        BY <3>2, ConstantsOK DEF ApIds
      <4>2. i - 1 \in 0 .. m - 1
        BY <1>1, <1>2, <4>1
      <4> QED BY <4>2, ConstantsOK DEF ApIds
    <3> QED BY <3>1, <3>2
  <2>2. CASE i = m
    <3>1. saved' = 0 .. (m + 1) - 1 /\ m + 1 \in 0 .. ApCacheNumber
      BY <1>1, <1>2, <2>2, ConstantsOK DEF ApIds
    <3> QED BY <3>1
  <2>3. CASE i # m
    <3>1. saved' = 0 .. m - 1
      BY <1>1, <1>2, <2>1, <2>3, ConstantsOK DEF ApIds
    <3> QED BY <3>1
  <2> QED BY <2>2, <2>3
<1> QED BY <1>2, <1>3 DEF Stations, TypeOK

LEMMA SetStationStores ==
  ASSUME TypeOK, Stations, SetStation
  PROVE  /\ Stations' /\ saved' # {} /\ wifi' = "CONNECTING" /\ lost' = lost
         /\ ap' \in ApIds /\ saved' \in SUBSET ApIds
  BY StoreStationStores DEF SetStation

(* smartconfig hands over a network, with a mode of its own or without one. *)
LEMMA LinkStep ==
  ASSUME IInv, SmartLinkPlain \/ (\E mode \in 0 .. 3, longSsid \in BOOLEAN :
                                    SmartLinkFlag(mode, longSsid))
  PROVE  IInv'
<1>1. /\ smart /\ flash'.cfg = flash.cfg /\ flash'.mode = param'.mode
      /\ flash'.active = 1 <=> flash.active = 1
      /\ param'.cfg = flash'.cfg
      /\ param'.active = 1 <=> flash'.active = 1
      /\ param' \in Params /\ flash' \in Params
      /\ UNCHANGED <<phase, opmode, smart, cloudVars, countVars, svc, upg>>
  <2>1. CASE SmartLinkPlain
    BY <2>1 DEF IInv, TypeOK, SmartLinkPlain, Save, ParamsAgree, paramVars
  <2>2. CASE \E mode \in 0 .. 3, longSsid \in BOOLEAN : SmartLinkFlag(mode, longSsid)
    <3>1. PICK mode \in 0 .. 3, longSsid \in BOOLEAN : SmartLinkFlag(mode, longSsid)
      BY <2>2
    <3> DEFINE m == IF mode \in 0 .. 2 THEN mode ELSE param.mode
    <3>2. param' = [param EXCEPT !.mode = m] /\ flash' = param' /\ smart
      BY <3>1 DEF SmartLinkFlag, Save
    <3>3. m \in WorkModes
      BY DEF IInv, TypeOK, Params, WorkModes
    <3> HIDE DEF m
    <3>4. /\ param' \in Params /\ flash' \in Params
          /\ flash'.cfg = param.cfg /\ flash'.active = param.active
      BY <3>2, <3>3 DEF IInv, TypeOK, Params
    <3> QED BY <3>1, <3>2, <3>4 DEF SmartLinkFlag, IInv, ParamsAgree
  <2> QED BY <2>1, <2>2
<1>2. (SetStation \/ UNCHANGED wifiVars) /\ ctimer' \in {ctimer, "restart"}
  BY DEF SmartLinkPlain, SmartLinkFlag
<1>3. /\ Stations' /\ (saved # {} => saved' # {}) /\ (wifi' # "IDLE" => saved' # {})
      /\ wifi' \in WifiStatus /\ lost' = lost /\ ap' \in ApIds /\ saved' \in SUBSET ApIds
  <2>1. CASE SetStation
    BY <2>1, SetStationStores DEF IInv, WifiStatus
  <2>2. CASE UNCHANGED wifiVars
    BY <2>2 DEF IInv, TypeOK, Stations, HasStation, wifiVars
  <2> QED BY <1>2, <2>1, <2>2
<1> USE DEF IInv, cloudVars, countVars
<1>4. TypeOK'
  BY <1>1, <1>2, <1>3 DEF TypeOK, Callbacks
<1>5. Stations' /\ HasStation'
  BY <1>1, <1>2, <1>3 DEF HasStation, SmartAlone
<1>6. StationMode' /\ SmartAlone' /\ BootQuiet'
  BY <1>1, <1>2 DEF StationMode, SmartAlone, BootQuiet, Polling
<1>7. ParamsAgree' /\ WebMode' /\ ActiveStored'
  BY <1>1 DEF ParamsAgree, WebMode, ActiveStored, SmartAlone
<1>8. PollsWhenIdle' /\ FailuresChangeAp'
  BY <1>1, <1>2, ConstantsOK DEF PollsWhenIdle, FailuresChangeAp, SmartAlone, Polling
<1>9. OnlineClosesSoftAp' /\ NoBeaconInHandshake' /\ StatusOfConn'
  BY <1>1 DEF OnlineClosesSoftAp, NoBeaconInHandshake, StatusOfConn, SmartAlone
<1> QED BY <1>4, <1>5, <1>6, <1>7, <1>8, <1>9

(* The web server hands over a network.                                    *)
LEMMA WebSetStationStep ==
  ASSUME IInv, WebSetStation
  PROVE  IInv'
<1>1. /\ Stations' /\ saved' # {} /\ wifi' = "CONNECTING" /\ lost' = lost
      /\ ap' \in ApIds /\ saved' \in SUBSET ApIds
  BY SetStationStores DEF IInv, WebSetStation
<1>2. /\ svc = "web" /\ ctimer' = "check_ip0"
      /\ UNCHANGED <<phase, opmode, smart, cloudVars, countVars, svc, upg, paramVars>>
  BY DEF WebSetStation
<1> USE DEF IInv, cloudVars, countVars, paramVars
<1>3. TypeOK'
  BY <1>1, <1>2 DEF TypeOK, Callbacks, WifiStatus
<1>4. Stations' /\ HasStation'
  BY <1>1 DEF HasStation
<1>5. StationMode' /\ SmartAlone' /\ BootQuiet'
  BY <1>2 DEF StationMode, SmartAlone, BootQuiet
<1>6. ParamsAgree' /\ WebMode' /\ ActiveStored'
  BY <1>2 DEF ParamsAgree, WebMode, ActiveStored
<1>7. PollsWhenIdle' /\ FailuresChangeAp'
  BY <1>2 DEF PollsWhenIdle, FailuresChangeAp
<1>8. OnlineClosesSoftAp' /\ NoBeaconInHandshake' /\ StatusOfConn'
  BY <1>2 DEF OnlineClosesSoftAp, NoBeaconInHandshake, StatusOfConn
<1> QED BY <1>3, <1>4, <1>5, <1>6, <1>7, <1>8

(* RAM is lost, whatever became of the station records before.              *)
LEMMA LoseRamStep ==
  ASSUME IInv, LoseRam, Stations', saved # {} => saved' # {},
         ap' \in ApIds, saved' \in SUBSET ApIds
  PROVE  IInv'
<1> USE DEF IInv, LoseRam
<1>1. TypeOK'
  <2>1. recon' \in 0 .. CountMod - 1 /\ apChanges' \in 0 .. MaxApChanges
    BY ConstantsOK
  <2> QED BY <2>1 DEF TypeOK, Callbacks, WifiStatus, DeviceStatus
<1>2. Stations' /\ HasStation'
  BY DEF HasStation
<1>3. StationMode' /\ SmartAlone' /\ BootQuiet'
  BY DEF StationMode, SmartAlone, BootQuiet, Polling
<1>4. ParamsAgree' /\ WebMode' /\ ActiveStored'
  BY DEF ParamsAgree, WebMode, ActiveStored
<1>5. PollsWhenIdle' /\ FailuresChangeAp'
  BY ConstantsOK DEF PollsWhenIdle, FailuresChangeAp, Polling
<1>6. OnlineClosesSoftAp' /\ NoBeaconInHandshake' /\ StatusOfConn'
  BY DEF OnlineClosesSoftAp, NoBeaconInHandshake, StatusOfConn
<1> QED BY <1>1, <1>2, <1>3, <1>4, <1>5, <1>6

(* The web server restarts the module, with or without a new network.        *)
LEMMA WebRestartStep ==
  ASSUME IInv, WebRestart
  PROVE  IInv'
<1>1. CASE StoreStation
  BY <1>1, StoreStationStores, LoseRamStep DEF IInv, WebRestart
<1>2. CASE UNCHANGED <<ap, saved>>
  BY <1>2, LoseRamStep DEF IInv, TypeOK, Stations, WebRestart
<1> QED BY <1>1, <1>2 DEF WebRestart

(* user_esp_platform_ap_change: the next access point, or the restart.      *)
LEMMA ApChangeStep ==
  ASSUME IInv, ApChange
  PROVE  IInv'
<1>1. ap' \in ApIds /\ (saved # {} => ap' \in saved) /\ saved' = saved
  <2>1. PICK m \in 0 .. ApCacheNumber : saved = 0 .. m - 1
    BY DEF IInv, Stations
  <2>2. saved # {} /\ ap \in saved
    BY DEF IInv, ApChange, HasStation, Stations
  <2>3. m \in 1 .. ApCacheNumber
    BY <2>1, <2>2, ConstantsOK
  <2>4. NextAp(ap) = IF ap = m - 1 THEN 0 ELSE ap + 1
    BY <2>1, <2>2, <2>3, NextApIsNext
  <2>5. NextAp(ap) \in 0 .. m - 1
    BY <2>1, <2>2, <2>3, <2>4, ConstantsOK
  <2>6. ap' = NextAp(ap) /\ saved' = saved
    BY DEF ApChange, LoseRam
  <2>7. ap' \in saved
    BY <2>1, <2>5, <2>6
  <2> QED BY <2>6, <2>7 DEF IInv, TypeOK
<1>2. CASE LoseRam /\ UNCHANGED saved
  BY <1>1, <1>2, LoseRamStep DEF IInv, Stations, TypeOK
<1>3. CASE /\ ctimer = "ap_change" /\ apChanges < MaxApChanges
           /\ apChanges' = apChanges + 1 /\ recon' = 0
           /\ ctimer' = "check_ip0" /\ wifi' = "CONNECTING"
           /\ UNCHANGED <<phase, saved, opmode, smart, cloudVars, svc, upg,
                          paramVars, lost>>
  <2> USE <1>3 DEF IInv, cloudVars, paramVars
  <2>1. TypeOK'
    <3>1. recon' \in 0 .. CountMod - 1 /\ apChanges' \in 0 .. MaxApChanges
      BY ConstantsOK DEF TypeOK
    <3> QED BY <1>1, <3>1 DEF TypeOK, Callbacks, WifiStatus
  <2>2. Stations' /\ HasStation'
    BY <1>1 DEF Stations, HasStation
  <2>3. StationMode' /\ SmartAlone' /\ BootQuiet'
    BY DEF StationMode, SmartAlone, BootQuiet, Polling
  <2>4. ParamsAgree' /\ WebMode' /\ ActiveStored'
    BY DEF ParamsAgree, WebMode, ActiveStored
  <2>5. PollsWhenIdle' /\ FailuresChangeAp'
    BY ConstantsOK DEF PollsWhenIdle, FailuresChangeAp, Polling
  <2>6. OnlineClosesSoftAp' /\ NoBeaconInHandshake' /\ StatusOfConn'
    BY DEF OnlineClosesSoftAp, NoBeaconInHandshake, StatusOfConn
  <2> QED BY <2>1, <2>2, <2>3, <2>4, <2>5, <2>6
<1> QED BY <1>2, <1>3 DEF ApChange

-----------------------------------------------------------------------------
LEMMA StepInductive == IInv /\ [Next]_vars => IInv'
<1> SUFFICES ASSUME IInv, [Next]_vars
             PROVE  IInv'
  OBVIOUS
<1>1. CASE Boot
  BY <1>1, BootStep DEF Boot
<1>2. CASE PowerCycle \/ RestartTimer
  BY <1>2, RebootStep
<1>3. CASE CheckIpTimer
  <2>1. /\ ctimer \in Polling \ {"ap_change"}
        /\ UNCHANGED <<phase, wifiVars, smart, paramVars, upg>>
    BY <1>3 DEF CheckIpTimer, Polling
  <2>2. CheckIpOnline(ctimer = "check_ip1") \/ CheckIpFailed \/ CheckIpPending
    BY <1>3 DEF CheckIpTimer, CheckIp
  <2>3. (ctimer = "check_ip1") \in BOOLEAN
    OBVIOUS
  <2>4. CASE CheckIpOnline(ctimer = "check_ip1")
    BY <2>1, <2>3, <2>4, CheckIpOnlineStep
  <2>5. CASE CheckIpFailed \/ CheckIpPending
    BY <2>1, <2>5, CheckIpOtherStep
  <2> QED BY <2>2, <2>4, <2>5
<1>4. CASE ApChange
  BY <1>4, ApChangeStep
<1>5. CASE TimerGet \/ (\E ok \in BOOLEAN : UpgradeRsp(ok))
  BY <1>5, UpgradeStep
<1>6. CASE ConnectCb
  BY <1>6, ConnectStep
<1>7. CASE ReconCb
  BY <1>7, ReconStep
<1>8. CASE SentBeacon \/ RemoteClose
  BY <1>8, BeaconStep
<1>9. CASE \/ RecvActivated \/ RecvRefused \/ RecvUpgrade \/ RecvCommand
           \/ RecvPing \/ RecvOther
  BY <1>9, RecvStep
<1>10. CASE SmartLinkPlain \/ (\E mode \in 0 .. 3, longSsid \in BOOLEAN :
                                 SmartLinkFlag(mode, longSsid))
  BY <1>10, LinkStep
<1>11. CASE SmartLinkOver \/ (\E token \in BOOLEAN : WebPost(token))
  BY <1>11, LinkOverStep
<1>12. CASE WebSetStation \/ WebRestart
  BY <1>12, WebSetStationStep, WebRestartStep
<1>13. CASE WifiOutcome \/ WifiRecovered \/ WifiLost
  BY <1>13, WifiStep
<1>14. CASE UNCHANGED vars
  BY <1>14, StutterStep
<1> QED BY <1>1, <1>2, <1>3, <1>4, <1>5, <1>6, <1>7, <1>8, <1>9, <1>10, <1>11,
           <1>12, <1>13, <1>14 DEF Next, Timers, Cloud, Smartconfig, Web

THEOREM Inductive == Spec => []IInv
  BY InitInductive, StepInductive, PTL DEF Spec

(* Every callback leaves every variable in its type.                        *)
THEOREM TypeCorrect == Spec => []TypeOK
<1>1. IInv => TypeOK
  BY DEF IInv
<1> QED BY <1>1, Inductive, PTL

(* The fifth server failure changes the access point, whatever the limits.  *)
THEOREM FailuresAlwaysChangeAp == Spec => []FailuresChangeAp
<1>1. IInv => FailuresChangeAp
  BY DEF IInv
<1> QED BY <1>1, Inductive, PTL

(* The fallback soft-AP is closed whenever the cloud connection is up.      *)
THEOREM OnlineHasNoSoftAp == Spec => []OnlineClosesSoftAp
<1>1. IInv => OnlineClosesSoftAp
  BY DEF IInv
<1> QED BY <1>1, Inductive, PTL

(* The probe loop always ends, and visits every stored access point.        *)
THEOREM ApsTakeTurns == Spec => []ApRoundRobin
<1>1. IInv => ApRoundRobin
  <2> SUFFICES ASSUME IInv, (phase = "run" /\ param.cfg) \/ ctimer = "ap_change"
               PROVE  ap \in saved /\ NextAp(ap) = (ap + 1) % Cardinality(saved)
    BY DEF ApRoundRobin
  <2>1. saved # {} /\ ap \in saved
    BY DEF IInv, HasStation, ParamsAgree, Stations
  <2>2. PICK m \in 0 .. ApCacheNumber : saved = 0 .. m - 1
    BY DEF IInv, Stations
  <2>3. m \in 1 .. ApCacheNumber
    BY <2>1, <2>2, ConstantsOK
  <2> QED BY <2>1, <2>2, <2>3, NextApIsNext
<1> QED BY <1>1, Inductive, PTL

(* A power cut costs nothing that was acknowledged.                         *)
THEOREM ParamsDurable == Spec => []ParamDurable
<1>1. IInv => ParamDurable
  BY DEF IInv, ParamsAgree, ParamDurable
<1> QED BY <1>1, Inductive, PTL

(* A configured module can join its network after any restart.              *)
THEOREM ConfiguredAlwaysBoots == Spec => []ConfiguredCanBoot
<1>1. IInv => ConfiguredCanBoot
  BY DEF IInv, HasStation, StationMode, ConfiguredCanBoot
<1> QED BY <1>1, Inductive, PTL

(* No beacon disturbs a handshake.                                          *)
THEOREM HandshakeUndisturbed == Spec => []NoBeaconInHandshake
<1>1. IInv => NoBeaconInHandshake
  BY DEF IInv
<1> QED BY <1>1, Inductive, PTL

(* The status shown is the status there is.                                 *)
THEOREM StatusAlwaysHonest == Spec => []StatusHonest
<1>1. IInv => StatusHonest
  BY DEF IInv, StatusOfConn, ActiveStored, StatusHonest
<1> QED BY <1>1, Inductive, PTL

----------------------------------------------------------------------------
(* The client beside the station implements its own module, and what is      *)
(* proved of either alone holds of the two together.                         *)
TP == INSTANCE TcpClientProofs WITH conn <- tconn, route <- wifi = "GOT_IP"

\* What the station keeps, and the count of attempts a number.
BridgeInv == IInv /\ count \in Nat

----------------------------------------------------------------------------
LEMMA BridgeInitInductive == BridgeInit => BridgeInv
  BY InitInductive DEF BridgeInit, BridgeInv

(* The station does not notice the client beside it, except for a restart,   *)
(* and power may fail at any time.                                           *)
LEMMA StationStep == BridgeInv /\ [BridgeNext]_bridgeVars => [Next]_vars
<1> SUFFICES ASSUME BridgeInv, [BridgeNext]_bridgeVars PROVE [Next]_vars
  OBVIOUS
<1>1. CASE CheckIpStep
  BY <1>1 DEF CheckIpStep, Next, Timers
<1>2. CASE RestartStep
  BY <1>2 DEF RestartStep, Next, Timers, Web
<1>3. CASE PlatformStep
  BY <1>3 DEF PlatformStep, Next, Timers, Web
<1>4. CASE ClientStep
  BY <1>4 DEF ClientStep
<1>5. CASE ReconnectStep
  <2>1. CASE UNCHANGED vars
    BY <2>1
  <2>2. CASE count >= MaxReconnCount /\ Reboot /\ T!Reconnect
    <3>1. ~(count < MaxReconnCount)
      BY <2>2, BridgeOK DEF BridgeInv
    <3>2. phase = "run"
      BY <2>2, <3>1 DEF T!Reconnect, T!Restart
    <3> QED BY <2>2, <3>2 DEF Next, PowerCycle
  <2> QED BY <1>5, <2>1, <2>2 DEF ReconnectStep
<1>6. CASE UNCHANGED bridgeVars
  BY <1>6 DEF bridgeVars
<1> QED BY <1>1, <1>2, <1>3, <1>4, <1>5, <1>6 DEF BridgeNext

LEMMA BridgeStepInductive == BridgeInv /\ [BridgeNext]_bridgeVars => BridgeInv'
<1> SUFFICES ASSUME BridgeInv, [BridgeNext]_bridgeVars PROVE BridgeInv'
  OBVIOUS
<1>1. IInv'
  BY StationStep, StepInductive DEF BridgeInv
<1>2. count' \in Nat
  <2>1. count' \in {count, 0, count + 1}
    BY DEF BridgeNext, bridgeVars, clientVars, CheckIpStep, RestartStep, PlatformStep,
           ClientStep, ReconnectStep, T!Restart, T!ConnectCb, T!ReconCb, T!Discon,
           T!Closed, T!Reconnect
  <2> QED BY <2>1 DEF BridgeInv
<1> QED BY <1>1, <1>2 DEF BridgeInv

THEOREM BridgeInductive == BridgeSpec => []BridgeInv
  BY BridgeInitInductive, BridgeStepInductive, PTL DEF BridgeSpec

----------------------------------------------------------------------------
(* To the client the station is an address that comes and goes.              *)

(* The event loop starts without an address, and whatever gives or takes one *)
(* happens in it.                                                            *)
LEMMA RouteInLoop ==
  ASSUME BridgeInv, PlatformStep
  PROVE  T!Boot \/ T!RouteChange \/ UNCHANGED T!vars
<1>1. UNCHANGED clientVars
  BY DEF PlatformStep
<1>2. CASE Boot
  <2>1. phase = "boot" /\ phase' = "run" /\ wifi' \in {wifi, "IDLE", "CONNECTING"}
    BY <1>2 DEF Boot, PlatformInit, StartSmartconfig, StartStation
  <2>2. wifi = "IDLE"
    BY <2>1 DEF BridgeInv, IInv, BootQuiet
  <2>3. UNCHANGED (wifi = "GOT_IP")
    BY <2>1, <2>2
  <2> QED BY <1>1, <2>1, <2>3 DEF T!Boot, T!clientVars, clientVars
<1>3. CASE ~Boot
  <2>0. ~(ApChange /\ apChanges < MaxApChanges /\ apChanges = MaxApChanges)
    BY ConstantsOK DEF BridgeInv, IInv, TypeOK
  <2>1. phase' = phase
    BY <1>3, <2>0 DEF PlatformStep, ApChange, LoseRam, TimerGet, Cloud, ConnectCb, ReconCb,
           RemoteClose, RecvActivated, RecvRefused, RecvUpgrade, RecvCommand, RecvPing,
           RecvOther, Recv, SentBeacon, UpgradeRsp, Smartconfig, SmartLinkFlag,
           SmartLinkPlain, SmartLinkOver, WebSetStation, WebPost, WifiOutcome,
           WifiRecovered, WifiLost
  <2>2. CASE wifi' = wifi
    BY <1>1, <2>1, <2>2 DEF T!vars, clientVars
  <2>3. CASE wifi' # wifi
    <3>1. wifi # "IDLE" \/ ctimer = "ap_change" \/ smart \/ svc = "web"
      BY <1>3, <2>3 DEF PlatformStep, TimerGet, Cloud, ConnectCb, ReconCb, ApChange,
           RemoteClose, RecvActivated, RecvRefused, RecvUpgrade, RecvCommand, RecvPing,
           RecvOther, Recv, SentBeacon, UpgradeRsp, Smartconfig, SmartLinkFlag,
           SmartLinkPlain, SmartLinkOver, WebSetStation, WebPost, WifiOutcome,
           WifiRecovered, WifiLost, WifiFailed, wifiVars
    <3>2. phase = "run"
      BY <3>1 DEF BridgeInv, IInv, BootQuiet, TypeOK
    <3> QED BY <1>1, <2>1, <3>2 DEF T!RouteChange, T!vars, T!clientVars, clientVars
  <2> QED BY <2>2, <2>3
<1> QED BY <1>2, <1>3

LEMMA ClientStepImplements == BridgeInv /\ [BridgeNext]_bridgeVars => [T!Next]_T!vars
<1> SUFFICES ASSUME BridgeInv, [BridgeNext]_bridgeVars PROVE [T!Next]_T!vars
  OBVIOUS
<1>1. CASE CheckIpStep
  <2>1. UNCHANGED <<phase, wifi>> /\ phase = "run"
    BY <1>1 DEF CheckIpStep, CheckIpTimer, wifiVars, BridgeInv, IInv, BootQuiet, TypeOK
  <2>2. CASE wifi = "GOT_IP" /\ param.mode = 1
    <3>1. T!ClientInit
      BY <1>1, <2>1, <2>2 DEF CheckIpStep, T!ClientInit, T!Connect
    <3> QED BY <3>1 DEF T!Next
  <2>3. CASE ~(wifi = "GOT_IP" /\ param.mode = 1)
    BY <1>1, <2>1, <2>3 DEF CheckIpStep, T!vars, clientVars
  <2> QED BY <2>2, <2>3
<1>2. CASE RestartStep
  BY <1>2 DEF RestartStep, T!Next
<1>3. CASE PlatformStep
  BY <1>3, RouteInLoop DEF T!Next
<1>4. CASE ClientStep
  BY <1>4 DEF ClientStep, T!Next
<1>5. CASE ReconnectStep
  BY <1>5 DEF ReconnectStep, T!Next
<1>6. CASE UNCHANGED bridgeVars
  BY <1>6 DEF bridgeVars, vars, clientVars, T!vars
<1> QED BY <1>1, <1>2, <1>3, <1>4, <1>5, <1>6 DEF BridgeNext

(* check_ip at any time, restarts by either part, an address that comes and  *)
(* goes: the client of the running module stays within TcpClient.tla.        *)
THEOREM ClientImplements == BridgeSpec => ImplementsTcpClient
<1>1. BridgeInit => T!Init
  BY DEF BridgeInit, Init, T!Init
<1> QED BY <1>1, ClientStepImplements, BridgeInductive, PTL
        DEF BridgeSpec, ImplementsTcpClient, T!Spec

(* The module of the client's proofs, beside the station, is the client's   *)
(* own.                                                                     *)
LEMMA SameModule ==
  /\ T!Init <=> TP!Init
  /\ [T!Next]_T!vars <=> [TP!Next]_TP!vars
  /\ T!ReadyHonest <=> TP!ReadyHonest
<1>1. T!Init <=> TP!Init
  BY DEF T!Init, TP!Init
<1>2. (T!Boot <=> TP!Boot) /\ (T!RouteChange <=> TP!RouteChange)
  BY DEF T!Boot, TP!Boot, T!RouteChange, TP!RouteChange, T!clientVars, TP!clientVars
<1>3. T!Restart <=> TP!Restart
  BY DEF T!Restart, TP!Restart
<1>4. T!Connect <=> TP!Connect
  BY DEF T!Connect, TP!Connect
<1>5. T!Closed <=> TP!Closed
  BY DEF T!Closed, TP!Closed
<1>6. (T!ClientInit <=> TP!ClientInit) /\ (T!ConnectCb <=> TP!ConnectCb)
  BY <1>4 DEF T!ClientInit, TP!ClientInit, T!ConnectCb, TP!ConnectCb
<1>7. (T!ReconCb <=> TP!ReconCb) /\ (T!Discon <=> TP!Discon)
  BY <1>5 DEF T!ReconCb, TP!ReconCb, T!Discon, TP!Discon
<1>8. T!Reconnect <=> TP!Reconnect
  BY <1>3, <1>4 DEF T!Reconnect, TP!Reconnect
<1>9. T!vars = TP!vars /\ T!vars' = TP!vars'
  BY DEF T!vars, TP!vars
<1>10. T!Next <=> TP!Next
  BY <1>2, <1>3, <1>6, <1>7, <1>8 DEF T!Next, TP!Next
<1>11. T!ReadyHonest <=> TP!ReadyHonest
  BY DEF T!ReadyHonest, TP!ReadyHonest, T!UpIsClean, TP!UpIsClean
<1> QED BY <1>1, <1>9, <1>10, <1>11

(* So the READY pin can be trusted in the running module too.                *)
THEOREM ReadyHonestInModule == BridgeSpec => []T!ReadyHonest
<1>1. TP!Spec => []TP!ReadyHonest
  BY TP!ReadyAlwaysHonest, BridgeOK DEF TP!MaxReconnOK
<1>2. T!Spec => TP!Spec
  BY SameModule, PTL DEF T!Spec, TP!Spec
<1>3. TP!ReadyHonest => T!ReadyHonest
  BY SameModule
<1> QED BY <1>1, <1>2, <1>3, ClientImplements, PTL DEF ImplementsTcpClient
=============================================================================
