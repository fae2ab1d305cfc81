-------------------------- MODULE ConnManagerProps --------------------------
(***************************************************************************)
(* What the connection manager keeps, and what its header claims and it    *)
(* does not.                                                               *)
(***************************************************************************)
EXTENDS ConnManager

(* The type invariant.                                                     *)
TypeOK ==
  /\ state \in States /\ pc \in {"sleep", "act", "connect", "disconnect"}
  /\ wifiOk \in BOOLEAN /\ wsOk \in BOOLEAN /\ bleOk \in BOOLEAN
  /\ pc = "sleep" => ~wifiOk /\ ~wsOk /\ ~bleOk
  /\ pc = "connect" => state = "WIFI_CONNECTED"
  /\ pc = "disconnect" => state = "WS_CONNECTING"
  /\ uptime \in 0..(ConnectTimeout + 1) /\ wifiWas \in BOOLEAN
  /\ wifiLost \in 0..(WsGrace + 2) /\ bleLost \in 0..(BleGrace + 2)
  /\ wifiBit \in BOOLEAN /\ wsBit \in BOOLEAN /\ bleBit \in BOOLEAN
  /\ wsConnected \in BOOLEAN /\ wpc \in {"idle", "clear"}
  /\ wsGone \in 0..(WsGrace + 2) /\ bleGone \in 0..(BleGrace + 2)

(* The bit says WebSocket only with the client connected: flag and bit are *)
(* changed one after the other by the loop while the event handler clears  *)
(* the bit, and comm_tx reads the flag.                                    *)
BitNeedsSocket == wsBit => wsConnected \/ pc = "disconnect"

(* Direct mode is given up only after a whole grace period in which no     *)
(* wake-up saw the WebSocket, and bridge mode only after one in which none *)
(* saw the phone: the stamp of an earlier outage is never taken for the    *)
(* beginning of this one, through any sequence of modes in between.        *)
GraceHonoured ==
  [][ /\ (state = "WS_CONNECTED" /\ state' = "BLE_ADVERTISING") => wsGone > WsGrace
      /\ (state = "BLE_CONNECTED" /\ state' = "OFFLINE") => bleGone > BleGrace ]_vars

(* When Wi-Fi is gone for good and a phone stays, the robot ends in bridge *)
(* mode, wherever it was when they changed.                                *)
BridgeReached ==
  <>[](~wifiBit /\ ~wsBit /\ bleBit) => <>[](state = "BLE_CONNECTED")

(* When Wi-Fi is back for good, a robot that was in direct mode once leaves *)
(* bridge and offline mode for good, with or without a phone.              *)
DirectRetaken ==
  <>wifiWas /\ <>[]wifiBit =>
    <>[](state \notin {"BLE_ADVERTISING", "BLE_CONNECTED", "OFFLINE"})
=============================================================================
