---------------------------- MODULE ConnManager ----------------------------
(***************************************************************************)
(* The robot's connection manager (firmware/components/comm): a loop that  *)
(* wakes every second, copies the bits of evg_system, and then acts on the *)
(* copy, while the Wi-Fi event handler and the Bluetooth stack change the  *)
(* bits under it.                                                          *)
(*                                                                         *)
(* The handler clears two bits in two calls; ws_connect and ws_disconnect  *)
(* each change a flag and then a bit.  Time is counted in wake-ups, which  *)
(* vTaskDelayUntil keeps one second apart, and a time stamp is kept as the *)
(* number of wake-ups since it was taken, the first included.  The GATT    *)
(* callback that reports a phone is not in the repository (the code        *)
(* registers NULL, "production: real callback"), nor is the driver that    *)
(* reports Wi-Fi: both are external.  Heartbeats are encoded here but not  *)
(* sent ("TODO") and change no state of the machine.                       *)
(***************************************************************************)
EXTENDS Naturals

CONSTANTS
  ConnectTimeout,   (* WIFI_CONNECT_TIMEOUT_MS, 10 wake-ups                *)
  WsGrace,          (* 5 wake-ups without WebSocket                        *)
  BleGrace          (* 10 wake-ups without phone                           *)

ASSUME ConnAssumption ==
  ConnectTimeout \in Nat /\ WsGrace \in Nat /\ BleGrace \in Nat

VARIABLES
  state,                    (* g_conn_mgr.state                            *)
  pc, wifiOk, wsOk, bleOk,  (* the loop and its copy of the bits           *)
  uptime,                   (* wake-ups since boot, as far as it matters   *)
  wifiWas,                  (* wifi_was_connected                          *)
  wifiLost, bleLost,        (* age of wifi_lost_at and ble_lost_at, from 1;*)
                            (* 0 if not set                                *)
  wifiBit, wsBit, bleBit,   (* evg_system                                  *)
  wsConnected,              (* g_ws_client.connected                       *)
  wpc,                      (* the Wi-Fi event handler                     *)
  wsGone, bleGone           (* history: wake-ups in a row without the bit  *)

bits == <<wifiBit, wsBit, bleBit>>
copy == <<wifiOk, wsOk, bleOk>>
lost == <<wifiLost, bleLost>>
history == <<wsGone, bleGone>>
vars == <<state, pc, wifiOk, wsOk, bleOk, uptime, wifiWas, wifiLost, bleLost,
          wifiBit, wsBit, bleBit, wsConnected, wpc, wsGone, bleGone>>

States == {"INIT", "WIFI_CONNECTING", "WIFI_CONNECTED", "WS_CONNECTING", "WS_CONNECTED",
           "BLE_ADVERTISING", "BLE_CONNECTED", "OFFLINE"}

Init ==
  /\ state = "INIT" /\ pc = "sleep"
  /\ wifiOk = FALSE /\ wsOk = FALSE /\ bleOk = FALSE
  /\ uptime = 0 /\ wifiWas = FALSE /\ wifiLost = 0 /\ bleLost = 0
  /\ wifiBit = FALSE /\ wsBit = FALSE /\ bleBit = FALSE
  /\ wsConnected = FALSE /\ wpc = "idle"
  /\ wsGone = 0 /\ bleGone = 0

-----------------------------------------------------------------------------
(* The event handler, and the Bluetooth stack.                             *)

GotIp ==
  /\ wpc = "idle" /\ ~wifiBit
  /\ wifiBit' = TRUE
  /\ UNCHANGED <<state, pc, copy, uptime, wifiWas, lost, wsBit, bleBit, wsConnected,
                 wpc, history>>

Disconnected ==
  /\ wpc = "idle"
  /\ wifiBit' = FALSE /\ wpc' = "clear"
  /\ UNCHANGED <<state, pc, copy, uptime, wifiWas, lost, wsBit, bleBit, wsConnected,
                 history>>

ClearWsBit ==
  /\ wpc = "clear"
  /\ wsBit' = FALSE /\ wpc' = "idle"
  /\ UNCHANGED <<state, pc, copy, uptime, wifiWas, lost, wifiBit, bleBit, wsConnected,
                 history>>

Phone ==
  /\ bleBit' = ~bleBit
  /\ UNCHANGED <<state, pc, copy, uptime, wifiWas, lost, wifiBit, wsBit, wsConnected,
                 wpc, history>>

-----------------------------------------------------------------------------
(* The loop.                                                               *)

(* A count up to where one more makes no difference.                       *)
Count(n, limit) == IF n <= limit THEN n + 1 ELSE n
Aged(n, grace) == IF n = 0 THEN 0 ELSE Count(n, grace + 1)

Sample ==
  /\ pc = "sleep" /\ pc' = "act"
  /\ wifiOk' = wifiBit /\ wsOk' = wsBit /\ bleOk' = bleBit
  /\ uptime' = Count(uptime, ConnectTimeout)
  /\ wifiLost' = Aged(wifiLost, WsGrace) /\ bleLost' = Aged(bleLost, BleGrace)
  /\ wsGone' = IF wsBit THEN 0 ELSE Count(wsGone, WsGrace + 1)
  /\ bleGone' = IF bleBit THEN 0 ELSE Count(bleGone, BleGrace + 1)
  /\ UNCHANGED <<state, wifiWas, bits, wsConnected, wpc>>

(* The end of an iteration: the copy is not used again.                    *)
Sleep ==
  /\ pc' = "sleep"
  /\ wifiOk' = FALSE /\ wsOk' = FALSE /\ bleOk' = FALSE

In(s) == pc = "act" /\ state = s

(* What a plain iteration leaves alone.                                    *)
Else == UNCHANGED <<uptime, bits, wsConnected, wpc, history>>

Boot ==
  /\ In("INIT")
  /\ state' = IF wifiOk THEN "WIFI_CONNECTED" ELSE "WIFI_CONNECTING"
  /\ Sleep /\ Else /\ UNCHANGED <<wifiWas, lost>>

(* Mutant: the timeout is met only if the loop is here when it ends.       *)
IsTimedOutNow == uptime = ConnectTimeout
IsTimedOut == uptime > ConnectTimeout

AwaitWifi ==
  /\ In("WIFI_CONNECTING")
  /\ state' = IF wifiOk THEN "WIFI_CONNECTED"
              ELSE IF IsTimedOut THEN "BLE_ADVERTISING" ELSE state
  /\ Sleep /\ Else /\ UNCHANGED <<wifiWas, lost>>

(* Mutants: the client is not marked; the mode is changed first.           *)
MarkNothing == UNCHANGED wsConnected
MarkConnected == wsConnected' = TRUE
EnterFirst == state' = "WS_CONNECTING"
EnterLater == UNCHANGED state

(* ws_connect: the flag, then the bit, whatever became of Wi-Fi.           *)
Connect ==
  /\ In("WIFI_CONNECTED")
  /\ MarkConnected /\ EnterLater /\ pc' = "connect"
  /\ UNCHANGED <<copy, uptime, wifiWas, lost, bits, wpc, history>>

SetWsBit ==
  /\ pc = "connect"
  /\ wsBit' = TRUE /\ state' = "WS_CONNECTING"
  /\ Sleep
  /\ UNCHANGED <<uptime, wifiWas, lost, wifiBit, bleBit, wsConnected, wpc, history>>

AwaitWs ==
  /\ In("WS_CONNECTING") /\ (wsOk \/ wifiOk)
  /\ state' = IF wsOk THEN "WS_CONNECTED" ELSE state
  /\ Sleep /\ Else /\ UNCHANGED <<wifiWas, lost>>

(* ws_disconnect: the flag, then the bit.                                  *)
Disconnect ==
  /\ In("WS_CONNECTING") /\ ~wsOk /\ ~wifiOk
  /\ IF wsConnected
       THEN wsConnected' = FALSE /\ pc' = "disconnect" /\ UNCHANGED <<state, copy>>
       ELSE state' = "WIFI_CONNECTING" /\ Sleep /\ UNCHANGED wsConnected
  /\ UNCHANGED <<uptime, wifiWas, lost, bits, wpc, history>>

ResetWsBit ==
  /\ pc = "disconnect"
  /\ wsBit' = FALSE /\ state' = "WIFI_CONNECTING"
  /\ Sleep
  /\ UNCHANGED <<uptime, wifiWas, lost, wifiBit, bleBit, wsConnected, wpc, history>>

Since(n) == IF n = 0 THEN 1 ELSE n

(* The task may get the processor some ticks later at one wake-up than at  *)
(* another: after a whole grace period the difference is equal to it or    *)
(* larger.                                                                 *)
IsOver(n, grace, jitter) == Since(n) - 1 + jitter > grace

Direct ==
  /\ In("WS_CONNECTED")
  /\ wifiWas' = TRUE
  /\ \E jitter \in 0..1 :
       IF wsOk THEN wifiLost' = 0 /\ UNCHANGED state
       ELSE IF IsOver(wifiLost, WsGrace, jitter) THEN wifiLost' = 0 /\ state' = "BLE_ADVERTISING"
       ELSE wifiLost' = Since(wifiLost) /\ UNCHANGED state
  /\ UNCHANGED bleLost
  /\ Sleep /\ Else

(* Mutant: the stamp of an outage survives its end.                        *)
KeepStamp == UNCHANGED bleLost
ClearStamp == bleLost' = 0

(* Mutant: Wi-Fi is looked at only when there is no phone.                 *)
RecoversWithoutPhone == wifiOk /\ wifiWas /\ ~bleOk
Recovers == wifiOk /\ wifiWas

Advertise ==
  /\ In("BLE_ADVERTISING")
  /\ IF Recovers THEN state' = "WIFI_CONNECTED" /\ UNCHANGED bleLost
     ELSE IF bleOk THEN state' = "BLE_CONNECTED" /\ bleLost' = 0
     ELSE UNCHANGED <<state, bleLost>>
  /\ UNCHANGED <<wifiWas, wifiLost>>
  /\ Sleep /\ Else

Bridge ==
  /\ In("BLE_CONNECTED")
  /\ \E jitter \in 0..1 :
       IF Recovers THEN state' = "WIFI_CONNECTED" /\ UNCHANGED bleLost
       ELSE IF bleOk THEN ClearStamp /\ UNCHANGED state
       ELSE IF IsOver(bleLost, BleGrace, jitter) THEN bleLost' = 0 /\ state' = "OFFLINE"
       ELSE bleLost' = Since(bleLost) /\ UNCHANGED state
  /\ UNCHANGED <<wifiWas, wifiLost>>
  /\ Sleep /\ Else

Offline ==
  /\ In("OFFLINE")
  /\ state' = IF Recovers THEN "WIFI_CONNECTED" ELSE IF bleOk THEN "BLE_CONNECTED" ELSE state
  /\ UNCHANGED <<wifiWas, lost>>
  /\ Sleep /\ Else

-----------------------------------------------------------------------------
Loop ==
  \/ Sample \/ Boot \/ AwaitWifi \/ Connect \/ SetWsBit \/ AwaitWs \/ Disconnect
  \/ ResetWsBit \/ Direct \/ Advertise \/ Bridge \/ Offline

Next == GotIp \/ Disconnected \/ ClearWsBit \/ Phone \/ Loop

Spec == Init /\ [][Next]_vars

(* The scheduler of FreeRTOS runs both tasks; nobody owes a connection.    *)
FairSpec == Spec /\ WF_vars(Loop) /\ WF_vars(ClearWsBit)
=============================================================================
