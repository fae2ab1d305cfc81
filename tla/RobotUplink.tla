---------------------------- MODULE RobotUplink ----------------------------
(***************************************************************************)
(* The connection manager with task_comm_tx, which sends the frames of     *)
(* q_cmd_outgoing over whatever link the flags show.  The only frames put  *)
(* there are the error logs of diagnostic/log_upload.c, which are dropped  *)
(* when the queue is full.  g_ble.connected is set by the same external    *)
(* callback as the bit for a phone.                                        *)
(***************************************************************************)
EXTENDS ConnManager

CONSTANT Depth    (* Q_CMD_OUTGOING_DEPTH, 32 in the code                  *)

VARIABLES
  outgoing,       (* frames in q_cmd_outgoing                              *)
  tpc,            (* task_comm_tx: idle, before its first check, second    *)
  via             (* the links the last frame was handed to                *)

uplink == <<outgoing, tpc, via>>

UplinkInit == Init /\ outgoing = 0 /\ tpc = "idle" /\ via = {}

LogError ==
  /\ outgoing < Depth
  /\ outgoing' = outgoing + 1
  /\ UNCHANGED <<tpc, via, vars>>

Take ==
  /\ tpc = "idle" /\ outgoing > 0
  /\ outgoing' = outgoing - 1 /\ tpc' = "first" /\ via' = {}
  /\ UNCHANGED vars

TryWs ==
  /\ tpc = "first"
  /\ via' = IF wsConnected THEN {"ws"} ELSE {}
  /\ tpc' = "second"
  /\ UNCHANGED <<outgoing, vars>>

TryBle ==
  /\ tpc = "second"
  /\ via' = IF ~wsConnected /\ bleBit THEN via \cup {"ble"} ELSE via
  /\ tpc' = "idle"
  /\ UNCHANGED <<outgoing, vars>>

UplinkNext == (Next /\ UNCHANGED uplink) \/ LogError \/ Take \/ TryWs \/ TryBle

UplinkSpec == UplinkInit /\ [][UplinkNext]_<<vars, uplink>>

-----------------------------------------------------------------------------
(* ws_client.c:140: "If not connected via WiFi, try BLE".  In bridge mode, *)
(* with Wi-Fi down and a phone there, a frame is handed to Bluetooth.      *)
(* wifi_event_handler clears the bits and leaves the client's flag, which  *)
(* comm_tx reads: after direct mode its frames go to the dead socket.      *)
BridgeCarries ==
  [][ (tpc = "second" /\ tpc' = "idle" /\ state = "BLE_CONNECTED" /\ ~wifiBit /\ bleBit)
        => "ble" \in via' ]_<<vars, uplink>>
=============================================================================
