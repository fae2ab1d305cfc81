------------------------------ MODULE Station ------------------------------
(***************************************************************************)
(* The charging station: the main loop with its charge controller, status  *)
(* light and beacon, the blink task that interrupts it, and the reporter,  *)
(* with what becomes of its connection at the gateway.                     *)
(*                                                                         *)
(* The blink task has the higher priority on the only core: a turn of it   *)
(* is one step, and it may fall between two channels that the loop sets.   *)
(* The controller's fault counter, which nothing reads, is left out.       *)
(***************************************************************************)
EXTENDS Integers, Sequences

CONSTANTS
  Levels,       \* millivolts that the one ADC pin may have
  Late,         \* hundreds of ms by which turns of the loop may follow one another
  Precharge,    \* precharge_ms, in hundreds
  ReportEvery,  \* turns of the loop from one report to the next
  QueueDepth    \* QUEUE_DEPTH

ASSUME StationAssumption ==
  /\ Levels \subseteq Nat /\ Levels # {} /\ Late \subseteq Nat
  /\ Precharge \in Nat /\ ReportEvery \in Nat \ {0} /\ QueueDepth \in Nat

VARIABLES
  level,    \* what the pin has, and
  steady,   \* whether it has it since a robot was found
  state,    \* charge_ctl_t: state,
  docked,   \* docked,
  since,    \* the time since docked_at_ms, in hundreds, up to one past Precharge,
  out,      \* and the power MOSFET
  loop,     \* where the main loop is: it waits, sets a channel, or ends its turn
  colour,   \* the colour it sets, dark once it has
  turns,    \* loop_count, modulo ReportEvery
  led,      \* the three channels of the light
  blink,    \* blink_on
  beacon,   \* active
  wifi,     \* whether wifi_state is WIFI_CONNECTED
  gateway,  \* whether the gateway answers
  reporter, \* where the reporter is
  sock,     \* its socket: none, open, dead without its knowing it, or reset
  queue, ev \* the reports that wait and the one it holds: whether of a fault

chargeVars == <<level, steady, state, docked, since, out>>
loopVars == <<loop, colour, turns, led, blink, beacon>>
reportVars == <<reporter, sock, ev>>
vars == <<chargeVars, loopVars, wifi, gateway, reportVars, queue>>

ChargeStates == {"idle", "docked", "active", "complete", "fault"}

(* The colours of status_indicator_set.                                    *)
IdleColour == <<0, 128, 0>>
Connecting == <<255, 200, 0>>
Charging == <<0, 64, 255>>
Faulty == <<255, 30, 0>>
Dark == <<0, 0, 0>>

Init ==
  /\ level \in Levels /\ steady = FALSE
  /\ state = "idle" /\ docked = FALSE /\ since = 0 /\ out = FALSE
  /\ loop = "wait" /\ colour = Dark /\ turns = 0
  /\ led = Connecting /\ blink = FALSE /\ beacon = TRUE
  /\ wifi = FALSE /\ gateway \in BOOLEAN
  /\ reporter = "starting" /\ sock = "none" /\ queue = <<>>
  /\ ev \in BOOLEAN

-----------------------------------------------------------------------------
(* charge_ctl_tick.  Voltage and current come from the same pin, read one  *)
(* after the other: twice the millivolts, and one ampere for each 185.     *)
Touching(mv) == 2 * mv > 1000
Open(mv) == 2 * mv < 500
Overload(mv) == mv > 2 * 185
Idling(mv) == 10 * mv < 185

Found(mv) ==
  /\ state = "idle" /\ Touching(mv) /\ ~docked
  /\ state' = "docked" /\ docked' = TRUE /\ since' = 0
  /\ UNCHANGED out

Enable ==
  /\ state = "docked" /\ since > Precharge
  /\ state' = "active" /\ out' = TRUE
  /\ UNCHANGED <<docked, since>>

(* Mutant: the output stays on.                                            *)
FaultOn(i) == state = "active" /\ Overload(i) /\ state' = "fault" /\ UNCHANGED <<docked, since, out>>
Fault(i) ==
  /\ state = "active" /\ Overload(i)
  /\ state' = "fault" /\ out' = FALSE
  /\ UNCHANGED <<docked, since>>

Complete(i) ==
  /\ state = "active" /\ ~Overload(i) /\ Idling(i)
  /\ state' = "complete" /\ out' = FALSE
  /\ UNCHANGED <<docked, since>>

Leave(v, i) ==
  /\ state \in {"active", "complete", "fault"} /\ Open(v)
  /\ state = "active" => ~Overload(i) /\ ~Idling(i)
  /\ state' = "idle" /\ docked' = FALSE
  /\ out' = (state = "fault" /\ out)
  /\ UNCHANGED since

Changes(v, i) == Found(v) \/ Enable \/ Fault(i) \/ Complete(i) \/ Leave(v, i)
Stays(v, i) ==
  /\ ~(state = "idle" /\ Touching(v) /\ ~docked)
  /\ ~(state = "docked" /\ since > Precharge)
  /\ ~(state = "active" /\ (Overload(i) \/ Idling(i) \/ Open(v)))
  /\ ~(state \in {"complete", "fault"} /\ Open(v))
  /\ UNCHANGED <<state, docked, since, out>>

-----------------------------------------------------------------------------
(* The light and the main loop.                                            *)
(* Mutant: only what charges shows as charging.                            *)
ShownActive(s) == IF s = "active" THEN Charging ELSE IF s = "fault" THEN Faulty ELSE Dark
Shown(s) ==
  IF s = "idle" THEN IF wifi THEN IdleColour ELSE Connecting
  ELSE IF s = "fault" THEN Faulty ELSE Charging

(* A turn of the main loop begins with a tick of the controller; the pin   *)
(* may change between its two readings.                                    *)
Tick ==
  /\ loop = "wait"
  /\ \E later \in Levels :
       /\ Changes(level, later) \/ Stays(level, later)
       /\ level' = later
       /\ steady' = (level' = level /\ (steady \/ (state = "idle" /\ state' = "docked")))
  /\ loop' = IF state' = "complete" THEN "end" ELSE "red"
  /\ colour' = IF state' = "complete" THEN Dark ELSE Shown(state')
  /\ UNCHANGED <<turns, led, blink, beacon, wifi, gateway, reportVars, queue>>

(* status_indicator_set_rgb, channel by channel.                           *)
Channel == [red |-> 1, green |-> 2, blue |-> 3]
After == [red |-> "green", green |-> "blue", blue |-> "end"]
Paint ==
  /\ loop \in DOMAIN Channel
  /\ led' = [led EXCEPT ![Channel[loop]] = colour[Channel[loop]]]
  /\ loop' = After[loop]
  /\ colour' = IF loop = "blue" THEN Dark ELSE colour
  /\ UNCHANGED <<chargeVars, turns, blink, beacon, wifi, gateway, reportVars, queue>>

(* Until the next turn, what the time since a robot was found comes to.    *)
Capped(t) == IF t > Precharge THEN Precharge + 1 ELSE t
Aged == since' \in IF state = "docked" THEN {Capped(since + d) : d \in Late} ELSE {since}

(* A report that finds the queue full is dropped.                          *)
(* Mutant: it is not.                                                      *)
QueuedUnchecked(q, r) == Append(q, r)
Queued(q, r) == IF Len(q) < QueueDepth THEN Append(q, r) ELSE q

Finish ==
  /\ loop = "end" /\ loop' = "wait"
  /\ Aged
  /\ turns' = (turns + 1) % ReportEvery
  /\ queue' = IF turns' = 0 THEN Queued(queue, state = "fault") ELSE queue
  /\ beacon' = (state \notin {"active", "complete"})
  /\ UNCHANGED <<level, steady, state, docked, out, colour, led, blink, wifi, gateway, reportVars>>

Loop == Tick \/ Paint \/ Finish

(* led_blink_task, whenever its delay ends.                                *)
Blinking == [complete |-> <<0, 255, 0>>, fault |-> <<255, 0, 0>>]
Blink ==
  /\ state \in DOMAIN Blinking
  /\ blink' = ~blink
  /\ led' = IF blink' THEN Blinking[state] ELSE Dark
  /\ UNCHANGED <<chargeVars, loop, colour, turns, beacon, wifi, gateway, reportVars, queue>>

-----------------------------------------------------------------------------
(* wifi_event_handler.                                                     *)
WifiEvent ==
  /\ wifi' = ~wifi
  /\ UNCHANGED <<chargeVars, loopVars, gateway, reportVars, queue>>

(* reporter_task waits for Wi-Fi once and never looks at it again.  It has *)
(* no work between a sending and the next look at its socket, which are    *)
(* one step.                                                               *)
Report(from, to) == reporter = from /\ reporter' = to /\ UNCHANGED <<chargeVars, loopVars, wifi, gateway>>
Connected(s) == IF s = "none" /\ gateway THEN "open" ELSE s

Started ==
  /\ Report("starting", "receive") /\ wifi
  /\ sock' = Connected(sock)
  /\ UNCHANGED <<ev, queue>>

(* After a timeout it goes on with the report that it holds, which at      *)
(* first is whatever its stack held.                                       *)
Receive ==
  /\ Report("receive", "send")
  /\ IF queue = <<>> THEN UNCHANGED <<ev, queue>> ELSE ev' = Head(queue) /\ queue' = Tail(queue)
  /\ UNCHANGED sock

(* Mutant: the socket is kept when the sending fails.                      *)
AfterSendKept(s) == s
AfterSend(s) == IF s = "reset" THEN "none" ELSE s
Send ==
  /\ Report("send", "receive")
  /\ sock' = Connected(AfterSend(sock))
  /\ UNCHANGED <<ev, queue>>

ReporterTurn == Started \/ Receive \/ Send

-----------------------------------------------------------------------------
(* authenticate at the gateway: it waits for the 102 bytes of a signed     *)
(* answer to its challenge, which the station does not read.  Two reports  *)
(* are more than that and no signature; with fewer the time runs out.  No  *)
(* station gets as far as the WebSocket: each connection is closed.        *)
Authenticate ==
  /\ gateway /\ sock = "open" /\ sock' = "dead"
  /\ UNCHANGED <<chargeVars, loopVars, wifi, gateway, reporter, ev, queue>>

(* What the station does not decide: its contacts, whether the gateway is  *)
(* reached, and when TCP reports that a peer has closed or is gone.        *)
Contact ==
  /\ \E mv \in Levels \ {level} : level' = mv
  /\ steady' = FALSE
  /\ UNCHANGED <<state, docked, since, out, loopVars, wifi, gateway, reportVars, queue>>

Outage ==
  /\ gateway' = ~gateway
  /\ sock' = IF sock = "open" THEN "dead" ELSE sock
  /\ UNCHANGED <<chargeVars, loopVars, wifi, reporter, ev, queue>>

PeerReset ==
  /\ sock = "dead" /\ sock' = "reset"
  /\ UNCHANGED <<chargeVars, loopVars, wifi, gateway, reporter, ev, queue>>

Next == Loop \/ Blink \/ WifiEvent \/ ReporterTurn \/ Authenticate \/ Contact \/ Outage \/ PeerReset

Spec == Init /\ [][Next]_vars
FairSpec == Spec /\ WF_vars(Loop) /\ WF_vars(ReporterTurn) /\ WF_vars(Authenticate) /\ WF_vars(PeerReset)
=============================================================================
