# Verification of companion-robot

TLA+ specifications of the companion robot and of the services behind it, the
TLC runs that check them on small instances, and TLAPS proofs that hold for
instances of any size.  Every definition is translated from the code under
`src/`; `PROJECT.json` maps each one to its lines.

Contents: [the system](#the-system) ·
[the modules](#the-modules) · [runs](#runs-and-what-they-show) ·
[findings](#disagreements-between-code-and-comments) ·
[known limits](#known-limits-of-the-code) ·
[proofs](#what-is-proved) · [what is only checked](#what-is-only-model-checked) ·
[not modelled](#what-is-not-modelled)

## The system

A robot (ESP32, FreeRTOS, C) talks BCP frames to a *gateway* over WebSocket, or
over Bluetooth to a phone.  Behind the gateway, Rust services exchange NATS
messages and share PostgreSQL and Redis: the *scheduler* hands tasks to robots,
the *device manager* decides which robots are online, the *AI service* answers
in dialogues.  A *charging station* has firmware of its own, and there are
Android and iOS applications.

```
 phone --BLE-- robot --WebSocket/BCP-- gateway --NATS--+-- scheduler ------ tasks (PostgreSQL)
   |             | dock                                +-- device manager -- robots (PostgreSQL), Redis
   +--WebSocket  station                               +-- AI service ----- sessions (memory)
```

| component | state | operations | what makes it hard |
|---|---|---|---|
| scheduler (`services/scheduler`) | tables `tasks` and `robots`; the task list and robot list the dispatch loop fetched | create, cancel (REST); dispatch loop; reports of robots; offline events | four concurrent activities, one SQL statement at a time, no transactions; lists read before many awaits; messages late, lost or repeated |
| gateway (`services/gateway`) | pool of three maps behind a lock; a channel per connection | register, unregister, relay, emergency broadcast | a machine reconnects before its old connection cleans up; ids wrap at 16 bits; bounded channels; errors between register and the relay |
| device manager (`services/device-manager`) | `robots.status`; Redis set of online robots and a key with TTL per robot | heartbeat subscriber; monitor; registration, deletion | two loops without a common lock, two stores without a transaction, any command may fail, the process may die |
| connection manager (`firmware/components/comm`) | mode, copies and originals of event bits, time stamps, client flag | loop every second; Wi-Fi event handler; Bluetooth stack; sending task | bits change between copy and use; flag and bit change in two steps; stamps outlive their outage |
| motion (`motor.c`, `obstacle.c`, `tof.c`, `servo.c`), offline mode (`offline.c`), localization (`localization.c`) | current command, expiry, emergency stop, hysteresis counters; the sensors that answer; velocity and pose; two PWM channels that head and wheel share | turns of five tasks, keywords, command queue | one queue with three readers; sensors that are reset while others are set up; a failed read counts as free; a constant in the wrong unit; a second writer of a wheel's channels |
| power (`power_mgr.c`, `charging.c`, `battery.c`), behavior (`behavior.c`) | power state, sleep level, dock state, behaviour state | 2 Hz and 50 Hz loops, event bits | state written by one task and read by another between two of its writes; a handshake tried once |
| charging station (`firmware/charging-station`) | charge state, output, light, beacon; Wi-Fi, socket, queue of reports | main loop of 100 ms, blink task, reporter task | contacts change between the two readings of a tick; the blink task writes between two channels of the light; reports queue up while the gateway is away |
| BCP codec (`bcp_codec.c`, `crates/bcp-core`, Kotlin, Swift) | the frame being filled | fill, encode, decode, fragment | lengths inside what the checksum protects, frames that do not fit, error codes taken for lengths |
| telemetry (`log_upload.c`, `log_buf.c`, heartbeat differ of `bcp_codec.c`) | ring positions, byte buffer, last heartbeat | append, query, pop, upload, diff | a ring that goes round while it is read, a buffer begun anew over old entries, a difference whose base was lost |
| AI dialogue (`services/ai/src/dialogue.rs`) | sessions, circuit breaker | turn, clean-up | lock held across an await, failure rate |
| gateway rate limiting (`rate_limiter.rs`) | token buckets | acquire | two buckets taken one after the other |
| mobile applications | link state, reassembly buffer | connect, send, receive | reconnect timers, fragments |

How they interact, as far as the code goes:

* The scheduler publishes a task on `robot.{id}.task`.  The robot's reports
  come on `robot.*.task_status`.  Neither says which attempt it is about.
* The device manager publishes `internal.device.status` when its monitor marks
  a robot offline; the scheduler then re-queues the running tasks of that robot.
  This is the only way a task whose robot vanished gets free again.
* The gateway turns uplink frames into `robot.{id}.*` subjects and fans
  `broadcast.emergency` out to all connections.  What it receives on
  `robot.{id}.cmd` it drops (`_nats_rx` is never read), and it does not
  subscribe to `robot.{id}.task`.
* The gateway's id of a robot is chosen per connection and is not the
  `short_id` of the tables.
* The robot encodes heartbeats and sends none yet ("TODO" in
  `conn_manager.c:153`).
* On the robot, `q_cmd_incoming` is read by three tasks and filled by the offline
  task and its keywords only; the motion task in `RobotMotion` takes commands from
  a producer marked external.
* The charging station connects to the gateway's port and sends lines of JSON; the
  gateway wants a signed answer to its challenge first and closes the connection.
* The charging station and the robot share two contacts and nothing else: the
  robot's handshake (`charging.c:157`) is answered by no code in the repository.

The last six mean that today the parts are not connected end to end, so no
module composes the scheduler with the gateway or the station with the robot: such
a composition would model a link that the code does not have.  Where a service only sees another one
through messages (reports, offline events, heartbeats), its module lets them
arrive in every way the sender's code allows.

### Hazards

`PROJECT.json` lists them at their lines, with the properties that cover them.
In short: decisions on rows read one statement earlier; lists outrun by other
activities; two statements that should be one; clean-up of an old connection
against a new entry; ids used again; a full pool, channel, ring or frame; commands
that fail one by one and crashes between them; event bits that change between the
copy and its use; time stamps of an earlier outage; a state and the bits derived
from it written in two steps under a task of higher priority; failed reads and
wrong units where an emergency is decided; lengths and checksums of damaged
frames; a base that only one side knows.  Those without a property are told
under [disagreements](#disagreements-between-code-and-comments) or
[known limits](#known-limits-of-the-code).

## The modules

Each component has a module with its state and one action per step, a `Props`
module with its properties, an `MC` module with the constants of its instances
and a `Proofs` module, which the two parts of the robot's communication share.

| module | models | correspondence |
|---|---|---|
| `Scheduler` | `services/scheduler` | `status`, `target`, `retry` are columns of `tasks`; `robots` joins `robots.status` and battery; `dpc`, `batch`, `view` are the locals of `SchedulerEngine`'s loop; each SQL statement and each publish is an action |
| `TaskLedger` | what the scheduler promises of its table | the abstract specification: decisions are atomic |
| `SchedulerProps`, `MCScheduler`, `SchedulerProofs` | | properties, instances, proofs |
| `Gateway` | `conn_pool.rs`, `ws_server.rs`, the broadcast path of `nats_bridge.rs` | `byShortId`, `byMachineId`, `senders` are the three maps of `ConnPool`; `phase[c]` is where `handle_connection` of socket `c` is; `queue[c]` is its channel; `lpc`, `todo`, `held` are the broadcast listener |
| `GatewayProps`, `MCGateway`, `GatewayProofs` | | |
| `DeviceManager` | `heartbeat.rs`, `nats.rs`, `redis.rs`, `db.rs` | `row` is `robots.status`; `key`, `ttl`, `online` are Redis; `spc` is the subscriber, `mpc` the monitor; each Redis command, statement and publish is an action with a failing twin |
| `DeviceManagerProps`, `MCDeviceManager`, `DeviceManagerProofs` | | |
| `ConnManager` | `conn_manager.c`, `ws_client.c` | `state` is `g_conn_mgr.state`; `wifiBit`, `wsBit`, `bleBit` are `evg_system`; `wifiOk`, `wsOk`, `bleOk` the loop's copy; `wifiLost`, `bleLost` are ages in wake-ups of the two stamps; `wsConnected` is `g_ws_client.connected` |
| `RobotUplink` | `task_comm_tx` and `log_event`, on top of `ConnManager` | the composition of the two tasks that share the client's flag |
| `ConnManagerProps`, `MCConnManager`, `MCRobotUplink`, `CommProofs` | | the proofs are in one module with those of the protocol |
| `RobotPower` | `power_mgr.c`, `battery.c`, `charging.c`, `behavior.c` | `power` is `g_power_state`, `evg` the two bits of `evg_system`, `behavior` is `g_state` of `behavior.c`; `bat`, `docked` are the locals of a poll and `pc` where it is; `level` and `idle` are `g_sleep_level` and the age of `g_last_activity_ms`; `soc`, `onDock` are the battery and the switch themselves |
| `RobotPowerProps`, `MCRobotPower`, `RobotPowerProofs` | | |
| `RobotMotion` | `motor.c`, `obstacle.c`, `tof.c`, what `servo.c` writes to channels of a wheel, the command side of `localization.c` and `ws_client.c`, `offline.c` | `queue` is `q_cmd_incoming`; `mot` the locals of `task_motor_ctrl` and the PID states that are wound up; `wheels` what it last wrote to L2, R1 and R2, `shared` what the channels 0 and 1, of L1 and the head, were last given; `hyst` is `g_hyst`; `sensors` those that answer at the address at which they are read, `sight` what was before them; a turn of a task is an action, but the offline task looks and sends in two |
| `RobotMotionProps`, `MCRobotMotion`, `RobotMotionProofs` | | |
| `BcpCodec` | `bcp_codec.c` | pure operators: a command is its name, its `payload_len` and the bytes of its union, a frame on the wire is a sequence of bytes, with CRC-16 computed by the code's table; exclusive or is bit by bit, as a function on bytes; `Stale` is what the receiver's buffer holds behind what arrived |
| `BcpLink` | a frame from the task that fills it to a receiver: `ws_send_frame`, `ble_send_frame` | `frame` is being filled, `wire` is under way in chunks, `rx` is what the decoder said, and in `whole` the frame that was sent if its bytes arrived as they were |
| `FrameChannel` | what a frame format promises | the abstract specification: what is received is what was sent, or nothing |
| `BcpLinkProps`, `MCBcpLink`, `CommProofs` | | |
| `LogBuffer` | `log_buf.c` | `buf` is `g_buf` byte by byte, `writePos`, `entries` its positions; encoders and readers are operators on it |
| `RobotTelemetry` | `log_upload.c`, the heartbeat differ, `LogBuffer` beside them | `ring` is `g_log_ring` with its three indices; `differ` is `heartbeat_differ_t`; `shown` is what a receiver makes of the heartbeats |
| `RobotTelemetryProps`, `MCRobotTelemetry`, `RobotTelemetryProofs` | | |
| `Station` | `charge_ctl.c`, the station's `main.c`, `wifi_reporter.c`, `status_indicator.c` | `state`, `docked`, `since`, `out` are `charge_ctl_t`; `loop`, `colour`, `turns` the main loop; `led` the three channels; `reporter`, `sock`, `ev`, `queue` the reporter task |
| `StationProps`, `MCStation`, `StationProofs` | | |

Some definitions come in pairs, one of them commented "Mutant": the other is
the code, the mutant a mistake one could make there.  With the mutant in the
place of the definition the property named in `PROJECT.json` is violated, which
shows that it depends on that line.

What the models leave out, by component:

* Scheduler: titles, payloads, positions; the weighted score of
  `select_best_robot` is a choice among the robots it may choose; the load,
  read once per pass, only orders that choice.  A message is delivered at once or
  lost: a late delivery cannot be told from a late report.
* Gateway: authentication before `register`; uplink frames, which touch nothing
  shared; the payload of frames.
* Device manager: battery, signal strength, positions, sensors, names.  A key is
  `fresh`, then `stale`, then may expire.  The TTL (30 s) is longer than the
  timeout unless it is configured otherwise, so a fresh key does not expire.
* Connection manager: a stamp is an age, counted up to where one more makes no
  difference.  `vTaskDelayUntil` keeps wake-ups one second apart; the delay
  until the task gets the processor can make a difference of exactly one grace
  period look larger, which is the `jitter` in `Direct` and `Bridge`.
  `ws_connect` always succeeds, as in the code, which calls itself a stub.
  The callback for a phone is not in the repository and is external: the code
  registers `NULL`, so in the build as it is no phone is ever reported.
* Power and behaviour: charge is a level on one side or the other of each
  threshold; voltage and current, which nothing decides on, are left out, and so
  are `POWER_FAULT`, which nothing assigns, and the exploring, playing and error
  behaviours, which nothing enters.  Whether a long press waits in
  `q_sensor_event` and whether a command waits in `q_cmd_incoming` is free at
  each step.  Deep sleep is modelled as the decision to enter it; as no run and no
  proof finds a state that takes it, the restart from it is left out.

* Motion: speeds, PID arithmetic and PWM duty are reduced to which wheels turn, with
  duty zero or not a choice; a pose is at the origin or away from it.  A sensor that
  answers reports a range of `Ranges` or fails; one whose address is lost reads as 0,
  which is nothing in range.  The copy of an item of `q_cmd_incoming` into the smaller
  `motor_cmd_t` of a task is harmless or ends in a restart (`Overrun`).  Who sends
  commands is external (`Command`).  `task_offline` is started nowhere; its turns are in the
  model because the code is complete.
* Protocol: of a payload the first `UnionLen` bytes.  `OTA_START` shorter than its
  20 bytes, which sends what the buffer held before, is left out.
* Telemetry: an entry of the ring is its number, a formatted message a short
  sequence; of the four bytes of a time stamp two are kept.  The operations are
  library calls; nothing but `task_comm_tx` calls them today.
* Station: voltage in four levels of the one ADC pin; time in hundreds of
  milliseconds up to one past the precharge delay; a report is whether it tells of a
  fault.  Of the gateway, `authenticate` (`auth.rs`), which closes every connection of
  the station; the network is external.

## Runs and what they show

| run | instance | checks | result |
|---|---|---|---|
| `scheduler` | 2 tasks, the first for a robot that never comes online, the second with one retry; 3 robots, 1 cancel request, 1 fault, 1 offline robot | `TypeOK`, `RunningHasRobot`, `StartsAccounted`, refinement `ImplementsLedger`, `NotStarved` | hold |
| `scheduler_reopen` | 1 task, 1 cancel request, no fault | `NoReopen` | violated |
| `gateway` | 3 sockets, 3 machines, 2 ids, room for 2, channels of 1, 2 broadcasts | `TypeOK`, `PoolSound`, `LiveIsRegistered`, `EmergencyDelivered` | hold |
| `device_manager` | 1 robot, 3 faults | `TypeOK`, `OfflineIsTold`, `SilentLeavesSet`, `LiveComesBack` | hold |
| `conn_manager` | the code's own timeouts: 10, 5 and 10 wake-ups | `TypeOK`, `BitNeedsSocket`, `GraceHonoured`, `BridgeReached`, `DirectRetaken` | hold |
| `uplink_bridge` | timeouts of 2, 1 and 2 wake-ups, queue of 1 | `BridgeCarries` | violated |
| `robot_power` | 4 charge levels, sleep timeouts of 1, 2 and 4 polls | `TypeOK`, `IdleBounded`, `AlertIsAWindow`, `CriticalSeeksDock`, `ChargedReleases` | hold |
| `robot_motion` | 3 sensors with a range that stops and one that slows, 2 directions, moves of 1 turn or without end, queue of 1, the code's thresholds | `TypeOK`, `BrakedInEmergency`, `NothingResumes` | hold |
| `robot_motion_near` | the same, with a range that stops and one beyond all zones | `OnlyForObstacles` | violated |
| `bcp_link` | every command but `OTA_START`, alone and before 2 others; frames of 24 bytes, 9 bytes to a notification; every byte changed in 4 ways, every missing chunk | `LinkTypeOK`, `IntactAccepted`, refinement `ImplementsChannel` | hold |
| `robot_telemetry` | ring of 4, frames of 2, queue of 2, buffer of 24 bytes, 3 states of the robot, 6 events | `TypeOK`, `RingIsNewest`, `HeartbeatRebuilds`, `FreshIsFound`, `ResponseSkips` | hold |
| `station` | 4 voltages, a delay of 2 and turns of 1 or 2 hundred ms, queue of 2 | `TypeOK`, `ShownWhileWaiting`, `BadContactsOff`, `FaultIsSent` | hold |

The properties in words, and what each would catch:

* **Scheduler.**  `RunningHasRobot`: assigning a robot and setting the status are
  two statements, and the offline handler may clear the robot between them; it
  does not, because the task is not running yet.
  `StartsAccounted`: each start of a task is paid for by its creation, a counted
  retry or a re-queue; a loop that started tasks from its list twice would
  overdraw.  `ImplementsLedger`: interleaved statements change the table only as
  atomic decisions could.  That includes the decision to retry, which is taken on a
  row read one statement before and never stale, because only the subscriber
  changes the counter: a task fails only with its retries spent
  (`FailedOnlyWhenSpent`) and never has more (`RetryBounded`), which the ledger
  implies and the proofs state.  `NotStarved`: a task that some robot can always take
  is not held up by tasks ahead of it that nobody can take.
* **Gateway.**  `PoolSound`: the three maps agree, whatever reconnects, replaces
  and late clean-ups do (`PoolConsistent`); the limit, which is checked after the
  machine's earlier entry was removed (`PoolBounded`); nothing is left of a
  connection that cleaned up (`CleanedUpIsGone`).  `LiveIsRegistered`: no other
  connection's clean-up takes the entry of a served robot; true until ids are
  used a second time, and the premise says so: an old connection that was
  replaced and is still open when its id is given out again does unregister the
  new owner.  `EmergencyDelivered`: a robot whose channel
  is full, that leaves, fails or never finished its set-up does not keep an emergency
  frame from another for ever, as long as every socket goes on taking what is queued for it.
  The listener does wait for room; without that premise TLC finds a peer that stops
  reading and a broadcast that ends with it.
* **Device manager.**  `OfflineIsTold`: the scheduler hears of every robot that
  stands offline, unless the message itself was lost.  `SilentLeavesSet`: a
  silent robot leaves the online set although any command may fail.
  `LiveComesBack`: a false alarm is not for ever.
* **Connection manager.**  `BitNeedsSocket`: bit and flag are changed one after
  the other by the loop while the handler clears the bit.  `GraceHonoured`: no
  stamp of an earlier outage shortens a later grace period, through any sequence
  of modes.  `BridgeReached`, `DirectRetaken`: wherever the robot was when links
  changed, it ends in the mode for them.
* **Power and behaviour.**  `IdleBounded`: whatever commands, docking and readings
  come between the polls, none leaves a robot awake that has been idle for longer than the
  light sleep timeout: each way through a poll sleeps or counts as activity.
  `AlertIsAWindow`: the red alert is not the sign of an
  anomaly; the only way into it is an iteration of the behaviour between the
  power task's write of the state that left critical (the robot was docked, or
  its battery read differently) and the update of the bits.  `CriticalSeeksDock`, `ChargedReleases`: wherever alerts, touches,
  failed readings and sleeps left the robot, it settles on seeking the charger
  when critical and off the dock, and leaves that behaviour when charged.

* **Motion.**  `BrakedInEmergency`: three wheels are braked exactly in an emergency, by
  whichever of the two ways the brake comes, whatever commands arrive and whichever task
  takes them; nothing else reaches those wheels until the obstacle check lets go.  The
  fourth, L1, shares its channels with the head and is not among them.
  `NothingResumes`: a failed look ends an emergency in the middle of what it cut short,
  and neither the move nor what the controllers had wound up goes on.
  `OnlyForObstacles` is refuted: see below.
* **Protocol.**  `ImplementsChannel`: what a decoder accepts is what was encoded,
  whatever byte of length, command or checksum was changed and whichever chunk is
  missing, and also after an encoding error, whose positive code the callers take
  for a number of bytes: the nine bytes of stack that then go out are one short of
  what a decoder looks into.  `IntactAccepted`: and what arrives whole is accepted
  and read as what its commands carry; without it a decoder that refuses everything
  would do.
* **Telemetry.**  `RingIsNewest`: what the ring loses is the oldest.
  `ResponseSkips`: an answer tells entries in order and loses no more than the
  commands the frame already held and one.  `HeartbeatRebuilds`: a receiver of the
  differences gets to the robot's state, as long as no heartbeat was lost since the
  last full one.  `FreshIsFound`: readers find what was logged since the buffer was
  begun anew as it was written, before any torn rest of older entries, within
  every limit of room.
* **Station.**  `BadContactsOff`: power on open or overloaded contacts lasts one
  turn of the loop.  `ShownWhileWaiting`: the light has the
  colour of the state although the blink task may write between two channels.
  `FaultIsSent`: a fault that lasts is in the end all that the station sends,
  through old reports in the queue, dead sockets and losses of Wi-Fi, and it makes a
  new connection each time the gateway has closed one.

### Bounds, and why they are enough

Bounds are the constants called "bound" in the modules.

* One task that is handed out and one cancel request: what can go wrong with a row is
  between the activities, of which there are four, and all four work on it.  A more
  urgent task that nobody online can do is there for order and starvation, and takes
  part in cancels.  Two robots that can take a task: the robot of a late report and the
  one the task was handed to next; a third that never comes online.  One fault, of any
  kind at any moment; that no number of them does harm is what the proofs say.  A task
  is bound to a robot by its first failure; the refuted run has a client do it too.
* Three sockets on two ids: a socket, its machine's second or another machine's that
  fills the pool, and one that gets an id for the second time; machines are
  interchangeable, so the first socket is `m1`'s and the second `m1`'s or `m2`'s.  With
  channels for one frame and two broadcasts, the second finds a channel full whose robot
  has not taken the first: the listener waits, while others whose id it copied wait for
  it, close or return.
* One robot in the device manager: both loops work on one robot at a time and a
  robot's rows and keys are its own; the exception is the order of a pass, which
  no property is about.  With two robots the liveness check takes longer than a
  run should; the proofs hold for any number.  Three faults: in one
  pass of the monitor the Redis command, the statement and the publish may all fail,
  or one of them together with two of the subscriber's.
* The connection manager runs with the code's own numbers.
* Power: one charge level between each two thresholds and one beyond each end; an
  idle time counted in polls, with timeouts that are reached one after the other;
  an interaction timeout of one iteration.  Between two polls the behaviour runs
  (`ran`): a poll takes at most two handshakes and three reads, 230 ms of its
  500, and the behaviour has a period of 20 ms and the higher priority.

* Motion: one distance within the stop distance and one in the slow zone, or beyond all
  zones in the refuted run; one sensor at most keeps its address, so that nothing in range
  is there as well; a queue of one is empty or full; timed moves end after one turn or
  never.  Thresholds are the code's.
* Protocol: frames of 24 bytes take the header, the checksum and one or two commands
  with short payloads and are too short for the long ones, so that every branch of
  the encoder and its errors is taken; a command may be changed in any one byte.
  Four changes per byte: the lowest bit, one in the middle,
  the highest and all.
* Telemetry: six events go round a ring of four and ask for more than a frame of two
  takes; a buffer of 24 bytes holds one entry of each kind and is begun anew with the
  next.  The proofs hold for any size.
* Station: open contacts; a voltage that neither touches nor overloads; one that
  overloads and does not touch; and that of a robot, which does both (whatever touches,
  over 500 mV at the pin, overloads, over 370 mV).  A delay that a late turn steps over.

Deadlock is checked where the system cannot stop: scheduler, device manager,
connection manager, power, motion, protocol, station.  In the gateway's instances everything ends once all sockets
have closed, so the check for deadlock is off; so it is in the telemetry run, whose events are
bounded.

### Fairness

* Scheduler: weak fairness of the dispatch loop, of the report subscriber and of
  the offline subscriber: `tokio::spawn`ed loops that never return.  None for
  clients and robots.
* Gateway: weak fairness of the listener, of a connection's set-up and of its clean-up,
  which are spawned tasks.  None for a write to a socket: `send_frame` has no timeout, and
  a peer with a full window leaves it pending for as long as it likes; that sockets go on
  taking frames is a premise of `EmergencyDelivered` instead.
* Device manager: weak fairness of both loops and of time; strong fairness of
  receiving from a robot that keeps sending, since heartbeats wait in the
  subscription while others are handled.
* Connection manager: weak fairness of the loop and of the second half of the
  event handler: the scheduler of FreeRTOS runs both.
* Power and behaviour: weak fairness of both periodic tasks; strong fairness of a
  successful battery reading, for a gauge that is there fails a read and not all
  of them.  None for charging, draining, docking or touching.

* Station: weak fairness of the main loop, of the reporter, of the gateway's
  authentication, which has a timeout, and of TCP telling that a peer has closed or does
  not answer.  None for contacts, Wi-Fi and network.
* Motion, protocol, telemetry: none, no liveness is claimed.

## Disagreements between code and comments

The first three are runs that TLC refutes.  The next three are proved for every value of
the constants, which is more than a run could show; the last two are in the models as
they are in the code.  The quotes are in `PROJECT.json`.

1. `NoReopen` (`scheduler_reopen`).  `task.rs` draws "completed" and "cancelled"
   as final.  The dispatch loop starts tasks from a list it read earlier, and a
   late failure report re-queues whatever state the task is in.
2. `BridgeCarries` (`uplink_bridge`).  Losing Wi-Fi clears bits and not
   `g_ws_client.connected`; after direct mode the sending task gives its frames
   to the dead WebSocket although the robot is in bridge mode with a phone.
3. `OnlyForObstacles` (`robot_motion_near`).  The rear has no sensor and is to be "set
   safe"; its stand-in of 51 is read as millimetres, 5 cm, so that the second look of a
   robot with nothing around it is an emergency.  How far it goes is
   `SecondLookBrakes` (theorem `SecondLook`): two looks in a row brake whatever is there,
   and a robot drives only while every second look fails.
4. `NeverDeep` (theorem `DeepSleepUnreachable`).  `power_mgr.c:15`, `config.h:137` and the
   firmware document announce deep sleep after 60 minutes or from light sleep.  Light
   sleep comes first and waking from it counts as activity, so that the longer timeout
   never runs out and the code for deep sleep is never run.
5. `BlindAhead` (theorem `NothingIsAhead`).  `tof.c:4-5` and the firmware document have the
   robot see ahead with three sensors at addresses of their own.  Setting up a sensor puts
   those before it back into reset, where they lose their address; what does not answer
   reads as 0, 0 is the minimum of the three, and 0 counts as nothing in range: no obstacle
   ahead or on the left is ever counted.
6. `SteadyFaults` (theorem `SteadyNeverCharges`).  The station's header and the documents
   have a docked robot charged up to 2.5 A or a full battery.  Current and voltage are read
   from one pin, so that the contact which counts as a robot (over 1 V) counts as an
   overload (over 2 A) at the first tick with power: a robot that stays is a fault.
7. The head and wheel L1.  `servo.c` gives pan and tilt the two LEDC channels that
   `motor_init` gave to L1, and `servo_init`, called later, binds them to its own timer: the
   1023 of "both IN1 and IN2 HIGH shorts the motor" is 6% of a period there, and the head
   drives the wheel.  `shared` in `RobotMotion`; the properties of the brakes are about the
   three other wheels for that reason.
8. The station's reports.  `wifi_reporter.h:4` has it connect "via WebSocket (same as
   robots)".  It sends lines of JSON over TCP, and the gateway closes a connection that does
   not sign its challenge (`Authenticate` in `Station`): nothing is ever reported.

## Known limits of the code

What else came up while modelling; the models contain it, and the properties say
what holds all the same.

* Scheduler.  `timeout_secs` is compared with no clock, although the header speaks
  of timeouts: a task whose message was lost stays running until its robot goes
  offline.  A retried task stays bound to its robot, however long that is offline.
  `cancel_task` tells the robot it read before the update.  The load that the score
  counts is read once per pass, so one robot may be given all tasks of a pass.
* Gateway.  An error between `register` and the relay (`ws_server.rs:104`) returns
  without `unregister`: the entry counts against the limit until the machine
  returns.  `_nats_rx` is never read, so single-robot commands do not arrive.
  A peer that reads nothing leaves `send_frame` pending; once its channel is full, the
  broadcast listener waits for it and no robot gets an emergency frame any more.
* Device manager.  A heartbeat handled while the monitor marks its robot puts the
  row back online after the UPDATE, while set member and key are gone; no later
  pass looks at that robot, so a robot that then falls silent stays online in the
  table.  `SilentLeavesSet` is about Redis for that reason.
* Connection manager.  A robot whose first address comes after the connect timeout
  stays out of direct mode (`wifi_was_connected`).  `ws_connect` sets its bit
  without looking at Wi-Fi.
* Power.  The handshake is tried once per docking.  A robot taken off the dock
  before it is full stays in the charging behaviour.
* Motion.  A stop command may be taken by a task that ignores it.  A failed read
  lifts an emergency stop.  Items of `q_cmd_incoming` are larger than the `motor_cmd_t` on
  the stacks they are received into (`main.c:145`, `motor.c:280`).  `task_comm_rx` takes whole frames from a queue whose
  items are single commands.
* Protocol.  `LOG_EVENT` and `DIAG_RESP` have a wire length of 0: they arrive
  without content.  The type of a heartbeat delta is read back through the struct of
  a full heartbeat.
* Telemetry.  After the log buffer was begun anew a query may return torn entries
  behind the fresh ones, even one with a tag that was never logged; zeroed memory
  parses as entries of level NONE; `log_buf_encode_upload` writes the number of
  bytes where an entry count is reserved; "recent" means the oldest since the
  buffer was begun.  The differ takes a heartbeat for delivered and never repeats a
  full one.
* Station.  `COMPLETE` is reached by open contacts only, as less than 0.1 A is less
  than 50 mV.  The header has a cut-off at 2.5 A and a timeout of faults, the code
  2 A and none.  The first report is of an event never filled in; a full queue keeps
  the oldest.
* AI service.  A dialogue turn adds two messages to the history and removes at most
  one (`dialogue.rs:161-166`), so "Keep history bounded" does not hold.

## What is proved

TLAPS checks these for every value of the constants allowed by the modules'
assumptions (`SchedulerAssumption`, `GatewayAssumption`, `DeviceAssumption`,
`ConnAssumption`, `CodecAssumption`, `LinkAssumption`, `NoFrameApart`,
`PowerAssumption`, the five of `RobotMotion`, `BufferAssumption`,
`StatesAssumption`, `RingAssumption`, `StationAssumption`, which TLC evaluates in
the runs).  What they ask is what the code fixes: lengths and counts fit their
fields, a command that is copied has the bytes that go out, a text has no zero
byte, the buffer takes an entry's head.

| module | theorems |
|---|---|
| `SchedulerProofs` | `TypeCorrect`, `RunningTasksHaveRobots`, `RetriesAreSpent`, `RetriesAreBounded`, `StartsArePaidFor`, `SchedulerImplementsLedger` |
| `GatewayProofs` | `TypeCorrect`, `PoolStaysSound`, `LiveStaysRegistered` |
| `DeviceManagerProofs` | `TypeCorrect`, `OfflineStaysTold` |
| `CommProofs`, connection manager | `TypeCorrect`, `BitFollowsSocket`, `GraceIsHonoured` |
| `CommProofs`, protocol | `LinkTypes`, `FramesAreRead`, `RoundTrip`, `ChunksTogether` |
| `RobotPowerProofs` | `TypeCorrect`, `DeepSleepUnreachable`, `SleepsInTime`, `AlertNeedsTheWindow` |
| `RobotMotionProofs` | `TypeCorrect`, `EmergencyBrakes`, `EmergencyEndsMove`, `NothingIsAhead`, `SecondLook` |
| `RobotTelemetryProofs` | `TypeCorrect`, `NewestKept`, `ResponsesInOrder`, `BeatsAddUp`, `FreshEntriesFound` |
| `StationProofs` | `TypeCorrect`, `PowerIsState`, `BadContactsLosePower`, `SteadyNeverCharges`, `LightIsWhole` |

The arguments:

* **Scheduler.**  `RunningHasRobot` is not inductive: when the loop sets a task
  running, nothing in the property says that its robot is still there.
  `ListNotRunning` adds it: only the loop starts tasks, so a task in its list or
  in its hand is not running, the offline handler passes it over, and its robot
  stays.  `DecisionFresh` adds that the subscriber's decision agrees with the row
  it is applied to, since nobody else changes `retry`.  `HandsCreated` adds that
  whatever an activity has in hand exists.  From the same invariant, each step
  is a step of the ledger or changes nothing of the table
  (`SchedulerImplementsLedger`).
* **Gateway.**  The maps and the connections are related in both directions
  (`PoolConsistent`); `NewHasNoId` says that a socket not yet registered owns
  nothing.  For `LiveIsRegistered`, `IdsInOrder` says that until the ids are used
  up they are handed out one after the other, so no two connections share one,
  and `InOrder` that sockets come to the pool in the order of their numbers, so a
  later registration of the same machine has the larger one.
* **Device manager.**  `TypeOK` and `OfflineIsTold` are inductive together.
* **Connection manager.**  `StampsFresh` says that a stamp that will be used is no
  older than the outage counted by the history, and that modes that do not use a
  stamp leave it cleared; `CopyCounted` that the copy an iteration acts on is
  what the history counted; `MarkedFirst` that `ws_connect` sets the flag first.
* **Power and behaviour.**  `IdleBounded` is inductive with the types and `NeverDeep`: no
  poll finds a robot idle for more than the light sleep timeout and itself, and every poll
  ends below the timeout.  `NeverDeep` follows: with the deep sleep timeout larger, the
  first branch of the escalation is never taken.  `AlarmIsReal` adds, for
  `AlertIsAWindow`, that outside the window the emergency bit means a critical
  battery, for which the first override wins.

* **Motion.**  `BrakedInEmergency` is inductive with the types: a turn that begins an
  emergency brakes, one that goes on with it writes nothing or brakes again, and every other
  writes zero or a duty.  For `NothingResumes` the invariant adds `Unwound`, nothing is wound up
  in an emergency.  `OnlyLast`: whatever sensors are found, only the last one set up
  answers; from it every reading of the front and the left is 0 and
  `BlindAhead` follows.  `SeenCounts` says that a robot which saw has counted the rear
  once, so that the second look reaches the count of the hysteresis; with
  `BrakedInEmergency` that is `SecondLookBrakes`.
* **Telemetry.**  `RingIsNewest` is inductive with the types: appending moves the head,
  and the tail with it when the ring is full; popping moves the tail.
  `ResponseSkips` is about one step and follows from it.  `BeatsAddUp` needs what the
  property leaves out: as long as nothing was missed, what a receiver shows is what
  the differ compares the next state with, so that a difference, told to such a
  receiver, gives the state (`DiffTells`).
* **Log buffer.**  `FreshPlaced` is the strengthening of `FreshIsFound`: the entries
  logged since the buffer was begun lie one behind the other from offset 0 to the
  place to write, byte by byte.  Encoding an entry writes only behind that place and
  beginning anew empties the list, so logging preserves it.  A reader then finds
  the head of every entry where the last one ended and decodes it to what was
  logged, up to its own limits.
* **Protocol.**  `Places` says where the bytes of a frame are: the header's, the
  checksum's, and for command `n` the offset that the lengths of those before it
  add up to.  The encoder writes a frame into its places (`EncodedPlaces`, from
  `BodyKeeps`: what comes later does not move what is there); the decoder, command
  by command, has read the first `n` of them and stands at the next (`RoundTrip`).
  The invariant (`LInv`) adds that the bytes under way, joined, are the encoding of
  the frame they are said to come from, which `ChunksTogether` keeps for
  notifications of any size.
* **Station.**  `SteadyTouches`, contacts that are called steady have the voltage of a
  robot, makes the first reading with power an overload.  `PowerFollowsState` is
  inductive with the types.  `LightIsWhole` needs `Painted`: channel after channel
  has the colour the turn began with, and only in states in which the blink task
  does not write has it to stay.

What folds over bytes, entries or commands is a recursive function in the models.
The library's induction theorems take an operator, which the provers cannot
instantiate; the proofs use first-order induction over sets of numbers
(`Induction`, from the existence of a least element) and show once for each fold that
a function with its equations exists (`Recursion`, and the lemmas on walks).

## What is only model-checked

Liveness (`NotStarved`, `EmergencyDelivered`, `SilentLeavesSet`,
`LiveComesBack`, `BridgeReached`, `DirectRetaken`, `CriticalSeeksDock`,
`ChargedReleases`, `FaultIsSent`): fairness and `ENABLED` are
out of the prover's reach.
The refinement `ImplementsChannel` has no proof because for arbitrary constants it does
not hold: where a changed length or a missing first piece has the checksum read from
other bytes, whether they happen to match depends on the commands and on the length of
a notification.  TLC shows that for the commands, changes and pieces of the instance they
do not.

## What is not modelled

The Kalman filter of localization (floating-point numbers); sensor and
expression drivers; OTA and stored configuration (thin wrappers, `ota_init` is
called nowhere).  The AI service: its models are external, and its dialogue manager
holds one lock over all sessions across each call, so that turns exclude each other.
Authentication (cryptography), but for its closing of the station's connections, and the gateway's token buckets, which touch nothing
that the pool or a connection keeps.  The Rust codec, which the conformance
tests exercise, and those of the two applications.  The applications' screens and
links, metrics, configuration and start-up, load scripts and documents.
`PROJECT.json` lists every part with the reason.

Of modelled components: the scheduler is not composed with the gateway, for the code
has no link between them, and the station not with the robot, for they exchange no
message.  What could be added is the pair of scheduler and device manager
(the announcements that free a lost robot's tasks are free events in `Scheduler`
today), and the uplink of the gateway with its rate limit.
