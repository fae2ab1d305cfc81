-------------------------- MODULE MCRobotTelemetry --------------------------
(* Two commands to a frame and four entries to the ring, which goes round *)
(* and is asked for more than a frame holds; a buffer of two entries.      *)
EXTENDS RobotTelemetryProps

MCStates == {[status |-> 0, battery |-> 1, rssi |-> 0, task |-> 0],
             [status |-> 0, battery |-> 0, rssi |-> 0, task |-> 0],
             [status |-> 0, battery |-> 0, rssi |-> 1, task |-> 0]}
MCMessages == {[level |-> 1, tag |-> <<65, 66>>, msg |-> <<9>>],
               [level |-> 3, tag |-> <<67>>, msg |-> <<1, 2, 3>>]}
=============================================================================
