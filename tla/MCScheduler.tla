---------------------------- MODULE MCScheduler ----------------------------
(***************************************************************************)
(* Two tasks, three robots, a cancel request, a fault, a robot whose       *)
(* battery runs low and one that is marked offline.  Task 1 is the more    *)
(* urgent and needs what r3 alone can do, which never comes online: it is  *)
(* passed over on every pass.  Task 2 can run on r1 and r2 and be retried  *)
(* once, and is then bound to the robot it failed on.                      *)
(*                                                                         *)
(* The refuted run has task 2's like alone, which a client may bind to r1, *)
(* and no fault at all.                                                    *)
(***************************************************************************)
EXTENDS SchedulerProps, TLC

CONSTANTS r1, r2, r3

TwoRobots == {r1, r2}
MCRobots == {r1, r2, r3}
MCRows == r1 :> {"ready"} @@ r2 :> {"low", "ready"} @@ r3 :> {}
TwoRows == r1 :> {"ready"} @@ r2 :> {"low", "ready"}
MCTargets == {NoRobot}
OneTargets == {r1, NoRobot}

MCPriority == <<10, 128>>
MCMaxRetries == <<0, 1>>
MCCapable == <<{r3}, {r1, r2}>>

OnePriority == <<128>>
OneMaxRetries == <<1>>
OneCapable == <<{r1, r2}>>
=============================================================================
