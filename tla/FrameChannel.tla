---------------------------- MODULE FrameChannel ----------------------------
(***************************************************************************)
(* What a link promises: a receiver is given the message that was sent or  *)
(* nothing, never another one.                                             *)
(***************************************************************************)
CONSTANTS Messages, None

VARIABLES
  out,  \* the message on its way
  in    \* what the receiver made of the last one

Init == out = None /\ in = None

Send ==
  /\ out = None
  /\ out' \in Messages
  /\ UNCHANGED in

(* Something was sent that is not a message.                               *)
Garbage == UNCHANGED <<out, in>>

Deliver ==
  /\ in' \in {out, None}
  /\ out' = None

(* The receiver is done with it.                                           *)
Take ==
  /\ in' = None
  /\ UNCHANGED out

Next == Take \/ Send \/ Garbage \/ Deliver

Spec == Init /\ [][Next]_<<out, in>>
=============================================================================
