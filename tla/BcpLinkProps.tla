---------------------------- MODULE BcpLinkProps ----------------------------
(***************************************************************************)
(* What frames promise to those who exchange them.                         *)
(***************************************************************************)
EXTENDS BcpLink

-----------------------------------------------------------------------------
(* What of a command reaches the receiver: the fields of the typed ones,   *)
(* nothing of the blank ones, and of the others as many bytes as they have *)
(* on the wire, which is none for logs and diagnostics.                    *)
Carried(c) ==
  LET here(k) == IF c.id \in Typed THEN k \in {Layout[c.id][j] : j \in DOMAIN Layout[c.id]}
                 ELSE c.id \notin Blank /\ k <= PayloadLen(c)
  IN  [id |-> c.id, len |-> PayloadLen(c), raw |-> [k \in 1..UnionLen |-> IF here(k) THEN c.raw[k] ELSE 0]]
Meant(f) == IF f = NoFrame THEN NoFrame ELSE [f EXCEPT !.cmds = [i \in DOMAIN @ |-> Carried(@[i])]]

Frames == [seq : Seqs, flags : {0}, cmds : UNION {[1..n -> Samples] : n \in 0..MaxCmds}]
CarriedFrames == {Meant(f) : f \in Frames}

Filled == {f \in [seq : Seqs, flags : {0}, cmds : Seq(Samples)] : Len(f.cmds) <= MaxCmds}

(* The type invariant: no frame holds more commands than there is room     *)
(* for, and there is a frame when the decoder says so.                     *)
LinkTypeOK ==
  /\ frame \in Filled \cup {NoFrame} /\ sent \in Filled \cup {NoFrame}
  /\ wire \in Seq(Seq(Octets))
  /\ rx \in [err : DOMAIN Errors \cup {"OK", "none"}, frame : Decodable \cup {NoFrame},
             whole : Filled \cup {NoFrame}]
  /\ rx.frame # NoFrame <=> rx.err = "OK"

(* bcp_decode takes what bcp_encode wrote for the frame it was written     *)
(* from, or refuses it: neither a changed byte of the length, of a command *)
(* or of the checksum, nor a missing chunk, nor the leftovers that an      *)
(* encoding error puts on the wire are ever taken for another frame.       *)
Channel == INSTANCE FrameChannel WITH
  Messages <- CarriedFrames, None <- NoFrame, out <- Meant(sent), in <- rx.frame
ImplementsChannel == Channel!Spec

(* bcp_decode undoes bcp_encode: a frame that fits and arrives as it was   *)
(* sent, in one piece or many, is accepted and read as what it carries,    *)
(* whatever its commands are.                                              *)
IntactAccepted == rx.whole # NoFrame => rx.err = "OK" /\ rx.frame = Meant(rx.whole)
=============================================================================
