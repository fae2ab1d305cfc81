------------------------------- MODULE BcpLink -------------------------------
(***************************************************************************)
(* A frame from the task that fills it to the receiver that decodes it:    *)
(* filling, sending over WebSocket or Bluetooth, damage on the way.        *)
(***************************************************************************)
EXTENDS BcpCodec

CONSTANTS
  Samples,   \* the commands that a frame may begin with
  Followers, \* those that may come after the first
  Seqs,      \* sequence numbers
  Flips,     \* what a damaged byte is off by, bit for bit
  Mtu,       \* bytes of one notification
  NoFrame

(* What a task can fill a command with.                                    *)
ASSUME LinkAssumption ==
  /\ Followers \subseteq Samples /\ Seqs \subseteq Words /\ Flips \subseteq Octets /\ Mtu \in Nat \ {0}
  /\ \A c \in Samples : c \in Commands /\ c.id \in DOMAIN Id /\ Fillable(c)
ASSUME NoFrameApart == NoFrame \notin Decodable

VARIABLES
  frame,  \* the frame that is being filled
  wire,   \* the bytes on their way, in chunks
  sent,   \* the frame they were made from; NoFrame when they are leftovers
  rx      \* what became of the last bytes that arrived, and the whole frame if they were one

linkVars == <<frame, wire, sent, rx>>

Nothing == [err |-> "none", frame |-> NoFrame, whole |-> NoFrame]

LinkInit == frame = NoFrame /\ wire = <<>> /\ sent = NoFrame /\ rx = Nothing

(* One frame at a time: the receiver is done with the last one by then.    *)
Begin ==
  /\ frame = NoFrame /\ wire = <<>>
  /\ \E seq \in Seqs : frame' = FrameStart(seq)
  /\ rx' = Nothing
  /\ UNCHANGED <<wire, sent>>

Push ==
  /\ frame # NoFrame
  /\ \E c \in IF frame.cmds = <<>> THEN Samples ELSE Followers : frame' = Pushed(frame, c)
  /\ UNCHANGED <<wire, sent, rx>>

-----------------------------------------------------------------------------
(* ble_send_frame: as many bytes as fit, and then again.                   *)
Chunks(bytes) ==
  LET size(done) == IF Len(bytes) - done > Mtu THEN Mtu ELSE Len(bytes) - done
      after[n \in 0..Len(bytes)] ==
        IF n = 0 THEN [done |-> 0, chunks |-> <<>>]
        ELSE LET a == after[n - 1]
             IN  IF a.done = Len(bytes) THEN a
                 ELSE [done |-> a.done + size(a.done),
                       chunks |-> Append(a.chunks, SubSeq(bytes, a.done + 1, a.done + size(a.done)))]
  IN  after[Len(bytes)].chunks

(* The error of a frame that is too large is positive, and is taken for a  *)
(* number of bytes of the buffer, which hold anything: an older frame's    *)
(* header is the worst.                                                    *)
Leftovers(f) == SubSeq(Encoded(FrameStart(f.seq)), 1, Errors.FRAME_TOO_LARGE)

Fits(f) == WireLen(f) <= MaxFrameLen
Handed(f) == IF Fits(f) THEN Encoded(f) ELSE Leftovers(f)

Send ==
  /\ frame # NoFrame
  /\ wire' \in {<<Handed(frame)>>, Chunks(Handed(frame))}
  /\ sent' = IF Fits(frame) THEN frame ELSE NoFrame
  /\ frame' = NoFrame
  /\ UNCHANGED rx

-----------------------------------------------------------------------------
(* One byte changed, or the end missing, or one chunk.                     *)
Damaged(chunks) ==
  LET bytes == FlattenSeq(chunks)
  IN  {[bytes EXCEPT ![i] = XorByte[@][v]] : i \in DOMAIN bytes, v \in Flips}
        \cup {SubSeq(bytes, 1, n) : n \in 0..(Len(bytes) - 1)}
        \cup {FlattenSeq(RemoveAt(chunks, i)) : i \in DOMAIN chunks}

Receive ==
  /\ wire # <<>>
  /\ \E bytes \in {FlattenSeq(wire)} \cup Damaged(wire) :
       LET err == Verdict(bytes)
       IN  rx' = [err |-> err, frame |-> IF err = "OK" THEN Contents(bytes).frame ELSE NoFrame,
                  whole |-> IF bytes = FlattenSeq(wire) THEN sent ELSE NoFrame]
  /\ wire' = <<>> /\ sent' = NoFrame
  /\ UNCHANGED frame

LinkNext == Begin \/ Push \/ Send \/ Receive

LinkSpec == LinkInit /\ [][LinkNext]_linkVars
=============================================================================
