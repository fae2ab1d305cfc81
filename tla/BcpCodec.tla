------------------------------ MODULE BcpCodec ------------------------------
(***************************************************************************)
(* The frame format of the firmware, byte by byte: what bcp_encode writes  *)
(* and what bcp_decode accepts.                                            *)
(*                                                                         *)
(* A command is its name, its payload_len and the bytes of its payload     *)
(* union, of which a model keeps the first UnionLen.                       *)
(***************************************************************************)
EXTENDS Integers, Sequences, SequencesExt

CONSTANTS
  MaxFrameLen,  \* BCP_MAX_FRAME_LEN
  MaxCmds,      \* BCP_MAX_CMDS_PER_FRAME
  UnionLen,     \* bytes of a payload that are looked at
  Stale         \* a byte of the receiver's buffer behind what arrived

Octets == 0..255
Words == 0..(256 * 256 - 1)

(* The length of a frame has two bytes, its number of commands one, and    *)
(* the longest of the typed payloads is looked at as a whole.              *)
ASSUME CodecAssumption ==
  /\ MaxFrameLen \in Nat /\ MaxFrameLen < 256 * 256
  /\ MaxCmds \in Octets /\ UnionLen \in Nat /\ 14 <= UnionLen /\ Stale \in Octets

Magic == 203
Version == 1
HeaderLen == 8
CrcLen == 2
CmdHeaderLen == 3
MinFrameLen == HeaderLen + CrcLen

Id ==
  [HEARTBEAT |-> 1, REGISTER |-> 2, REG_ACK |-> 3, PING |-> 4, PONG |-> 5, RESET |-> 6, OTA_START |-> 7,
   OTA_CHUNK |-> 8, OTA_DONE |-> 9, ERROR |-> 255, MOVE |-> 257, MOVE_TO |-> 258, STOP |-> 259,
   SERVO_SET |-> 260, SERVO_BATCH |-> 261, HEAD_PAN_TILT |-> 262, LED_SET |-> 513, LED_PATTERN |-> 514,
   LED_OFF |-> 515, FACE_EXPR |-> 516, FACE_CUSTOM |-> 517, SPEAK |-> 518, TTS_TEXT |-> 519,
   ENV_DATA |-> 769, MOTION_EVENT |-> 770, AUDIO_EVENT |-> 771, AUDIO_STREAM |-> 772,
   IMAGE_SNAPSHOT |-> 773, DEPTH_DATA |-> 774, TOUCH_EVENT |-> 775, IMU_DATA |-> 776, OBSTACLE |-> 777,
   TASK_ASSIGN |-> 1025, TASK_STATUS |-> 1026, TASK_CANCEL |-> 1027, SWARM_FORM |-> 1028, PEER_MSG |-> 1029,
   LOG_UPLOAD |-> 1281, DIAG_REQ |-> 1282, DIAG_RESP |-> 1283, LOG_EVENT |-> 1284]

Unknown == "UNKNOWN"  \* any other
Commands == [id : DOMAIN Id \cup {Unknown}, len : Octets, raw : [1..UnionLen -> Octets]]

(* bcp_error_t; callers take an error for a number of bytes.               *)
Errors ==
  [BAD_MAGIC |-> 1, BAD_VERSION |-> 2, INCOMPLETE |-> 3, CRC_MISMATCH |-> 4, TOO_MANY |-> 7,
   BUFFER_FULL |-> 8, FRAME_TOO_LARGE |-> 9, BAD_FRAME_LEN |-> 10]

-----------------------------------------------------------------------------
Low(n) == n % 256
High(n) == n \div 256
Word(buf, i) == buf[i] + 256 * buf[i + 1]

(* Exclusive or, of bytes and of words, bit by bit.                        *)
XorByte ==
  [a \in Octets |-> [b \in Octets |->
     LET bit(w) == w * ((a \div w + b \div w) % 2)
     IN  bit(1) + bit(2) + bit(4) + bit(8) + bit(16) + bit(32) + bit(64) + bit(128)]]
Xor(a, b) == XorByte[Low(a)][Low(b)] + 256 * XorByte[High(a)][High(b)]

(* CRC-16/CCITT, the table from its polynomial.                            *)
Shifted(c) == IF c >= 32768 THEN Xor((2 * c) % (256 * 256), 4129) ELSE 2 * c
CrcTable ==
  LET twice(c) == Shifted(Shifted(c))
  IN  [i \in Octets |-> twice(twice(twice(twice(256 * i))))]
CrcStep(c, b) == Xor(256 * Low(c), CrcTable[XorByte[High(c)][b]])
Crc(bytes) ==
  LET after[n \in 0..Len(bytes)] == IF n = 0 THEN 65535 ELSE CrcStep(after[n - 1], bytes[n])
  IN  after[Len(bytes)]

-----------------------------------------------------------------------------
(* Payloads.  The offset in the union of each byte that is written, in the *)
(* order on the wire: the fields of the structs have gaps between them.    *)
Layout ==
  [HEARTBEAT |-> <<1, 2, 3, 5, 6>>, REGISTER |-> <<1, 2, 3, 4, 5, 6>>, REG_ACK |-> <<1, 2, 3, 4>>,
   MOVE |-> <<1, 5>>, MOVE_TO |-> <<1, 2, 3, 4, 5>>, STOP |-> <<1>>, SERVO_SET |-> <<1, 3, 4>>,
   HEAD_PAN_TILT |-> <<1, 2>>, LED_SET |-> <<1, 2, 3, 4, 5>>, LED_PATTERN |-> <<1, 5, 6, 7, 8>>,
   FACE_EXPR |-> <<1>>, ENV_DATA |-> [k \in 1..14 |-> k], MOTION_EVENT |-> <<1, 2>>,
   AUDIO_EVENT |-> <<1, 3, 4>>, TOUCH_EVENT |-> <<1, 2, 3>>, IMU_DATA |-> [k \in 1..12 |-> k],
   OBSTACLE |-> <<1, 3, 4>>, TASK_STATUS |-> <<1, 2, 3, 4>>]
Typed == DOMAIN Layout
(* Written as zeros, whatever the union holds.                             *)
Blank == {"PING", "PONG", "RESET", "LED_OFF", "TASK_CANCEL"}
(* As long as payload_len says.                                            *)
Sized ==
  {"OTA_CHUNK", "SERVO_BATCH", "FACE_CUSTOM", "SPEAK", "TTS_TEXT", "AUDIO_STREAM", "IMAGE_SNAPSHOT",
   "DEPTH_DATA", "TASK_ASSIGN", "SWARM_FORM", "PEER_MSG"}
FixedLen ==
  [HEARTBEAT |-> 5, REGISTER |-> 6, REG_ACK |-> 4, PING |-> 4, PONG |-> 4, RESET |-> 1, OTA_START |-> 20,
   OTA_DONE |-> 0, ERROR |-> 5, MOVE |-> 2, MOVE_TO |-> 5, STOP |-> 1, SERVO_SET |-> 3, HEAD_PAN_TILT |-> 2,
   LED_SET |-> 5, LED_PATTERN |-> 5, LED_OFF |-> 0, FACE_EXPR |-> 1, ENV_DATA |-> 14, MOTION_EVENT |-> 2,
   AUDIO_EVENT |-> 3, TOUCH_EVENT |-> 3, IMU_DATA |-> 12, OBSTACLE |-> 3, TASK_STATUS |-> 4, TASK_CANCEL |-> 2]

(* cmd_payload_len: nothing for a command it does not list.                *)
PayloadLen(c) ==
  IF c.id \in DOMAIN FixedLen THEN FixedLen[c.id] ELSE IF c.id \in Sized THEN c.len ELSE 0

(* A payload that is copied as it is has all the bytes that go out.        *)
Fillable(c) == c.id \notin Typed \cup Blank => PayloadLen(c) <= c.len /\ c.len <= UnionLen

(* What a command that is not typed has more than its length on the wire   *)
(* is written over by what follows it.                                     *)
EncodedPayload(c) ==
  IF c.id \in Typed THEN [k \in 1..Len(Layout[c.id]) |-> c.raw[Layout[c.id][k]]]
  ELSE IF c.id \in Blank THEN [k \in 1..PayloadLen(c) |-> 0]
  ELSE SubSeq(c.raw, 1, c.len)

(* The fields of a typed command are read whatever length it states.       *)
DecodedPayload(buf, id, at, n) ==
  [k \in 1..UnionLen |->
     IF id \in Typed
     THEN IF \E j \in DOMAIN Layout[id] : Layout[id][j] = k
          THEN LET i == at + CHOOSE j \in DOMAIN Layout[id] : Layout[id][j] = k
               IN  IF i <= Len(buf) THEN buf[i] ELSE Stale
          ELSE 0
     ELSE IF id # "TASK_CANCEL" /\ k <= n THEN buf[at + k] ELSE 0]

-----------------------------------------------------------------------------
Decodable == [seq : Words, flags : Octets, cmds : Seq(Commands)]

FrameStart(seq) == [seq |-> seq, flags |-> 0, cmds |-> <<>>]
(* Mutant: no end of commands.                                             *)
PushedUnchecked(f, c) == [f EXCEPT !.cmds = Append(@, c)]
Pushed(f, c) == IF Len(f.cmds) >= MaxCmds THEN f ELSE [f EXCEPT !.cmds = Append(@, c)]

WireLen(f) ==
  LET upto[n \in 0..Len(f.cmds)] ==
        IF n = 0 THEN MinFrameLen ELSE upto[n - 1] + CmdHeaderLen + PayloadLen(f.cmds[n])
  IN  upto[Len(f.cmds)]

EncodedCommand(c) ==
  <<Low(Id[c.id]), High(Id[c.id]), PayloadLen(c)>> \o SubSeq(EncodedPayload(c), 1, PayloadLen(c))

Header(f, total) ==
  <<Magic, Version, Low(total), High(total), Low(f.seq), High(f.seq), Len(f.cmds), f.flags>>
EncodedCommands(f) == FlattenSeq([i \in DOMAIN f.cmds |-> EncodedCommand(f.cmds[i])])
Checked(bytes, crc) == bytes \o <<Low(crc), High(crc)>>

(* Mutant: the header is not covered by the checksum.                      *)
EncodedHeaderless(f) ==
  Checked(Header(f, WireLen(f)) \o EncodedCommands(f), Crc(EncodedCommands(f)))

Encoded(f) ==
  LET body == Header(f, WireLen(f)) \o EncodedCommands(f)
  IN  Checked(body, Crc(body))

-----------------------------------------------------------------------------
NameOf(code) ==
  IF \E n \in DOMAIN Id : Id[n] = code THEN CHOOSE n \in DOMAIN Id : Id[n] = code ELSE Unknown

(* One command more, unless it reaches into the checksum.                  *)
Parsed(buf, a) ==
  LET at  == a.pos + CmdHeaderLen
      end == Word(buf, 3) - CrcLen
      id  == NameOf(Word(buf, a.pos + 1))
  IN  IF a.err # "OK" THEN a
      ELSE IF at > end THEN [a EXCEPT !.err = "INCOMPLETE"]
      ELSE IF at + buf[at] > end THEN [a EXCEPT !.err = "INCOMPLETE"]
      ELSE [a EXCEPT !.pos = at + buf[at],
              !.frame = Pushed(@, [id |-> id, len |-> buf[at], raw |-> DecodedPayload(buf, id, at, buf[at])])]

Contents(buf) ==
  LET start == [FrameStart(Word(buf, 5)) EXCEPT !.flags = buf[8]]
      after[n \in 0..buf[7]] ==
        IF n = 0 THEN [err |-> "OK", pos |-> HeaderLen, frame |-> start] ELSE Parsed(buf, after[n - 1])
  IN  after[buf[7]]

(* Mutant: a checksum that is not looked at.                               *)
VerdictTrusting(buf) ==
  LET total == Word(buf, 3)
  IN  IF Len(buf) < MinFrameLen THEN "INCOMPLETE"
      ELSE IF buf[1] # Magic THEN "BAD_MAGIC"
      ELSE IF buf[2] # Version THEN "BAD_VERSION"
      ELSE IF total \notin MinFrameLen..MaxFrameLen THEN "BAD_FRAME_LEN"
      ELSE IF Len(buf) < total THEN "INCOMPLETE"
      ELSE IF buf[7] > MaxCmds THEN "TOO_MANY"
      ELSE Contents(buf).err

(* The checks in their order.                                              *)
Verdict(buf) ==
  LET total == Word(buf, 3)
  IN  IF Len(buf) < MinFrameLen THEN "INCOMPLETE"
      ELSE IF buf[1] # Magic THEN "BAD_MAGIC"
      ELSE IF buf[2] # Version THEN "BAD_VERSION"
      ELSE IF total \notin MinFrameLen..MaxFrameLen THEN "BAD_FRAME_LEN"
      ELSE IF Len(buf) < total THEN "INCOMPLETE"
      ELSE IF Word(buf, total - 1) # Crc(SubSeq(buf, 1, total - CrcLen)) THEN "CRC_MISMATCH"
      ELSE IF buf[7] > MaxCmds THEN "TOO_MANY"
      ELSE Contents(buf).err
=============================================================================
