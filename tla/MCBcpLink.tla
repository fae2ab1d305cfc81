------------------------------ MODULE MCBcpLink ------------------------------
(***************************************************************************)
(* Each command with different bytes in its payload, alone and before one  *)
(* of two others; the longest ones do not fit before another.              *)
(***************************************************************************)
EXTENDS BcpLinkProps

MCSample(id, len) == [id |-> id, len |-> len, raw |-> [k \in 1..UnionLen |-> 15 * k + 1]]
MCSamples ==
  {MCSample(id, 3) : id \in DOMAIN Id \ {"OTA_START", "ERROR"}} \cup {MCSample("ERROR", 5), MCSample("SPEAK", 0)}
MCFollowers == {MCSample("SERVO_SET", 3), MCSample("LOG_EVENT", 3)}
=============================================================================
