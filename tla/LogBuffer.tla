----------------------------- MODULE LogBuffer -----------------------------
(***************************************************************************)
(* log_buf.c: entries of different lengths, byte after byte in a buffer    *)
(* that is begun anew at its end, and the readers that parse it from its   *)
(* beginning.  Every operation holds the spinlock.                         *)
(***************************************************************************)
EXTENDS Integers, Sequences, SequencesExt

CONSTANTS
  BufSize,        \* bytes of the buffer
  TagMax, MsgMax, \* LOG_TAG_MAX_LEN, LOG_MSG_MAX_LEN
  Messages,       \* what is logged: level, tag and message
  RecentLimit, RecentRoom, RecentReserve,  \* entries queried, bytes given, bytes kept free
  UploadLimit, UploadRoom, UploadReserve

Bytes == 0..255
Words == 0..(256 * 256 - 1)  \* of two bytes

(* The lengths fit their bytes, the buffer holds any one entry, and what   *)
(* is logged are strings without zeros.                                    *)
ASSUME BufferAssumption ==
  /\ TagMax \in Nat \ {0} /\ MsgMax \in Nat \ {0} /\ TagMax <= 256 /\ MsgMax <= 256 * 256
  /\ BufSize \in Nat /\ 8 + TagMax + MsgMax <= BufSize
  /\ RecentLimit \in Nat /\ UploadLimit \in Nat
  /\ \A m \in Messages : m.level \in Bytes /\ m.tag \in Seq(Bytes \ {0}) /\ m.msg \in Seq(Bytes \ {0})

VARIABLES
  buf,      \* g_buf, by offset
  writePos, \* g_write_pos
  entries,  \* g_entry_count
  fresh     \* what was logged since the buffer was last begun, as entries

bufVars == <<buf, writePos, entries, fresh>>

Overhead == 8
Warn == 2
Cut(s, max) == IF Len(s) > max - 1 THEN SubSeq(s, 1, max - 1) ELSE s
AtMost(n, max) == IF n >= max THEN max - 1 ELSE n
(* A string ends at its first zero.                                        *)
Text(s) == LET zeros == {i \in DOMAIN s : s[i] = 0}
           IN  IF zeros = {} THEN s ELSE SubSeq(s, 1, (CHOOSE i \in zeros : \A j \in zeros : i <= j) - 1)

BufferInit ==
  /\ buf = [i \in 0..(BufSize - 1) |-> 0]
  /\ writePos = 0 /\ entries = 0
  /\ fresh = <<>>

-----------------------------------------------------------------------------
EncodedEntry(time, m) ==
  LET tag == Cut(m.tag, TagMax)  msg == Cut(m.msg, MsgMax)
  IN  <<time % 256, time \div 256, 0, 0, m.level, Len(tag)>> \o tag
        \o <<Len(msg) % 256, Len(msg) \div 256>> \o msg

(* decode_entry: the lengths found are cut, so that an entry torn by a     *)
(* newer one still reads as an entry.                                      *)
Ends(p) == [ok |-> FALSE, next |-> p, entry |-> <<>>]
DecodedEntry(p) ==
  LET tagLen == AtMost(buf[p + 5], TagMax)
      at     == p + 6 + tagLen
      msgLen == AtMost(buf[at] + 256 * buf[at + 1], MsgMax)
  IN  IF p + Overhead > BufSize THEN Ends(p)
      ELSE IF at + 2 > BufSize THEN Ends(p)
      ELSE IF at + 2 + msgLen > BufSize THEN Ends(p)
      ELSE [ok |-> TRUE, next |-> p + Overhead + tagLen + msgLen,
            entry |-> [time |-> buf[p] + 256 * buf[p + 1], level |-> buf[p + 4],
                       tag |-> Text([k \in 1..tagLen |-> buf[p + 5 + k]]),
                       msg |-> Text([k \in 1..msgLen |-> buf[at + 1 + k]])]]

(* Mutant: a full buffer is begun with the part that does not fit.         *)
StartLate(size) == IF writePos >= BufSize THEN 0 ELSE writePos
Start(size) == IF writePos + size > BufSize THEN 0 ELSE writePos

(* An entry longer than what is left is counted and not written.           *)
LogAppend(time, m) ==
  LET bytes == EncodedEntry(time, m)
      start == Start(Len(bytes))
      there == Len(bytes) <= BufSize - start
      entry == [time |-> time, level |-> m.level, tag |-> Cut(m.tag, TagMax), msg |-> Cut(m.msg, MsgMax)]
  IN  /\ buf' = IF there THEN [i \in DOMAIN buf |-> IF i \in start..(start + Len(bytes) - 1)
                                                    THEN bytes[i - start + 1] ELSE buf[i]] ELSE buf
      /\ writePos' = IF there THEN start + Len(bytes) ELSE start
      /\ entries' = entries + 1
      /\ fresh' = IF start = 0 THEN <<entry>> ELSE Append(fresh, entry)

LogClear ==
  /\ buf' = [i \in DOMAIN buf |-> 0]
  /\ writePos' = 0 /\ entries' = 0 /\ fresh' = <<>>

-----------------------------------------------------------------------------
(* log_buf_query: zeros are entries too, of no level and eight bytes each. *)
Looked(a, level, limit) ==
  LET d == DecodedEntry(a.pos)
  IN  IF a.done \/ a.pos >= BufSize \/ Len(a.found) >= limit \/ ~d.ok THEN [a EXCEPT !.done = TRUE]
      ELSE [a EXCEPT !.pos = d.next,
              !.found = IF d.entry.level <= level THEN Append(@, d.entry) ELSE @]
Query(level, limit) ==
  LET after[n \in 0..(BufSize \div Overhead)] ==
        IF n = 0 THEN [pos |-> 0, found |-> <<>>, done |-> FALSE] ELSE Looked(after[n - 1], level, limit)
  IN  after[BufSize \div Overhead].found

(* The entries that go out while so many bytes are free before each.       *)
PackedOne(a, e, room, reserve, size) ==
  IF a.done \/ a.written + reserve >= room THEN [a EXCEPT !.done = TRUE]
  ELSE [a EXCEPT !.out = Append(@, e), !.written = @ + size]
Packed(found, room, reserve, size) ==
  LET after[n \in 0..Len(found)] ==
        IF n = 0 THEN [written |-> 2, out |-> <<>>, done |-> FALSE]
        ELSE PackedOne(after[n - 1], found[n], room, reserve, size[found[n]])
  IN  after[Len(found)].out

RecentMsgMax == 48
RecentSize(e) == 3 + Len(e.tag) + (IF Len(e.msg) > RecentMsgMax THEN RecentMsgMax ELSE Len(e.msg))
EncodedRecent ==
  LET found == Query(Warn, RecentLimit)
  IN  Packed(found, RecentRoom, RecentReserve, [e \in ToSet(found) |-> RecentSize(e)])
UploadSize(e) == Overhead + Len(e.tag) + Len(e.msg)
EncodedUpload(level) ==
  LET found == Query(level, UploadLimit)
  IN  Packed(found, UploadRoom, UploadReserve, [e \in ToSet(found) |-> UploadSize(e)])
=============================================================================
