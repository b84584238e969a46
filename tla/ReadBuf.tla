------------------------------ MODULE ReadBuf -------------------------------
(***************************************************************************)
(* The read buffer of crates/kamekichi-ws (src/read_buf.rs) as the opening *)
(* handshake and the read loop of src/proto.rs use it: one block of memory *)
(* with two cursors,                                                       *)
(*                                                                         *)
(*     [ consumed | pending | spare ]                                      *)
(*     0        start      end     Len                                     *)
(*                                                                         *)
(* The bytes of the stream are numbered 1, 2, ... and a cell of the memory *)
(* holds the number of its byte, or 0 when it was only zeroed.             *)
(***************************************************************************)
EXTENDS Integers

CONSTANTS
  MaxHeader,       \* limit of read_until and threshold of maybe_compact
  MaxFrame,        \* largest frame: header and max_payload
  MinReadSlice,    \* MIN_READ_SLICE
  MinReadHeadroom, \* MIN_READ_HEADROOM
  MaxBytes,        \* bound: bytes a stream ever delivers
  MaxStreams       \* bound: connections made with the same buffer

ASSUME ReadBufAssumption ==
  /\ MaxHeader \in Nat \ {0} /\ MaxFrame \in Nat \ {0}
  /\ MinReadSlice \in Nat \ {0} /\ MinReadHeadroom \in Nat
  /\ MaxBytes \in Nat /\ MaxStreams \in Nat

VARIABLES
  pc,       \* where handshake or read_message is
  len, mem, \* buf: its initialised length and contents
  start,    \* the cursors
  end,
  target,   \* where end has to get to, in fill_from and read_until
  streams,  \* connections so far
  received, \* history: bytes read from the stream
  consumed  \* history: bytes consumed

vars == <<pc, len, mem, start, end, target, streams, received, consumed>>

Larger(a, b) == IF a > b THEN a ELSE b

Init ==
  /\ pc = "connect" /\ len = 0 /\ mem = [i \in 0..-1 |-> 0]
  /\ start = 0 /\ end = 0 /\ target = 0
  /\ streams = 0 /\ received = 0 /\ consumed = 0

-----------------------------------------------------------------------------
(* ensure_initialized: never shrinks, and zeroes only what is new.         *)
Needed(t) == Larger(t + MinReadHeadroom, end + MinReadSlice)

\* Mutant of EnsureInitialized: a new block, zeroed all over.
EnsureZeroed(t) ==
  IF len < Needed(t)
  THEN len' = Needed(t) /\ mem' = [i \in 0..(Needed(t) - 1) |-> 0]
  ELSE UNCHANGED <<len, mem>>

EnsureInitialized(t) ==
  IF len < Needed(t)
  THEN /\ len' = Needed(t)
       /\ mem' = [i \in 0..(Needed(t) - 1) |-> IF i < len THEN mem[i] ELSE 0]
  ELSE UNCHANGED <<len, mem>>

\* clear: the cursors go back, the memory stays as it is.
Connect ==
  /\ pc = "connect" /\ streams < MaxStreams
  /\ streams' = streams + 1
  /\ start' = 0 /\ end' = 0
  /\ received' = 0 /\ consumed' = 0
  /\ pc' = "handshake"
  /\ UNCHANGED <<len, mem, target>>

(* read_until: the buffer was cleared, so the search starts with a read.   *)
SearchHeader ==
  /\ pc = "handshake"
  /\ target' = start + MaxHeader
  /\ EnsureInitialized(start + MaxHeader)
  /\ pc' = "searching"
  /\ UNCHANGED <<start, end, streams, received, consumed>>

(* read_once: the stream fills part of the spare memory.                   *)
ReadBytes(n) ==
  /\ n \in 1..(len - end) /\ received + n <= MaxBytes
  /\ mem' = [i \in 0..(len - 1) |->
               IF end <= i /\ i < end + n THEN received + (i - end) + 1 ELSE mem[i]]
  /\ end' = end + n
  /\ received' = received + n

\* The callback asks for more, as long as the headers stay below the limit.
SearchOn(n) ==
  /\ pc = "searching"
  /\ ReadBytes(n)
  /\ end + n < target
  /\ UNCHANGED <<pc, len, start, target, streams, consumed>>

\* The callback finds the end of the headers; consume, then compact.
HeaderFound(n) ==
  /\ pc = "searching"
  /\ ReadBytes(n)
  /\ pc' = "found"
  /\ UNCHANGED <<len, start, target, streams, consumed>>

\* Headers too large, an error or a timeout: disconnect.
SearchFails ==
  /\ pc = "searching"
  /\ pc' = "connect"
  /\ UNCHANGED <<len, mem, start, end, target, streams, received, consumed>>

-----------------------------------------------------------------------------
\* Mutant of CompactFrom: the cursors go to the front, the bytes do not.
CompactForgets(s) ==
  IF s = 0 THEN UNCHANGED <<mem, end>> /\ start' = s
  ELSE UNCHANGED mem /\ end' = end - s /\ start' = 0

(* compact, on the cursors it is called with.                              *)
CompactFrom(s) ==
  IF s = 0 THEN UNCHANGED <<mem, end>> /\ start' = s
  ELSE IF s = end THEN UNCHANGED mem /\ start' = 0 /\ end' = 0
  ELSE /\ mem' = [i \in 0..(len - 1) |-> IF i < end - s THEN mem[s + i] ELSE mem[i]]
       /\ end' = end - s
       /\ start' = 0

AcceptUpgrade(n) ==
  /\ pc = "found"
  /\ n \in 1..(end - start)
  /\ consumed' = consumed + n
  /\ CompactFrom(start + n)
  /\ pc' = "top"
  /\ UNCHANGED <<len, target, streams, received>>

RefuseUpgrade ==
  /\ pc = "found"
  /\ pc' = "connect"
  /\ UNCHANGED <<len, mem, start, end, target, streams, received, consumed>>

(* The top of the read loop: maybe_compact, and after a compaction perhaps *)
(* maybe_shrink_capacity, which cuts the memory off behind end.            *)
MustCompactEmpty == start > 0 /\ start = end \* mutant: only what is free
MustCompact == start > 0 /\ (start = end \/ start > Larger(MaxHeader, end \div 2))

TopOfLoop ==
  /\ pc = "top"
  /\ IF MustCompact THEN CompactFrom(start) ELSE UNCHANGED <<mem, start, end>>
  /\ pc' = "frame"
  /\ UNCHANGED <<len, target, streams, received, consumed>>

TopOfLoopShrinks ==
  /\ pc = "top"
  /\ MustCompact
  /\ start' = 0 /\ end' = end - start
  /\ len' = end - start
  /\ mem' = [i \in 0..(end - start - 1) |-> mem[start + i]]
  /\ pc' = "frame"
  /\ UNCHANGED <<target, streams, received, consumed>>

\* Mutant of FillFrom: one byte too many is asked for.
FillFromOneMore(need) ==
  /\ pc = "frame"
  /\ target' = start + need
  /\ IF end > start + need
     THEN pc' = "filled" /\ UNCHANGED <<len, mem>>
     ELSE pc' = "filling" /\ EnsureInitialized(start + need)
  /\ UNCHANGED <<start, end, streams, received, consumed>>

(* fill_from, for the first bytes of a header, all of it, the whole frame. *)
FillFrom(need) ==
  /\ pc = "frame"
  /\ target' = start + need
  /\ IF end >= start + need
     THEN pc' = "filled" /\ UNCHANGED <<len, mem>>
     ELSE pc' = "filling" /\ EnsureInitialized(start + need)
  /\ UNCHANGED <<start, end, streams, received, consumed>>

FillRead(n) ==
  /\ pc = "filling"
  /\ ReadBytes(n)
  /\ pc' = IF end + n >= target THEN "filled" ELSE "filling"
  /\ UNCHANGED <<len, start, target, streams, consumed>>

\* WouldBlock: what was read stays, and a later call starts from the top.
FillBlocks ==
  /\ pc = "filling"
  /\ pc' = "top"
  /\ UNCHANGED <<len, mem, start, end, target, streams, received, consumed>>

\* The header says that more is needed, and fill_from is called again.
NeedMore ==
  /\ pc = "filled"
  /\ pc' = "frame"
  /\ UNCHANGED <<len, mem, start, end, target, streams, received, consumed>>

(* consume, of the frame that is there; its payload is used from there.    *)
ConsumeFrame ==
  /\ pc = "filled"
  /\ start' = target
  /\ consumed' = consumed + (target - start)
  /\ pc' = "top"
  /\ UNCHANGED <<len, mem, end, target, streams, received>>

\* Mutant of Disconnect: one cursor is forgotten.
DisconnectKeepsStart ==
  /\ pc \in {"top", "filling", "filled"}
  /\ pc' = "connect"
  /\ end' = 0 /\ received' = 0 /\ consumed' = 0
  /\ UNCHANGED <<len, mem, start, target, streams>>

\* An error, a Close frame or the caller: disconnect clears the buffer.
Disconnect ==
  /\ pc \in {"top", "filling", "filled"}
  /\ pc' = "connect"
  /\ start' = 0 /\ end' = 0 /\ received' = 0 /\ consumed' = 0
  /\ UNCHANGED <<len, mem, target, streams>>

-----------------------------------------------------------------------------
Next ==
  \/ Connect \/ SearchHeader \/ SearchFails \/ RefuseUpgrade
  \/ \E n \in 1..MaxBytes :
       SearchOn(n) \/ HeaderFound(n) \/ AcceptUpgrade(n) \/ FillRead(n)
  \/ TopOfLoop \/ TopOfLoopShrinks
  \/ \E need \in 1..MaxFrame : FillFrom(need)
  \/ FillBlocks \/ NeedMore \/ ConsumeFrame \/ Disconnect

Spec == Init /\ [][Next]_vars

-----------------------------------------------------------------------------
(* The cursors are in order, as the struct's own comment says              *)
(* (read_buf.rs:93), and the memory holds bytes.                           *)
TypeOK ==
  /\ pc \in {"connect", "handshake", "searching", "found", "top", "frame", "filling", "filled"}
  /\ {len, start, end, target, streams, received, consumed} \subseteq Nat
  /\ mem \in [0..(len - 1) -> Nat]
  /\ start <= end /\ end <= len

(* What is pending is what the stream sent and nobody consumed, in order;  *)
(* what was consumed stays in place behind it until the next compaction,   *)
(* which is what lets read_message lend a payload out of the buffer after  *)
(* consuming its frame.                                                    *)
BytesInPlace ==
  /\ received - consumed = end - start
  /\ \A i \in 0..(end - 1) : mem[i] = (consumed - start) + i + 1

(* The stream is never read into an empty slice: that read returns 0, and  *)
(* 0 is taken for the end of the stream (read_buf.rs:268, 271).            *)
ReadHasRoom == pc \in {"searching", "filling"} => end < len /\ end < target

(* The buffer stays within a constant size although it never shrinks by    *)
(* itself and is compacted only now and then.                              *)
MemoryBound == Larger(MaxFrame + MaxHeader, 2 * MaxFrame) + Larger(MinReadHeadroom, MinReadSlice)

MemoryBounded == len <= MemoryBound

-----------------------------------------------------------------------------
\* The pending section, as the slice it is lent out as.
Pending == [i \in 1..(end - start) |-> mem[start + i - 1]]

(* The buffer implements a queue of bytes: growing, compacting, shrinking  *)
(* and a read that blocks half way do not show, and every other operation  *)
(* is an arrival, a removal at the front or a new stream.                  *)
Fifo == INSTANCE ByteQueue WITH sent <- received, queue <- Pending
ImplementsFifo == Fifo!Spec
=============================================================================
