--------------------------- MODULE ReadBufProofs ----------------------------
(***************************************************************************)
(* Proofs about ReadBuf, for every frame size, header limit and growth     *)
(* policy.  The buffer proper is the predicate Sound on its memory and its *)
(* cursors; one lemma per operation of read_buf.rs says that it stays so.  *)
(***************************************************************************)
EXTENDS ReadBuf, SequenceTheorems, TLAPS

InPlace(m, s, e, r, c) ==
  /\ r - c = e - s
  /\ \A i \in 0..(e - 1) : m[i] = (c - s) + i + 1

Sound(l, m, s, e, r, c) ==
  /\ l \in Nat /\ s \in Nat /\ e \in Nat /\ r \in Nat /\ c \in Nat
  /\ m \in [0..(l - 1) -> Nat]
  /\ s <= e /\ e <= l
  /\ InPlace(m, s, e, r, c)

(* clear: nothing is pending, and what the memory holds does not matter.   *)
LEMMA ClearKeeps ==
  ASSUME NEW l, NEW m, NEW s, NEW e, NEW r, NEW c, Sound(l, m, s, e, r, c)
  PROVE  Sound(l, m, 0, 0, 0, 0)
BY DEF Sound, InPlace

(* ensure_initialized only adds zeroes behind the old length.              *)
LEMMA GrowKeeps ==
  ASSUME NEW l, NEW m, NEW s, NEW e, NEW r, NEW c, Sound(l, m, s, e, r, c),
         NEW k \in Nat, l < k
  PROVE  Sound(k, [i \in 0..(k - 1) |-> IF i < l THEN m[i] ELSE 0], s, e, r, c)
BY DEF Sound, InPlace

(* read_once puts the next bytes of the stream at the end.                 *)
LEMMA ReadKeeps ==
  ASSUME NEW l, NEW m, NEW s, NEW e, NEW r, NEW c, Sound(l, m, s, e, r, c),
         NEW n \in 1..(l - e)
  PROVE  Sound(l, [i \in 0..(l - 1) |-> IF e <= i /\ i < e + n THEN r + (i - e) + 1 ELSE m[i]],
               s, e + n, r + n, c)
<1> DEFINE F == [i \in 0..(l - 1) |-> IF e <= i /\ i < e + n THEN r + (i - e) + 1 ELSE m[i]]
<1>1. l \in Nat /\ s \in Nat /\ e \in Nat /\ r \in Nat /\ c \in Nat /\ n \in Nat
  BY DEF Sound
<1>2. s <= e /\ e + n <= l /\ r - c = e - s
  BY <1>1 DEF Sound, InPlace
<1>3. \A i \in 0..(l - 1) : F[i] \in Nat
  <2> SUFFICES ASSUME NEW i \in 0..(l - 1) PROVE F[i] \in Nat
    OBVIOUS
  <2>1. CASE e <= i /\ i < e + n
    BY <1>1, <2>1
  <2>2. CASE ~(e <= i /\ i < e + n)
    BY <1>1, <2>2 DEF Sound
  <2> QED
    BY <2>1, <2>2
<1>4. ASSUME NEW i \in 0..(e + n - 1)
      PROVE  F[i] = (c - s) + i + 1
  <2>1. i \in 0..(l - 1)
    BY <1>1, <1>2
  <2>2. CASE i < e
    BY <1>1, <2>1, <2>2 DEF Sound, InPlace
  <2>3. CASE e <= i
    <3>1. i < e + n
      BY <1>1
    <3>2. F[i] = r + (i - e) + 1
      BY <2>1, <2>3, <3>1
    <3> QED
      BY <1>1, <1>2, <3>2
  <2> QED
    BY <1>1, <2>2, <2>3
<1>5. F \in [0..(l - 1) -> Nat]
  BY <1>3
<1>6. (r + n) - c = (e + n) - s
  BY <1>1, <1>2
<1> HIDE DEF F
<1>7. Sound(l, F, s, e + n, r + n, c)
  BY <1>1, <1>2, <1>4, <1>5, <1>6 DEF Sound, InPlace
<1> QED
  BY <1>7 DEF F

(* consume moves the start and leaves the bytes where they are.            *)
LEMMA ConsumeKeeps ==
  ASSUME NEW l, NEW m, NEW s, NEW e, NEW r, NEW c, Sound(l, m, s, e, r, c),
         NEW n \in 0..(e - s)
  PROVE  Sound(l, m, s + n, e, r, c + n)
BY DEF Sound, InPlace

(* compact moves what is pending to the front.                             *)
LEMMA CompactKeeps ==
  ASSUME NEW l, NEW m, NEW s, NEW e, NEW r, NEW c, Sound(l, m, s, e, r, c)
  PROVE  Sound(l, [i \in 0..(l - 1) |-> IF i < e - s THEN m[s + i] ELSE m[i]], 0, e - s, r, c)
BY DEF Sound, InPlace

(* Compacting an empty buffer is a clear of the cursors only.              *)
LEMMA EmptyKeeps ==
  ASSUME NEW l, NEW m, NEW s, NEW e, NEW r, NEW c, Sound(l, m, s, e, r, c), s = e
  PROVE  Sound(l, m, 0, 0, r, c)
BY DEF Sound, InPlace

(* maybe_shrink_capacity, after a compaction, cuts off the spare memory.   *)
LEMMA ShrinkKeeps ==
  ASSUME NEW l, NEW m, NEW s, NEW e, NEW r, NEW c, Sound(l, m, s, e, r, c)
  PROVE  Sound(e - s, [i \in 0..(e - s - 1) |-> m[s + i]], 0, e - s, r, c)
BY DEF Sound, InPlace

-----------------------------------------------------------------------------
Buffer == Sound(len, mem, start, end, received, consumed)

Cursors ==
  /\ pc \in {"connect", "handshake", "searching", "found", "top", "frame", "filling", "filled"}
  /\ target \in Nat /\ streams \in Nat
  /\ pc = "handshake" => start = 0 /\ end = 0
  /\ pc \in {"searching", "found"} => start = 0
  /\ pc \in {"searching", "filling"} => end < target /\ target <= len
  /\ pc = "filled" => start <= target /\ target <= end

(* While a frame is parsed, the consumed prefix is what maybe_compact left *)
(* of it: no longer than the threshold, or than half of what was read.     *)
Window == pc \in {"frame", "filling", "filled"} => start <= MaxHeader \/ 2 * start <= end

IInv == Buffer /\ Cursors /\ Window /\ MemoryBounded

(* What EnsureInitialized leaves: room for the target and for one slice.   *)
LEMMA EnsureKeeps ==
  ASSUME Buffer, NEW t \in Nat, EnsureInitialized(t)
  PROVE  /\ Sound(len', mem', start, end, received, consumed)
         /\ t <= len' /\ end < len'
         /\ len' = len \/ len' = Needed(t)
<1>1. Needed(t) \in Nat /\ t <= Needed(t) /\ end < Needed(t) /\ len \in Nat
  BY ReadBufAssumption DEF ReadBufAssumption, Needed, Larger, Buffer, Sound
<1>2. CASE len < Needed(t)
  <2>1. len' = Needed(t) /\ mem' = [i \in 0..(Needed(t) - 1) |-> IF i < len THEN mem[i] ELSE 0]
    BY <1>2 DEF EnsureInitialized
  <2>2. Sound(Needed(t), [i \in 0..(Needed(t) - 1) |-> IF i < len THEN mem[i] ELSE 0],
              start, end, received, consumed)
    BY ONLY <1>1, <1>2, GrowKeeps, Buffer DEF Buffer
  <2>3. Sound(len', mem', start, end, received, consumed)
    BY ONLY <2>1, <2>2
  <2>4. t <= len' /\ end < len' /\ (len' = len \/ len' = Needed(t))
    BY ONLY <1>1, <2>1
  <2> QED
    BY ONLY <2>3, <2>4
<1>3. CASE ~(len < Needed(t))
  <2>1. len' = len /\ mem' = mem
    BY <1>3 DEF EnsureInitialized
  <2>2. Sound(len', mem', start, end, received, consumed)
    BY ONLY Buffer, <2>1 DEF Buffer
  <2>3. t <= len' /\ end < len'
    <3>1. end \in Nat
      BY DEF Buffer, Sound
    <3> QED
      BY ONLY <1>1, <1>3, <2>1, <3>1
  <2> QED
    BY ONLY <2>1, <2>2, <2>3
<1> QED
  BY <1>2, <1>3

(* What CompactFrom leaves: the pending bytes, at the front.               *)
LEMMA CompactFromKeeps ==
  ASSUME NEW s, NEW c, Sound(len, mem, s, end, received, c), CompactFrom(s)
  PROVE  Sound(len, mem', start', end', received, c) /\ start' = 0
<1>1. CASE s = 0
  BY <1>1 DEF CompactFrom
<1>2. CASE s # 0 /\ s = end
  BY <1>2, EmptyKeeps DEF CompactFrom
<1>3. CASE s # 0 /\ s # end
  BY <1>3, CompactKeeps DEF CompactFrom
<1> QED
  BY <1>1, <1>2, <1>3

(* When a frame is not all there, its end lies within the first part of    *)
(* the bound: this is where the compaction policy pays.                    *)
LEMMA TargetIsNear ==
  ASSUME ReadBufAssumption, NEW s \in Nat, NEW e \in Nat, NEW need \in 1..MaxFrame,
         s <= MaxHeader \/ 2 * s <= e, e < s + need
  PROVE  /\ s + need <= Larger(MaxFrame + MaxHeader, 2 * MaxFrame)
         /\ e <= Larger(MaxFrame + MaxHeader, 2 * MaxFrame)
<1>1. MaxHeader \in Nat /\ MaxFrame \in Nat /\ need \in Nat /\ need <= MaxFrame
  BY DEF ReadBufAssumption
<1>2. CASE s <= MaxHeader
  BY <1>1, <1>2 DEF Larger
<1>3. CASE 2 * s <= e
  BY <1>1, <1>3 DEF Larger
<1> QED
  BY <1>2, <1>3

(* The new length after fill_from, and after read_until.                   *)
LEMMA NeededIsBounded ==
  ASSUME ReadBufAssumption, NEW e \in Nat, NEW t \in Nat,
         t <= Larger(MaxFrame + MaxHeader, 2 * MaxFrame),
         e <= Larger(MaxFrame + MaxHeader, 2 * MaxFrame)
  PROVE  Larger(t + MinReadHeadroom, e + MinReadSlice) <= MemoryBound
BY DEF ReadBufAssumption, MemoryBound, Larger

-----------------------------------------------------------------------------
LEMMA InitEstablishes == Init => IInv
<1> SUFFICES ASSUME Init PROVE IInv
  OBVIOUS
<1>1. Buffer
  BY DEF Init, Buffer, Sound, InPlace
<1>2. Cursors /\ Window
  BY DEF Init, Cursors, Window
<1>3. MemoryBounded
  BY ReadBufAssumption DEF ReadBufAssumption, Init, MemoryBounded, MemoryBound, Larger
<1> QED
  BY <1>1, <1>2, <1>3 DEF IInv

LEMMA StepKeeps == IInv /\ [Next]_vars => IInv'
<1> SUFFICES ASSUME IInv, [Next]_vars PROVE IInv'
  OBVIOUS
<1> USE ReadBufAssumption
<1>0. Buffer /\ Cursors /\ Window /\ MemoryBounded
  BY DEF IInv
<1>n. /\ len \in Nat /\ start \in Nat /\ end \in Nat /\ received \in Nat /\ consumed \in Nat
      /\ start <= end /\ end <= len /\ target \in Nat /\ streams \in Nat
  BY <1>0 DEF Buffer, Sound, Cursors
<1>1. CASE Connect
  <2>1. Buffer'
    <3>1. Sound(len, mem, 0, 0, 0, 0)
      BY <1>0, ClearKeeps DEF Buffer
    <3> QED
      BY <1>1, <3>1 DEF Connect, Buffer
  <2>2. Cursors' /\ Window' /\ MemoryBounded'
    BY <1>0, <1>1, <1>n DEF Connect, Cursors, Window, MemoryBounded
  <2> QED
    BY <2>1, <2>2 DEF IInv
<1>2. CASE SearchHeader
  <2>1. start = 0 /\ end = 0 /\ MaxHeader \in Nat /\ 0 < MaxHeader
    BY <1>0, <1>2 DEF SearchHeader, Cursors, ReadBufAssumption
  <2>2. EnsureInitialized(MaxHeader) /\ target' = MaxHeader
    BY <1>2, <2>1 DEF SearchHeader
  <2>3. /\ Sound(len', mem', start, end, received, consumed)
        /\ MaxHeader <= len' /\ (len' = len \/ len' = Needed(MaxHeader))
    BY <1>0, <2>1, <2>2, EnsureKeeps
  <2>4. Buffer'
    BY <1>2, <2>3 DEF SearchHeader, Buffer
  <2>5. MemoryBounded'
    <3>1. /\ MaxHeader <= Larger(MaxFrame + MaxHeader, 2 * MaxFrame)
          /\ end <= Larger(MaxFrame + MaxHeader, 2 * MaxFrame)
      BY <2>1 DEF ReadBufAssumption, Larger
    <3>2. Needed(MaxHeader) <= MemoryBound
      BY ONLY ReadBufAssumption, <1>n, <2>1, <3>1, NeededIsBounded DEF Needed
    <3> QED
      BY <1>0, <2>3, <3>2 DEF MemoryBounded, MemoryBound
  <2>6. Cursors' /\ Window'
    BY <1>2, <1>n, <2>1, <2>2, <2>3 DEF SearchHeader, Cursors, Window
  <2> QED
    BY <2>4, <2>5, <2>6 DEF IInv
<1>3. ASSUME NEW n \in 1..MaxBytes, SearchOn(n) PROVE IInv'
  <2>1. Buffer'
    <3>1. n \in 1..(len - end)
      BY <1>3 DEF SearchOn, ReadBytes
    <3>2. Sound(len, [i \in 0..(len - 1) |->
                        IF end <= i /\ i < end + n THEN received + (i - end) + 1 ELSE mem[i]],
                start, end + n, received + n, consumed)
      BY ONLY <1>0, <3>1, ReadKeeps DEF Buffer
    <3> QED
      BY <1>3, <3>2 DEF SearchOn, ReadBytes, Buffer
  <2>2. Cursors' /\ Window' /\ MemoryBounded'
    BY <1>0, <1>3, <1>n DEF SearchOn, ReadBytes, Cursors, Window, MemoryBounded
  <2> QED
    BY <2>1, <2>2 DEF IInv
<1>4. ASSUME NEW n \in 1..MaxBytes, HeaderFound(n) PROVE IInv'
  <2>1. Buffer'
    <3>1. n \in 1..(len - end)
      BY <1>4 DEF HeaderFound, ReadBytes
    <3>2. Sound(len, [i \in 0..(len - 1) |->
                        IF end <= i /\ i < end + n THEN received + (i - end) + 1 ELSE mem[i]],
                start, end + n, received + n, consumed)
      BY ONLY <1>0, <3>1, ReadKeeps DEF Buffer
    <3> QED
      BY <1>4, <3>2 DEF HeaderFound, ReadBytes, Buffer
  <2>2. Cursors' /\ Window' /\ MemoryBounded'
    BY <1>0, <1>4, <1>n DEF HeaderFound, ReadBytes, Cursors, Window, MemoryBounded
  <2> QED
    BY <2>1, <2>2 DEF IInv
<1>5. CASE SearchFails \/ RefuseUpgrade \/ FillBlocks
  <2>1. UNCHANGED <<len, mem, start, end, target, streams, received, consumed>>
        /\ pc' \in {"connect", "top"}
    BY <1>5 DEF SearchFails, RefuseUpgrade, FillBlocks
  <2> QED
    BY <1>0, <2>1 DEF IInv, Buffer, Cursors, Window, MemoryBounded
<1>6. ASSUME NEW n \in 1..MaxBytes, AcceptUpgrade(n) PROVE IInv'
  <2>1. n \in 0..(end - start) /\ CompactFrom(start + n)
    BY <1>6, <1>n DEF AcceptUpgrade
  <2>2. Sound(len, mem, start + n, end, received, consumed + n)
    BY ONLY <1>0, <2>1, ConsumeKeeps DEF Buffer
  <2>3. Sound(len, mem', start', end', received, consumed + n) /\ start' = 0
    BY ONLY <2>1, <2>2, CompactFromKeeps
  <2>4. Buffer'
    BY <1>6, <2>3 DEF AcceptUpgrade, Buffer
  <2>5. Cursors' /\ Window' /\ MemoryBounded'
    BY <1>0, <1>6 DEF AcceptUpgrade, Cursors, Window, MemoryBounded
  <2> QED
    BY <2>4, <2>5 DEF IInv
<1>7. CASE TopOfLoop
  <2>1. CASE MustCompact
    <3>1. Sound(len, mem', start', end', received, consumed) /\ start' = 0
      BY <1>0, <1>7, <2>1, CompactFromKeeps DEF TopOfLoop, Buffer
    <3>2. Buffer'
      BY <1>7, <3>1 DEF TopOfLoop, Buffer
    <3>3. Cursors' /\ Window' /\ MemoryBounded'
      BY <1>0, <1>7, <3>1 DEF TopOfLoop, Cursors, Window, MemoryBounded, ReadBufAssumption
    <3> QED
      BY <3>2, <3>3 DEF IInv
  <2>2. CASE ~MustCompact
    <3>1. UNCHANGED <<len, mem, start, end, target, streams, received, consumed>> /\ pc' = "frame"
      BY <1>7, <2>2 DEF TopOfLoop
    <3>2. start <= MaxHeader \/ 2 * start <= end
      BY <1>n, <2>2 DEF MustCompact, Larger, ReadBufAssumption
    <3> QED
      BY <1>0, <3>1, <3>2 DEF IInv, Buffer, Cursors, Window, MemoryBounded
  <2> QED
    BY <2>1, <2>2
<1>8. CASE TopOfLoopShrinks
  <2>1. Sound(end - start, [i \in 0..(end - start - 1) |-> mem[start + i]], 0, end - start,
              received, consumed)
    BY ONLY <1>0, ShrinkKeeps DEF Buffer
  <2>2. Buffer'
    BY <1>8, <2>1 DEF TopOfLoopShrinks, Buffer
  <2>3. Cursors' /\ Window'
    BY <1>0, <1>8 DEF TopOfLoopShrinks, Cursors, Window, ReadBufAssumption
  <2>4. MemoryBounded'
    <3>1. MemoryBound \in Nat
      BY DEF MemoryBound, Larger, ReadBufAssumption
    <3> QED
      BY <1>0, <1>8, <1>n, <3>1 DEF TopOfLoopShrinks, MemoryBounded, MemoryBound
  <2> QED
    BY <2>2, <2>3, <2>4 DEF IInv
<1>9. ASSUME NEW need \in 1..MaxFrame, FillFrom(need) PROVE IInv'
  <2>1. need \in Nat /\ start + need \in Nat
    BY <1>n DEF ReadBufAssumption
  <2>2. start <= MaxHeader \/ 2 * start <= end
    BY <1>0, <1>9 DEF FillFrom, Window
  <2>3. CASE end >= start + need
    <3>1. UNCHANGED <<len, mem, start, end, streams, received, consumed>>
          /\ target' = start + need /\ pc' = "filled"
      BY <1>9, <2>3 DEF FillFrom
    <3>2. Cursors'
      BY <1>0, <1>n, <2>1, <2>3, <3>1 DEF Cursors
    <3> QED
      BY <1>0, <2>2, <3>1, <3>2 DEF IInv, Buffer, Window, MemoryBounded
  <2>4. CASE ~(end >= start + need)
    <3>1. /\ UNCHANGED <<start, end, streams, received, consumed>>
          /\ target' = start + need /\ pc' = "filling" /\ EnsureInitialized(start + need)
      BY <1>9, <2>4 DEF FillFrom
    <3>2. /\ Sound(len', mem', start, end, received, consumed)
          /\ start + need <= len' /\ (len' = len \/ len' = Needed(start + need))
      BY <1>0, <2>1, <3>1, EnsureKeeps
    <3>3. Buffer'
      BY <3>1, <3>2 DEF Buffer
    <3>4. Cursors' /\ Window'
      BY <1>0, <1>n, <2>1, <2>2, <2>4, <3>1, <3>2 DEF Cursors, Window
    <3>5. Needed(start + need) <= MemoryBound
      <4>1. end < start + need
        BY <1>n, <2>1, <2>4
      <4>2. /\ start + need <= Larger(MaxFrame + MaxHeader, 2 * MaxFrame)
            /\ end <= Larger(MaxFrame + MaxHeader, 2 * MaxFrame)
        BY ONLY ReadBufAssumption, <1>9, <1>n, <2>2, <4>1, TargetIsNear
      <4> QED
        BY ONLY ReadBufAssumption, <1>n, <2>1, <4>2, NeededIsBounded DEF Needed
    <3>6. MemoryBounded'
      BY <1>0, <3>2, <3>5 DEF MemoryBounded, MemoryBound
    <3> QED
      BY <3>3, <3>4, <3>6 DEF IInv
  <2> QED
    BY <2>3, <2>4
<1>10. ASSUME NEW n \in 1..MaxBytes, FillRead(n) PROVE IInv'
  <2>1. n \in 1..(len - end)
    BY <1>10 DEF FillRead, ReadBytes
  <2>2. Sound(len, [i \in 0..(len - 1) |->
                      IF end <= i /\ i < end + n THEN received + (i - end) + 1 ELSE mem[i]],
              start, end + n, received + n, consumed)
    BY ONLY <1>0, <2>1, ReadKeeps DEF Buffer
  <2>3. Buffer'
    BY <1>10, <2>2 DEF FillRead, ReadBytes, Buffer
  <2>4. end' = end + n /\ UNCHANGED <<len, start, target, streams>>
        /\ pc = "filling" /\ pc' = IF end + n >= target THEN "filled" ELSE "filling"
    BY <1>10 DEF FillRead, ReadBytes
  <2>5. n \in Nat /\ end < target /\ target <= len
        /\ (start <= MaxHeader \/ 2 * start <= end)
    BY <1>0, <1>n, <2>1, <2>4 DEF Cursors, Window
  <2>6. Cursors'
    <3>1. CASE end + n >= target
      BY <1>0, <1>n, <2>4, <2>5, <3>1 DEF Cursors
    <3>2. CASE ~(end + n >= target)
      BY <1>0, <1>n, <2>4, <2>5, <3>2 DEF Cursors
    <3> QED
      BY <3>1, <3>2
  <2>7. Window' /\ MemoryBounded'
    BY <1>0, <1>n, <2>4, <2>5 DEF Window, MemoryBounded, MemoryBound, ReadBufAssumption
  <2> QED
    BY <2>3, <2>6, <2>7 DEF IInv
<1>11. CASE NeedMore
  BY <1>0, <1>11 DEF NeedMore, IInv, Buffer, Cursors, Window, MemoryBounded
<1>12. CASE ConsumeFrame
  <2>1. start <= target /\ target <= end
    BY <1>0, <1>12 DEF ConsumeFrame, Cursors
  <2>a. target - start \in 0..(end - start)
    BY ONLY <1>n, <2>1
  <2>2. Sound(len, mem, start + (target - start), end, received, consumed + (target - start))
    BY ONLY <1>0, <2>a, ConsumeKeeps DEF Buffer
  <2>3. start + (target - start) = target
    BY <1>n
  <2>4. Buffer'
    BY <1>12, <2>2, <2>3 DEF ConsumeFrame, Buffer
  <2>5. Cursors' /\ Window' /\ MemoryBounded'
    BY <1>0, <1>12 DEF ConsumeFrame, Cursors, Window, MemoryBounded
  <2> QED
    BY <2>4, <2>5 DEF IInv
<1>13. CASE Disconnect
  <2>1. Sound(len, mem, 0, 0, 0, 0)
    BY <1>0, ClearKeeps DEF Buffer
  <2>2. Buffer'
    BY <1>13, <2>1 DEF Disconnect, Buffer
  <2>3. Cursors' /\ Window' /\ MemoryBounded'
    BY <1>0, <1>13, <1>n DEF Disconnect, Cursors, Window, MemoryBounded
  <2> QED
    BY <2>2, <2>3 DEF IInv
<1>14. CASE UNCHANGED vars
  BY <1>0, <1>14 DEF vars, IInv, Buffer, Cursors, Window, MemoryBounded
<1> QED
  BY <1>1, <1>2, <1>3, <1>4, <1>5, <1>6, <1>7, <1>8, <1>9, <1>10, <1>11, <1>12, <1>13, <1>14
     DEF Next

LEMMA Invariance == Spec => []IInv
  BY InitEstablishes, StepKeeps, PTL DEF Spec

-----------------------------------------------------------------------------
(* The cursors never cross and stay inside the memory (read_buf.rs:93).    *)
THEOREM TypeCorrect == Spec => []TypeOK
<1>1. IInv => TypeOK
  BY DEF IInv, Buffer, Sound, Cursors, TypeOK
<1> QED
  BY <1>1, Invariance, PTL

(* The pending and the consumed bytes are those of the stream, in order,   *)
(* through every growth, compaction, shrinking and retry.                  *)
THEOREM BytesStay == Spec => []BytesInPlace
<1>1. IInv => BytesInPlace
  BY DEF IInv, Buffer, Sound, InPlace, BytesInPlace
<1> QED
  BY <1>1, Invariance, PTL

(* No read is given an empty slice.                                        *)
THEOREM RoomToRead == Spec => []ReadHasRoom
<1>1. IInv => ReadHasRoom
  BY DEF IInv, Buffer, Sound, Cursors, ReadHasRoom
<1> QED
  BY <1>1, Invariance, PTL

(* The memory is bounded by the frame size and the thresholds alone.       *)
THEOREM MemoryStaysBounded == Spec => []MemoryBounded
<1>1. IInv => MemoryBounded
  BY DEF IInv
<1> QED
  BY <1>1, Invariance, PTL

-----------------------------------------------------------------------------
(* The refinement.  By BytesInPlace the pending section is the numbers     *)
(* after consumed up to received, so a step is judged by what it does to   *)
(* these two alone, wherever the bytes lie in the memory.                  *)
Bytes(a, b) == Fifo!Bytes(a, b)

LEMMA BytesLen ==
  ASSUME NEW a \in Nat, NEW b \in Nat, a <= b
  PROVE  /\ Bytes(a, b) \in Seq(Nat) /\ Len(Bytes(a, b)) = b - a
         /\ \A i \in 1..(b - a) : Bytes(a, b)[i] = a + i
BY DEF Bytes, Fifo!Bytes

LEMMA BytesEmpty == ASSUME NEW a \in Nat PROVE Bytes(a, a) = <<>>
BY DEF Bytes, Fifo!Bytes

LEMMA BytesAppended ==
  ASSUME NEW a \in Nat, NEW b \in Nat, NEW c \in Nat, a <= b, b <= c
  PROVE  Bytes(a, c) = Bytes(a, b) \o Bytes(b, c)
<1> DEFINE x == Bytes(a, b)  y == Bytes(b, c)  z == Bytes(a, c)
<1>1. x \in Seq(Nat) /\ Len(x) = b - a /\ \A i \in 1..(b - a) : x[i] = a + i
  BY BytesLen
<1>2. y \in Seq(Nat) /\ Len(y) = c - b /\ \A i \in 1..(c - b) : y[i] = b + i
  BY BytesLen
<1>3. z \in Seq(Nat) /\ Len(z) = c - a /\ \A i \in 1..(c - a) : z[i] = a + i
  <2>1. a <= c
    OBVIOUS
  <2> QED BY <2>1, BytesLen
<1> HIDE DEF x, y, z
<1>4. /\ x \o y \in Seq(Nat) /\ Len(x \o y) = Len(x) + Len(y)
      /\ \A i \in 1..(Len(x) + Len(y)) : (x \o y)[i] = IF i <= Len(x) THEN x[i] ELSE y[i - Len(x)]
  BY <1>1, <1>2, ConcatProperties
<1>5. Len(x \o y) = Len(z)
  BY <1>1, <1>2, <1>3, <1>4
<1>6. ASSUME NEW i \in 1..Len(z) PROVE z[i] = (x \o y)[i]
  <2>1. i \in 1..(c - a) /\ i \in 1..(Len(x) + Len(y))
    BY <1>1, <1>2, <1>3
  <2>2. z[i] = a + i
    BY <1>3, <2>1
  <2>3. CASE i <= b - a
    <3>1. i \in 1..(b - a)
      BY <2>1, <2>3
    <3> QED BY <1>1, <1>4, <2>1, <2>2, <2>3, <3>1
  <2>4. CASE ~(i <= b - a)
    <3>1. i - (b - a) \in 1..(c - b)
      BY <2>1, <2>4
    <3>2. y[i - (b - a)] = b + (i - (b - a))
      BY <1>2, <3>1
    <3>3. (x \o y)[i] = y[i - (b - a)]
      BY <1>1, <1>4, <2>1, <2>4
    <3> QED BY <2>1, <2>2, <3>2, <3>3
  <2> QED BY <2>3, <2>4
<1> QED
  <2>1. z = x \o y
    BY <1>3, <1>4, <1>5, <1>6, SeqEqual
  <2> QED BY <2>1 DEF x, y, z

LEMMA BytesTaken ==
  ASSUME NEW a \in Nat, NEW k \in Nat, NEW b \in Nat, a <= k, k <= b
  PROVE  Bytes(k, b) = SubSeq(Bytes(a, b), (k - a) + 1, b - a)
<1> DEFINE x == Bytes(a, b)  y == Bytes(k, b)  m == (k - a) + 1  n == b - a
<1>1. x \in Seq(Nat) /\ Len(x) = n /\ \A i \in 1..n : x[i] = a + i
  <2>1. a <= b
    OBVIOUS
  <2> QED BY <2>1, BytesLen
<1>2. y \in Seq(Nat) /\ Len(y) = b - k /\ \A i \in 1..(b - k) : y[i] = k + i
  BY BytesLen
<1>3. m \in Int /\ n \in Int /\ m = (k - a) + 1 /\ n = b - a
  OBVIOUS
<1> HIDE DEF x, y, m, n
<1>4. \A i \in m..n : x[i] \in Nat
  <2> SUFFICES ASSUME NEW i \in m..n PROVE x[i] \in Nat
    OBVIOUS
  <2>1. i \in 1..n
    BY <1>3
  <2> QED BY <1>1, <2>1
<1>5. /\ SubSeq(x, m, n) \in Seq(Nat)
      /\ Len(SubSeq(x, m, n)) = IF m <= n THEN n - m + 1 ELSE 0
      /\ \A i \in 1..(n - m + 1) : SubSeq(x, m, n)[i] = x[m + i - 1]
  BY <1>3, <1>4, SubSeqProperties
<1>6. Len(SubSeq(x, m, n)) = Len(y)
  BY <1>2, <1>3, <1>5
<1>7. ASSUME NEW i \in 1..Len(y) PROVE y[i] = SubSeq(x, m, n)[i]
  <2>1. /\ i \in 1..(b - k) /\ i \in 1..(n - m + 1)
        /\ m + i - 1 \in 1..n /\ m + i - 1 = (k - a) + i
    BY <1>2, <1>3
  <2>2. SubSeq(x, m, n)[i] = a + (m + i - 1)
    BY <1>1, <1>5, <2>1
  <2>3. y[i] = k + i
    BY <1>2, <2>1
  <2> QED BY <2>1, <2>2, <2>3
<1> QED
  <2>1. y = SubSeq(x, m, n)
    BY <1>2, <1>5, <1>6, <1>7, SeqEqual
  <2> QED BY <2>1 DEF x, y, m, n

LEMMA PendingBytes ==
  ASSUME NEW l, NEW m, NEW s, NEW e, NEW r, NEW c, Sound(l, m, s, e, r, c)
  PROVE  /\ [i \in 1..(e - s) |-> m[s + i - 1]] = Bytes(c, r)
         /\ c \in Nat /\ r \in Nat /\ c <= r
<1>1. /\ s \in Nat /\ e \in Nat /\ c \in Nat /\ r \in Nat
      /\ s <= e /\ r - c = e - s
  BY DEF Sound, InPlace
<1>2. ASSUME NEW i \in 1..(e - s) PROVE m[s + i - 1] = c + i
  <2>1. s + i - 1 \in 0..(e - 1)
    BY <1>1
  <2>2. m[s + i - 1] = (c - s) + (s + i - 1) + 1
    BY <2>1 DEF Sound, InPlace
  <2> QED BY <1>1, <2>2
<1>3. [i \in 1..(e - s) |-> m[s + i - 1]] = Bytes(c, r)
  BY <1>1, <1>2 DEF Bytes, Fifo!Bytes
<1> QED BY <1>1, <1>3

\* What a step does to the queue follows from what it does to the two counts.
LEMMA CountsDecide ==
  ASSUME Buffer, Buffer',
         \/ UNCHANGED <<received, consumed>>
         \/ received' > received /\ consumed' = consumed
         \/ received' = received /\ consumed' > consumed
         \/ received' = 0 /\ consumed' = 0
  PROVE  [Fifo!Next]_<<received, Pending>>
<1>1. /\ Pending = Bytes(consumed, received) /\ Pending' = Bytes(consumed', received')
      /\ consumed \in Nat /\ received \in Nat /\ consumed <= received
      /\ consumed' \in Nat /\ received' \in Nat /\ consumed' <= received'
  BY PendingBytes DEF Buffer, Pending
<1>2. CASE UNCHANGED <<received, consumed>>
  BY <1>1, <1>2
<1>3. CASE received' > received /\ consumed' = consumed
  <2>1. Bytes(consumed, received') = Bytes(consumed, received) \o Bytes(received, received')
    <3>1. received <= received'
      BY <1>1, <1>3
    <3> QED BY <1>1, <3>1, BytesAppended
  <2>2. Pending' = Pending \o Bytes(received, received')
    BY <1>1, <1>3, <2>1
  <2> QED BY <1>3, <2>2 DEF Fifo!Next, Fifo!Arrive, Bytes
<1>4. CASE received' = received /\ consumed' > consumed
  <2>1. Len(Pending) = received - consumed /\ Len(Pending') = received - consumed'
    BY <1>1, <1>4, BytesLen
  <2>2. Pending' = SubSeq(Pending, (consumed' - consumed) + 1, received - consumed)
    <3>1. consumed <= consumed' /\ consumed' <= received
      BY <1>1, <1>4
    <3> QED BY <1>1, <1>4, <3>1, BytesTaken
  <2>3. (consumed' - consumed) + 1 = Len(Pending) - Len(Pending') + 1
    BY <1>1, <2>1
  <2>4. Len(Pending') < Len(Pending)
    BY <1>1, <1>4, <2>1
  <2>5. Pending' = SubSeq(Pending, Len(Pending) - Len(Pending') + 1, Len(Pending))
    BY <2>1, <2>2, <2>3
  <2> QED BY <1>4, <2>4, <2>5 DEF Fifo!Next, Fifo!Take
<1>5. CASE received' = 0 /\ consumed' = 0
  BY <1>1, <1>5, BytesEmpty DEF Fifo!Next, Fifo!Reset
<1> QED BY <1>2, <1>3, <1>4, <1>5

LEMMA StepRefines == IInv /\ IInv' /\ [Next]_vars => [Fifo!Next]_<<received, Pending>>
<1> SUFFICES ASSUME IInv, IInv', [Next]_vars PROVE [Fifo!Next]_<<received, Pending>>
  OBVIOUS
<1>0. Buffer /\ Buffer' /\ Cursors /\ start \in Nat /\ received \in Nat /\ consumed \in Nat
      /\ end \in Nat /\ start <= end
  BY DEF IInv, Buffer, Sound
<1>1. CASE \/ SearchHeader \/ SearchFails \/ RefuseUpgrade \/ TopOfLoop \/ TopOfLoopShrinks
           \/ (\E need \in 1..MaxFrame : FillFrom(need))
           \/ FillBlocks \/ NeedMore \/ UNCHANGED vars
  <2>1. UNCHANGED <<received, consumed>>
    BY <1>1
    DEF SearchHeader, SearchFails, RefuseUpgrade, TopOfLoop, TopOfLoopShrinks, FillFrom,
        FillBlocks, NeedMore, vars
  <2> QED BY <1>0, <2>1, CountsDecide
<1>2. ASSUME NEW n \in 1..MaxBytes, SearchOn(n) \/ HeaderFound(n) \/ FillRead(n)
      PROVE  [Fifo!Next]_<<received, Pending>>
  <2>1. n \in Nat /\ n > 0 /\ received' = received + n /\ consumed' = consumed
    BY <1>2, ReadBufAssumption
    DEF ReadBufAssumption, SearchOn, HeaderFound, FillRead, ReadBytes
  <2>2. received' > received
    BY <1>0, <2>1
  <2> QED BY <1>0, <2>1, <2>2, CountsDecide
<1>3. ASSUME NEW n \in 1..MaxBytes, AcceptUpgrade(n)
      PROVE  [Fifo!Next]_<<received, Pending>>
  <2>1. received' = received /\ consumed' > consumed
    BY <1>0, <1>3, ReadBufAssumption DEF ReadBufAssumption, AcceptUpgrade
  <2> QED BY <1>0, <2>1, CountsDecide
<1>4. CASE ConsumeFrame
  <2>1. target \in Nat /\ start <= target
    BY <1>0, <1>4 DEF ConsumeFrame, Cursors
  <2>2. received' = received /\ consumed' = consumed + (target - start)
    BY <1>4 DEF ConsumeFrame
  <2>3. consumed' = consumed \/ consumed' > consumed
    BY <1>0, <2>1, <2>2
  <2> QED BY <1>0, <2>2, <2>3, CountsDecide
<1>5. CASE Connect \/ Disconnect
  <2>1. received' = 0 /\ consumed' = 0
    BY <1>5 DEF Connect, Disconnect
  <2> QED BY <1>0, <2>1, CountsDecide
<1> QED BY <1>1, <1>2, <1>3, <1>4, <1>5 DEF Next

(* The read buffer is a queue of the bytes of its stream: what compaction, *)
(* growth, shrinking and retries do to the memory never shows.             *)
THEOREM QueueOfBytes == Spec => ImplementsFifo
<1>1. Init => Fifo!Init
  BY DEF Init, Fifo!Init, Pending
<1>2. IInv /\ IInv' /\ [Next]_vars => [Fifo!Next]_<<received, Pending>>
  BY StepRefines
<1> QED
  BY <1>1, <1>2, Invariance, PTL DEF Spec, ImplementsFifo, Fifo!Spec
=============================================================================
