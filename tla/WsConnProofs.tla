---------------------------- MODULE WsConnProofs ----------------------------
(***************************************************************************)
(* The safety of WsConn for every size of frames, buffers and budgets and  *)
(* every number of frames: the send side keeps the stream whole, the read  *)
(* side keeps messages and the flood score right.                          *)
(***************************************************************************)
EXTENDS WsConn, SequenceTheorems, TLAPS

SendTypes ==
  /\ buf \in Seq(Unit) /\ wire \in Seq(Unit) /\ pos \in 0..Len(buf)
  /\ built \in Seq(Opcodes) /\ broken \in BOOLEAN

\* Everything the server has read or will read of this connection.
Stream == wire \o Rest

\* A broken stream takes nothing more.
StaysBroken == broken => broken' /\ wire' = wire

\* No frame was built: what was pending went out in part.
SendKept ==
  SendTypes' /\ built' = built /\ Stream' = Stream /\ PendingLen' <= PendingLen /\ StaysBroken

\* One frame was built behind all others.
SendAdds(op) ==
  /\ SendTypes' /\ built' = Append(built, op) /\ StaysBroken
  /\ Stream' = Stream \o Units(op, Len(built) + 1)

\* A sequence from some place on.
LEMMA TailIs ==
  ASSUME NEW S, NEW b \in Seq(S), NEW p \in 0..Len(b)
  PROVE  /\ SubSeq(b, p + 1, Len(b)) \in Seq(S) /\ Len(SubSeq(b, p + 1, Len(b))) = Len(b) - p
         /\ \A i \in 1..(Len(b) - p) : SubSeq(b, p + 1, Len(b))[i] = b[p + i]
<1>1. PICK n \in Nat : n = Len(b) /\ \A i \in 1..n : b[i] \in S
  BY LenProperties
<1>2. p \in Nat /\ p <= n
  BY <1>1
<1>3. PICK j \in Nat : j = p + 1
  BY <1>2
<1>4. \A i \in j..n : b[i] \in S
  BY <1>1, <1>2, <1>3
<1>5. /\ SubSeq(b, j, n) \in Seq(S) /\ Len(SubSeq(b, j, n)) = IF j <= n THEN n - j + 1 ELSE 0
      /\ \A i \in 1..(n - j + 1) : SubSeq(b, j, n)[i] = b[j + i - 1]
  BY <1>4, SubSeqProperties
<1>6. /\ n - j + 1 = n - p /\ \A i \in 1..(n - j + 1) : j + i - 1 = p + i
      /\ IF j <= n THEN n - j + 1 = n - p ELSE 0 = n - p
  BY ONLY <1>2, <1>3, n \in Nat, j \in Nat
<1>7. Len(SubSeq(b, j, n)) = n - p
  BY ONLY <1>5, <1>6
<1>8. \A i \in 1..(n - p) : SubSeq(b, j, n)[i] = b[p + i]
  BY ONLY <1>5, <1>6
<1> QED  BY <1>1, <1>3, <1>5, <1>7, <1>8

\* Cutting a sequence in two.
LEMMA CutInTwo ==
  ASSUME NEW S, NEW b \in Seq(S), NEW p \in 0..Len(b), NEW k \in 0..(Len(b) - p)
  PROVE  /\ SubSeq(b, p + 1, p + k) \in Seq(S) /\ SubSeq(b, p + k + 1, Len(b)) \in Seq(S)
         /\ Len(SubSeq(b, p + k + 1, Len(b))) = Len(b) - p - k
         /\ SubSeq(b, p + 1, p + k) \o SubSeq(b, p + k + 1, Len(b)) = SubSeq(b, p + 1, Len(b))
<1>1. Len(b) \in Nat /\ \A i \in 1..Len(b) : b[i] \in S
  BY LenProperties
<1>2. SubSeq(b, p + 1, p + k) \in Seq(S) /\ SubSeq(b, p + k + 1, Len(b)) \in Seq(S)
  BY <1>1, SubSeqProperties
<1>3. Len(SubSeq(b, p + k + 1, Len(b))) = Len(b) - p - k
  BY <1>1, SubSeqProperties
<1>4. SubSeq(b, p + 1, p + k) \o SubSeq(b, p + k + 1, Len(b)) = SubSeq(b, p + 1, Len(b))
  <2>1. PICK m, n \in Nat : m = p + 1 /\ n = p + k
    BY <1>1
  <2>2. m \in 1..(Len(b) + 1) /\ n \in (m - 1)..Len(b) /\ Len(b) \in n..Len(b)
    BY <1>1, <2>1
  <2>3. SubSeq(b, m, n) \o SubSeq(b, n + 1, Len(b)) = SubSeq(b, m, Len(b))
    BY <2>2, ConcatAdjacentSubSeq
  <2> QED  BY <2>1, <2>3
<1> QED  BY <1>2, <1>3, <1>4

\* What flush does to the stream, whatever part of the buffer it writes.
LEMMA FlushMoves ==
  ASSUME wire \in Seq(Unit), broken \in BOOLEAN,
         NEW b \in Seq(Unit), NEW p \in 0..Len(b), NEW k \in 0..(Len(b) - p),
         NEW ending \in Endings, Flushes(b, p, k, ending)
  PROVE  /\ wire' \in Seq(Unit) /\ broken' \in BOOLEAN /\ StaysBroken
         /\ wire' \o SubSeq(b, p + k + 1, Len(b)) = wire \o SubSeq(b, p + 1, Len(b))
         /\ ending = "ok" => p + k = Len(b)
         /\ ending = "fail" => broken'
<1>1. Len(b) \in Nat
  BY LenProperties
<1>2. wire' = wire \o SubSeq(b, p + 1, p + k)
  BY DEF Flushes
<1>3. wire' \in Seq(Unit)
  BY <1>2, CutInTwo, ConcatProperties
<1>4. /\ ending = "ok" => ~broken /\ p + k = Len(b) /\ broken' = broken
      /\ ending = "block" => ~broken /\ broken' = broken
      /\ ending = "fail" => (broken => k = 0) /\ broken' = TRUE
  BY DEF Flushes
<1>5. broken' \in BOOLEAN
  BY <1>4 DEF Endings
<1>6. StaysBroken
  <2> SUFFICES ASSUME broken PROVE broken' /\ wire' = wire
    BY DEF StaysBroken
  <2>1. k = 0 /\ broken' = TRUE
    BY <1>4 DEF Endings
  <2>2. SubSeq(b, p + 1, p + k) = <<>>
    BY <1>1, <2>1, SubSeqEmpty
  <2> QED  BY <1>2, <2>1, <2>2, ConcatEmptySeq
<1>7. wire' \o SubSeq(b, p + k + 1, Len(b)) = wire \o SubSeq(b, p + 1, Len(b))
  <2>1. PICK x \in Seq(Unit) : x = SubSeq(b, p + 1, p + k)
    BY CutInTwo
  <2>2. PICK y \in Seq(Unit) : y = SubSeq(b, p + k + 1, Len(b))
    BY CutInTwo
  <2>3. x \o y = SubSeq(b, p + 1, Len(b))
    BY <2>1, <2>2, CutInTwo
  <2>4. wire' \o y = wire \o (x \o y)
    <3>1. (wire \o x) \o y = wire \o (x \o y)
      OBVIOUS
    <3> QED  BY <3>1, <1>2, <2>1
  <2> QED  BY <2>2, <2>3, <2>4
<1> QED  BY <1>3, <1>4, <1>5, <1>6, <1>7

\* Nothing is pending behind the end.
LEMMA NothingBehind ==
  ASSUME NEW b \in Seq(Unit)
  PROVE  SubSeq(b, Len(b) + 1, Len(b)) = <<>>
BY LenProperties, SubSeqEmpty

\* maybe_shrink after everything was written.
LEMMA ShrinkKeeps ==
  ASSUME NEW b \in Seq(Unit), MaybeShrink(b, Len(b))
  PROVE  buf' \in Seq(Unit) /\ pos' \in 0..Len(buf') /\ Rest' = <<>> /\ PendingLen' = 0
<1>1. Len(b) \in Nat
  BY LenProperties
<1>2. CASE buf' = b /\ pos' = Len(b)
  BY <1>1, <1>2, NothingBehind DEF Rest, PendingLen
<1>3. CASE buf' = <<>> /\ pos' = 0
  <2>1. <<>> \in Seq(Unit) /\ Len(<<>>) = 0
    BY EmptySeq
  <2>2. Rest' = <<>>
    BY <1>3, <2>1, SubSeqEmpty DEF Rest
  <2> QED  BY <1>3, <2>1, <2>2 DEF PendingLen
<1> QED  BY <1>2, <1>3 DEF MaybeShrink

\* A frame, as units of the buffer.
LEMMA UnitsAre ==
  ASSUME NEW op \in Opcodes, NEW n \in 1..(MaxBuilt + MaxArrivals)
  PROVE  /\ Units(op, n) \in Seq(Unit) /\ Len(Units(op, n)) = FrameSize /\ FrameSize \in Nat \ {0}
         /\ \A i \in 1..FrameSize : Units(op, n)[i] = [op |-> op, frame |-> n, part |-> i]
<1>1. FrameSize \in Nat \ {0}
  BY WsAssumption DEF WsAssumption
<1>2. Units(op, n) \in [1..FrameSize -> Unit]
  BY DEF Units, Unit
<1> QED  BY <1>1, <1>2 DEF Units

\* What is pending, as a sequence.
LEMMA RestIs ==
  ASSUME buf \in Seq(Unit), pos \in 0..Len(buf)
  PROVE  Rest \in Seq(Unit) /\ Len(Rest) = Len(buf) - pos /\ Len(buf) \in Nat
<1>1. Len(buf) \in Nat /\ \A i \in 1..Len(buf) : buf[i] \in Unit
  BY LenProperties
<1> QED  BY <1>1, SubSeqProperties DEF Rest

\* flush, and try_flush, of what is pending.
LEMMA FlushKeeps ==
  ASSUME SendTypes, NEW k \in 0..PendingLen, NEW ending \in Endings,
         Flushes(buf, pos, k, ending), built' = built,
         \/ buf' = buf /\ pos' = pos + k
         \/ ending = "ok" /\ MaybeShrink(buf, pos + k)
  PROVE  SendKept
<1>1. Len(buf) \in Nat /\ pos \in 0..Len(buf) /\ k \in 0..(Len(buf) - pos)
  BY LenProperties DEF SendTypes, PendingLen
<1>2. /\ wire' \in Seq(Unit) /\ broken' \in BOOLEAN /\ StaysBroken
      /\ wire' \o SubSeq(buf, pos + k + 1, Len(buf)) = Stream
      /\ ending = "ok" => pos + k = Len(buf)
  BY <1>1, FlushMoves DEF SendTypes, Stream, Rest
<1>3. CASE buf' = buf /\ pos' = pos + k
  <2>1. PendingLen' <= PendingLen /\ pos' \in 0..Len(buf')
    BY <1>1, <1>3 DEF PendingLen
  <2>2. Stream' = Stream
    BY <1>2, <1>3 DEF Stream, Rest
  <2> QED  BY <1>2, <1>3, <2>1, <2>2 DEF SendKept, SendTypes
<1>4. CASE ending = "ok" /\ MaybeShrink(buf, pos + k)
  <2>1. buf' \in Seq(Unit) /\ pos' \in 0..Len(buf') /\ Rest' = <<>> /\ PendingLen' = 0
    BY <1>2, <1>4, ShrinkKeeps DEF SendTypes
  <2>2. SubSeq(buf, pos + k + 1, Len(buf)) = <<>>
    BY <1>1, <1>2, <1>4, SubSeqEmpty
  <2>3. Stream' = Stream
    BY <1>2, <2>1, <2>2 DEF Stream
  <2> QED  BY <1>1, <1>2, <2>1, <2>3 DEF SendKept, SendTypes, PendingLen
<1> QED  BY <1>3, <1>4

\* What is pending when more is put behind it.
LEMMA CutConcat ==
  ASSUME NEW S, NEW a \in Seq(S), NEW f \in Seq(S), NEW p \in 0..Len(a)
  PROVE  SubSeq(a \o f, p + 1, Len(a \o f)) = SubSeq(a, p + 1, Len(a)) \o f
<1>1. PICK m \in Nat, n \in Nat : m = Len(a) /\ n = Len(f)
  BY LenProperties
<1>0. p \in Nat /\ p <= m /\ m + n \in Nat /\ p + 1 \in Nat
  BY <1>1
<1>2. PICK b \in Seq(S) : b = a \o f /\ Len(b) = m + n
  BY <1>1, ConcatProperties
<1>3. \A i \in 1..(m + n) : b[i] = IF i <= m THEN a[i] ELSE f[i - m]
  BY <1>1, <1>2
<1>4. PICK x \in Seq(S) : x = SubSeq(b, p + 1, m + n) /\ Len(x) = m + n - p
                        /\ \A i \in 1..(m + n - p) : x[i] = b[p + i]
  <2>1. p \in 0..Len(b)
    BY <1>0, <1>2
  <2>2. /\ SubSeq(b, p + 1, Len(b)) \in Seq(S) /\ Len(SubSeq(b, p + 1, Len(b))) = Len(b) - p
        /\ \A i \in 1..(Len(b) - p) : SubSeq(b, p + 1, Len(b))[i] = b[p + i]
    BY <2>1, TailIs
  <2>3. /\ SubSeq(b, p + 1, m + n) \in Seq(S) /\ Len(SubSeq(b, p + 1, m + n)) = m + n - p
        /\ \A i \in 1..(m + n - p) : SubSeq(b, p + 1, m + n)[i] = b[p + i]
    BY ONLY <2>2, <1>2
  <2> QED  BY ONLY <2>3
<1>5. PICK r \in Seq(S) : r = SubSeq(a, p + 1, m) /\ Len(r) = m - p
                        /\ \A i \in 1..(m - p) : r[i] = a[p + i]
  <2>1. /\ SubSeq(a, p + 1, Len(a)) \in Seq(S) /\ Len(SubSeq(a, p + 1, Len(a))) = Len(a) - p
        /\ \A i \in 1..(Len(a) - p) : SubSeq(a, p + 1, Len(a))[i] = a[p + i]
    BY TailIs
  <2> QED  BY ONLY <2>1, <1>1
<1>6. PICK y \in Seq(S) : y = r \o f /\ Len(y) = m + n - p
        /\ \A i \in 1..(m + n - p) : y[i] = IF i <= m - p THEN r[i] ELSE f[i - (m - p)]
  <2>1. /\ r \o f \in Seq(S) /\ Len(r \o f) = Len(r) + Len(f)
        /\ \A i \in 1..(Len(r) + Len(f)) : (r \o f)[i] = IF i <= Len(r) THEN r[i] ELSE f[i - Len(r)]
    BY ConcatProperties
  <2>2. Len(r) = m - p /\ Len(f) = n
    BY <1>1, <1>5
  <2>3. Len(r) + Len(f) = m + n - p
    BY ONLY <2>2, <1>0, m \in Nat, n \in Nat
  <2>4. \A i \in 1..(m + n - p) : (r \o f)[i] = IF i <= m - p THEN r[i] ELSE f[i - (m - p)]
    BY ONLY <2>1, <2>2, <2>3
  <2>5. r \o f \in Seq(S) /\ Len(r \o f) = m + n - p
    BY ONLY <2>1, <2>3
  <2> QED  BY ONLY <2>4, <2>5
<1>7. ASSUME NEW i \in 1..(m + n - p) PROVE x[i] = y[i]
  <2>1. p \in 0..m /\ p + i \in 1..(m + n)
    BY <1>1
  <2>2. CASE i <= m - p
    <3>1. p + i <= m /\ i \in 1..(m - p)
      BY <2>1, <2>2, <1>1
    <3> QED  BY <2>1, <2>2, <3>1, <1>3, <1>4, <1>5, <1>6
  <2>3. CASE ~(i <= m - p)
    <3>1. ~(p + i <= m) /\ p + i - m = i - (m - p)
      BY <2>1, <2>3, <1>1
    <3>2. x[i] = f[p + i - m]
      BY <2>1, <3>1, <1>3, <1>4
    <3> QED  BY <2>3, <3>1, <3>2, <1>6
  <2> QED  BY <2>2, <2>3
<1>8. x = y
  BY <1>4, <1>6, <1>7, SeqEqual
<1> QED  BY <1>1, <1>2, <1>4, <1>5, <1>6, <1>8

\* A frame that is built behind what is pending, and written in part.
LEMMA BuildAdds ==
  ASSUME SendTypes, NEW op \in Opcodes, Len(built) < MaxBuilt + MaxArrivals, BuildAndTryFlush(op)
  PROVE  SendAdds(op) /\ PendingLen' <= PendingLen + FrameSize
<1> DEFINE n == Len(built) + 1
<1>1. Len(buf) \in Nat /\ pos \in 0..Len(buf) /\ Len(built) \in Nat
  BY LenProperties DEF SendTypes
<1>2. PICK f \in Seq(Unit) : f = Units(op, n) /\ Len(f) = FrameSize /\ FrameSize \in Nat
  <2>1. n \in 1..(MaxBuilt + MaxArrivals)
    BY <1>1, WsAssumption DEF WsAssumption
  <2> QED  BY <2>1, UnitsAre
<1>3. PICK b \in Seq(Unit) : b = buf \o f /\ buf' = b /\ Len(b) = Len(buf) + FrameSize
  BY <1>2, ConcatProperties DEF SendTypes, BuildAndTryFlush
<1>4. PICK k \in 0..(Len(b) - pos), ending \in Endings : Flushes(b, pos, k, ending) /\ pos' = pos + k
  BY <1>1, <1>2, <1>3 DEF BuildAndTryFlush, PendingLen
<1>5. /\ wire' \in Seq(Unit) /\ broken' \in BOOLEAN /\ StaysBroken
      /\ wire' \o SubSeq(b, pos + k + 1, Len(b)) = wire \o SubSeq(b, pos + 1, Len(b))
  <2>1. pos \in 0..Len(b)
    BY <1>1, <1>2, <1>3
  <2> QED  BY <2>1, <1>4, FlushMoves DEF SendTypes
<1>6. wire \o SubSeq(b, pos + 1, Len(b)) = Stream \o f
  <2>1. PICK r \in Seq(Unit) : r = SubSeq(buf, pos + 1, Len(buf)) /\ Len(r) = Len(buf) - pos
    <3>1. Rest \in Seq(Unit) /\ Len(Rest) = Len(buf) - pos
      BY RestIs DEF SendTypes
    <3> QED  BY <3>1 DEF Rest
  <2>2. SubSeq(b, pos + 1, Len(b)) = r \o f
    BY <1>3, <2>1, CutConcat DEF SendTypes
  <2>3. (wire \o r) \o f = wire \o (r \o f)
    BY DEF SendTypes
  <2> QED  BY <2>1, <2>2, <2>3 DEF Stream, Rest
<1>7. built' = Append(built, op) /\ built' \in Seq(Opcodes)
  BY AppendProperties DEF SendTypes, BuildAndTryFlush
<1>8. Stream' = Stream \o Units(op, n)
  BY <1>2, <1>3, <1>4, <1>5, <1>6 DEF Stream, Rest
<1>9. pos' \in 0..Len(buf') /\ PendingLen' <= PendingLen + FrameSize
  BY <1>1, <1>2, <1>3, <1>4 DEF PendingLen
<1> QED  BY <1>3, <1>5, <1>7, <1>8, <1>9 DEF SendAdds, SendTypes

\* What is left of two sequences when the first is through.
LEMMA SkipConcat ==
  ASSUME NEW S, NEW a \in Seq(S), NEW f \in Seq(S), NEW k \in 0..Len(f)
  PROVE  SubSeq(a \o f, Len(a) + k + 1, Len(a \o f)) = SubSeq(f, k + 1, Len(f))
<1>1. PICK m \in Nat, n \in Nat : m = Len(a) /\ n = Len(f)
  BY LenProperties
<1>2. k \in Nat /\ k <= n /\ m + n \in Nat /\ m + k \in Nat /\ m + k <= m + n
  BY <1>1
<1>3. PICK b \in Seq(S) : b = a \o f /\ Len(b) = m + n
  BY <1>1, ConcatProperties
<1>4. \A i \in 1..(m + n) : b[i] = IF i <= m THEN a[i] ELSE f[i - m]
  BY <1>1, <1>3
<1>5. PICK x \in Seq(S) : x = SubSeq(b, m + k + 1, m + n) /\ Len(x) = n - k
                        /\ \A i \in 1..(n - k) : x[i] = b[m + k + i]
  <2>1. m + k \in 0..Len(b)
    BY <1>2, <1>3
  <2>2. /\ SubSeq(b, m + k + 1, Len(b)) \in Seq(S) /\ Len(SubSeq(b, m + k + 1, Len(b))) = Len(b) - (m + k)
        /\ \A i \in 1..(Len(b) - (m + k)) : SubSeq(b, m + k + 1, Len(b))[i] = b[m + k + i]
    BY <2>1, TailIs
  <2>3. Len(b) - (m + k) = n - k
    BY ONLY <1>2, <1>3, m \in Nat, n \in Nat, k \in Nat
  <2> QED  BY <2>2, <2>3, <1>3
<1>6. PICK y \in Seq(S) : y = SubSeq(f, k + 1, n) /\ Len(y) = n - k
                        /\ \A i \in 1..(n - k) : y[i] = f[k + i]
  <2>1. k \in 0..Len(f)
    OBVIOUS
  <2>2. /\ SubSeq(f, k + 1, Len(f)) \in Seq(S) /\ Len(SubSeq(f, k + 1, Len(f))) = Len(f) - k
        /\ \A i \in 1..(Len(f) - k) : SubSeq(f, k + 1, Len(f))[i] = f[k + i]
    BY <2>1, TailIs
  <2> QED  BY ONLY <2>2, <1>1
<1>7. ASSUME NEW i \in 1..(n - k) PROVE x[i] = y[i]
  <2>1. m + k + i \in 1..(m + n) /\ ~(m + k + i <= m) /\ m + k + i - m = k + i
    BY ONLY <1>2, m \in Nat, n \in Nat, i \in 1..(n - k)
  <2>2. b[m + k + i] = f[m + k + i - m]
    BY <2>1, <1>4
  <2> QED  BY <2>1, <2>2, <1>5, <1>6
<1>8. x = y
  BY <1>5, <1>6, <1>7, SeqEqual
<1> QED  BY <1>1, <1>3, <1>5, <1>6, <1>8

\* send_frame: what it returns tells what it did.
LEMMA SendFrameDoes ==
  ASSUME SendTypes, NEW op \in Opcodes, NEW out, SendFrame(op, out)
  PROVE  \/ SendKept /\ out \in {"retryLater", "error"}
         \/ /\ SendAdds(op) /\ Len(built) < MaxBuilt /\ PendingLen' <= FrameSize
            /\ out \in {"done", "queued", "error"} /\ (out = "error" => broken')
<1>0. Len(buf) \in Nat /\ pos \in 0..Len(buf) /\ Len(built) \in Nat /\ Len(built) < MaxBuilt
  BY LenProperties DEF SendTypes, SendFrame
<1>1. CASE /\ out \in {"retryLater", "error"} /\ HasPending /\ UNCHANGED built
           /\ \E k \in 0..PendingLen :
                /\ Flushes(buf, pos, k, IF out = "error" THEN "fail" ELSE "block")
                /\ buf' = buf /\ pos' = pos + k
  <2>1. PICK k \in 0..PendingLen, ending \in Endings :
          Flushes(buf, pos, k, ending) /\ buf' = buf /\ pos' = pos + k
    BY <1>1 DEF Endings
  <2>2. SendKept
    BY <1>1, <2>1, FlushKeeps
  <2> QED  BY <1>1, <2>2
<1>2. CASE /\ out \in {"done", "queued", "error"} /\ built' = Append(built, op)
           /\ LET frame == Units(op, Len(built) + 1)
              IN  \E k \in 0..FrameSize :
                    /\ Flushes(Rest \o frame, 0, Len(Rest) + k,
                               CASE out = "done" -> "ok" [] out = "queued" -> "block"
                                 [] out = "error" -> "fail")
                    /\ IF out = "done" THEN MaybeShrink(frame, k) ELSE buf' = frame /\ pos' = k
  <2>1. PICK r \in Seq(Unit) : r = Rest
    BY RestIs DEF SendTypes
  <2>2. PICK f \in Seq(Unit) : f = Units(op, Len(built) + 1) /\ Len(f) = FrameSize /\ FrameSize \in Nat
    <3>1. Len(built) + 1 \in 1..(MaxBuilt + MaxArrivals)
      BY <1>0, WsAssumption DEF WsAssumption
    <3> QED  BY <3>1, UnitsAre
  <2>3. PICK k \in 0..FrameSize, ending \in Endings :
          /\ Flushes(r \o f, 0, Len(r) + k, ending)
          /\ out = "done" => ending = "ok" /\ MaybeShrink(f, k)
          /\ out # "done" => buf' = f /\ pos' = k
          /\ out = "error" => ending = "fail"
    BY <1>2, <2>1, <2>2 DEF Endings
  <2>4. PICK b \in Seq(Unit) : b = r \o f /\ Len(b) = Len(r) + FrameSize
    BY <2>2, ConcatProperties
  <2>5. PICK m \in Nat : m = Len(r)
    BY LenProperties
  <2>6. m + k \in 0..(Len(b) - 0) /\ 0 \in 0..Len(b)
    BY <2>2, <2>4, <2>5
  <2>7. /\ wire' \in Seq(Unit) /\ broken' \in BOOLEAN /\ StaysBroken
        /\ wire' \o SubSeq(b, 0 + (m + k) + 1, Len(b)) = wire \o SubSeq(b, 0 + 1, Len(b))
        /\ ending = "ok" => 0 + (m + k) = Len(b)
        /\ ending = "fail" => broken'
    <3>1. Flushes(b, 0, m + k, ending)
      BY <2>3, <2>4, <2>5
    <3> QED  BY <2>6, <3>1, FlushMoves DEF SendTypes
  <2>8. SubSeq(b, 0 + 1, Len(b)) = b
    BY SubSeqFull
  <2>9. SubSeq(b, 0 + (m + k) + 1, Len(b)) = SubSeq(f, k + 1, FrameSize)
    <3>1. SubSeq(r \o f, Len(r) + k + 1, Len(r \o f)) = SubSeq(f, k + 1, Len(f))
      BY <2>2, SkipConcat
    <3>2. 0 + (m + k) + 1 = m + k + 1
      BY <2>2
    <3> QED  BY <3>1, <3>2, <2>2, <2>4, <2>5
  <2>10. wire \o b = Stream \o f
    <3>1. (wire \o r) \o f = wire \o (r \o f)
      BY DEF SendTypes
    <3> QED  BY <3>1, <2>1, <2>4 DEF Stream
  <2>11. wire' \o SubSeq(f, k + 1, FrameSize) = Stream \o f
    BY <2>7, <2>8, <2>9, <2>10
  <2>12. /\ buf' \in Seq(Unit) /\ pos' \in 0..Len(buf') /\ PendingLen' <= FrameSize
         /\ Rest' = SubSeq(f, k + 1, FrameSize)
    <3>1. CASE out = "done"
      <4>1. k = Len(f)
        BY ONLY <3>1, <2>2, <2>3, <2>4, <2>5, <2>7
      <4>2. buf' \in Seq(Unit) /\ pos' \in 0..Len(buf') /\ Rest' = <<>> /\ PendingLen' = 0
        BY <3>1, <4>1, <2>3, ShrinkKeeps
      <4>3. SubSeq(f, k + 1, FrameSize) = <<>>
        BY <4>1, <2>2, NothingBehind
      <4>4. PendingLen' <= FrameSize
        BY ONLY <4>2, <2>2
      <4> QED  BY ONLY <4>2, <4>3, <4>4
    <3>2. CASE out # "done"
      <4>1. buf' = f /\ pos' = k /\ Len(buf') = FrameSize
        BY <3>2, <2>2, <2>3
      <4>2. PendingLen' = FrameSize - k
        BY <4>1 DEF PendingLen
      <4>3. Rest' = SubSeq(f, k + 1, FrameSize)
        BY <4>1 DEF Rest
      <4>4. k \in 0..FrameSize /\ FrameSize - k <= FrameSize
        BY ONLY <2>2, k \in 0..FrameSize
      <4> QED  BY ONLY <4>1, <4>2, <4>3, <4>4, f \in Seq(Unit)
    <3> QED  BY <3>1, <3>2
  <2>13. Stream' = Stream \o Units(op, Len(built) + 1)
    BY <2>2, <2>11, <2>12 DEF Stream
  <2>14. built' \in Seq(Opcodes)
    BY <1>2, AppendProperties DEF SendTypes
  <2>15. SendAdds(op)
    BY <1>2, <2>7, <2>12, <2>13, <2>14 DEF SendAdds, SendTypes
  <2> QED  BY <1>0, <1>2, <2>3, <2>7, <2>12, <2>15
<1> QED  BY <1>1, <1>2 DEF SendFrame, Rest

-----------------------------------------------------------------------------
(* The frames of the stream.                                               *)
Sent ==
  /\ AreFrames(Stream, built)
  /\ \A i, j \in 1..Len(Stream) : i < j => Stream[i].frame <= Stream[j].frame
  /\ \A k \in 1..Len(Stream) : Stream[k].frame \in 1..Len(built)

\* Whole frames and one more are whole frames.
LEMMA OneMoreFrame ==
  ASSUME SendTypes, Sent, NEW op \in Opcodes, Len(built) < MaxBuilt + MaxArrivals, SendAdds(op)
  PROVE  Sent'
<1>1. PICK n \in Nat : n = Len(built) /\ n + 1 \in 1..(MaxBuilt + MaxArrivals)
  BY LenProperties, WsAssumption DEF SendTypes, WsAssumption
<1>2. PICK f \in Seq(Unit) : /\ f = Units(op, n + 1) /\ Len(f) = FrameSize /\ FrameSize \in Nat \ {0}
                             /\ \A i \in 1..FrameSize : f[i] = [op |-> op, frame |-> n + 1, part |-> i]
  BY <1>1, UnitsAre
<1>3. PICK s \in Seq(Unit) : s = Stream
  <2>1. Stream \in Seq(Unit)
    BY RestIs, ConcatProperties DEF SendTypes, Stream
  <2> QED  BY <2>1
<1>4. PICK m \in Nat : m = Len(s)
  BY LenProperties
<1>5. PICK t \in Seq(Unit) : t = Stream' /\ t = s \o f
  <2>1. s \o f \in Seq(Unit)
    BY ConcatProperties
  <2> QED  BY <2>1, <1>1, <1>2, <1>3 DEF SendAdds
<1>6. Len(t) = m + FrameSize
  <2>1. Len(s \o f) = Len(s) + Len(f)
    BY ConcatProperties
  <2> QED  BY ONLY <2>1, <1>2, <1>4, <1>5
<1>0. \A i \in 1..(m + FrameSize) : t[i] = IF i <= m THEN s[i] ELSE f[i - m]
  <2>1. \A i \in 1..(Len(s) + Len(f)) : (s \o f)[i] = IF i <= Len(s) THEN s[i] ELSE f[i - Len(s)]
    BY ConcatProperties
  <2> QED  BY ONLY <2>1, <1>2, <1>4, <1>5
<1>7. \A i \in 1..m : t[i] = s[i]
  BY ONLY <1>0, <1>2, m \in Nat
<1>8. \A i \in 1..FrameSize : t[m + i].op = op /\ t[m + i].frame = n + 1 /\ t[m + i].part = i
  <2>1. ASSUME NEW i \in 1..FrameSize PROVE t[m + i] = f[i]
    <3>1. m + i \in 1..(m + FrameSize) /\ ~(m + i <= m) /\ m + i - m = i
      BY ONLY <1>2, m \in Nat, i \in 1..FrameSize
    <3> QED  BY <3>1, <1>0
  <2>2. ASSUME NEW i \in 1..FrameSize PROVE f[i].op = op /\ f[i].frame = n + 1 /\ f[i].part = i
    <3>1. f[i] = [op |-> op, frame |-> n + 1, part |-> i]
      BY <1>2
    <3> QED  BY ONLY <3>1
  <2> QED  BY ONLY <2>1, <2>2
<1>9. PICK c \in Seq(Opcodes) : /\ c = built' /\ Len(c) = n + 1 /\ c[n + 1] = op
                                /\ \A i \in 1..n : c[i] = built[i]
  <2>1. /\ Append(built, op) \in Seq(Opcodes) /\ Len(Append(built, op)) = Len(built) + 1
        /\ \A i \in 1..Len(built) : Append(built, op)[i] = built[i]
        /\ Append(built, op)[Len(built) + 1] = op
    BY AppendProperties DEF SendTypes
  <2>2. built' = Append(built, op)
    BY DEF SendAdds
  <2> QED  BY ONLY <2>1, <2>2, <1>1
<1>10. \A k \in 1..Len(t) : k \in 1..m \/ (k - m \in 1..FrameSize /\ m + (k - m) = k)
  BY ONLY <1>2, <1>6, m \in Nat
<1>11. \A k \in 1..m : s[k].frame \in 1..n /\ s[k].op = built[s[k].frame]
  BY <1>1, <1>3, <1>4 DEF Sent, AreFrames
<1>12. m # 0 => s[1].frame = 1 /\ s[1].part = 1 /\ s[m].frame = n /\ s[m].part = FrameSize
  BY <1>1, <1>3, <1>4, EmptySeq DEF Sent, AreFrames
<1>13. m = 0 => n = 0
  <2> SUFFICES ASSUME m = 0 PROVE n = 0
    OBVIOUS
  <2>1. s = <<>>
    BY <1>4, EmptySeq
  <2>2. built = <<>>
    BY <2>1, <1>3 DEF Sent, AreFrames
  <2> QED  BY <2>2, <1>1, EmptySeq
<1>14. \A k \in 1..Len(t) : t[k].frame \in 1..(n + 1)
  BY <1>7, <1>8, <1>10, <1>11
<1>15. \A k \in 1..Len(t) : t[k].op = c[t[k].frame]
  <2> SUFFICES ASSUME NEW k \in 1..Len(t) PROVE t[k].op = c[t[k].frame]
    OBVIOUS
  <2>1. CASE k \in 1..m
    BY <2>1, <1>7, <1>9, <1>11
  <2>2. CASE k - m \in 1..FrameSize /\ m + (k - m) = k
    BY <2>2, <1>8, <1>9
  <2> QED  BY <2>1, <2>2, <1>10
<1>16. \A i, j \in 1..Len(t) : i < j => t[i].frame <= t[j].frame
  <2> SUFFICES ASSUME NEW i \in 1..Len(t), NEW j \in 1..Len(t), i < j PROVE t[i].frame <= t[j].frame
    OBVIOUS
  <2>1. CASE j \in 1..m
    <3>1. i \in 1..m
      BY <2>1, <1>6, <1>4
    <3>2. s[i].frame <= s[j].frame
      BY <2>1, <3>1, <1>3, <1>4 DEF Sent
    <3> QED  BY <2>1, <3>1, <3>2, <1>7
  <2>2. CASE j - m \in 1..FrameSize /\ m + (j - m) = j
    <3>1. t[j].frame = n + 1
      BY <2>2, <1>8
    <3>2. t[i].frame \in 1..(n + 1)
      BY <1>14
    <3> QED  BY <3>1, <3>2
  <2> QED  BY <2>1, <2>2, <1>10
<1>17. \A k \in 1..(Len(t) - 1) : Follows(t[k], t[k + 1])
  <2> SUFFICES ASSUME NEW k \in 1..(Len(t) - 1) PROVE Follows(t[k], t[k + 1])
    OBVIOUS
  <2>1. CASE k + 1 <= m
    <3>1. k \in 1..(Len(s) - 1) /\ k \in 1..m /\ k + 1 \in 1..m
      BY <2>1, <1>4, <1>6
    <3>2. Follows(s[k], s[k + 1])
      BY <3>1, <1>3 DEF Sent, AreFrames
    <3> QED  BY <3>1, <3>2, <1>7
  <2>2. CASE k = m
    <3>1. t[k].frame = n /\ t[k].part = FrameSize
      BY <2>2, <1>4, <1>6, <1>7, <1>12
    <3>2. t[k + 1].frame = n + 1 /\ t[k + 1].part = 1
      BY <2>2, <1>2, <1>8
    <3> QED  BY <3>1, <3>2, <1>2 DEF Follows
  <2>3. CASE k > m
    <3>1. k - m \in 1..FrameSize /\ k - m + 1 \in 1..FrameSize /\ k - m < FrameSize
          /\ m + (k - m) = k /\ m + (k - m + 1) = k + 1
      BY <2>3, <1>2, <1>4, <1>6
    <3>2. t[k].frame = n + 1 /\ t[k].part = k - m /\ t[k + 1].frame = n + 1 /\ t[k + 1].part = k - m + 1
      BY <3>1, <1>8
    <3> QED  BY <3>1, <3>2 DEF Follows
  <2> QED  BY <2>1, <2>2, <2>3, <1>4, <1>6
<1>18. t[1].frame = 1 /\ t[1].part = 1
  <2>1. CASE m = 0
    BY <2>1, <1>2, <1>8, <1>13
  <2>2. CASE m # 0
    BY <2>2, <1>4, <1>7, <1>12
  <2> QED  BY <2>1, <2>2
<1>19. t[Len(t)].frame = Len(c) /\ t[Len(t)].part = FrameSize
  BY <1>2, <1>6, <1>8, <1>9
<1>20. t # <<>> /\ c # <<>>
  BY <1>2, <1>4, <1>6, <1>9, EmptySeq
<1>21. AreFrames(t, c)
  BY <1>15, <1>17, <1>18, <1>19, <1>20 DEF AreFrames
<1> QED  BY <1>5, <1>9, <1>14, <1>16, <1>21 DEF Sent

-----------------------------------------------------------------------------
(* The invariant.                                                          *)
CallTypes ==
  /\ pc \in {"caller", "reading"}
  /\ result \in {"none", "done", "queued", "retryLater", "error", "closing", "message",
                "idle", "close", "pingTimeout"}
  /\ budget \in 0..FrameBudget
  /\ closeState \in {"Open", "CloseSent", "Closed"}
  /\ fragmentOp \in DataOps \cup {"none"}
  /\ pingDeadline \in {"none", "armed", "passed"}
  /\ eof \in BOOLEAN /\ connections \in Nat
  /\ pc = "reading" => closeState # "Closed"

ReadTypes ==
  /\ arrived \in Seq(Frame) /\ Len(arrived) <= MaxArrivals
  /\ got \in 0..Len(arrived) /\ lastActivity \in 0..got

\* Every frame built that is not the caller's answers one that was read.
AnswersOnly == Len(built) <= MaxBuilt + got

Pending ==
  /\ PendingLen < MaxBufSize + 2 * FrameSize
  /\ closeState # "Closed" => PendingLen < MaxBufSize + FrameSize

\* Behind a Close frame only pongs are built, or frames that never get onto the wire.
Closings ==
  /\ closeState = "Open" /\ ~broken => \A i \in 1..Len(built) : built[i] # "close"
  /\ \A i, j \in 1..Len(built) :
       i < j /\ built[i] = "close" /\ built[j] # "pong" =>
         broken /\ \A k \in 1..Len(wire) : wire[k].frame < j

Flood ==
  /\ floodScore \in Nat /\ unrelieved \in Nat /\ bursts \in Nat
  /\ unrelieved <= floodScore /\ unrelieved <= MaxFloodScore
  /\ floodScore <= bursts + 1 /\ floodScore <= MaxFloodScore + 1
  /\ closeState # "Closed" => floodScore <= MaxFloodScore

\* The parts of one message among the first n frames, of which the last may be final.
ArePartsOf(frames, parts, n, final) ==
  /\ parts # <<>>
  /\ frames[parts[1]].op \in DataOps
  /\ \A k \in 1..Len(parts) : frames[parts[k]].fin <=> final /\ k = Len(parts)
  /\ \A k \in 2..Len(parts) : frames[parts[k]].op = "cont" /\ parts[k - 1] < parts[k]
  /\ \A i \in parts[1]..n : frames[i].op \in DataOps \cup {"cont"} => Contains(parts, i)

Parts ==
  /\ fragments \in Seq(1..got) /\ message \in Seq(1..got)
  /\ Len(fragments) <= MaxPayload
  /\ fragmentOp # "none" /\ closeState # "Closed" => ArePartsOf(arrived, fragments, got, FALSE)
  /\ result = "message" => ArePartsOf(arrived, message, message[Len(message)], TRUE)

IInv == /\ CallTypes /\ ReadTypes /\ SendTypes /\ Sent /\ AnswersOnly
        /\ Pending /\ Closings /\ Flood /\ Parts

-----------------------------------------------------------------------------
(* The send side: what a step may do to it.                                *)
OneRead == got' \in {got, got + 1}
Onward  == closeState' \in {closeState, "Closed"}

Rests  == UNCHANGED sendVars /\ OneRead /\ Onward
Drains == SendKept /\ OneRead /\ Onward

Calls(op) ==
  /\ SendAdds(op) /\ Len(built) < MaxBuilt /\ PendingLen' <= FrameSize /\ got' = got
  /\ closeState = "Open"
  /\ op # "close" => closeState' = "Open"
  /\ op = "close" => closeState' = "CloseSent" \/ (closeState' = "Open" /\ broken')

Pongs ==
  /\ SendAdds("pong") /\ PendingLen < MaxBufSize /\ PendingLen' <= PendingLen + FrameSize
  /\ got' = got + 1 /\ got' <= MaxArrivals /\ closeState # "Closed" /\ closeState' = closeState

AnswersClose ==
  /\ SendAdds("close") /\ PendingLen' <= PendingLen + FrameSize
  /\ got' = got + 1 /\ got' <= MaxArrivals /\ closeState = "Open" /\ closeState' = "Closed"

SendSide == SendTypes /\ Sent /\ AnswersOnly /\ Pending /\ Closings

\* The numbers the arithmetic below is about.
LEMMA Sizes ==
  ASSUME IInv
  PROVE  /\ FrameSize \in Nat \ {0} /\ MaxBufSize \in Nat \ {0}
         /\ MaxPayload \in Nat \ {0} /\ FrameBudget \in Nat \ {0}
         /\ MaxBuilt \in Nat /\ MaxArrivals \in Nat /\ MaxFloodScore \in Nat
         /\ Len(buf) \in Nat /\ pos \in 0..Len(buf) /\ PendingLen \in Nat
         /\ Len(built) \in Nat /\ got \in Nat /\ Len(arrived) \in Nat
<1>1. Len(buf) \in Nat /\ Len(built) \in Nat /\ Len(arrived) \in Nat
  BY LenProperties DEF IInv, SendTypes, ReadTypes
<1>2. pos \in 0..Len(buf) /\ got \in 0..Len(arrived)
  BY DEF IInv, SendTypes, ReadTypes
<1>3. PendingLen \in Nat
  BY <1>1, <1>2 DEF PendingLen
<1> QED  BY <1>1, <1>2, <1>3, WsAssumption DEF WsAssumption

\* The caller's frames.
LEMMA CallerSends ==
  ASSUME IInv, SendData \/ SendPing \/ SendClose
  PROVE  Drains \/ \E op \in {"data", "ping", "close"} : Calls(op)
<1>1. PICK op \in {"data", "ping", "close"}, out \in {"done", "queued", "retryLater", "error"} :
        /\ SendFrame(op, out) /\ closeState = "Open" /\ got' = got
        /\ closeState' = IF op = "close" /\ Queued(out) THEN "CloseSent" ELSE closeState
  BY DEF SendData, SendPing, SendClose, MayWrite, sessVars, readVars
<1>2. SendTypes /\ op \in Opcodes
  BY DEF IInv, Opcodes
<1>3. CASE SendKept /\ out \in {"retryLater", "error"}
  BY <1>1, <1>3 DEF Drains, OneRead, Onward, Queued
<1>4. CASE /\ SendAdds(op) /\ Len(built) < MaxBuilt /\ PendingLen' <= FrameSize
           /\ out \in {"done", "queued", "error"} /\ (out = "error" => broken')
  BY <1>1, <1>4 DEF Calls, Queued
<1> QED  BY <1>1, <1>2, <1>3, <1>4, SendFrameDoes

\* The caller's flush, and the one at the start of read_message.
LEMMA CallerFlushes ==
  ASSUME IInv, Flush \/ ReadCall
  PROVE  Drains \/ Rests
<1>1. /\ UNCHANGED built /\ got' = got /\ Onward
      /\ IF HasPending
         THEN \E k \in 0..PendingLen, ending \in Endings :
                /\ Flushes(buf, pos, k, ending)
                /\ \/ buf' = buf /\ pos' = pos + k
                   \/ ending = "ok" /\ MaybeShrink(buf, pos + k)
         ELSE UNCHANGED <<buf, pos, wire, broken>>
  BY DEF Flush, ReadCall, sessVars, readVars, Onward, FailRead
<1>2. CASE HasPending
  BY <1>1, <1>2, FlushKeeps DEF Drains, OneRead, IInv
<1>3. CASE ~HasPending
  BY <1>1, <1>3 DEF Rests, OneRead, sendVars
<1> QED  BY <1>2, <1>3

\* Frames that are left to process are among those that may arrive.
LEMMA FrameIsThere ==
  ASSUME IInv, FrameReady
  PROVE  /\ got + 1 \in 1..Len(arrived) /\ got + 1 <= MaxArrivals /\ This \in Frame
         /\ Len(built) < MaxBuilt + MaxArrivals /\ closeState # "Closed"
<1>1. got + 1 \in 1..Len(arrived) /\ got + 1 <= MaxArrivals
  BY Sizes DEF IInv, ReadTypes, FrameReady
<1>2. This \in Frame
  BY <1>1, ElementOfSeq DEF IInv, ReadTypes, This
<1>3. Len(built) < MaxBuilt + MaxArrivals
  BY <1>1, Sizes DEF IInv, AnswersOnly
<1> QED  BY <1>1, <1>2, <1>3 DEF IInv, CallTypes, FrameReady

\* The answer to a ping.
LEMMA PingAnswered ==
  ASSUME IInv, ReadPing
  PROVE  Drains \/ Pongs
<1>1. got' = got + 1 /\ closeState' = closeState /\ FrameReady
  BY DEF ReadPing, Accepted, Counted
<1>2. CASE RoomForPong
  <2>1. SendAdds("pong") /\ PendingLen' <= PendingLen + FrameSize
    BY <1>1, <1>2, BuildAdds, FrameIsThere DEF ReadPing, IInv, Opcodes
  <2> QED  BY <1>1, <1>2, <2>1, FrameIsThere DEF Pongs, RoomForPong
<1>3. CASE ~RoomForPong
  <2>1. PICK k \in 0..PendingLen, ending \in Endings :
          built' = built /\ buf' = buf /\ Flushes(buf, pos, k, ending) /\ pos' = pos + k
    BY <1>3 DEF ReadPing
  <2> QED  BY <1>1, <2>1, FlushKeeps DEF IInv, Drains, OneRead, Onward
<1> QED  BY <1>2, <1>3

\* The answer to a Close frame.
LEMMA CloseAnswered ==
  ASSUME IInv, ReadClose
  PROVE  Rests \/ AnswersClose
<1>1. got' = got + 1 /\ closeState' = "Closed" /\ FrameReady
  BY DEF ReadClose, Accepted, Counted
<1>2. CASE Echoes
  <2>1. SendAdds("close") /\ PendingLen' <= PendingLen + FrameSize
    BY <1>1, <1>2, BuildAdds, FrameIsThere DEF ReadClose, IInv, Opcodes
  <2> QED  BY <1>1, <1>2, <2>1, FrameIsThere DEF AnswersClose, Echoes
<1>3. CASE ~Echoes
  BY <1>1, <1>3 DEF ReadClose, Rests, OneRead, Onward
<1> QED  BY <1>2, <1>3

\* All other steps leave it alone.
LEMMA OthersRest ==
  ASSUME \/ RefusedCall \/ ReadBadFrame \/ ReadData \/ ReadContinuation \/ ReadPong
         \/ ReadBlocks \/ ReadEof \/ Outside \/ UNCHANGED vars
  PROVE  Rests
<1>1. CASE RefusedCall \/ ReadBlocks \/ ReadEof
  BY <1>1 DEF RefusedCall, ReadBlocks, ReadEof, FailRead, Rests, OneRead, Onward, sessVars, readVars
<1>2. CASE ReadBadFrame \/ ReadData \/ ReadContinuation \/ ReadPong
  BY <1>2 DEF ReadBadFrame, ReadData, ReadContinuation, ReadPong, Accepted, Counted, FailRead,
              Rests, OneRead, Onward
<1>3. CASE Outside
  BY <1>3 DEF Outside, ServerSends, ServerCloses, DeadlinePasses, sessVars, readVars, Rests, OneRead, Onward
<1>4. CASE UNCHANGED vars
  BY <1>4 DEF vars, sessVars, readVars, Rests, OneRead, Onward
<1> QED  BY <1>1, <1>2, <1>3, <1>4

\* Draining, or nothing at all, keeps the send side.
LEMMA DrainsKeeps ==
  ASSUME IInv, Drains \/ Rests
  PROVE  SendSide'
<1>1. /\ SendTypes' /\ built' = built /\ Stream' = Stream /\ PendingLen' <= PendingLen
      /\ StaysBroken /\ OneRead /\ Onward /\ PendingLen' \in Int
  <2>1. CASE Drains
    <3>1. PendingLen' \in Int
      BY <2>1, LenProperties DEF Drains, SendKept, SendTypes, PendingLen
    <3> QED  BY <2>1, <3>1 DEF Drains, SendKept
  <2>2. CASE Rests
    <3>1. UNCHANGED <<buf, pos, wire, built, broken>> /\ OneRead /\ Onward
      BY <2>2 DEF Rests, sendVars
    <3>2. SendTypes' /\ Stream' = Stream /\ StaysBroken
      BY <3>1 DEF IInv, SendTypes, Stream, Rest, StaysBroken
    <3>3. PendingLen' = PendingLen
      BY <3>1 DEF PendingLen
    <3> QED  BY <3>1, <3>2, <3>3, Sizes
  <2> QED  BY <2>1, <2>2
<1>2. Sent'
  BY <1>1 DEF IInv, Sent
<1>3. AnswersOnly'
  BY <1>1, Sizes DEF IInv, AnswersOnly, OneRead
<1>4. Pending'
  BY <1>1, Sizes DEF IInv, Pending, Onward
<1>5. Closings'
  <2>1. closeState' = "Open" /\ ~broken' => closeState = "Open" /\ ~broken
    BY <1>1 DEF Onward, StaysBroken
  <2>2. broken => broken' /\ wire' = wire
    BY <1>1 DEF StaysBroken
  <2> QED  BY <1>1, <2>1, <2>2 DEF IInv, Closings
<1> QED  BY <1>1, <1>2, <1>3, <1>4, <1>5 DEF SendSide

\* One more frame behind those built: what that means for the Close frames.
LEMMA OneMoreClosing ==
  ASSUME IInv, NEW op \in Opcodes, SendAdds(op), closeState = "Open" \/ op = "pong"
  PROVE  \A i, j \in 1..Len(built') :
           i < j /\ built'[i] = "close" /\ built'[j] # "pong" =>
             broken' /\ \A k \in 1..Len(wire') : wire'[k].frame < j
<1>1. PICK n \in Nat : n = Len(built)
  BY Sizes
<1>2. /\ Len(built') = n + 1 /\ built'[n + 1] = op /\ \A i \in 1..n : built'[i] = built[i]
  <2>1. built' = Append(built, op) /\ built \in Seq(Opcodes)
    BY DEF SendAdds, IInv, SendTypes
  <2> QED  BY <2>1, <1>1, AppendProperties
<1>3. broken => broken' /\ wire' = wire
  BY DEF SendAdds, StaysBroken
<1>4. SUFFICES ASSUME NEW i \in 1..(n + 1), NEW j \in 1..(n + 1), i < j,
                      built'[i] = "close", built'[j] # "pong"
               PROVE  broken' /\ \A k \in 1..Len(wire') : wire'[k].frame < j
  BY <1>2
<1>5. i \in 1..n /\ built[i] = "close" /\ (j \in 1..n \/ j = n + 1)
  BY <1>1, <1>2, <1>4
<1>6. CASE j \in 1..n
  BY <1>1, <1>2, <1>3, <1>4, <1>5, <1>6 DEF IInv, Closings
<1>7. CASE j = n + 1
  <2>1. closeState = "Open"
    BY <1>2, <1>4, <1>7
  <2>2. broken
    BY <1>1, <1>5, <2>1 DEF IInv, Closings
  <2>3. \A k \in 1..Len(wire) : wire[k].frame <= n
    <3>1. \A k \in 1..Len(wire) : k \in 1..Len(Stream) /\ Stream[k] = wire[k]
      <4>1. wire \in Seq(Unit) /\ Rest \in Seq(Unit)
        BY RestIs DEF IInv, SendTypes
      <4>2. /\ Len(Stream) = Len(wire) + Len(Rest) /\ Len(wire) \in Nat /\ Len(Rest) \in Nat
            /\ \A k \in 1..(Len(wire) + Len(Rest)) :
                 Stream[k] = IF k <= Len(wire) THEN wire[k] ELSE Rest[k - Len(wire)]
        BY <4>1, ConcatProperties, LenProperties DEF Stream
      <4> QED  BY ONLY <4>2
    <3>2. \A k \in 1..Len(Stream) : Stream[k].frame \in 1..n
      BY <1>1 DEF IInv, Sent
    <3> QED  BY <3>1, <3>2
  <2>4. \A k \in 1..Len(wire) : wire[k].frame \in Nat
    <3>1. \A k \in 1..Len(wire) : wire[k] \in Unit
      BY ElementOfSeq DEF IInv, SendTypes
    <3> QED  BY <3>1 DEF Unit
  <2> QED  BY <1>3, <1>7, <2>2, <2>3, <2>4
<1> QED  BY <1>5, <1>6, <1>7

\* One more frame keeps the send side.
LEMMA SendsKeep ==
  ASSUME IInv, (\E op \in {"data", "ping", "close"} : Calls(op)) \/ Pongs \/ AnswersClose
  PROVE  SendSide'
<1>1. PICK op \in Opcodes :
        SendAdds(op) /\ (Calls(op) \/ (op = "pong" /\ Pongs) \/ (op = "close" /\ AnswersClose))
  BY DEF Opcodes, Calls, Pongs, AnswersClose
<1>2. SendTypes' /\ (broken => broken')
  BY <1>1 DEF SendAdds, StaysBroken
<1>3. Len(built) < MaxBuilt + MaxArrivals
  <2>1. CASE Calls(op)
    BY <2>1, Sizes DEF Calls
  <2>2. CASE Pongs \/ AnswersClose
    BY <2>2, Sizes DEF Pongs, AnswersClose, IInv, AnswersOnly
  <2> QED  BY <1>1, <2>1, <2>2
<1>4. Sent'
  BY <1>1, <1>3, OneMoreFrame DEF IInv
<1>5. /\ Len(built') = Len(built) + 1 /\ built'[Len(built) + 1] = op
      /\ \A i \in 1..Len(built) : built'[i] = built[i]
  <2>1. built' = Append(built, op) /\ built \in Seq(Opcodes)
    BY <1>1 DEF SendAdds, IInv, SendTypes
  <2> QED  BY <2>1, AppendProperties
<1>6. AnswersOnly'
  <2>1. CASE Calls(op)
    BY <2>1, <1>5, Sizes DEF Calls, AnswersOnly
  <2>2. CASE Pongs \/ AnswersClose
    <3>1. Len(built) <= MaxBuilt + got /\ got' = got + 1
      BY <2>2 DEF Pongs, AnswersClose, IInv, AnswersOnly
    <3>2. Len(built) \in Nat /\ MaxBuilt \in Nat /\ got \in Nat /\ Len(built') = Len(built) + 1
      BY <1>5, Sizes
    <3>3. Len(built') <= MaxBuilt + got'
      BY ONLY <3>1, <3>2
    <3> QED  BY <3>3 DEF AnswersOnly
  <2> QED  BY <1>1, <2>1, <2>2
<1>7. Pending'
  <2>1. PendingLen' \in Int
    BY <1>2, LenProperties DEF SendTypes, PendingLen
  <2>0. FrameSize \in Nat \ {0} /\ MaxBufSize \in Nat \ {0} /\ PendingLen \in Nat
    BY Sizes
  <2>2. CASE Calls(op)
    <3>1. PendingLen' <= FrameSize
      BY <2>2 DEF Calls
    <3>2. PendingLen' < MaxBufSize + FrameSize /\ PendingLen' < MaxBufSize + 2 * FrameSize
      BY ONLY <2>0, <2>1, <3>1
    <3> QED  BY <3>2 DEF Pending
  <2>3. CASE Pongs
    <3>1. PendingLen' <= PendingLen + FrameSize /\ PendingLen < MaxBufSize
      BY <2>3 DEF Pongs
    <3>2. PendingLen' < MaxBufSize + FrameSize /\ PendingLen' < MaxBufSize + 2 * FrameSize
      BY ONLY <2>0, <2>1, <3>1
    <3> QED  BY <3>2 DEF Pending
  <2>4. CASE AnswersClose
    <3>1. PendingLen' <= PendingLen + FrameSize /\ PendingLen < MaxBufSize + FrameSize
          /\ closeState' = "Closed"
      BY <2>4 DEF AnswersClose, IInv, Pending
    <3>2. PendingLen' < MaxBufSize + 2 * FrameSize
      BY ONLY <2>0, <2>1, <3>1
    <3> QED  BY <3>1, <3>2 DEF Pending
  <2> QED  BY <1>1, <2>2, <2>3, <2>4
<1>8. Closings'
  <2>1. closeState = "Open" \/ op = "pong"
    BY <1>1 DEF Calls, AnswersClose
  <2>2. ASSUME closeState' = "Open", ~broken', NEW i \in 1..Len(built') PROVE built'[i] # "close"
    <3>1. closeState = "Open" /\ ~broken /\ op # "close"
      BY <2>2, <1>1, <1>2 DEF Calls, Pongs, AnswersClose
    <3>2. i \in 1..Len(built) \/ i = Len(built) + 1
      BY <1>5, Sizes
    <3> QED  BY <3>1, <3>2, <1>5 DEF IInv, Closings
  <2>3. \A i, j \in 1..Len(built') :
          i < j /\ built'[i] = "close" /\ built'[j] # "pong" =>
            broken' /\ \A k \in 1..Len(wire') : wire'[k].frame < j
    BY <1>1, <2>1, OneMoreClosing
  <2> QED  BY <2>2, <2>3 DEF Closings
<1> QED  BY <1>2, <1>4, <1>6, <1>7, <1>8 DEF SendSide

\* A connection that starts has an empty send side.
Fresh == /\ buf = <<>> /\ pos = 0 /\ wire = <<>> /\ built = <<>>
         /\ broken = FALSE /\ got = 0

LEMMA FreshSendSide == Fresh => SendSide
<1> SUFFICES ASSUME Fresh PROVE SendSide
  OBVIOUS
<1> USE DEF Fresh
<1>1. <<>> \in Seq(Unit) /\ <<>> \in Seq(Opcodes) /\ Len(<<>>) = 0
  BY EmptySeq
<1>2. SendTypes
  <2>1. pos \in 0..Len(buf)
    BY <1>1
  <2> QED  BY <1>1, <2>1 DEF SendTypes
<1>3. Rest = <<>> /\ PendingLen = 0
  <2>1. SubSeq(<<>>, 0 + 1, Len(<<>>)) = <<>>
    BY <1>1, SubSeqEmpty
  <2> QED  BY <1>1, <2>1 DEF Rest, PendingLen
<1>4. Stream = <<>>
  BY <1>1, <1>3, ConcatEmptySeq DEF Stream
<1>5. Sent
  BY <1>1, <1>4 DEF Sent, AreFrames
<1>6. AnswersOnly /\ Pending /\ Closings
  BY <1>1, <1>3, WsAssumption DEF AnswersOnly, Pending, Closings, WsAssumption
<1> QED  BY <1>2, <1>5, <1>6 DEF SendSide

\* Every step keeps the send side.
LEMMA SendSideKept ==
  ASSUME IInv, [Next]_vars
  PROVE  SendSide'
<1>1. CASE SendData \/ SendPing \/ SendClose
  BY <1>1, CallerSends, DrainsKeeps, SendsKeep
<1>2. CASE Flush \/ ReadCall
  BY <1>2, CallerFlushes, DrainsKeeps
<1>3. CASE ReadPing
  BY <1>3, PingAnswered, DrainsKeeps, SendsKeep
<1>4. CASE ReadClose
  BY <1>4, CloseAnswered, DrainsKeeps, SendsKeep
<1>5. CASE Reconnect
  <2>1. Fresh'
    BY <1>5 DEF Reconnect, ClearBuffers, NewStream, Fresh
  <2>2. Fresh' => SendSide'
    BY FreshSendSide, PTL
  <2> QED  BY <2>1, <2>2
<1>6. CASE \/ RefusedCall \/ ReadBadFrame \/ ReadData \/ ReadContinuation \/ ReadPong
           \/ ReadBlocks \/ ReadEof \/ Outside \/ UNCHANGED vars
  BY <1>6, OthersRest, DrainsKeeps
<1> QED  BY <1>1, <1>2, <1>3, <1>4, <1>5, <1>6 DEF Next, ReadStep, CallerStep

-----------------------------------------------------------------------------
(* The flood score.                                                        *)

\* What a frame adds to the score.
LEMMA PressureIs ==
  ASSUME Flood, NEW f \in Frame
  PROVE  /\ Pressure(f) \in Nat /\ floodScore <= Pressure(f) /\ Pressure(f) <= floodScore + 1
         /\ ~f.small => Pressure(f) = floodScore + 1
         /\ f.small => Pressure(f) <= bursts + 1
<1>1. floodScore \in Nat /\ bursts \in Nat /\ floodScore <= bursts + 1
  BY DEF Flood
<1>2. CASE f.small
  <2>1. Pressure(f) = (IF floodScore > 1 THEN floodScore - 1 ELSE 0) + 1
    BY <1>2 DEF Pressure, SatSub
  <2> QED  BY <2>1, <1>1, <1>2
<1>3. CASE ~f.small
  <2>1. Pressure(f) = floodScore + 1
    BY <1>3 DEF Pressure
  <2> QED  BY <2>1, <1>1, <1>3
<1> QED  BY <1>2, <1>3

\* Steps that process no frame.
LEMMA FloodRests ==
  ASSUME IInv, UNCHANGED <<floodScore, floodHist>>, closeState = "Closed" => closeState' = "Closed"
  PROVE  Flood'
BY DEF IInv, Flood, floodHist

\* A frame that is accepted, whether or not it makes a message.
LEMMA FloodCounts ==
  ASSUME IInv, FrameReady, Counted(This), Pressure(This) <= MaxFloodScore,
         \/ /\ floodScore' = Pressure(This)
            /\ unrelieved' = unrelieved + (IF This.small THEN 0 ELSE 1)
         \/ floodScore' \in {Pressure(This), SatSub(Pressure(This), Relief)} /\ unrelieved' = 0
  PROVE  Flood'
<1>1. This \in Frame /\ MaxFloodScore \in Nat
  BY FrameIsThere, Sizes
<1>2. PICK q \in Nat : /\ q = Pressure(This) /\ q <= MaxFloodScore
                       /\ floodScore <= q /\ q <= floodScore + 1
                       /\ ~This.small => q = floodScore + 1
                       /\ This.small => q <= bursts + 1
  BY <1>1, PressureIs DEF IInv
<1>3. /\ floodScore \in Nat /\ bursts \in Nat /\ unrelieved \in Nat
      /\ unrelieved <= floodScore /\ floodScore <= bursts + 1
  BY DEF IInv, Flood
<1>4. bursts' = IF This.small THEN bursts ELSE bursts + 1
  BY <1>3 DEF Counted
<1>5. bursts' \in Nat /\ q <= bursts' + 1
  BY <1>2, <1>3, <1>4
<1>6. CASE floodScore' = q /\ unrelieved' = unrelieved + (IF This.small THEN 0 ELSE 1)
  <2>1. unrelieved' \in Nat /\ unrelieved' <= q
    BY <1>2, <1>3, <1>6
  <2> QED  BY <1>1, <1>2, <1>5, <1>6, <2>1 DEF Flood
<1>7. CASE floodScore' \in {q, SatSub(q, Relief)} /\ unrelieved' = 0
  <2>1. floodScore' \in Nat /\ floodScore' <= q
    BY <1>7 DEF SatSub, Relief
  <2>2. PICK s \in Nat, b \in Nat : s = floodScore' /\ b = bursts' /\ s <= q /\ q <= b + 1
    BY <1>5, <2>1
  <2>3. PICK m \in Nat : m = MaxFloodScore /\ q <= m
    BY <1>1, <1>2
  <2>4. s <= m /\ s <= m + 1 /\ s <= b + 1 /\ 0 <= s /\ 0 <= m
    <3>1. s <= q /\ q <= b + 1 /\ q <= m
      BY <2>2, <2>3
    <3> QED  BY ONLY s \in Nat, b \in Nat, m \in Nat, q \in Nat, <3>1
  <2> QED  BY <1>7, <2>2, <2>3, <2>4 DEF Flood
<1> QED  BY <1>2, <1>6, <1>7

\* A frame that is refused.
LEMMA FloodRefuses ==
  ASSUME IInv, ReadBadFrame
  PROVE  Flood'
<1>1. This \in Frame /\ MaxFloodScore \in Nat /\ closeState # "Closed"
  BY FrameIsThere, Sizes DEF ReadBadFrame
<1>2. PICK q \in Nat : /\ q = Pressure(This)
                       /\ floodScore <= q /\ q <= floodScore + 1
                       /\ ~This.small => q = floodScore + 1
                       /\ This.small => q <= bursts + 1
  BY <1>1, PressureIs DEF IInv
<1>3. /\ floodScore \in Nat /\ bursts \in Nat /\ unrelieved \in Nat
      /\ unrelieved <= floodScore /\ floodScore <= bursts + 1
      /\ unrelieved <= MaxFloodScore /\ floodScore <= MaxFloodScore
  BY <1>1 DEF IInv, Flood
<1>4. bursts' = IF This.small THEN bursts ELSE bursts + 1
  BY <1>3 DEF Counted, ReadBadFrame
<1>5. bursts' \in Nat /\ q <= bursts' + 1 /\ floodScore <= bursts' + 1
  BY <1>2, <1>3, <1>4
<1>6. unrelieved' = unrelieved /\ floodScore' \in {floodScore, q} /\ closeState' = "Closed"
  BY <1>2 DEF ReadBadFrame, FailRead
<1>7. floodScore' \in Nat /\ unrelieved <= floodScore' /\ floodScore' <= MaxFloodScore + 1
      /\ floodScore' <= bursts' + 1
  <2>1. CASE floodScore' = floodScore
    <3>1. floodScore <= MaxFloodScore + 1
      BY <1>1, <1>3
    <3> QED  BY <1>3, <1>5, <2>1, <3>1
  <2>2. CASE floodScore' = q
    <3>1. q \in Nat /\ unrelieved <= q /\ q <= MaxFloodScore + 1
      <4>1. floodScore <= q /\ q <= floodScore + 1
        BY <1>2
      <4>2. floodScore \in Nat /\ unrelieved \in Nat /\ unrelieved <= floodScore
            /\ floodScore <= MaxFloodScore /\ MaxFloodScore \in Nat
        BY <1>1, <1>3
      <4> QED  BY ONLY <4>1, <4>2, q \in Nat
    <3> QED  BY <1>5, <2>2, <3>1
  <2> QED  BY <1>6, <2>1, <2>2
<1> QED  BY <1>3, <1>5, <1>6, <1>7 DEF Flood

\* Every step keeps the flood score.
LEMMA FloodKept ==
  ASSUME IInv, [Next]_vars
  PROVE  Flood'
<1>1. CASE ReadData \/ ReadContinuation \/ ReadPing \/ ReadPong
  <2>1. FrameReady /\ Counted(This) /\ Pressure(This) <= MaxFloodScore
    BY <1>1 DEF ReadData, ReadContinuation, ReadPing, ReadPong, Accepted
  <2>2. \/ /\ floodScore' = Pressure(This)
           /\ unrelieved' = unrelieved + (IF This.small THEN 0 ELSE 1)
        \/ floodScore' = SatSub(Pressure(This), Relief) /\ unrelieved' = 0
    BY <1>1 DEF ReadData, ReadContinuation, ReadPing, ReadPong, Continue, Deliver, Score
  <2> QED  BY <2>1, <2>2, FloodCounts
<1>2. CASE ReadClose
  <2>1. FrameReady /\ Counted(This) /\ Pressure(This) <= MaxFloodScore
        /\ floodScore' = Pressure(This) /\ unrelieved' = 0
    BY <1>2 DEF ReadClose, Accepted
  <2> QED  BY <2>1, FloodCounts
<1>3. CASE ReadBadFrame
  BY <1>3, FloodRefuses
<1>4. CASE Reconnect
  <2>1. floodScore' = 0 /\ unrelieved' = 0 /\ bursts' = 0 /\ MaxFloodScore \in Nat
    BY <1>4, Sizes DEF Reconnect, ResetSession, NewStream
  <2> QED  BY <2>1 DEF Flood
<1>5. CASE SendData \/ SendPing \/ SendClose \/ RefusedCall \/ Flush \/ ReadCall
  <2>1. UNCHANGED <<floodScore, floodHist>>
    BY <1>5 DEF SendData, SendPing, SendClose, RefusedCall, Flush, ReadCall, sessVars
  <2>2. CASE SendData \/ SendPing \/ SendClose \/ ReadCall
    <3>1. closeState # "Closed"
      BY <2>2 DEF SendData, SendPing, SendClose, MayWrite, ReadCall
    <3> QED  BY <2>1, <3>1, FloodRests
  <2>3. CASE RefusedCall \/ Flush
    <3>1. closeState' = closeState
      BY <2>3 DEF RefusedCall, Flush, sessVars
    <3> QED  BY <2>1, <3>1, FloodRests
  <2> QED  BY <1>5, <2>2, <2>3
<1>6. CASE ReadBlocks \/ ReadEof \/ Outside \/ UNCHANGED vars
  <2>1. UNCHANGED <<floodScore, floodHist>> /\ closeState' \in {closeState, "Closed"}
    BY <1>6 DEF ReadBlocks, ReadEof, FailRead, Outside, ServerSends, ServerCloses, DeadlinePasses,
                sessVars, vars
  <2> QED  BY <2>1, FloodRests
<1> QED  BY <1>1, <1>2, <1>3, <1>4, <1>5, <1>6 DEF Next, ReadStep, CallerStep

-----------------------------------------------------------------------------
(* Types.                                                                  *)
LEMMA CallTypesKept ==
  ASSUME IInv, [Next]_vars
  PROVE  CallTypes'
<1>0. CallTypes /\ FrameBudget \in Nat \ {0}
  BY Sizes DEF IInv
<1>1. CASE SendData \/ SendPing \/ SendClose \/ RefusedCall
  BY <1>0, <1>1 DEF SendData, SendPing, SendClose, RefusedCall, AtCaller, Returns, CallTypes, sessVars,
                    readVars
<1>2. CASE Flush
  BY <1>0, <1>2 DEF Flush, AtCaller, Returns, CallTypes, sessVars, readVars
<1>3. CASE ReadCall
  BY <1>0, <1>3 DEF ReadCall, AtCaller, Returns, CallTypes, readVars
<1>4. CASE Reconnect
  <2>1. connections' \in Nat
    BY <1>0, <1>4 DEF Reconnect, CallTypes
  <2>2. /\ pc' = "caller" /\ budget' = budget /\ result' = "none" /\ closeState' = "Open"
        /\ fragmentOp' = "none" /\ pingDeadline' = "none" /\ eof' = FALSE
    BY <1>4 DEF Reconnect, ResetSession, NewStream, AtCaller, Returns
  <2> QED  BY <1>0, <2>1, <2>2 DEF CallTypes
<1>5. CASE ReadBadFrame
  BY <1>0, <1>5 DEF ReadBadFrame, FailRead, Returns, CallTypes
<1>6. CASE ReadData \/ ReadContinuation \/ ReadPing \/ ReadPong
  <2>1. UNCHANGED <<closeState, eof, connections>> /\ pc = "reading"
    BY <1>6 DEF ReadData, ReadContinuation, ReadPing, ReadPong, Accepted, FrameReady
  <2>2. fragmentOp' \in DataOps \cup {"none"}
    BY <1>0, <1>6 DEF ReadData, ReadContinuation, ReadPing, ReadPong, Accepted, CallTypes
  <2>3. \/ \E parts : Deliver(parts) /\ budget' = budget
        \/ Continue
    BY <1>6 DEF ReadData, ReadContinuation, ReadPing, ReadPong
  <2>4. budget' \in 0..FrameBudget
    BY <1>0, <2>3 DEF CallTypes, Continue, SatSub
  <2>5. /\ pc' \in {"caller", "reading"} /\ result' \in {result, "message", "idle"}
        /\ pingDeadline' \in {pingDeadline, "none"}
    BY <2>1, <2>3 DEF Deliver, Continue, Returns, Activity
  <2> QED  BY <1>0, <2>1, <2>2, <2>4, <2>5 DEF CallTypes
<1>7. CASE ReadClose
  BY <1>0, <1>7 DEF ReadClose, Activity, CallTypes
<1>8. CASE ReadBlocks \/ ReadEof
  BY <1>0, <1>8 DEF ReadBlocks, ReadEof, FailRead, Returns, CallTypes, readVars
<1>9. CASE Outside
  BY <1>0, <1>9 DEF Outside, ServerSends, ServerCloses, DeadlinePasses, CallTypes, callVars, sessVars,
                    readVars
<1>10. CASE UNCHANGED vars
  BY <1>0, <1>10 DEF CallTypes, vars, callVars, sessVars, readVars
<1> QED  BY <1>1, <1>2, <1>3, <1>4, <1>5, <1>6, <1>7, <1>8, <1>9, <1>10 DEF Next, ReadStep, CallerStep

\* How the read side moves: one frame at most, taken or sent, or a new stream.
LEMMA ReadMoves ==
  ASSUME IInv, [Next]_vars
  PROVE  \/ UNCHANGED <<arrived, got>> /\ lastActivity' = lastActivity
         \/ /\ arrived' = arrived /\ FrameReady /\ got' = got + 1
            /\ lastActivity' \in {lastActivity, got'}
         \/ /\ UNCHANGED <<got, lastActivity>> /\ Len(arrived) < MaxArrivals
            /\ \E f \in ServerFrames : arrived' = Append(arrived, f)
         \/ arrived' = <<>> /\ got' = 0 /\ lastActivity' = 0
<1>1. CASE SendData \/ SendPing \/ SendClose \/ RefusedCall \/ Flush \/ ReadCall
  BY <1>1 DEF SendData, SendPing, SendClose, RefusedCall, Flush, ReadCall, sessVars, readVars
<1>2. CASE Reconnect
  BY <1>2 DEF Reconnect, ResetSession, NewStream
<1>3. CASE ReadBadFrame
  BY <1>3 DEF ReadBadFrame, Counted
<1>4. CASE ReadData \/ ReadContinuation \/ ReadPing \/ ReadPong \/ ReadClose
  BY <1>4 DEF ReadData, ReadContinuation, ReadPing, ReadPong, ReadClose, Accepted, Counted, Deliver,
              Continue, Activity
<1>5. CASE ReadBlocks \/ ReadEof
  BY <1>5 DEF ReadBlocks, ReadEof, readVars
<1>6. CASE Outside
  BY <1>6 DEF Outside, ServerSends, ServerCloses, DeadlinePasses, sessVars, readVars
<1>7. CASE UNCHANGED vars
  BY <1>7 DEF vars, sessVars, readVars
<1> QED  BY <1>1, <1>2, <1>3, <1>4, <1>5, <1>6, <1>7 DEF Next, ReadStep, CallerStep

LEMMA ReadTypesKept ==
  ASSUME IInv, [Next]_vars
  PROVE  ReadTypes'
<1>1. ReadTypes /\ Len(arrived) \in Nat /\ got \in Nat /\ MaxArrivals \in Nat
  BY Sizes DEF IInv
<1>2. CASE UNCHANGED <<arrived, got>> /\ lastActivity' = lastActivity
  BY <1>1, <1>2 DEF ReadTypes
<1>3. CASE arrived' = arrived /\ FrameReady /\ got' = got + 1 /\ lastActivity' \in {lastActivity, got'}
  <2>1. got' \in 0..Len(arrived) /\ lastActivity' \in 0..got'
    BY <1>1, <1>3, FrameIsThere DEF ReadTypes
  <2> QED  BY <1>1, <1>3, <2>1 DEF ReadTypes
<1>4. CASE /\ UNCHANGED <<got, lastActivity>> /\ Len(arrived) < MaxArrivals
           /\ \E f \in ServerFrames : arrived' = Append(arrived, f)
  <2>1. PICK f \in Frame : arrived' = Append(arrived, f)
    BY <1>4, ServerAssumption DEF ServerAssumption
  <2>2. arrived' \in Seq(Frame) /\ Len(arrived') = Len(arrived) + 1
    BY <1>1, <2>1, AppendProperties DEF ReadTypes
  <2>3. got' \in 0..Len(arrived') /\ Len(arrived') <= MaxArrivals
    BY <1>1, <1>4, <2>2 DEF ReadTypes
  <2> QED  BY <1>1, <1>4, <2>2, <2>3 DEF ReadTypes
<1>5. CASE arrived' = <<>> /\ got' = 0 /\ lastActivity' = 0
  <2>1. <<>> \in Seq(Frame) /\ Len(<<>>) = 0
    BY EmptySeq
  <2> QED  BY <1>1, <1>5, <2>1 DEF ReadTypes
<1> QED  BY <1>2, <1>3, <1>4, <1>5, ReadMoves

-----------------------------------------------------------------------------
(* Messages.                                                               *)

\* Parts of a message stay parts when more frames arrive.
LEMMA PartsGrow ==
  ASSUME NEW a \in Seq(Frame), NEW c \in Seq(Frame), Len(a) <= Len(c),
         \A i \in 1..Len(a) : c[i] = a[i],
         NEW n \in 0..Len(a), NEW parts \in Seq(1..Len(a)), NEW final \in BOOLEAN,
         ArePartsOf(a, parts, n, final)
  PROVE  ArePartsOf(c, parts, n, final)
<1>1. Len(a) \in Nat /\ Len(parts) \in Nat /\ \A k \in 1..Len(parts) : parts[k] \in 1..Len(a)
  BY LenProperties
<1>2. parts # <<>> /\ 1 \in 1..Len(parts)
  BY <1>1, EmptySeq DEF ArePartsOf
<1>3. \A k \in 1..Len(parts) : c[parts[k]] = a[parts[k]]
  BY <1>1
<1>4. ASSUME NEW i \in parts[1]..n PROVE c[i] = a[i]
  BY <1>1, <1>2
<1>5. c[parts[1]].op \in DataOps
  BY <1>2, <1>3 DEF ArePartsOf
<1>6. \A k \in 1..Len(parts) : c[parts[k]].fin <=> final /\ k = Len(parts)
  BY <1>3 DEF ArePartsOf
<1>7. \A k \in 2..Len(parts) : c[parts[k]].op = "cont" /\ parts[k - 1] < parts[k]
  <2>1. \A k \in 2..Len(parts) : k \in 1..Len(parts)
    BY <1>1
  <2> QED  BY <1>3, <2>1 DEF ArePartsOf
<1>8. \A i \in parts[1]..n : c[i].op \in DataOps \cup {"cont"} => Contains(parts, i)
  BY <1>4 DEF ArePartsOf
<1> QED  BY <1>2, <1>5, <1>6, <1>7, <1>8 DEF ArePartsOf

\* A control frame is no part of a message.
LEMMA ControlAdds ==
  ASSUME NEW a \in Seq(Frame), NEW n \in Nat, n + 1 \in 1..Len(a), NEW parts \in Seq(1..n),
         a[n + 1].op \notin DataOps \cup {"cont"}, ArePartsOf(a, parts, n, FALSE)
  PROVE  ArePartsOf(a, parts, n + 1, FALSE)
<1>1. Len(parts) \in Nat /\ \A k \in 1..Len(parts) : parts[k] \in 1..n
  BY LenProperties
<1>2. parts # <<>> /\ 1 \in 1..Len(parts)
  BY <1>1, EmptySeq DEF ArePartsOf
<1>3. \A i \in parts[1]..(n + 1) : i \in parts[1]..n \/ i = n + 1
  BY <1>1, <1>2
<1>4. \A i \in parts[1]..(n + 1) : a[i].op \in DataOps \cup {"cont"} => Contains(parts, i)
  BY <1>3 DEF ArePartsOf
<1> QED  BY <1>4 DEF ArePartsOf

\* A data frame starts a message.
LEMMA DataStarts ==
  ASSUME NEW a \in Seq(Frame), NEW n \in Nat, n + 1 \in 1..Len(a), a[n + 1].op \in DataOps
  PROVE  ArePartsOf(a, <<n + 1>>, n + 1, a[n + 1].fin)
<1>1. a[n + 1].fin \in BOOLEAN
  <2>1. a[n + 1] \in Frame
    BY ElementOfSeq
  <2> QED  BY <2>1 DEF Frame
<1>2. <<n + 1>> # <<>> /\ Len(<<n + 1>>) = 1 /\ <<n + 1>>[1] = n + 1
  OBVIOUS
<1>3. \A i \in (n + 1)..(n + 1) : Contains(<<n + 1>>, i)
  BY <1>2 DEF Contains
<1> QED  BY <1>1, <1>2, <1>3 DEF ArePartsOf

\* A continuation is the next part, and perhaps the last.
LEMMA ContinuationAdds ==
  ASSUME NEW a \in Seq(Frame), NEW n \in Nat, n + 1 \in 1..Len(a), NEW parts \in Seq(1..n),
         a[n + 1].op = "cont", ArePartsOf(a, parts, n, FALSE)
  PROVE  ArePartsOf(a, Append(parts, n + 1), n + 1, a[n + 1].fin)
<1> DEFINE more == Append(parts, n + 1)
<1>1. Len(parts) \in Nat /\ \A k \in 1..Len(parts) : parts[k] \in 1..n
  BY LenProperties
<1>2. parts # <<>> /\ 1 \in 1..Len(parts)
  BY <1>1, EmptySeq DEF ArePartsOf
<1>3. /\ Len(more) = Len(parts) + 1 /\ more[Len(parts) + 1] = n + 1
      /\ \A k \in 1..Len(parts) : more[k] = parts[k]
  BY <1>1
<1>4. more # <<>> /\ more[1] = parts[1]
  BY <1>1, <1>2, <1>3, EmptySeq
<1>5. \A k \in 1..Len(more) : k \in 1..Len(parts) \/ k = Len(parts) + 1
  BY <1>1, <1>3
<1>6. ASSUME NEW k \in 1..Len(more)
      PROVE  a[more[k]].fin <=> a[n + 1].fin /\ k = Len(more)
  <2>1. CASE k \in 1..Len(parts)
    <3>1. ~a[more[k]].fin
      BY <2>1, <1>3 DEF ArePartsOf
    <3>2. k # Len(more)
      BY <2>1, <1>1, <1>3
    <3> QED  BY <3>1, <3>2
  <2>2. CASE k = Len(parts) + 1
    <3>1. k = Len(more) /\ more[k] = n + 1
      BY <2>2, <1>3
    <3> QED  BY <3>1
  <2> QED  BY <1>5, <2>1, <2>2
<1>7. ASSUME NEW k \in 2..Len(more)
      PROVE  a[more[k]].op = "cont" /\ more[k - 1] < more[k]
  <2>1. CASE k \in 2..Len(parts)
    <3>1. k \in 1..Len(parts) /\ k - 1 \in 1..Len(parts)
      BY <2>1, <1>1
    <3> QED  BY <2>1, <3>1, <1>3 DEF ArePartsOf
  <2>2. CASE k = Len(parts) + 1
    <3>1. k - 1 = Len(parts) /\ Len(parts) \in 1..Len(parts)
      BY <2>2, <1>1, <1>2
    <3>2. more[k - 1] \in 1..n /\ more[k] = n + 1
      BY <2>2, <3>1, <1>1, <1>3
    <3> QED  BY <3>2
  <2> QED  BY <2>1, <2>2, <1>1, <1>3
<1>8. ASSUME NEW i \in more[1]..(n + 1), a[i].op \in DataOps \cup {"cont"}
      PROVE  Contains(more, i)
  <2>1. CASE i = n + 1
    BY <2>1, <1>1, <1>3 DEF Contains
  <2>2. CASE i # n + 1
    <3>1. i \in parts[1]..n
      BY <2>2, <1>1, <1>2, <1>4
    <3>2. PICK k \in 1..Len(parts) : parts[k] = i
      BY <3>1, <1>8 DEF ArePartsOf, Contains
    <3>3. k \in 1..Len(more) /\ more[k] = i
      BY <3>2, <1>1, <1>3
    <3> QED  BY <3>3 DEF Contains
  <2> QED  BY <2>1, <2>2
<1>9. a[more[1]].op \in DataOps
  BY <1>4 DEF ArePartsOf
<1> HIDE DEF more
<1>10. ArePartsOf(a, more, n + 1, a[n + 1].fin)
  BY <1>4, <1>6, <1>7, <1>8, <1>9 DEF ArePartsOf
<1> QED  BY <1>10 DEF more

\* A step on the same connection: what is there stays, and more may follow.
LEMMA ReadGrows ==
  ASSUME IInv, [Next]_vars, ~Reconnect
  PROVE  /\ Len(arrived) <= Len(arrived') /\ \A i \in 1..Len(arrived) : arrived'[i] = arrived[i]
         /\ arrived' \in Seq(Frame) /\ got' \in {got, got + 1} /\ got' \in 0..Len(arrived')
<1>1. arrived \in Seq(Frame) /\ Len(arrived) \in Nat /\ got \in Nat
  BY Sizes DEF IInv, ReadTypes
<1>2. arrived' \in Seq(Frame) /\ got' \in 0..Len(arrived')
  BY ReadTypesKept DEF ReadTypes
<1>3. \/ arrived' = arrived /\ got' \in {got, got + 1}
      \/ got' = got /\ \E f \in ServerFrames : arrived' = Append(arrived, f)
  <2>1. CASE SendData \/ SendPing \/ SendClose \/ RefusedCall \/ Flush \/ ReadCall
    BY <2>1 DEF SendData, SendPing, SendClose, RefusedCall, Flush, ReadCall, readVars
  <2>2. CASE ReadBadFrame \/ ReadData \/ ReadContinuation \/ ReadPing \/ ReadPong \/ ReadClose
    BY <2>2 DEF ReadBadFrame, ReadData, ReadContinuation, ReadPing, ReadPong, ReadClose, Accepted, Counted
  <2>3. CASE ReadBlocks \/ ReadEof
    BY <2>3 DEF ReadBlocks, ReadEof, readVars
  <2>4. CASE Outside
    BY <2>4 DEF Outside, ServerSends, ServerCloses, DeadlinePasses, readVars
  <2>5. CASE UNCHANGED vars
    BY <2>5 DEF vars, readVars
  <2> QED  BY <2>1, <2>2, <2>3, <2>4, <2>5 DEF Next, ReadStep, CallerStep
<1>4. CASE arrived' = arrived /\ got' \in {got, got + 1}
  BY <1>1, <1>2, <1>4
<1>5. CASE got' = got /\ \E f \in ServerFrames : arrived' = Append(arrived, f)
  <2>1. PICK f \in Frame : arrived' = Append(arrived, f)
    BY <1>5, ServerAssumption DEF ServerAssumption
  <2>2. Len(arrived') = Len(arrived) + 1 /\ \A i \in 1..Len(arrived) : arrived'[i] = arrived[i]
    BY <1>1, <2>1, AppendProperties
  <2> QED  BY <1>1, <1>2, <1>5, <2>2
<1> QED  BY <1>3, <1>4, <1>5

\* Indices stay indices.
LEMMA WiderSeq ==
  ASSUME NEW m \in Nat, NEW n \in Nat, m <= n, NEW s \in Seq(1..m)
  PROVE  s \in Seq(1..n)
<1>1. \A k \in 1..Len(s) : s[k] \in 1..m
  BY ElementOfSeq
<1>2. \A i \in 1..m : i \in 1..n
  OBVIOUS
<1> QED  BY <1>1, <1>2

FragmentParts ==
  /\ fragments \in Seq(1..got) /\ Len(fragments) <= MaxPayload
  /\ fragmentOp # "none" /\ closeState # "Closed" => ArePartsOf(arrived, fragments, got, FALSE)

MessageParts ==
  /\ message \in Seq(1..got)
  /\ result = "message" => ArePartsOf(arrived, message, message[Len(message)], TRUE)

\* How the collected parts move.
LEMMA FragmentMoves ==
  ASSUME IInv, [Next]_vars, ~Reconnect
  PROVE  \/ /\ UNCHANGED <<fragments, fragmentOp, got>>
            /\ closeState = "Closed" => closeState' = "Closed"
         \/ UNCHANGED fragments /\ got' = got + 1 /\ (closeState' = "Closed" \/ fragmentOp' = "none")
         \/ /\ UNCHANGED <<fragments, fragmentOp, closeState, arrived>> /\ got' = got + 1
            /\ FrameReady /\ This.op \notin DataOps \cup {"cont"}
         \/ /\ fragments' = <<got + 1>> /\ got' = got + 1 /\ UNCHANGED arrived
            /\ FrameReady /\ This.op \in DataOps /\ ~This.fin
         \/ /\ fragments' = Append(fragments, got + 1) /\ got' = got + 1 /\ UNCHANGED <<arrived, closeState>>
            /\ FrameReady /\ This.op = "cont" /\ fragmentOp # "none" /\ Len(fragments) + 1 <= MaxPayload
            /\ This.fin => fragmentOp' = "none"
<1>1. CASE SendData \/ SendPing \/ SendClose \/ ReadCall
  <2>1. closeState # "Closed"
    BY <1>1 DEF SendData, SendPing, SendClose, ReadCall, MayWrite
  <2> QED  BY <1>1, <2>1 DEF SendData, SendPing, SendClose, ReadCall, sessVars, readVars
<1>2. CASE RefusedCall \/ Flush
  BY <1>2 DEF RefusedCall, Flush, sessVars, readVars
<1>3. CASE ReadBadFrame
  BY <1>3 DEF ReadBadFrame, FailRead, Counted
<1>4. CASE ReadData
  <2>1. /\ FrameReady /\ This.op \in DataOps /\ fragmentOp = "none" /\ got' = got + 1 /\ UNCHANGED arrived
        /\ IF This.fin THEN UNCHANGED <<fragmentOp, fragments>> ELSE fragments' = <<got + 1>>
    <3>1. PICK op \in DataOps : Accepted(op)
      BY <1>4 DEF ReadData
    <3>2. FrameReady /\ This.op \in DataOps /\ InOrder(This) /\ got' = got + 1
      BY <3>1 DEF Accepted, Counted
    <3>3. fragmentOp = "none"
      BY <3>2 DEF InOrder, DataOps
    <3>4. /\ UNCHANGED arrived
          /\ IF This.fin THEN UNCHANGED <<fragmentOp, fragments>> ELSE fragments' = <<got + 1>>
      BY <1>4 DEF ReadData
    <3> QED  BY <3>2, <3>3, <3>4
  <2> QED  BY <2>1
<1>5. CASE ReadContinuation
  <2>1. /\ FrameReady /\ This.op = "cont" /\ InOrder(This) /\ got' = got + 1
        /\ UNCHANGED <<arrived, closeState>> /\ fragments' = Append(fragments, got + 1)
        /\ This.fin => fragmentOp' = "none"
    BY <1>5 DEF ReadContinuation, Accepted, Counted
  <2>2. fragmentOp # "none" /\ Len(fragments) + 1 <= MaxPayload
    BY <2>1 DEF InOrder, DataOps
  <2> QED  BY <2>1, <2>2
<1>6. CASE ReadPing \/ ReadPong
  BY <1>6 DEF ReadPing, ReadPong, Accepted, Counted, DataOps
<1>7. CASE ReadClose
  BY <1>7 DEF ReadClose, Accepted, Counted
<1>8. CASE ReadBlocks \/ ReadEof
  BY <1>8 DEF ReadBlocks, ReadEof, FailRead, readVars
<1>9. CASE Outside
  BY <1>9 DEF Outside, ServerSends, ServerCloses, DeadlinePasses, sessVars, readVars
<1>10. CASE UNCHANGED vars
  BY <1>10 DEF vars, sessVars, readVars
<1> QED  BY <1>1, <1>2, <1>3, <1>4, <1>5, <1>6, <1>7, <1>8, <1>9, <1>10 DEF Next, ReadStep, CallerStep

LEMMA FragmentsKept ==
  ASSUME IInv, [Next]_vars, ~Reconnect
  PROVE  FragmentParts'
<1>1. /\ fragments \in Seq(1..got) /\ Len(fragments) <= MaxPayload
      /\ got \in Nat /\ Len(arrived) \in Nat /\ got \in 0..Len(arrived) /\ arrived \in Seq(Frame)
      /\ Len(fragments) \in Nat /\ MaxPayload \in Nat \ {0}
  BY Sizes, LenProperties DEF IInv, Parts, ReadTypes
<1>2. fragmentOp # "none" /\ closeState # "Closed" => ArePartsOf(arrived, fragments, got, FALSE)
  BY DEF IInv, Parts
<1>3. /\ Len(arrived) <= Len(arrived') /\ \A i \in 1..Len(arrived) : arrived'[i] = arrived[i]
      /\ arrived' \in Seq(Frame)
  BY ReadGrows
<1>4. fragments \in Seq(1..Len(arrived)) /\ fragments \in Seq(1..(got + 1))
  BY <1>1, WiderSeq
<1>5. CASE UNCHANGED <<fragments, fragmentOp, got>> /\ (closeState = "Closed" => closeState' = "Closed")
  <2>1. fragmentOp' # "none" /\ closeState' # "Closed" => ArePartsOf(arrived', fragments, got, FALSE)
    BY <1>1, <1>2, <1>3, <1>4, <1>5, PartsGrow
  <2> QED  BY <1>1, <1>5, <2>1 DEF FragmentParts
<1>6. CASE UNCHANGED fragments /\ got' = got + 1 /\ (closeState' = "Closed" \/ fragmentOp' = "none")
  BY <1>1, <1>4, <1>6 DEF FragmentParts
<1>7. CASE /\ UNCHANGED <<fragments, fragmentOp, closeState, arrived>> /\ got' = got + 1
           /\ FrameReady /\ This.op \notin DataOps \cup {"cont"}
  <2>1. got + 1 \in 1..Len(arrived) /\ arrived[got + 1].op \notin DataOps \cup {"cont"}
    BY <1>7, FrameIsThere DEF This
  <2>2. fragmentOp' # "none" /\ closeState' # "Closed" => ArePartsOf(arrived, fragments, got + 1, FALSE)
    BY <1>1, <1>2, <1>7, <2>1, ControlAdds
  <2> QED  BY <1>1, <1>4, <1>7, <2>2 DEF FragmentParts
<1>8. CASE /\ fragments' = <<got + 1>> /\ got' = got + 1 /\ UNCHANGED arrived
           /\ FrameReady /\ This.op \in DataOps /\ ~This.fin
  <2>1. got + 1 \in 1..Len(arrived) /\ arrived[got + 1] \in Frame
        /\ arrived[got + 1].op \in DataOps /\ ~arrived[got + 1].fin
    BY <1>8, FrameIsThere DEF This
  <2>2. ArePartsOf(arrived, <<got + 1>>, got + 1, arrived[got + 1].fin)
    BY <1>1, <2>1, DataStarts
  <2>3. arrived[got + 1].fin = FALSE
    BY <2>1 DEF Frame
  <2>4. fragments' \in Seq(1..got') /\ Len(fragments') <= MaxPayload
    BY <1>1, <1>8
  <2> QED  BY <1>8, <2>2, <2>3, <2>4 DEF FragmentParts
<1>9. CASE /\ fragments' = Append(fragments, got + 1) /\ got' = got + 1 /\ UNCHANGED <<arrived, closeState>>
           /\ FrameReady /\ This.op = "cont" /\ fragmentOp # "none" /\ Len(fragments) + 1 <= MaxPayload
           /\ This.fin => fragmentOp' = "none"
  <2>1. got + 1 \in 1..Len(arrived) /\ arrived[got + 1] \in Frame /\ arrived[got + 1].op = "cont"
        /\ closeState # "Closed"
    BY <1>9, FrameIsThere DEF This
  <2>2. ArePartsOf(arrived, Append(fragments, got + 1), got + 1, arrived[got + 1].fin)
    BY <1>1, <1>2, <1>9, <2>1, ContinuationAdds
  <2>3. fragmentOp' # "none" => arrived[got + 1].fin = FALSE
    BY <1>9, <2>1 DEF Frame, This
  <2>4. fragments' \in Seq(1..got') /\ Len(fragments') <= MaxPayload
    BY <1>1, <1>4, <1>9
  <2> QED  BY <1>9, <2>2, <2>3, <2>4 DEF FragmentParts
<1> QED  BY <1>5, <1>6, <1>7, <1>8, <1>9, FragmentMoves

\* How the returned message moves.
LEMMA MessageMoves ==
  ASSUME IInv, [Next]_vars, ~Reconnect
  PROVE  \/ UNCHANGED <<message, result>>
         \/ message' = <<>> /\ result' # "message"
         \/ message' = <<got + 1>> /\ got' = got + 1 /\ result' # "message"
         \/ /\ message' = <<got + 1>> /\ got' = got + 1 /\ UNCHANGED arrived
            /\ FrameReady /\ This.op \in DataOps /\ This.fin
         \/ /\ message' = Append(fragments, got + 1) /\ got' = got + 1 /\ UNCHANGED arrived
            /\ FrameReady /\ This.op = "cont" /\ This.fin /\ fragmentOp # "none"
<1>1. CASE SendData \/ SendPing \/ SendClose \/ RefusedCall \/ Flush \/ ReadCall
  BY <1>1 DEF SendData, SendPing, SendClose, RefusedCall, Flush, ReadCall, Returns, Endings
<1>2. CASE ReadBadFrame
  BY <1>2 DEF ReadBadFrame, FailRead, Returns
<1>3. CASE ReadData \/ ReadContinuation \/ ReadPing \/ ReadPong
  <2>1. CASE Continue
    BY <2>1 DEF Continue, Returns
  <2>2. CASE ~Continue
    <3>1. CASE ReadData
      <4>1. PICK op \in DataOps : Accepted(op)
        BY <3>1 DEF ReadData
      <4>2. FrameReady /\ This.op \in DataOps /\ got' = got + 1
        BY <4>1 DEF Accepted, Counted
      <4>3. This.fin /\ message' = <<got + 1>> /\ UNCHANGED arrived
        BY <2>2, <3>1 DEF ReadData, Deliver
      <4> QED  BY <4>2, <4>3
    <3>2. CASE ReadContinuation
      <4>1. FrameReady /\ This.op = "cont" /\ InOrder(This) /\ got' = got + 1
        BY <3>2 DEF ReadContinuation, Accepted, Counted
      <4>2. fragmentOp # "none"
        BY <4>1 DEF InOrder, DataOps
      <4>3. This.fin /\ message' = Append(fragments, got + 1) /\ UNCHANGED arrived
        BY <2>2, <3>2 DEF ReadContinuation, Deliver
      <4> QED  BY <4>1, <4>2, <4>3
    <3> QED  BY <1>3, <2>2, <3>1, <3>2 DEF ReadPing, ReadPong
  <2> QED  BY <2>1, <2>2
<1>4. CASE ReadClose
  BY <1>4 DEF ReadClose, Accepted, Counted
<1>5. CASE ReadBlocks \/ ReadEof
  BY <1>5 DEF ReadBlocks, ReadEof, FailRead, Returns
<1>6. CASE Outside
  BY <1>6 DEF Outside, ServerSends, ServerCloses, DeadlinePasses, callVars
<1>7. CASE UNCHANGED vars
  BY <1>7 DEF vars, callVars
<1> QED  BY <1>1, <1>2, <1>3, <1>4, <1>5, <1>6, <1>7 DEF Next, ReadStep, CallerStep

LEMMA MessageKept ==
  ASSUME IInv, [Next]_vars, ~Reconnect
  PROVE  MessageParts'
<1>1. /\ message \in Seq(1..got) /\ fragments \in Seq(1..got) /\ Len(fragments) \in Nat
      /\ got \in Nat /\ Len(arrived) \in Nat /\ got \in 0..Len(arrived) /\ arrived \in Seq(Frame)
  BY Sizes, LenProperties DEF IInv, Parts, ReadTypes
<1>2. result = "message" => ArePartsOf(arrived, message, message[Len(message)], TRUE)
  BY DEF IInv, Parts
<1>3. /\ Len(arrived) <= Len(arrived') /\ \A i \in 1..Len(arrived) : arrived'[i] = arrived[i]
      /\ arrived' \in Seq(Frame) /\ got' \in {got, got + 1}
  BY ReadGrows
<1>4. CASE UNCHANGED <<message, result>>
  <2>1. ASSUME result = "message"
        PROVE  ArePartsOf(arrived', message, message[Len(message)], TRUE)
    <3>1. message # <<>> /\ ArePartsOf(arrived, message, message[Len(message)], TRUE)
      BY <1>2, <2>1 DEF ArePartsOf
    <3>2. Len(message) \in 1..Len(message)
      BY <1>1, <3>1, LenProperties, EmptySeq
    <3>3. message[Len(message)] \in 1..got
      BY <1>1, <3>2, ElementOfSeq
    <3>4. message \in Seq(1..Len(arrived)) /\ message[Len(message)] \in 0..Len(arrived)
      BY <1>1, <3>3, WiderSeq
    <3> QED  BY <1>1, <1>3, <3>1, <3>4, PartsGrow
  <2>2. message' \in Seq(1..got')
    BY <1>1, <1>3, <1>4, WiderSeq
  <2> QED  BY <1>4, <2>1, <2>2 DEF MessageParts
<1>5. CASE message' = <<>> /\ result' # "message"
  <2>1. \A S : <<>> \in Seq(S)
    OBVIOUS
  <2> QED  BY <1>5, <2>1 DEF MessageParts
<1>6. CASE message' = <<got + 1>> /\ got' = got + 1 /\ result' # "message"
  <2>1. message' \in Seq(1..got')
    BY <1>1, <1>6
  <2> QED  BY <1>6, <2>1 DEF MessageParts
<1>7. CASE /\ message' = <<got + 1>> /\ got' = got + 1 /\ UNCHANGED arrived
           /\ FrameReady /\ This.op \in DataOps /\ This.fin
  <2>1. got + 1 \in 1..Len(arrived) /\ arrived[got + 1] \in Frame
        /\ arrived[got + 1].op \in DataOps /\ arrived[got + 1].fin
    BY <1>7, FrameIsThere DEF This
  <2>2. ArePartsOf(arrived, <<got + 1>>, got + 1, arrived[got + 1].fin)
    BY <1>1, <2>1, DataStarts
  <2>3. arrived[got + 1].fin = TRUE
    BY <2>1 DEF Frame
  <2>4. message' \in Seq(1..got') /\ message'[Len(message')] = got + 1
    BY <1>1, <1>7
  <2> QED  BY <1>7, <2>2, <2>3, <2>4 DEF MessageParts
<1>8. CASE /\ message' = Append(fragments, got + 1) /\ got' = got + 1 /\ UNCHANGED arrived
           /\ FrameReady /\ This.op = "cont" /\ This.fin /\ fragmentOp # "none"
  <2>1. got + 1 \in 1..Len(arrived) /\ arrived[got + 1] \in Frame /\ arrived[got + 1].op = "cont"
        /\ arrived[got + 1].fin /\ closeState # "Closed"
    BY <1>8, FrameIsThere DEF This
  <2>2. ArePartsOf(arrived, fragments, got, FALSE)
    BY <1>8, <2>1 DEF IInv, Parts
  <2>3. ArePartsOf(arrived, Append(fragments, got + 1), got + 1, arrived[got + 1].fin)
    BY <1>1, <2>1, <2>2, ContinuationAdds
  <2>4. arrived[got + 1].fin = TRUE
    BY <2>1 DEF Frame
  <2>5. fragments \in Seq(1..(got + 1))
    BY <1>1, WiderSeq
  <2>6. message' \in Seq(1..got') /\ message'[Len(message')] = got + 1
    BY <1>1, <1>8, <2>5
  <2> QED  BY <1>8, <2>3, <2>4, <2>6 DEF MessageParts
<1> QED  BY <1>4, <1>5, <1>6, <1>7, <1>8, MessageMoves

LEMMA PartsKept ==
  ASSUME IInv, [Next]_vars
  PROVE  Parts'
<1>1. CASE ~Reconnect
  BY <1>1, FragmentsKept, MessageKept DEF FragmentParts, MessageParts, Parts
<1>2. CASE Reconnect
  <2>1. fragments' = <<>> /\ message' = <<>> /\ fragmentOp' = "none" /\ result' = "none"
    BY <1>2 DEF Reconnect, ClearBuffers, ResetSession, Returns
  <2>2. \A S : <<>> \in Seq(S)
    OBVIOUS
  <2>3. Len(<<>>) <= MaxPayload
    BY Sizes
  <2> QED  BY <2>1, <2>2, <2>3 DEF Parts
<1> QED  BY <1>1, <1>2

-----------------------------------------------------------------------------
(* The invariant holds at first, and every step keeps it.                  *)
LEMMA InitEstablishes == Init => IInv
<1> SUFFICES ASSUME Init PROVE IInv
  OBVIOUS
<1>1. SendSide
  BY FreshSendSide DEF Init, Fresh
<1>2. CallTypes
  <2>1. FrameBudget \in Nat \ {0}
    BY WsAssumption DEF WsAssumption
  <2>2. FrameBudget \in 0..FrameBudget
    BY <2>1
  <2> QED  BY <2>2 DEF Init, CallTypes
<1>3. (\A S : <<>> \in Seq(S)) /\ Len(<<>>) = 0 /\ MaxArrivals \in Nat /\ MaxPayload \in Nat
  BY WsAssumption, EmptySeq DEF WsAssumption
<1>4. ReadTypes
  BY <1>3 DEF Init, ReadTypes
<1>5. Flood
  BY WsAssumption DEF Init, Flood, WsAssumption
<1>6. Parts
  BY <1>3 DEF Init, Parts
<1> QED  BY <1>1, <1>2, <1>4, <1>5, <1>6 DEF SendSide, IInv

LEMMA Invariance == IInv /\ [Next]_vars => IInv'
<1> SUFFICES ASSUME IInv, [Next]_vars PROVE IInv'
  OBVIOUS
<1> QED  BY CallTypesKept, ReadTypesKept, SendSideKept, FloodKept, PartsKept DEF SendSide, IInv

LEMMA IInvHolds == Spec => []IInv
BY InitEstablishes, Invariance, PTL DEF Spec

-----------------------------------------------------------------------------
(* What follows from it.                                                   *)

\* The connection's state stays in its domains, whatever the sizes and bounds.
THEOREM TypeCorrect == Spec => []TypeOK
<1>1. IInv => TypeOK
  <2> SUFFICES ASSUME IInv PROVE TypeOK
    OBVIOUS
  <2>1. floodScore \in 0..(MaxFloodScore + 1)
    BY Sizes DEF IInv, Flood
  <2> QED  BY <2>1 DEF IInv, CallTypes, ReadTypes, SendTypes, Parts, TypeOK
<1> QED  BY <1>1, IInvHolds, PTL

\* Partial writes, retries and answered pings never lose, repeat or mix the bytes of frames.
THEOREM WholeFrames == Spec => []WireIsWholeFrames
<1>1. IInv => WireIsWholeFrames
  BY DEF IInv, Sent, Stream, WireIsWholeFrames
<1> QED  BY <1>1, IInvHolds, PTL

\* A server that pings and does not read has the answers pile up to max_buf_size and no further.
THEOREM PendingStaysBounded == Spec => []PendingBounded
<1>1. IInv => PendingBounded
  BY DEF IInv, Pending, PendingBounded
<1> QED  BY <1>1, IInvHolds, PTL

\* No burst of more than max_flood_score frames without a message gets through.
THEOREM FloodCut == Spec => []FloodIsCut
<1>1. IInv => FloodIsCut
  BY DEF IInv, Flood, FloodIsCut
<1> QED  BY <1>1, IInvHolds, PTL

\* A server that sends its frames one at a time is never cut for flooding.
THEOREM TrickleSafe == Spec => []TrickleIsNoFlood
<1>1. IInv => TrickleIsNoFlood
  BY DEF IInv, Flood, TrickleIsNoFlood
<1> QED  BY <1>1, IInvHolds, PTL

\* Behind a Close frame the server reads nothing but pongs: send_close and the echo exclude
\* each other, and a frame send_frame could not build is never built later.
THEOREM NothingBehindClose == Spec => []NothingAfterClose
<1>1. ASSUME IInv, NEW i \in 1..Len(wire), NEW j \in 1..Len(wire), i < j, wire[i].op = "close"
      PROVE  wire[j].op = "pong" \/ wire[j].frame = wire[i].frame
  <2>1. \A k \in 1..Len(wire) : k \in 1..Len(Stream) /\ Stream[k] = wire[k]
    <3>1. wire \in Seq(Unit) /\ Rest \in Seq(Unit)
      BY <1>1, RestIs DEF IInv, SendTypes
    <3>2. /\ Len(Stream) = Len(wire) + Len(Rest) /\ Len(wire) \in Nat /\ Len(Rest) \in Nat
          /\ \A k \in 1..(Len(wire) + Len(Rest)) :
               Stream[k] = IF k <= Len(wire) THEN wire[k] ELSE Rest[k - Len(wire)]
      BY <3>1, ConcatProperties, LenProperties DEF Stream
    <3> QED  BY ONLY <3>2
  <2>2. /\ wire[i].op = built[wire[i].frame] /\ wire[j].op = built[wire[j].frame]
        /\ wire[i].frame <= wire[j].frame
        /\ wire[i].frame \in 1..Len(built) /\ wire[j].frame \in 1..Len(built)
    BY <1>1, <2>1 DEF IInv, Sent, AreFrames
  <2>3. PICK a \in 1..Len(built), b \in 1..Len(built) : a = wire[i].frame /\ b = wire[j].frame /\ a <= b
    BY <2>2
  <2>4. Len(built) \in Nat
    BY <1>1, Sizes
  <2>5. CASE a < b
    <3>1. built[a] = "close" /\ (built[b] # "pong" => \A k \in 1..Len(wire) : wire[k].frame < b)
      BY <1>1, <2>2, <2>3, <2>5 DEF IInv, Closings
    <3>2. ~(wire[j].frame < b)
      BY <2>3, <2>4
    <3>3. built[b] = "pong"
      BY <1>1, <3>1, <3>2
    <3> QED  BY <2>2, <2>3, <3>3
  <2>6. CASE ~(a < b)
    BY <2>3, <2>4, <2>6
  <2> QED  BY <2>5, <2>6
<1>2. IInv => NothingAfterClose
  BY <1>1 DEF NothingAfterClose
<1> QED  BY <1>2, IInvHolds, PTL

\* A message read_message returns is one whole message of the server, nothing left out.
THEOREM MessagesAreWhole == Spec => []MessageIsWhole
<1>1. ASSUME IInv, result = "message"
      PROVE  /\ arrived[Head(message)].op \in DataOps
             /\ \A k \in 1..Len(message) : arrived[message[k]].fin <=> k = Len(message)
             /\ \A k \in 2..Len(message) : arrived[message[k]].op = "cont" /\ message[k - 1] < message[k]
             /\ \A i \in Head(message)..Last(message) :
                  arrived[i].op \in DataOps \cup {"cont"} => Contains(message, i)
  <2>1. message \in Seq(1..got) /\ ArePartsOf(arrived, message, message[Len(message)], TRUE)
    BY <1>1 DEF IInv, Parts
  <2>2. Head(message) = message[1] /\ Last(message) = message[Len(message)]
    BY <2>1 DEF Last, ArePartsOf
  <2> QED  BY <2>1, <2>2 DEF ArePartsOf
<1>2. IInv => MessageIsWhole
  BY <1>1 DEF MessageIsWhole
<1> QED  BY <1>2, IInvHolds, PTL

\* The close handshake never goes back, and a Closed connection builds no further frame.
THEOREM ClosingStaysFinal == Spec => ClosingIsFinal
<1>1. ASSUME IInv, [Next]_vars, connections' = connections
      PROVE  /\ closeState = "Closed" => closeState' = "Closed" /\ built' = built
             /\ closeState = "CloseSent" => closeState' # "Open"
  <2>1. connections \in Nat /\ (pc = "reading" => closeState # "Closed")
    BY <1>1 DEF IInv, CallTypes
  <2>2. CASE SendData \/ SendPing \/ SendClose
    BY <2>2 DEF SendData, SendPing, SendClose, MayWrite
  <2>3. CASE RefusedCall \/ Flush
    BY <2>3 DEF RefusedCall, Flush, sessVars, sendVars
  <2>4. CASE ReadCall
    BY <2>4 DEF ReadCall
  <2>5. CASE Reconnect
    BY <1>1, <2>1, <2>5 DEF Reconnect
  <2>6. CASE ReadStep
    <3>1. closeState # "Closed"
      BY <2>1, <2>6 DEF ReadStep, ReadBadFrame, ReadData, ReadContinuation, ReadPing, ReadPong, ReadClose,
                        ReadBlocks, ReadEof, Accepted, FrameReady
    <3>2. closeState' \in {closeState, "Closed"}
      BY <2>6 DEF ReadStep, ReadBadFrame, ReadData, ReadContinuation, ReadPing, ReadPong, ReadClose,
                  ReadBlocks, ReadEof, FailRead
    <3> QED  BY <3>1, <3>2
  <2>7. CASE Outside
    BY <2>7 DEF Outside, ServerSends, ServerCloses, DeadlinePasses, sessVars, sendVars
  <2>8. CASE UNCHANGED vars
    BY <2>8 DEF vars, sessVars, sendVars
  <2> QED  BY <1>1, <2>2, <2>3, <2>4, <2>5, <2>6, <2>7, <2>8 DEF Next, CallerStep
<1>2. IInv /\ [Next]_vars =>
        [connections' = connections =>
           /\ closeState = "Closed" => closeState' = "Closed" /\ built' = built
           /\ closeState = "CloseSent" => closeState' # "Open"]_vars
  BY <1>1
<1>3. Spec => [][Next]_vars
  BY PTL DEF Spec
<1> QED  BY <1>2, <1>3, IInvHolds, PTL DEF ClosingIsFinal

=============================================================================
