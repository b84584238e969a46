--------------------------- MODULE Utf8TailProofs ---------------------------
(***************************************************************************)
(* The check of text, for messages of any length and every way to cut them *)
(* into fragments: it refuses no text and loses none of it.  First what    *)
(* well-formed text is made of, then what utf8_chunks says of it, then     *)
(* push_text_payload, and last the check from one fragment to the next.    *)
(***************************************************************************)
EXTENDS Utf8Tail, SequenceTheorems, WellFoundedInduction, TLAPS

\* The bytes of a message, and those that could still follow.
Roles == Bytes \cup {"c"}

\* u is s with t behind it.
Joins(u, s, t) ==
  /\ u \in Seq(Roles) /\ s \in Seq(Roles) /\ t \in Seq(Roles)
  /\ Len(u) \in Nat /\ Len(s) \in Nat /\ Len(t) \in Nat /\ Len(u) = Len(s) + Len(t)
  /\ \A i \in 1..Len(s) : u[i] = s[i]
  /\ \A i \in 1..Len(t) : u[Len(s) + i] = t[i]

LEMMA ConcatJoins ==
  ASSUME NEW s \in Seq(Roles), NEW t \in Seq(Roles)
  PROVE  Joins(s \o t, s, t)
<1>1. /\ s \o t \in Seq(Roles) /\ Len(s \o t) = Len(s) + Len(t)
      /\ \A i \in 1..(Len(s) + Len(t)) : (s \o t)[i] = IF i <= Len(s) THEN s[i] ELSE t[i - Len(s)]
  BY ConcatProperties
<1>2. Len(s) \in Nat /\ Len(t) \in Nat
  OBVIOUS
<1>3. \A i \in 1..Len(t) : Len(s) + i \in 1..(Len(s) + Len(t)) /\ ~(Len(s) + i <= Len(s)) /\ Len(s) + i - Len(s) = i
  BY <1>2
<1> QED  BY <1>1, <1>2, <1>3 DEF Joins

\* There is one such sequence.
LEMMA JoinsOne ==
  ASSUME NEW u, NEW v, NEW s, NEW t, Joins(u, s, t), Joins(v, s, t)
  PROVE  u = v
<1>1. \A i \in 1..Len(u) : i \in 1..Len(s) \/ (i - Len(s) \in 1..Len(t) /\ i = Len(s) + (i - Len(s)))
  BY DEF Joins
<1>2. Len(u) = Len(v) /\ \A i \in 1..Len(u) : u[i] = v[i]
  BY <1>1 DEF Joins
<1> QED  BY <1>2, SeqEqual DEF Joins

LEMMA SplitJoins ==
  ASSUME NEW s \in Seq(Roles), NEW n \in 0..Len(s)
  PROVE  /\ Joins(s, Prefix(s, n), Dropped(s, n))
         /\ Len(Prefix(s, n)) = n
         /\ Prefix(s, n) \o Dropped(s, n) = s
<1>1. /\ Prefix(s, n) \in Seq(Roles) /\ Len(Prefix(s, n)) = n
      /\ \A i \in 1..n : Prefix(s, n)[i] = s[i]
  <2>1. \A i \in 1..n : s[i] \in Roles
    OBVIOUS
  <2> QED BY <2>1, SubSeqProperties DEF Prefix
<1>2. /\ Dropped(s, n) \in Seq(Roles) /\ Len(Dropped(s, n)) = Len(s) - n
      /\ \A i \in 1..(Len(s) - n) : Dropped(s, n)[i] = s[n + i]
  <2>1. \A i \in (n + 1)..Len(s) : s[i] \in Roles
    OBVIOUS
  <2>2. n + 1 \in Int /\ Len(s) \in Int
    OBVIOUS
  <2>3. /\ SubSeq(s, n + 1, Len(s)) \in Seq(Roles)
        /\ Len(SubSeq(s, n + 1, Len(s))) = IF n + 1 <= Len(s) THEN Len(s) - (n + 1) + 1 ELSE 0
        /\ \A i \in 1..(Len(s) - (n + 1) + 1) : SubSeq(s, n + 1, Len(s))[i] = s[n + 1 + i - 1]
    BY <2>1, <2>2, SubSeqProperties
  <2> QED BY <2>3 DEF Dropped
<1>3. Joins(s, Prefix(s, n), Dropped(s, n))
  BY <1>1, <1>2 DEF Joins
<1>4. Prefix(s, n) \o Dropped(s, n) = s
  <2>1. Joins(Prefix(s, n) \o Dropped(s, n), Prefix(s, n), Dropped(s, n))
    BY <1>1, <1>2, ConcatJoins
  <2> QED BY <1>3, <2>1, JoinsOne
<1> QED  BY <1>1, <1>3, <1>4

\* A byte that begins its character or continues one.
Starts(s, i) == Width(s[i]) > 0 /\ Continues(s, i, Width(s[i]) - 1)
Belongs(s, i) ==
  s[i] = "c" /\ \E d \in 1..3 : d < i /\ Width(s[i - d]) > d /\ Continues(s, i - d, d)

LEMMA Widths ==
  /\ \A b : Width(b) \in 0..4
  /\ Width("c") = 0
BY DEF Width

LEMMA BelongsIf ==
  ASSUME NEW s, NEW i, s[i] = "c",
         NEW d \in 1..3, d < i, Width(s[i - d]) > d, Continues(s, i - d, d)
  PROVE  Belongs(s, i)
BY DEF Belongs

LEMMA BelongsOnlyIf ==
  ASSUME NEW s, NEW i, Belongs(s, i)
  PROVE  s[i] = "c" /\ \E d \in 1..3 : d < i /\ Width(s[i - d]) > d /\ Continues(s, i - d, d)
BY DEF Belongs

LEMMA FormedIs ==
  ASSUME NEW s
  PROVE  WellFormed(s) <=> \A i \in 1..Len(s) : Starts(s, i) \/ Belongs(s, i)
BY DEF WellFormed, Starts, Belongs

\* Well-formed text can be cut from the front of well-formed text, or put there.
LEMMA FormedJoins ==
  ASSUME NEW u, NEW s, NEW t, Joins(u, s, t), WellFormed(s)
  PROVE  WellFormed(u) <=> WellFormed(t)
<1> DEFINE l == Len(s)
<1>0. l \in Nat /\ Len(t) \in Nat /\ Len(u) = l + Len(t)
  BY DEF Joins
<1>1. \A i \in 1..l : u[i] = s[i]
  BY DEF Joins
<1>2. \A i \in 1..Len(t) : u[l + i] = t[i]
  BY DEF Joins
<1> HIDE DEF l
<1>3. ASSUME NEW i \in 1..l PROVE Starts(u, i) \/ Belongs(u, i)
  <2>1. CASE Starts(s, i)
    <3>1. Starts(u, i)
      BY <1>0, <1>1, <2>1, Widths DEF Starts, Continues, l
    <3> QED BY <3>1
  <2>2. CASE Belongs(s, i)
    <3>1. PICK d \in 1..3 : d < i /\ Width(s[i - d]) > d /\ Continues(s, i - d, d)
      BY <2>2 DEF Belongs
    <3>2. i - d \in 1..l /\ u[i - d] = s[i - d] /\ u[i] = "c"
      BY <1>0, <1>1, <2>2, <3>1 DEF Belongs
    <3>3. Continues(u, i - d, d)
      <4>1. \A k \in 1..d : i - d + k \in 1..l /\ s[i - d + k] = "c"
        <5>1. \A k \in 1..d : i - d + k \in 1..l
          BY <1>0, <3>1
        <5> QED BY <3>1, <5>1 DEF Continues
      <4>2. i - d + d <= Len(u)
        BY <1>0
      <4> QED BY <1>1, <4>1, <4>2 DEF Continues
    <3> QED BY <3>1, <3>2, <3>3 DEF Belongs
  <2> QED BY <2>1, <2>2, FormedIs DEF l
<1>4. ASSUME NEW i \in 1..Len(t) PROVE Starts(u, l + i) <=> Starts(t, i)
  <2> DEFINE w == Width(t[i]) - 1
  <2>1. u[l + i] = t[i] /\ w \in Int /\ w <= 3
    BY <1>2, Widths
  <2> HIDE DEF w
  <2>2. \A k \in 1..w : i + k <= Len(t) => u[l + i + k] = t[i + k]
    <3>1. \A k \in 1..w : i + k <= Len(t) => i + k \in 1..Len(t) /\ l + i + k = l + (i + k)
      BY <1>0, <2>1
    <3> QED BY <3>1, <1>2
  <2>3. w >= 0 => (Continues(u, l + i, w) <=> Continues(t, i, w))
    <3>1. l + i + w <= Len(u) <=> i + w <= Len(t)
      BY <1>0, <2>1
    <3>2. i + w <= Len(t) => \A k \in 1..w : i + k <= Len(t)
      BY <1>0, <2>1
    <3> QED BY <2>2, <3>1, <3>2 DEF Continues
  <2>4. Starts(u, l + i) <=> w >= 0 /\ Continues(u, l + i, w)
    BY <2>1, Widths DEF Starts, w
  <2>5. Starts(t, i) <=> w >= 0 /\ Continues(t, i, w)
    BY Widths DEF Starts, w
  <2> QED BY <2>3, <2>4, <2>5
<1>5. ASSUME NEW i \in 1..Len(t), NEW d \in 1..3, d < i
      PROVE  u[(l + i) - d] = t[i - d] /\ (Continues(u, (l + i) - d, d) <=> Continues(t, i - d, d))
  <2>1. i - d \in 1..Len(t) /\ (l + i) - d = l + (i - d)
    BY <1>0, <1>5
  <2>2. \A k \in 1..d : i - d + k \in 1..Len(t) /\ l + (i - d) + k = l + (i - d + k)
    BY <1>0, <1>5
  <2>3. \A k \in 1..d : u[l + (i - d) + k] = t[i - d + k]
    BY <1>2, <2>2
  <2>4. l + (i - d) + d <= Len(u) /\ i - d + d <= Len(t)
    BY <1>0
  <2> QED BY <1>2, <2>1, <2>3, <2>4 DEF Continues
<1>6. ASSUME NEW i \in 1..Len(t), Belongs(t, i) PROVE Belongs(u, l + i)
  <2>1. PICK d \in 1..3 : d < i /\ Width(t[i - d]) > d /\ Continues(t, i - d, d)
    BY <1>6 DEF Belongs
  <2>2. u[l + i] = "c" /\ d < l + i
    BY <1>0, <1>2, <1>6, <2>1 DEF Belongs
  <2>3. Width(u[(l + i) - d]) > d /\ Continues(u, (l + i) - d, d)
    BY <1>5, <2>1
  <2> QED BY <2>2, <2>3, BelongsIf
<1>7. ASSUME NEW i \in 1..Len(t), Belongs(u, l + i) PROVE Belongs(t, i)
  <2>1. PICK d \in 1..3 : d < l + i /\ Width(u[(l + i) - d]) > d /\ Continues(u, (l + i) - d, d)
    BY <1>7, BelongsOnlyIf
  <2>2. t[i] = "c"
    BY <1>2, <1>7 DEF Belongs
  <2>3. CASE d < i
    BY <1>5, <2>1, <2>2, <2>3 DEF Belongs
  <2>4. CASE ~(d < i)
    <3> DEFINE j == (l + i) - d
    <3>1. j \in 1..l /\ j + d > l
      BY <1>0, <2>1, <2>4
    <3> HIDE DEF j
    <3>2. Width(s[j]) > d
      BY <1>1, <2>1, <3>1 DEF j
    <3>3. s[j] # "c"
      BY <3>2, Widths
    <3>4. Starts(s, j)
      BY <3>1, <3>3, FormedIs DEF Belongs, l
    <3>5. j + (Width(s[j]) - 1) <= l
      BY <3>4 DEF Starts, Continues, l
    <3> QED BY <1>0, <3>1, <3>2, <3>5, Widths
  <2> QED BY <2>3, <2>4
<1>8. ASSUME NEW i \in 1..Len(u) PROVE i \in 1..l \/ (i - l \in 1..Len(t) /\ i = l + (i - l))
  BY <1>0
<1>9. ASSUME NEW i \in 1..Len(t) PROVE l + i \in 1..Len(u)
  BY <1>0
<1>10. ASSUME WellFormed(t) PROVE WellFormed(u)
  <2> SUFFICES ASSUME NEW i \in 1..Len(u) PROVE Starts(u, i) \/ Belongs(u, i)
    BY FormedIs
  <2>1. CASE i \in 1..l
    BY <1>3, <2>1
  <2>2. CASE i - l \in 1..Len(t) /\ i = l + (i - l)
    <3>1. Starts(t, i - l) \/ Belongs(t, i - l)
      BY <1>10, <2>2, FormedIs
    <3> QED BY <1>4, <1>6, <2>2, <3>1
  <2> QED BY <1>8, <2>1, <2>2
<1>11. ASSUME WellFormed(u) PROVE WellFormed(t)
  <2> SUFFICES ASSUME NEW i \in 1..Len(t) PROVE Starts(t, i) \/ Belongs(t, i)
    BY FormedIs
  <2>1. Starts(u, l + i) \/ Belongs(u, l + i)
    BY <1>9, <1>11, FormedIs
  <2> QED BY <1>4, <1>7, <2>1
<1> QED  BY <1>10, <1>11

\* What decides whether a byte begins its character or continues one.
LEMMA BelongsSame ==
  ASSUME NEW u, NEW q, NEW m \in Nat, NEW i \in 1..m, Len(q) \in Nat, m <= Len(q),
         \A k \in 1..m : q[k] = u[k], Belongs(u, i)
  PROVE  Belongs(q, i)
<1>1. PICK d \in 1..3 : d < i /\ Width(u[i - d]) > d /\ Continues(u, i - d, d)
  BY BelongsOnlyIf
<1>2. i - d \in 1..m /\ u[i] = "c"
  BY <1>1, BelongsOnlyIf
<1>3. \A k \in 1..d : i - d + k \in 1..m
  BY <1>1
<1>4. i - d + d <= Len(q)
  OBVIOUS
<1>5. Continues(q, i - d, d)
  BY <1>1, <1>3, <1>4 DEF Continues
<1> QED  BY <1>1, <1>2, <1>5, BelongsIf

LEMMA StartsSame ==
  ASSUME NEW u, NEW q, NEW m \in Nat, NEW i \in 1..m, Len(q) \in Nat, m <= Len(q),
         \A k \in 1..m : q[k] = u[k], Starts(u, i), i + (Width(u[i]) - 1) <= m
  PROVE  Starts(q, i)
<1> DEFINE w == Width(u[i]) - 1
<1>1. w \in Nat /\ q[i] = u[i] /\ i + w <= m
  BY Widths DEF Starts
<1>2. Continues(u, i, w)
  BY DEF Starts
<1> HIDE DEF w
<1>3. \A k \in 1..w : i + k \in 1..m
  BY <1>1
<1>4. Continues(q, i, w)
  <2>1. \A k \in 1..w : u[i + k] = "c"
    BY <1>2 DEF Continues
  <2>2. \A k \in 1..w : q[i + k] = "c"
    BY <1>3, <2>1
  <2>3. i + w <= Len(q)
    BY <1>1
  <2> QED BY <2>2, <2>3 DEF Continues
<1> QED  BY <1>1, <1>4, Widths DEF Starts, w

\* A character ends before the next byte that continues none.
LEMMA StartsEndBefore ==
  ASSUME NEW u, NEW i \in Nat, NEW j \in Nat, i < j, Starts(u, i), Len(u) \in Nat,
         j > Len(u) \/ u[j] # "c"
  PROVE  i + (Width(u[i]) - 1) < j
<1> DEFINE w == Width(u[i]) - 1
<1>1. w \in Nat /\ Continues(u, i, w)
  BY Widths DEF Starts
<1> HIDE DEF w
<1>2. SUFFICES ASSUME ~(i + w < j) PROVE FALSE
  BY DEF w
<1>3. j - i \in 1..w /\ i + (j - i) = j
  BY <1>1, <1>2
<1>4. u[j] = "c" /\ j <= Len(u)
  <2>1. u[i + (j - i)] = "c" /\ i + w <= Len(u)
    BY <1>1, <1>3 DEF Continues
  <2> QED BY <1>1, <1>2, <1>3, <2>1
<1> QED  BY <1>4

Pad(n) == [k \in 1..n |-> "c"]

LEMMA PadIs ==
  ASSUME NEW n \in Nat
  PROVE  Pad(n) \in Seq(Roles) /\ Len(Pad(n)) = n /\ \A k \in 1..n : Pad(n)[k] = "c"
BY DEF Pad, Roles

LEMMA CanBecomeIs ==
  ASSUME NEW s
  PROVE  CanBecomeText(s) <=> \E n \in 0..3 : WellFormed(s \o Pad(n))
BY DEF CanBecomeText, Pad

\* Text may be cut anywhere, and what is in front of the cut can still become text.
LEMMA CutCanBecome ==
  ASSUME NEW u, NEW p, NEW t, Joins(u, p, t), WellFormed(u)
  PROVE  CanBecomeText(p)
<1> DEFINE m == Len(p)
<1>1. m \in Nat /\ m <= Len(u) /\ Len(u) \in Nat /\ p \in Seq(Roles) /\ \A k \in 1..m : p[k] = u[k]
  <2>1. m \in Nat /\ m <= Len(u) /\ Len(u) \in Nat /\ p \in Seq(Roles)
    BY DEF Joins
  <2>2. \A k \in 1..m : p[k] = u[k]
    BY Zenon DEF Joins
  <2> QED BY <2>1, <2>2
<1> HIDE DEF m
<1>2. CASE m + 1 > Len(u) \/ u[m + 1] # "c"
  <2>1. ASSUME NEW i \in 1..m PROVE Starts(p, i) \/ Belongs(p, i)
    <3>1. i \in 1..Len(u) /\ m <= Len(p) /\ Len(p) \in Nat
      BY <1>1 DEF m
    <3>2. CASE Starts(u, i)
      <4>1. i + (Width(u[i]) - 1) < m + 1
        BY <1>1, <1>2, <3>2, StartsEndBefore
      <4>2. i + (Width(u[i]) - 1) <= m
        BY <1>1, <4>1, Widths
      <4> QED BY <1>1, <3>1, <3>2, <4>2, StartsSame
    <3>3. CASE Belongs(u, i)
      BY <1>1, <3>1, <3>3, BelongsSame
    <3> QED BY <3>1, <3>2, <3>3, FormedIs
  <2>2. WellFormed(p)
    BY <2>1, FormedIs DEF m
  <2>3. p \o Pad(0) = p
    <3>1. Pad(0) = <<>>
      BY PadIs
    <3> QED BY <1>1, <3>1, ConcatEmptySeq
  <2>4. 0 \in 0..3 /\ WellFormed(p \o Pad(0))
    <3>1. 0 \in 0..3
      OBVIOUS
    <3>2. WellFormed(p \o Pad(0))
      BY <2>2, <2>3, Zenon
    <3> QED BY <3>1, <3>2
  <2> QED BY <2>4, CanBecomeIs
<1>3. CASE m + 1 <= Len(u) /\ u[m + 1] = "c"
  <2>1. Belongs(u, m + 1)
    <3>1. m + 1 \in 1..Len(u)
      BY <1>1, <1>3
    <3>2. ~Starts(u, m + 1)
      BY <1>3, Widths DEF Starts
    <3> QED BY <3>1, <3>2, FormedIs
  <2>2. PICK d \in 1..3 : d < m + 1 /\ Width(u[(m + 1) - d]) > d /\ Continues(u, (m + 1) - d, d)
    BY <2>1, BelongsOnlyIf
  <2> DEFINE j == (m + 1) - d
             w == Width(u[j])
             q == p \o Pad(w - d)
  <2>3. j \in 1..m /\ w \in 2..4 /\ w > d /\ w - d \in 1..3 /\ j + d = m + 1
    BY <1>1, <2>2, Widths
  <2>4. u[j] # "c" /\ \A k \in 1..d : u[j + k] = "c"
    BY <2>2, <2>3, Widths DEF Continues
  <2>5. Len(q) = m + (w - d) /\ (\A i \in 1..m : q[i] = u[i]) /\ \A i \in 1..(w - d) : q[m + i] = "c"
    <3> DEFINE n == w - d
    <3>1. n \in Nat /\ q = p \o Pad(n)
      BY <2>3
    <3> HIDE DEF q, w, j, n
    <3>2. Pad(n) \in Seq(Roles) /\ Len(Pad(n)) = n /\ \A k \in 1..n : Pad(n)[k] = "c"
      BY <3>1, PadIs
    <3>3. Joins(q, p, Pad(n))
      BY <1>1, <3>1, <3>2, ConcatJoins
    <3>4. Len(q) = m + n /\ (\A i \in 1..m : q[i] = p[i]) /\ \A i \in 1..n : q[m + i] = Pad(n)[i]
      BY <3>2, <3>3, Zenon DEF Joins, m
    <3>5. Len(q) = m + n /\ (\A i \in 1..m : q[i] = u[i]) /\ \A i \in 1..n : q[m + i] = "c"
      BY <1>1, <3>2, <3>4
    <3> QED BY <3>5 DEF n
  <2> HIDE DEF j, w, q
  <2>6. Len(q) \in Nat /\ m <= Len(q) /\ Len(q) = j + (w - 1)
    BY <1>1, <2>3, <2>5
  <2>7. ASSUME NEW k \in 1..(w - 1) PROVE q[j + k] = "c"
    <3>1. CASE k < d
      <4>1. j + k \in 1..m /\ k \in 1..d
        BY <1>1, <2>3, <3>1
      <4> QED BY <2>4, <2>5, <4>1
    <3>2. CASE ~(k < d)
      <4>1. (k + 1) - d \in 1..(w - d) /\ m + ((k + 1) - d) = j + k
        BY <1>1, <2>3, <3>2
      <4> QED BY <2>5, <4>1
    <3> QED BY <3>1, <3>2
  <2>8. ASSUME NEW i \in 1..Len(q) PROVE Starts(q, i) \/ Belongs(q, i)
    <3>1. CASE i < j
      <4>1. i \in 1..m /\ i \in 1..Len(u) /\ j \in Nat /\ i \in Nat
        BY <1>1, <2>3, <3>1
      <4>2. CASE Starts(u, i)
        <5>1. i + (Width(u[i]) - 1) < j
          BY <1>1, <2>4, <3>1, <4>1, <4>2, StartsEndBefore
        <5>2. i + (Width(u[i]) - 1) <= m
          BY <1>1, <2>3, <4>1, <5>1, Widths
        <5> QED BY <1>1, <2>5, <2>6, <4>1, <4>2, <5>2, StartsSame
      <4>3. CASE Belongs(u, i)
        BY <1>1, <2>5, <2>6, <4>1, <4>3, BelongsSame
      <4> QED BY <4>1, <4>2, <4>3, FormedIs
    <3>2. CASE i = j
      <4>1. Width(q[j]) = w
        BY <2>3, <2>5 DEF w
      <4>2. Continues(q, j, w - 1)
        BY <2>6, <2>7 DEF Continues
      <4> QED BY <2>3, <3>2, <4>1, <4>2 DEF Starts
    <3>3. CASE i > j
      <4> DEFINE e == i - j
      <4>1. e \in 1..3 /\ e < i /\ e \in 1..(w - 1) /\ i - e = j /\ i = j + e /\ j + e <= Len(q)
        BY <2>3, <2>6, <3>3
      <4> HIDE DEF e
      <4>2. q[i] = "c"
        BY <2>7, <4>1
      <4>3. Width(q[j]) > e
        BY <2>3, <2>5, <4>1 DEF w
      <4>4. Continues(q, j, e)
        BY <2>3, <2>7, <4>1 DEF Continues
      <4> QED BY <4>1, <4>2, <4>3, <4>4, BelongsIf
    <3> QED BY <2>3, <3>1, <3>2, <3>3
  <2>9. WellFormed(q)
    BY <2>8, FormedIs
  <2>10. w - d \in 0..3
    BY <2>3
  <2> QED BY <2>9, <2>10, CanBecomeIs DEF q
<1> QED  BY <1>1, <1>2, <1>3

LEMMA CanBecomeFront ==
  ASSUME NEW s \in Seq(Roles), NEW t \in Seq(Roles), CanBecomeText(s \o t)
  PROVE  CanBecomeText(s)
<1>1. PICK n \in 0..3 : WellFormed((s \o t) \o Pad(n))
  BY CanBecomeIs
<1>2. Pad(n) \in Seq(Roles)
  BY PadIs
<1>3. (s \o t) \o Pad(n) = s \o (t \o Pad(n)) /\ t \o Pad(n) \in Seq(Roles)
  BY <1>2, ConcatAssociative, ConcatProperties
<1>4. Joins((s \o t) \o Pad(n), s, t \o Pad(n))
  BY <1>3, ConcatJoins
<1> QED  BY <1>1, <1>4, CutCanBecome

LEMMA CanBecomeBack ==
  ASSUME NEW s \in Seq(Roles), NEW t \in Seq(Roles), WellFormed(s), CanBecomeText(s \o t)
  PROVE  CanBecomeText(t)
<1>1. PICK n \in 0..3 : WellFormed((s \o t) \o Pad(n))
  BY CanBecomeIs
<1>2. Pad(n) \in Seq(Roles)
  BY PadIs
<1>3. (s \o t) \o Pad(n) = s \o (t \o Pad(n)) /\ t \o Pad(n) \in Seq(Roles)
  BY <1>2, ConcatAssociative, ConcatProperties
<1>4. Joins((s \o t) \o Pad(n), s, t \o Pad(n))
  BY <1>3, ConcatJoins
<1>5. WellFormed(t \o Pad(n))
  BY <1>1, <1>4, FormedJoins
<1> QED  BY <1>5, CanBecomeIs

LEMMA FormedCanBecome ==
  ASSUME NEW s \in Seq(Roles), WellFormed(s)
  PROVE  CanBecomeText(s)
<1>1. Pad(0) = <<>> /\ 0 \in 0..3
  BY PadIs
<1>2. s \o Pad(0) = s
  BY <1>1, ConcatEmptySeq
<1>3. WellFormed(s \o Pad(0))
  BY <1>2, Zenon
<1> QED  BY <1>1, <1>3, CanBecomeIs

-----------------------------------------------------------------------------
(* Numbers of a finite range have a greatest one.                          *)
LEMMA SmallestOf ==
  ASSUME NEW T \in SUBSET Nat, T # {}
  PROVE  \E x \in T : \A y \in T : x <= y
<1> DEFINE R == {ss \in Nat \X Nat : ss[1] < ss[2]}
<1>1. IsWellFoundedOn(R, Nat)
  BY NatLessThanWellFounded, Zenon DEF OpToRel
<1>2. \A x, y \in Nat : <<y, x>> \in R <=> y < x
  OBVIOUS
<1> HIDE DEF R
<1>3. PICK x \in T : \A y \in T : <<y, x>> \notin R
  BY <1>1, WFMin, Zenon
<1>4. \A y \in T : ~(y < x)
  BY <1>2, <1>3
<1> QED  BY <1>4

LEMMA MaxIs ==
  ASSUME NEW N \in Nat, NEW T \in SUBSET (0..N), T # {}
  PROVE  Max(T) \in T /\ \A y \in T : y <= Max(T)
<1> DEFINE D == {N - x : x \in T}
<1>1. D \in SUBSET Nat /\ D # {}
  <2>1. \A x \in T : x \in Int /\ 0 <= x /\ x <= N
    OBVIOUS
  <2>2. \A x \in T : N - x \in Nat
    BY <2>1
  <2> QED BY <2>2
<1>2. PICK e \in D : \A y \in D : e <= y
  BY <1>1, SmallestOf
<1>3. PICK x \in T : e = N - x
  BY <1>2
<1>4. \A y \in T : N - x <= N - y
  BY <1>2, <1>3
<1>5. \A y \in T : x >= y
  BY <1>4
<1>6. Max(T) \in T /\ \A y \in T : Max(T) >= y
  BY <1>5, Zenon DEF Max
<1> QED  BY <1>6

LEMMA ValidIs ==
  ASSUME NEW s \in Seq(Roles)
  PROVE  /\ ValidLen(s) \in 0..Len(s)
         /\ WellFormed(Valid(s))
         /\ \A n \in 0..Len(s) : WellFormed(Prefix(s, n)) => n <= ValidLen(s)
<1> DEFINE T == {n \in 0..Len(s) : WellFormed(Prefix(s, n))}
<1>1. Len(s) \in Nat
  OBVIOUS
<1>2. WellFormed(Prefix(s, 0))
  <2>1. Len(Prefix(s, 0)) = 0
    BY <1>1, SplitJoins
  <2> QED BY <2>1, FormedIs
<1>3. T \in SUBSET (0..Len(s)) /\ T # {}
  BY <1>1, <1>2
<1>4. ValidLen(s) = Max(T)
  BY DEF ValidLen
<1>5. ValidLen(s) \in T /\ \A y \in T : y <= ValidLen(s)
  <2> HIDE DEF T
  <2> QED BY <1>1, <1>3, <1>4, MaxIs
<1> QED  BY <1>5 DEF Valid

LEMMA InvalidIs ==
  ASSUME NEW s \in Seq(Roles)
  PROVE  /\ InvalidLen(s) \in 0..3
         /\ ValidLen(s) + InvalidLen(s) <= Len(s)
         /\ InvalidLen(s) = 0 <=> ValidLen(s) = Len(s)
         /\ Invalid(s) \in Seq(Roles) /\ Len(Invalid(s)) = InvalidLen(s)
<1> DEFINE v == ValidLen(s)
           T == {n \in 0..2 : n < Width(s[v + 1]) /\ Continues(s, v + 1, n)} \cup {0}
           l == InvalidLen(s)
<1>1. v \in 0..Len(s) /\ Len(s) \in Nat
  BY ValidIs
<1>2. l = IF v = Len(s) THEN 0 ELSE 1 + Max(T)
  BY DEF InvalidLen
<1>3. Max(T) \in T
  <2>1. T \in SUBSET (0..2) /\ T # {} /\ 2 \in Nat
    OBVIOUS
  <2> HIDE DEF T
  <2> QED BY <2>1, MaxIs
<1>4. v # Len(s) => Max(T) \in 0..2 /\ v + 1 + Max(T) <= Len(s)
  BY <1>1, <1>3 DEF Continues
<1> HIDE DEF v, l, T
<1>5. l \in 0..3 /\ v + l <= Len(s) /\ (l = 0 <=> v = Len(s))
  BY <1>1, <1>2, <1>4
<1>6. /\ SubSeq(s, v + 1, v + l) \in Seq(Roles)
      /\ Len(SubSeq(s, v + 1, v + l)) = l
  <2>1. \A i \in (v + 1)..(v + l) : s[i] \in Roles
    BY <1>1, <1>5
  <2>2. v + 1 \in Int /\ v + l \in Int
    BY <1>1, <1>5
  <2>3. /\ SubSeq(s, v + 1, v + l) \in Seq(Roles)
        /\ Len(SubSeq(s, v + 1, v + l)) = IF v + 1 <= v + l THEN (v + l) - (v + 1) + 1 ELSE 0
    BY <2>1, <2>2, SubSeqProperties
  <2>4. (IF v + 1 <= v + l THEN (v + l) - (v + 1) + 1 ELSE 0) = l
    BY <1>1, <1>5
  <2> QED BY <2>3, <2>4
<1>7. Invalid(s) = SubSeq(s, v + 1, v + l)
  BY DEF Invalid, v, l
<1> QED  BY <1>5, <1>6, <1>7 DEF v, l

\* The beginning of a character whose other bytes are still to come.
Waits(p) ==
  Len(p) >= 1 /\ Width(p[1]) > Len(p) /\ \A k \in 2..Len(p) : p[k] = "c"

LEMMA WaitsIsNotFormed ==
  ASSUME NEW p \in Seq(Roles), Waits(p)
  PROVE  ~WellFormed(p)
<1>1. Len(p) \in Nat /\ 1 \in 1..Len(p) /\ Width(p[1]) > Len(p) /\ Width(p[1]) \in 0..4
  BY Widths DEF Waits
<1>2. ~Starts(p, 1)
  BY <1>1 DEF Starts, Continues
<1>3. ~Belongs(p, 1)
  BY <1>1, Widths DEF Belongs
<1> QED  BY <1>1, <1>2, <1>3, FormedIs

(* What utf8_chunks leaves of text that was cut somewhere is the beginning *)
(* of the character that was cut, and nothing is behind it.                *)
LEMMA RestWaits ==
  ASSUME NEW s \in Seq(Roles), CanBecomeText(s), ValidLen(s) # Len(s)
  PROVE  /\ Waits(Dropped(s, ValidLen(s)))
         /\ ValidLen(s) + InvalidLen(s) = Len(s)
         /\ Invalid(s) = Dropped(s, ValidLen(s))
<1> DEFINE v == ValidLen(s)
           r == Dropped(s, v)
           w == Width(r[1])
<1>1. v \in 0..(Len(s) - 1) /\ Len(s) \in Nat
  BY ValidIs
<1>2. Joins(s, Prefix(s, v), r) /\ Prefix(s, v) \o r = s /\ Len(Prefix(s, v)) = v
  <2>1. v \in 0..Len(s)
    BY <1>1
  <2> QED BY <2>1, SplitJoins
<1>3. /\ r \in Seq(Roles) /\ Len(r) = Len(s) - v /\ Len(r) \in Nat /\ Len(r) >= 1
      /\ Prefix(s, v) \in Seq(Roles)
      /\ \A i \in 1..Len(r) : s[v + i] = r[i]
  BY <1>1, <1>2 DEF Joins
<1>4. WellFormed(Prefix(s, v))
  BY ValidIs DEF Valid
<1> HIDE DEF v, r, w
<1>5. CanBecomeText(r)
  BY <1>2, <1>3, <1>4, CanBecomeBack
<1>6. PICK n \in 0..3 : WellFormed(r \o Pad(n))
  BY <1>5, CanBecomeIs
<1>7. Joins(r \o Pad(n), r, Pad(n))
  BY <1>3, PadIs, ConcatJoins
<1> DEFINE q == r \o Pad(n)
<1>8. Len(q) \in Nat /\ Len(q) >= Len(r) /\ 1 \in 1..Len(q) /\ \A i \in 1..Len(r) : q[i] = r[i]
  <2>1. Len(q) \in Nat /\ Len(q) >= Len(r) /\ 1 \in 1..Len(q)
    BY <1>3, <1>7 DEF Joins
  <2>2. \A i \in 1..Len(r) : q[i] = r[i]
    BY <1>7, Zenon DEF Joins
  <2> QED BY <2>1, <2>2
<1> HIDE DEF q
<1>9. Starts(q, 1)
  <2>1. ~Belongs(q, 1)
    BY DEF Belongs
  <2> QED BY <1>6, <1>8, <2>1, FormedIs DEF q
<1>10. w \in 1..4 /\ \A k \in 1..(w - 1) : q[1 + k] = "c"
  <2>1. q[1] = r[1]
    BY <1>3, <1>8
  <2> QED BY <1>9, <2>1, Widths DEF Starts, Continues, w
<1>11. \A k \in 2..Len(r) : k <= w => r[k] = "c"
  <2> SUFFICES ASSUME NEW k \in 2..Len(r), k <= w PROVE r[k] = "c"
    OBVIOUS
  <2>1. k - 1 \in 1..(w - 1) /\ 1 + (k - 1) = k /\ k \in 1..Len(r)
    BY <1>3, <1>10
  <2> QED BY <1>8, <1>10, <2>1
<1>12. w > Len(r)
  <2> SUFFICES ASSUME w <= Len(r) PROVE FALSE
    BY <1>3, <1>10
  <2> DEFINE c == Prefix(r, w)
  <2>1. Joins(r, c, Dropped(r, w)) /\ Len(c) = w
    BY <1>3, <1>10, SplitJoins
  <2>2. c \in Seq(Roles) /\ \A i \in 1..w : c[i] = r[i]
    BY <2>1, Zenon DEF Joins
  <2> HIDE DEF c
  <2>3. Starts(c, 1)
    <3>1. c[1] = r[1]
      BY <1>10, <2>2
    <3>2. \A k \in 1..(w - 1) : 1 + k \in 2..Len(r) /\ 1 + k <= w /\ 1 + k \in 1..w
      BY <1>3, <1>10
    <3>3. \A k \in 1..(w - 1) : c[1 + k] = "c"
      BY <1>11, <2>2, <3>2
    <3>4. Continues(c, 1, w - 1)
      BY <1>10, <2>1, <3>3 DEF Continues
    <3> QED BY <1>10, <3>1, <3>4 DEF Starts, w
  <2>4. ASSUME NEW i \in 2..w PROVE Belongs(c, i)
    <3> DEFINE e == i - 1
    <3>1. e \in 1..3 /\ e < i /\ i - e = 1 /\ 1 + e <= w /\ e <= w - 1 /\ i \in 1..w /\ i \in 2..Len(r) /\ i <= w
      BY <1>3, <1>10
    <3> HIDE DEF e
    <3>2. c[i] = "c"
      BY <1>11, <2>2, <3>1
    <3>3. Width(c[1]) > e
      <4>1. c[1] = r[1]
        BY <1>10, <2>2
      <4> QED BY <1>10, <3>1, <4>1 DEF w
    <3>4. Continues(c, 1, e)
      <4>1. \A k \in 1..e : 1 + k \in 1..w /\ 1 + k \in 2..Len(r) /\ 1 + k <= w
        BY <1>3, <1>10, <3>1
      <4>2. \A k \in 1..e : c[1 + k] = "c"
        BY <1>11, <2>2, <4>1
      <4> QED BY <2>1, <3>1, <4>2 DEF Continues
    <3> QED BY <3>1, <3>2, <3>3, <3>4, BelongsIf
  <2>5. WellFormed(c)
    <3>1. \A i \in 1..Len(c) : i = 1 \/ i \in 2..w
      BY <1>10, <2>1
    <3> QED BY <2>3, <2>4, <3>1, FormedIs
  <2>6. v + w \in 0..Len(s) /\ v + w > v
    BY <1>1, <1>3, <1>10
  <2>7. WellFormed(Prefix(s, v + w))
    <3>1. Joins(s, Prefix(s, v + w), Dropped(s, v + w)) /\ Len(Prefix(s, v + w)) = v + w
      BY <2>6, SplitJoins
    <3> DEFINE p == Prefix(s, v + w)
               f == Prefix(s, v)
    <3>2. p \in Seq(Roles) /\ \A i \in 1..(v + w) : p[i] = s[i]
      BY <3>1, Zenon DEF Joins
    <3>3. \A i \in 1..v : f[i] = s[i]
      BY <1>2, Zenon DEF Joins
    <3>4. f \in Seq(Roles) /\ Len(f) = v /\ WellFormed(f) /\ Len(p) = v + w
      BY <1>2, <1>3, <1>4, <3>1
    <3> HIDE DEF p, f
    <3>5. \A i \in 1..v : p[i] = f[i]
      <4>1. \A i \in 1..v : i \in 1..(v + w)
        BY <1>1, <1>10
      <4> QED BY <3>2, <3>3, <4>1
    <3>6. \A i \in 1..w : p[v + i] = c[i]
      <4>1. \A i \in 1..w : v + i \in 1..(v + w) /\ i \in 1..Len(r)
        BY <1>1, <1>3, <1>10
      <4> QED BY <1>3, <2>2, <3>2, <4>1
    <3>7. Joins(p, f, c)
      BY <1>1, <1>10, <2>1, <2>2, <3>2, <3>4, <3>5, <3>6 DEF Joins
    <3>8. WellFormed(p)
      BY <2>5, <3>4, <3>7, FormedJoins
    <3> QED BY <3>8 DEF p
  <2>8. v + w <= v
    BY <2>6, <2>7, ValidIs DEF v
  <2> QED BY <2>6, <2>8, <1>1, <1>10
<1>13. Waits(r)
  <2>1. \A k \in 2..Len(r) : k <= w
    BY <1>3, <1>10, <1>12
  <2> QED BY <1>3, <1>11, <1>12, <2>1 DEF Waits, w
<1> DEFINE T == {k \in 0..2 : k < Width(s[v + 1]) /\ Continues(s, v + 1, k)} \cup {0}
<1>14. Len(r) - 1 \in T
  <2>1. s[v + 1] = r[1]
    BY <1>3
  <2>2. Len(r) - 1 \in 0..2 /\ Len(r) - 1 < Width(s[v + 1])
    BY <1>3, <1>10, <1>12, <2>1 DEF w
  <2>3. \A k \in 1..(Len(r) - 1) : 1 + k \in 2..Len(r) /\ 1 + k \in 1..Len(r) /\ v + (1 + k) = v + 1 + k
    <3> HIDE DEF T
    <3> SUFFICES ASSUME NEW k \in 1..(Len(r) - 1)
                 PROVE  1 + k \in 2..Len(r) /\ 1 + k \in 1..Len(r) /\ v + (1 + k) = v + 1 + k
      OBVIOUS
    <3> DEFINE m == Len(r)
    <3>1. m \in Nat /\ v \in Nat /\ k \in 1..(m - 1)
      BY <1>1, <1>3
    <3> HIDE DEF m
    <3>2. 1 + k \in 2..m /\ 1 + k \in 1..m /\ v + (1 + k) = v + 1 + k
      BY <3>1
    <3> QED BY <3>2 DEF m
  <2>4. \A k \in 1..(Len(r) - 1) : s[v + 1 + k] = "c"
    BY <1>3, <1>13, <2>3 DEF Waits
  <2>5. v + 1 + (Len(r) - 1) <= Len(s)
    BY <1>1, <1>3
  <2> QED BY <2>2, <2>4, <2>5 DEF Continues
<1>15. InvalidLen(s) = 1 + Max(T)
  BY <1>1 DEF InvalidLen, v
<1>16. Max(T) >= Len(r) - 1 /\ Max(T) \in 0..2
  <2>1. T \in SUBSET (0..2) /\ T # {} /\ 2 \in Nat
    OBVIOUS
  <2> HIDE DEF T
  <2> QED BY <1>14, <2>1, MaxIs, <1>3
<1>17. v + InvalidLen(s) <= Len(s)
  BY InvalidIs DEF v
<1>18. v + InvalidLen(s) = Len(s)
  <2> HIDE DEF T
  <2> QED BY <1>1, <1>3, <1>15, <1>16, <1>17
<1>19. Invalid(s) = r
  BY <1>18 DEF Invalid, Dropped, v, r
<1> QED  BY <1>13, <1>18, <1>19 DEF v, r

-----------------------------------------------------------------------------
(* What push_text_payload makes of a text, a tail and the next bytes.      *)
LEMMA PushedIs ==
  ASSUME NEW r, NEW t, NEW tl, NEW ok, r = Pushed(t, tl, ok)
  PROVE  r.text = t /\ r.tail = tl /\ r.ok = ok
BY DEF Pushed

\* A tail is the beginning of a character, or a byte that begins none.
Tails(tl) ==
  /\ Len(tl) >= 2 => Width(tl[1]) >= Len(tl)
  /\ \A k \in 2..Len(tl) : tl[k] = "c"

LEMMA InvalidWaits ==
  ASSUME NEW s \in Seq(Roles)
  PROVE  Tails(Invalid(s))
<1> DEFINE v == ValidLen(s)
           l == InvalidLen(s)
           r == Invalid(s)
           T == {n \in 0..2 : n < Width(s[v + 1]) /\ Continues(s, v + 1, n)} \cup {0}
<1>1. v \in 0..Len(s) /\ Len(s) \in Nat
  BY ValidIs
<1>2. l \in 0..3 /\ v + l <= Len(s) /\ (l = 0 <=> v = Len(s)) /\ r \in Seq(Roles) /\ Len(r) = l
  BY InvalidIs, Zenon
<1>3. l = IF v = Len(s) THEN 0 ELSE 1 + Max(T)
  BY DEF InvalidLen
<1>4. Max(T) \in T
  <2>1. T \in SUBSET (0..2) /\ T # {} /\ 2 \in Nat
    OBVIOUS
  <2> HIDE DEF T
  <2> QED BY <2>1, MaxIs
<1>5. r = SubSeq(s, v + 1, v + l)
  BY DEF Invalid
<1> HIDE DEF v, l, r
<1>6. CASE l <= 1
  BY <1>2, <1>6 DEF Tails, r
<1>8. CASE l > 1
  <2>1. l - 1 < Width(s[v + 1]) /\ Continues(s, v + 1, l - 1)
    <3>1. Max(T) = l - 1 /\ l - 1 # 0
      <4>1. Max(T) \in 0..2
        BY <1>4
      <4> HIDE DEF T
      <4> QED BY <1>2, <1>3, <1>8, <4>1
    <3> QED BY <1>4, <3>1
  <2>2. \A i \in 1..l : r[i] = s[v + i]
    <3>1. \A i \in (v + 1)..(v + l) : s[i] \in Roles
      BY <1>1, <1>2
    <3>2. v + 1 \in Int /\ v + l \in Int
      BY <1>1, <1>2
    <3>3. \A i \in 1..((v + l) - (v + 1) + 1) : SubSeq(s, v + 1, v + l)[i] = s[(v + 1) + i - 1]
      BY <3>1, <3>2, SubSeqProperties
    <3>4. (v + l) - (v + 1) + 1 = l /\ \A i \in 1..l : (v + 1) + i - 1 = v + i
      BY <1>1, <1>2
    <3> QED BY <1>5, <3>3, <3>4
  <2>3. Width(r[1]) >= l
    <3>1. r[1] = s[v + 1]
      BY <1>2, <1>8, <2>2
    <3>2. Width(r[1]) \in 0..4 /\ l - 1 < Width(r[1])
      BY <2>1, <3>1, Widths
    <3> QED BY <1>2, <3>2
  <2>4. \A k \in 2..l : r[k] = "c"
    <3>1. \A k \in 2..l : k - 1 \in 1..(l - 1) /\ v + 1 + (k - 1) = v + k /\ k \in 1..l
      BY <1>1, <1>2
    <3> QED BY <2>1, <2>2, <3>1 DEF Continues
  <2> QED BY <1>2, <2>3, <2>4 DEF Tails, r
<1> QED  BY <1>2, <1>6, <1>8

\* In any case the text is well formed, and what waits is short.
Keeps(r) ==
  /\ r.text \in Seq(Roles) /\ WellFormed(r.text)
  /\ r.tail \in Seq(Roles) /\ Len(r.tail) <= 3 /\ Tails(r.tail)

\* Of what can become text all bytes are kept; it is refused only at its end, if at all.
Right(r, all, final) ==
  /\ r.text \o r.tail = all
  /\ r.tail = <<>> \/ Waits(r.tail)
  /\ final \/ r.ok
  /\ WellFormed(all) => r.ok

LEMMA LongerText ==
  ASSUME NEW t \in Seq(Roles), WellFormed(t), NEW s \in Seq(Roles)
  PROVE  t \o Valid(s) \in Seq(Roles) /\ WellFormed(t \o Valid(s))
         /\ Valid(s) \in Seq(Roles) /\ Len(Valid(s)) = ValidLen(s)
<1>1. ValidLen(s) \in 0..Len(s) /\ WellFormed(Valid(s))
  BY ValidIs
<1>2. Valid(s) \in Seq(Roles) /\ Len(Valid(s)) = ValidLen(s)
  <2>1. Prefix(s, ValidLen(s)) \in Seq(Roles) /\ Len(Prefix(s, ValidLen(s))) = ValidLen(s)
    BY <1>1, SplitJoins, Zenon DEF Joins
  <2> QED BY <2>1 DEF Valid
<1>3. Joins(t \o Valid(s), t, Valid(s))
  BY <1>2, ConcatJoins
<1>4. t \o Valid(s) \in Seq(Roles)
  BY <1>3 DEF Joins
<1> QED  BY <1>1, <1>2, <1>3, <1>4, FormedJoins

LEMMA InvalidShort ==
  ASSUME NEW s \in Seq(Roles)
  PROVE  Invalid(s) \in Seq(Roles) /\ Len(Invalid(s)) <= 3
<1>1. /\ InvalidLen(s) \in 0..3
      /\ Invalid(s) \in Seq(Roles) /\ Len(Invalid(s)) = InvalidLen(s)
  BY InvalidIs, Zenon
<1> QED  BY <1>1

LEMMA PushRestKeeps ==
  ASSUME NEW t \in Seq(Roles), WellFormed(t), NEW d \in Seq(Roles), NEW final
  PROVE  Keeps(PushRest(t, d, final))
<1>1. <<>> \in Seq(Roles) /\ Len(<<>>) <= 3 /\ Tails(<<>>)
  BY DEF Tails
<1>2. t \o Valid(d) \in Seq(Roles) /\ WellFormed(t \o Valid(d))
  BY LongerText
<1>3. Invalid(d) \in Seq(Roles) /\ Len(Invalid(d)) <= 3 /\ Tails(Invalid(d))
  BY InvalidShort, InvalidWaits
<1>4. \/ PushRest(t, d, final) = Pushed(t, <<>>, TRUE)
      \/ PushRest(t, d, final) = Pushed(t \o Valid(d), <<>>, TRUE)
      \/ PushRest(t, d, final) =
           Pushed(t \o Valid(d), Invalid(d), Complete(d, final))
  BY Zenon DEF PushRest
<1>5. CASE PushRest(t, d, final) = Pushed(t, <<>>, TRUE)
  <2>1. PushRest(t, d, final).text = t /\ PushRest(t, d, final).tail = <<>>
    BY <1>5, PushedIs
  <2> QED BY <1>1, <2>1, Zenon DEF Keeps
<1>6. CASE PushRest(t, d, final) = Pushed(t \o Valid(d), <<>>, TRUE)
  <2>1. PushRest(t, d, final).text = t \o Valid(d) /\ PushRest(t, d, final).tail = <<>>
    BY <1>6, PushedIs
  <2> QED BY <1>1, <1>2, <2>1, Zenon DEF Keeps
<1>7. CASE PushRest(t, d, final) =
             Pushed(t \o Valid(d), Invalid(d), Complete(d, final))
  <2>1. /\ PushRest(t, d, final).text = t \o Valid(d)
        /\ PushRest(t, d, final).tail = Invalid(d)
    BY <1>7, PushedIs
  <2> QED BY <1>2, <1>3, <2>1, Zenon DEF Keeps
<1> QED  BY <1>4, <1>5, <1>6, <1>7

LEMMA PushRestRight ==
  ASSUME NEW t \in Seq(Roles), WellFormed(t), NEW d \in Seq(Roles), NEW final \in BOOLEAN,
         CanBecomeText(d)
  PROVE  Right(PushRest(t, d, final), t \o d, final)
<1> DEFINE v == ValidLen(d)
<1>1. v \in 0..Len(d) /\ \A n \in 0..Len(d) : WellFormed(Prefix(d, n)) => n <= v
  BY ValidIs
<1>2. Prefix(d, Len(d)) = d
  BY SubSeqFull DEF Prefix
<1>3. CASE d = <<>>
  <2>1. PushRest(t, d, final) = Pushed(t, <<>>, TRUE)
    BY <1>3 DEF PushRest
  <2>2. t \o d = t /\ t \o <<>> = t
    BY <1>3, ConcatEmptySeq
  <2>3. /\ PushRest(t, d, final).text = t /\ PushRest(t, d, final).tail = <<>>
        /\ PushRest(t, d, final).ok = TRUE
    BY <2>1, PushedIs
  <2> QED BY <2>2, <2>3, Zenon DEF Right
<1>4. CASE d # <<>> /\ Invalid(d) = <<>>
  <2>1. PushRest(t, d, final) = Pushed(t \o Valid(d), <<>>, TRUE)
    BY <1>4 DEF PushRest
  <2>2. Valid(d) = d
    <3>1. InvalidLen(d) = 0
      <4>1. Len(Invalid(d)) = 0
        BY <1>4
      <4> QED BY <4>1, InvalidIs
    <3>2. v = Len(d)
      BY <3>1, InvalidIs
    <3> QED BY <1>2, <3>2 DEF Valid
  <2>3. t \o d \in Seq(Roles)
    BY ConcatProperties
  <2>4. (t \o d) \o <<>> = t \o d
    BY <2>3, ConcatEmptySeq
  <2>5. /\ PushRest(t, d, final).text = t \o d /\ PushRest(t, d, final).tail = <<>>
        /\ PushRest(t, d, final).ok = TRUE
    BY <2>1, <2>2, PushedIs
  <2> QED BY <2>4, <2>5 DEF Right
<1>5. CASE d # <<>> /\ Invalid(d) # <<>>
  <2>1. PushRest(t, d, final) =
          Pushed(t \o Valid(d), Invalid(d), Complete(d, final))
    BY <1>5 DEF PushRest
  <2>2. v # Len(d)
    <3>1. Invalid(d) \in Seq(Roles) /\ (v = Len(d) => Len(Invalid(d)) = 0)
      BY InvalidIs
    <3>2. Len(Invalid(d)) # 0
      BY <1>5, <3>1
    <3> QED BY <3>1, <3>2
  <2>3. /\ Waits(Dropped(d, v)) /\ v + InvalidLen(d) = Len(d)
        /\ Invalid(d) = Dropped(d, v)
    BY <2>2, RestWaits
  <2>4. Valid(d) \o Invalid(d) = d
    BY <1>1, <2>3, SplitJoins DEF Valid
  <2>5. (t \o Valid(d)) \o Invalid(d) = t \o d
    <3>1. Valid(d) \in Seq(Roles) /\ Invalid(d) \in Seq(Roles)
      BY LongerText, InvalidIs
    <3>2. (t \o Valid(d)) \o Invalid(d) = t \o (Valid(d) \o Invalid(d))
      BY <3>1, ConcatAssociative
    <3> QED BY <2>4, <3>2
  <2>6. ~WellFormed(t \o d)
    <3>1. ~WellFormed(d)
      <4>1. Len(d) \in 0..Len(d)
        OBVIOUS
      <4> HIDE DEF v
      <4>2. ~(Len(d) <= v)
        BY <1>1, <2>2
      <4>3. ~WellFormed(Prefix(d, Len(d)))
        BY <1>1, <4>1, <4>2
      <4> QED BY <1>2, <4>3, Zenon
    <3>2. Joins(t \o d, t, d)
      BY ConcatJoins
    <3> QED BY <3>1, <3>2, FormedJoins
  <2>7. Complete(d, final) <=> ~final
    BY <2>3 DEF Complete
  <2>8. /\ PushRest(t, d, final).text = t \o Valid(d)
        /\ PushRest(t, d, final).tail = Invalid(d)
        /\ PushRest(t, d, final).ok = Complete(d, final)
    BY <2>1, PushedIs
  <2> QED BY <2>3, <2>5, <2>6, <2>7, <2>8, Zenon DEF Right
<1> QED  BY <1>3, <1>4, <1>5

LEMMA BorrowedIs ==
  ASSUME NEW a \in Nat
  PROVE  Min({a, Borrowed}) = IF a <= 3 THEN a ELSE 3
<1> DEFINE m == IF a <= 3 THEN a ELSE 3
<1>1. m \in {a, 3} /\ \A y \in {a, 3} : m <= y
  OBVIOUS
<1>2. \A x \in {a, 3} : (\A y \in {a, 3} : x <= y) => x = m
  OBVIOUS
<1> HIDE DEF m
<1>3. Min({a, 3}) \in {a, 3} /\ \A y \in {a, 3} : Min({a, 3}) <= y
  BY <1>1, Zenon DEF Min
<1>4. Min({a, 3}) = m
  BY <1>2, <1>3, Zenon
<1> QED  BY <1>4 DEF m, Borrowed

LEMMA Regroup ==
  ASSUME NEW a \in Seq(Roles), NEW b \in Seq(Roles), NEW c \in Seq(Roles)
  PROVE  (a \o b) \o c = a \o (b \o c)
BY ConcatAssociative

\* What is left of the data begins where what was joined ends.
LEMMA JoinedIs ==
  ASSUME NEW tl \in Seq(Roles), tl # <<>>, NEW d \in Seq(Roles)
  PROVE  LET take   == Min({Len(d), Borrowed})
             joined == tl \o Prefix(d, take)
         IN  /\ take \in 0..Len(d) /\ take <= 3 /\ (take < 3 => take = Len(d))
             /\ Len(tl) \in Nat /\ Len(tl) >= 1
             /\ joined \in Seq(Roles) /\ Len(joined) = Len(tl) + take
             /\ \A i \in 1..Len(tl) : joined[i] = tl[i]
             /\ joined \o Dropped(d, take) = tl \o d
<1> DEFINE take   == Min({Len(d), Borrowed})
           p      == Prefix(d, take)
           joined == tl \o p
<1>1. take \in 0..Len(d) /\ take <= 3 /\ (take < 3 => take = Len(d)) /\ Len(tl) \in Nat /\ Len(tl) >= 1
  <2>1. Len(d) \in Nat
    OBVIOUS
  <2>2. take = IF Len(d) <= 3 THEN Len(d) ELSE 3
    BY <2>1, BorrowedIs
  <2> HIDE DEF take
  <2> QED BY <2>1, <2>2
<1> HIDE DEF take
<1>2. p \in Seq(Roles) /\ Len(p) = take /\ p \o Dropped(d, take) = d /\ Dropped(d, take) \in Seq(Roles)
  BY <1>1, SplitJoins DEF Joins
<1> HIDE DEF p
<1>3. joined \in Seq(Roles) /\ Len(joined) = Len(tl) + take /\ \A i \in 1..Len(tl) : joined[i] = tl[i]
  <2>1. Joins(joined, tl, p)
    BY <1>2, ConcatJoins
  <2>2. joined \in Seq(Roles) /\ Len(joined) = Len(tl) + Len(p) /\ \A i \in 1..Len(tl) : joined[i] = tl[i]
    BY <2>1, Zenon DEF Joins
  <2> QED BY <1>2, <2>2
<1>4. joined \o Dropped(d, take) = tl \o d
  <2>1. (tl \o p) \o Dropped(d, take) = tl \o (p \o Dropped(d, take))
    BY <1>2, Regroup
  <2> QED BY <1>2, <2>1
<1> QED  BY <1>1, <1>3, <1>4 DEF take, p

LEMMA TwoOrMore ==
  ASSUME NEW n \in Nat, n >= 1, n # 1
  PROVE  n >= 2
OBVIOUS

Sums(l, e, v, r) == l + e = v + r /\ v \in Nat /\ l + e \in Nat

LEMMA LengthOfBoth ==
  ASSUME NEW l \in Nat, NEW e \in Nat, NEW n \in 0..e, NEW v, v = l + n, NEW r, r = e - n
  PROVE  Sums(l, e, v, r)
BY DEF Sums

\* A character that was begun in the tail is completed, or none of the data is.
LEMMA ValidPastTail ==
  ASSUME NEW tl \in Seq(Roles), Tails(tl), Len(tl) >= 1,
         NEW u \in Seq(Roles), Len(tl) <= Len(u), u[1] = tl[1], Valid(u) # <<>>
  PROVE  ValidLen(u) >= Len(tl) /\ ValidLen(u) >= Width(tl[1])
<1> DEFINE v == ValidLen(u)
           p == Valid(u)
<1>1. v \in 0..Len(u) /\ WellFormed(p)
  BY ValidIs
<1>2. p \in Seq(Roles) /\ Len(p) = v /\ (v >= 1 => p[1] = u[1])
  <2>1. Joins(u, Prefix(u, v), Dropped(u, v)) /\ Len(Prefix(u, v)) = v
    BY <1>1, SplitJoins
  <2>2. p = Prefix(u, v)
    BY DEF Valid
  <2>3. p \in Seq(Roles) /\ \A i \in 1..v : u[i] = p[i]
    BY <2>1, <2>2, Zenon DEF Joins
  <2>4. v >= 1 => 1 \in 1..v
    BY <1>1
  <2> QED BY <2>1, <2>2, <2>3, <2>4
<1>3. v >= 1
  <2>1. Len(p) # 0
    BY <1>2
  <2> HIDE DEF p, v
  <2> QED BY <1>1, <1>2, <2>1
<1> HIDE DEF p, v
<1>4. Starts(p, 1)
  <2>1. ~Belongs(p, 1)
    BY DEF Belongs
  <2>2. 1 \in 1..Len(p)
    BY <1>1, <1>2, <1>3
  <2> QED BY <1>1, <2>1, <2>2, FormedIs
<1>5. Width(tl[1]) <= v
  <2>1. Width(p[1]) - 1 + 1 <= Len(p)
    BY <1>4, Widths DEF Starts, Continues
  <2>2. p[1] = tl[1]
    BY <1>2, <1>3
  <2> QED BY <1>2, <2>1, <2>2, Widths
<1>6. v >= Len(tl)
  <2>1. CASE Len(tl) = 1
    BY <1>3, <2>1
  <2>2. CASE Len(tl) # 1
    <3>0. Len(tl) \in Nat
      OBVIOUS
    <3>1. Len(tl) \in Nat /\ Len(tl) >= 2
      BY <2>2, <3>0, TwoOrMore
    <3>2. Width(tl[1]) >= Len(tl)
      BY <3>1 DEF Tails
    <3>3. Width(tl[1]) \in 0..4
      BY Widths
    <3> QED BY <1>1, <1>5, <3>1, <3>2, <3>3
  <2> QED BY <2>1, <2>2
<1> QED  BY <1>5, <1>6 DEF v

\* The bytes that did not go into completing the tail.
Divides(joined, rest, all) ==
  /\ rest \in Seq(Roles) /\ Valid(joined) \in Seq(Roles)
  /\ WellFormed(Valid(joined)) /\ Valid(joined) \o rest = all

LEMMA RestOfData ==
  ASSUME NEW tl \in Seq(Roles), tl # <<>>, Tails(tl), NEW d \in Seq(Roles),
         NEW take, take = Min({Len(d), Borrowed}),
         NEW joined, joined = tl \o Prefix(d, take),
         Valid(joined) # <<>>,
         NEW rest, rest = Dropped(d, ValidLen(joined) - Len(tl))
  PROVE  Divides(joined, rest, tl \o d)
<1> DEFINE v == ValidLen(joined)
           l == Len(tl)
           n == v - l
<1>1. /\ take \in 0..Len(d) /\ take <= 3 /\ (take < 3 => take = Len(d))
      /\ l \in Nat /\ l >= 1
      /\ joined \in Seq(Roles) /\ Len(joined) = l + take
      /\ \A i \in 1..Len(tl) : joined[i] = tl[i]
      /\ joined \o Dropped(d, take) = tl \o d
  BY JoinedIs, Zenon
<1>2. v \in 0..Len(joined) /\ v >= l /\ WellFormed(Valid(joined))
  <2>1. joined[1] = tl[1] /\ l <= Len(joined)
    BY <1>1
  <2> QED BY <1>1, <2>1, ValidIs, ValidPastTail
<1>3. n \in 0..Len(d) /\ v = l + n
  <2> HIDE DEF v, l
  <2> QED BY <1>1, <1>2
<1>4. rest \in Seq(Roles) /\ Len(rest) = Len(d) - n /\ \A i \in 1..Len(rest) : d[n + i] = rest[i]
  <2>1. Joins(d, Prefix(d, n), rest) /\ Len(Prefix(d, n)) = n
    BY <1>3, SplitJoins
  <2> HIDE DEF n
  <2> DEFINE p == Prefix(d, n)
  <2> HIDE DEF p
  <2>2. rest \in Seq(Roles) /\ Len(d) = Len(p) + Len(rest) /\ \A i \in 1..Len(rest) : d[Len(p) + i] = rest[i]
    BY <2>1, Zenon DEF Joins, p
  <2>3. Len(d) \in Nat /\ Len(rest) \in Nat /\ Len(p) = n
    BY <2>1, <2>2 DEF p
  <2>4. \A i \in 1..Len(rest) : d[n + i] = rest[i]
    BY <2>2, <2>3, Zenon
  <2>5. Len(rest) = Len(d) - n
    BY <1>3, <2>2, <2>3
  <2> QED BY <2>2, <2>4, <2>5
<1>5. /\ Valid(joined) \in Seq(Roles) /\ Len(Valid(joined)) = v
      /\ \A i \in 1..v : joined[i] = Valid(joined)[i]
  <2>1. Joins(joined, Prefix(joined, v), Dropped(joined, v)) /\ Len(Prefix(joined, v)) = v
    BY <1>1, <1>2, SplitJoins
  <2>2. Valid(joined) = Prefix(joined, v)
    BY DEF Valid
  <2>3. \A i \in 1..Len(Prefix(joined, v)) : joined[i] = Prefix(joined, v)[i]
    BY <2>1, Zenon DEF Joins
  <2>4. Prefix(joined, v) \in Seq(Roles)
    BY <2>1, Zenon DEF Joins
  <2> QED BY <2>1, <2>2, <2>3, <2>4, Zenon
<1> DEFINE all == tl \o d
           f   == Valid(joined)
<1>6. Joins(all, joined, Dropped(d, take))
  <2>1. Dropped(d, take) \in Seq(Roles)
    BY <1>1, SplitJoins DEF Joins
  <2> QED BY <1>1, <2>1, ConcatJoins
<1>7. Joins(all, tl, d)
  BY ConcatJoins
<1> HIDE DEF all, f, v, l, n
<1>8. all \in Seq(Roles) /\ Len(all) = l + Len(d)
  BY <1>7 DEF Joins, l
<1>9. \A i \in 1..v : all[i] = f[i]
  <2>1. \A i \in 1..Len(joined) : all[i] = joined[i]
    BY <1>6, Zenon DEF Joins
  <2>2. \A i \in 1..v : i \in 1..Len(joined)
    BY <1>1, <1>2
  <2> QED BY <1>5, <2>1, <2>2 DEF f
<1>10. \A i \in 1..Len(rest) : all[v + i] = rest[i]
  <2>1. \A i \in 1..Len(d) : all[l + i] = d[i]
    BY <1>7, Zenon DEF Joins, l
  <2>2. \A i \in 1..Len(rest) : n + i \in 1..Len(d) /\ v + i = l + (n + i)
    BY <1>1, <1>3, <1>4
  <2> QED BY <1>4, <2>1, <2>2
<1>11. Joins(all, f, rest)
  <2>1. Len(f) = v /\ f \in Seq(Roles)
    BY <1>5 DEF f
  <2>2. Len(all) = v + Len(rest) /\ v \in Nat /\ Len(rest) \in Nat /\ Len(all) \in Nat
    <3>1. Len(d) \in Nat /\ Len(rest) \in Nat /\ Len(rest) = Len(d) - n
      BY <1>4
    <3>2. l \in Nat /\ n \in 0..Len(d) /\ v = l + n
      BY <1>1, <1>3
    <3>3. Sums(l, Len(d), v, Len(rest))
      BY <3>1, <3>2, LengthOfBoth, Zenon
    <3> QED BY <1>8, <3>1, <3>3, Zenon DEF Sums
  <2> QED BY <1>4, <1>8, <1>9, <1>10, <2>1, <2>2 DEF Joins
<1>12. f \o rest = all
  <2>1. Joins(f \o rest, f, rest)
    BY <1>4, <1>5, ConcatJoins DEF f
  <2> QED BY <1>11, <2>1, JoinsOne
<1>13. Valid(joined) \o rest = tl \o d
  BY <1>12 DEF f, all
<1> QED  BY <1>2, <1>4, <1>5, <1>13, Zenon DEF Divides

LEMMA PushKeeps ==
  ASSUME NEW t \in Seq(Roles), WellFormed(t), NEW tl \in Seq(Roles), Tails(tl),
         NEW d \in Seq(Roles), NEW final
  PROVE  Keeps(PushTextPayload(t, tl, d, final))
<1>1. CASE tl = <<>>
  <2>1. PushTextPayload(t, tl, d, final) = PushRest(t, d, final)
    BY <1>1 DEF PushTextPayload
  <2> QED BY <2>1, PushRestKeeps
<1>2. CASE tl # <<>>
  <2> DEFINE take   == Min({Len(d), Borrowed})
             joined == tl \o Prefix(d, take)
             rest   == Dropped(d, ValidLen(joined) - Len(tl))
             ok     == ~final /\ Len(joined) < LongestChar
  <2>1. joined \in Seq(Roles)
    BY <1>2, JoinedIs
  <2>2. PushTextPayload(t, tl, d, final) =
          IF Valid(joined) = <<>> THEN Pushed(t, Invalid(joined), ok)
          ELSE PushRest(t \o Valid(joined), rest, final)
    BY <1>2, Zenon DEF PushTextPayload
  <2>3. CASE Valid(joined) = <<>>
    <3> HIDE DEF joined, ok
    <3>1. PushTextPayload(t, tl, d, final) = Pushed(t, Invalid(joined), ok)
      BY <2>2, <2>3, Zenon
    <3>2. Invalid(joined) \in Seq(Roles) /\ Len(Invalid(joined)) <= 3 /\ Tails(Invalid(joined))
      BY <2>1, InvalidShort, InvalidWaits
    <3>3. /\ PushTextPayload(t, tl, d, final).text = t
          /\ PushTextPayload(t, tl, d, final).tail = Invalid(joined)
      BY <3>1, PushedIs
    <3> QED BY <3>2, <3>3, Zenon DEF Keeps
  <2>4. CASE Valid(joined) # <<>>
    <3>0. Divides(joined, rest, tl \o d)
      BY <1>2, <2>4, RestOfData, Zenon
    <3>1. rest \in Seq(Roles)
      BY <3>0 DEF Divides
    <3>2. t \o Valid(joined) \in Seq(Roles) /\ WellFormed(t \o Valid(joined))
      BY <2>1, LongerText
    <3> HIDE DEF joined, rest
    <3>3. Keeps(PushRest(t \o Valid(joined), rest, final))
      BY <3>1, <3>2, PushRestKeeps
    <3> QED BY <2>2, <2>4, <3>3, Zenon
  <2> QED BY <2>3, <2>4
<1> QED  BY <1>1, <1>2

LEMMA PushRight ==
  ASSUME NEW t \in Seq(Roles), WellFormed(t), NEW tl \in Seq(Roles), Tails(tl),
         tl = <<>> \/ Waits(tl),
         NEW d \in Seq(Roles), NEW final \in BOOLEAN, CanBecomeText(tl \o d)
  PROVE  Right(PushTextPayload(t, tl, d, final), t \o (tl \o d), final)
<1>1. CASE tl = <<>>
  <2>1. PushTextPayload(t, tl, d, final) = PushRest(t, d, final)
    BY <1>1 DEF PushTextPayload
  <2>2. tl \o d = d
    BY <1>1, ConcatEmptySeq
  <2>3. Right(PushRest(t, d, final), t \o d, final)
    <3>1. CanBecomeText(d)
      BY <2>2, Zenon
    <3> QED BY <3>1, PushRestRight
  <2> QED BY <2>1, <2>2, <2>3, Zenon
<1>2. CASE tl # <<>> /\ Waits(tl)
  <2> DEFINE take   == Min({Len(d), Borrowed})
             joined == tl \o Prefix(d, take)
             rest   == Dropped(d, ValidLen(joined) - Len(tl))
             ok     == ~final /\ Len(joined) < LongestChar
             r      == PushTextPayload(t, tl, d, final)
  <2>1. /\ take \in 0..Len(d) /\ take <= 3 /\ (take < 3 => take = Len(d))
        /\ Len(tl) \in Nat /\ Len(tl) >= 1
        /\ joined \in Seq(Roles) /\ Len(joined) = Len(tl) + take
        /\ \A i \in 1..Len(tl) : joined[i] = tl[i]
        /\ joined \o Dropped(d, take) = tl \o d
    BY <1>2, JoinedIs, Zenon
  <2>2. r = IF Valid(joined) = <<>> THEN Pushed(t, Invalid(joined), ok)
            ELSE PushRest(t \o Valid(joined), rest, final)
    BY <1>2, Zenon DEF PushTextPayload
  <2>3. CASE Valid(joined) = <<>>
    <3> HIDE DEF r, ok
    <3>1. Dropped(d, take) \in Seq(Roles) /\ Len(Dropped(d, take)) = Len(d) - take
      <4>1. Joins(d, Prefix(d, take), Dropped(d, take)) /\ Len(Prefix(d, take)) = take
        BY <2>1, SplitJoins
      <4> HIDE DEF take
      <4> QED BY <2>1, <4>1 DEF Joins
    <3> HIDE DEF joined, take
    <3>2. CanBecomeText(joined)
      <4>1. CanBecomeText(joined \o Dropped(d, take))
        BY <2>1, Zenon
      <4> QED BY <2>1, <3>1, <4>1, CanBecomeFront
    <3>3. ValidLen(joined) = 0
      <4>1. Len(Valid(joined)) = ValidLen(joined)
        <5>1. <<>> \in Seq(Roles) /\ WellFormed(<<>>)
          BY FormedIs
        <5> QED BY <2>1, <5>1, LongerText
      <4> QED BY <2>3, <4>1
    <3>4. Waits(Dropped(joined, 0)) /\ Invalid(joined) = Dropped(joined, 0)
      BY <2>1, <3>2, <3>3, RestWaits
    <3>5. Dropped(joined, 0) = joined
      BY <2>1, SubSeqFull DEF Dropped
    <3>6. Len(joined) < 4 /\ Waits(joined)
      <4>1. Waits(joined)
        BY <3>4, <3>5
      <4>2. Len(joined) \in Nat /\ Width(joined[1]) > Len(joined)
        BY <2>1, <4>1 DEF Waits
      <4>3. Width(joined[1]) \in 0..4
        BY Widths
      <4> QED BY <4>1, <4>2, <4>3
    <3>7. tl \o d = joined
      <4>1. take = Len(d) /\ Len(d) \in Nat
        BY <2>1, <3>6
      <4>2. Dropped(d, take) = <<>>
        BY <3>1, <4>1
      <4> QED BY <2>1, <4>2, ConcatEmptySeq
    <3>8. r.text = t /\ r.tail = joined /\ r.ok = ok
      <4>1. r = Pushed(t, joined, ok)
        BY <2>2, <2>3, <3>4, <3>5, Zenon
      <4> QED BY <4>1, PushedIs
    <3>9. ok <=> ~final
      BY <3>6 DEF ok, LongestChar
    <3>10. ~WellFormed(t \o joined)
      <4>1. ~WellFormed(joined)
        BY <2>1, <3>6, WaitsIsNotFormed
      <4>2. Joins(t \o joined, t, joined)
        BY <2>1, ConcatJoins
      <4> QED BY <4>1, <4>2, FormedJoins
    <3>11. Right(r, t \o joined, final)
      BY <3>6, <3>8, <3>9, <3>10, Zenon DEF Right
    <3> QED BY <3>7, <3>11 DEF r
  <2>4. CASE Valid(joined) # <<>>
    <3>0. Divides(joined, rest, tl \o d)
      BY <1>2, <2>4, RestOfData, Zenon
    <3>1. /\ rest \in Seq(Roles) /\ Valid(joined) \in Seq(Roles)
          /\ WellFormed(Valid(joined)) /\ Valid(joined) \o rest = tl \o d
      BY <3>0, Zenon DEF Divides
    <3>2. t \o Valid(joined) \in Seq(Roles) /\ WellFormed(t \o Valid(joined))
      BY <2>1, LongerText
    <3> HIDE DEF joined, rest, r, ok
    <3>3. CanBecomeText(rest)
      <4>1. CanBecomeText(Valid(joined) \o rest)
        BY <3>1, Zenon
      <4> QED BY <3>1, <4>1, CanBecomeBack
    <3>4. Right(PushRest(t \o Valid(joined), rest, final), (t \o Valid(joined)) \o rest, final)
      BY <3>1, <3>2, <3>3, PushRestRight
    <3>5. (t \o Valid(joined)) \o rest = t \o (tl \o d)
      <4>1. (t \o Valid(joined)) \o rest = t \o (Valid(joined) \o rest)
        BY <3>1, Regroup
      <4> QED BY <3>1, <4>1, Zenon
    <3>6. r = PushRest(t \o Valid(joined), rest, final)
      BY <2>2, <2>4, Zenon
    <3>7. Right(r, t \o (tl \o d), final)
      BY <3>4, <3>5, <3>6, Zenon
    <3> QED BY <3>7 DEF r
  <2> QED BY <2>3, <2>4
<1> QED  BY <1>1, <1>2

-----------------------------------------------------------------------------
(* The check as a whole: as long as the bytes sent so far can become text, *)
(* the text and the tail are these bytes, and the tail is the beginning of *)
(* the character they end in.  Bytes that cannot are dealt with somehow,   *)
(* and even then the text is well formed and the tail short.               *)
TextTypes ==
  /\ text \in Seq(Roles) /\ tail \in Seq(Roles) /\ sent \in Seq(Roles)
  /\ WellFormed(text) /\ Len(tail) <= 3 /\ Tails(tail)

TextHeld ==
  state \in {"open", "done"} /\ CanBecomeText(sent) =>
    text \o tail = sent /\ (tail = <<>> \/ Waits(tail))

IInv == TextTypes /\ TextHeld /\ TextIsAccepted

LEMMA EmptyText == <<>> \in Seq(Roles) /\ WellFormed(<<>>) /\ Tails(<<>>) /\ Len(<<>>) <= 3
<1>1. WellFormed(<<>>)
  BY FormedIs
<1> QED  BY <1>1 DEF Tails

\* One fragment: what it makes of a text and a tail that are what came before it.
LEMMA TakeKeeps ==
  ASSUME NEW t \in Seq(Roles), WellFormed(t), NEW tl \in Seq(Roles), Tails(tl),
         NEW before \in Seq(Roles),
         CanBecomeText(before) => t \o tl = before /\ (tl = <<>> \/ Waits(tl)),
         NEW data \in Seq(Roles), NEW final \in BOOLEAN,
         Take(t, tl, data, final), sent' = before \o data
  PROVE  IInv'
<1> DEFINE r == PushTextPayload(t, tl, data, final)
<1>1. text' = r.text /\ tail' = r.tail
  BY DEF Take
<1>2. /\ state' \in {"open", "done", "refused", "refusedAtEnd"}
      /\ state' \in {"open", "done"} <=> r.ok
      /\ state' = "refused" => ~final
  BY DEF Take
<1>3. Keeps(r)
  BY PushKeeps
<1>4. sent' \in Seq(Roles)
  BY ConcatProperties
<1>5. CanBecomeText(sent') => Right(r, sent', final)
  <2> SUFFICES ASSUME CanBecomeText(before \o data) PROVE Right(r, before \o data, final)
    OBVIOUS
  <2>1. CanBecomeText(before)
    BY CanBecomeFront
  <2>2. t \o tl = before /\ (tl = <<>> \/ Waits(tl))
    BY <2>1
  <2>3. t \o (tl \o data) = before \o data /\ tl \o data \in Seq(Roles)
    BY <2>2, Regroup, ConcatProperties
  <2>4. CanBecomeText(t \o (tl \o data))
    BY <2>3, Zenon
  <2>5. CanBecomeText(tl \o data)
    BY <2>3, <2>4, CanBecomeBack
  <2>6. Right(r, t \o (tl \o data), final)
    BY <2>2, <2>5, PushRight
  <2> QED BY <2>3, <2>6, Zenon
<1> HIDE DEF r
<1>6. TextTypes'
  BY <1>1, <1>3, <1>4, Zenon DEF TextTypes, Keeps
<1>7. TextHeld'
  BY <1>1, <1>5, Zenon DEF TextHeld, Right
<1>8. TextIsAccepted'
  <2>1. state' = "refused" => ~CanBecomeText(sent')
    <3>1. state' = "refused" => ~r.ok /\ ~final
      BY <1>2
    <3> QED BY <1>5, <3>1, Zenon DEF Right
  <2>2. state' = "refusedAtEnd" => ~WellFormed(sent')
    <3>1. state' = "refusedAtEnd" => ~r.ok
      BY <1>2
    <3>2. WellFormed(sent') => CanBecomeText(sent')
      BY <1>4, FormedCanBecome
    <3> QED BY <1>5, <3>1, <3>2, Zenon DEF Right
  <2> QED BY <2>1, <2>2, Zenon DEF TextIsAccepted
<1> QED  BY <1>6, <1>7, <1>8 DEF IInv

LEMMA PayloadIs ==
  ASSUME NEW n \in Int, NEW data \in Payloads(n)
  PROVE  data \in Seq(Roles)
<1>1. PICK k \in 0..n : data \in [1..k -> Bytes]
  BY DEF Payloads
<1>2. k \in Nat /\ data \in [1..k -> Roles]
  BY <1>1 DEF Roles
<1> QED  BY <1>2

LEMMA InitEstablishes == Init => IInv
<1> SUFFICES ASSUME Init PROVE IInv
  OBVIOUS
<1>1. text = <<>> /\ tail = <<>> /\ sent = <<>> /\ state = "idle"
  BY DEF Init
<1>2. TextTypes
  BY <1>1, EmptyText, Zenon DEF TextTypes
<1>3. TextHeld /\ TextIsAccepted
  BY <1>1 DEF TextHeld, TextIsAccepted
<1> QED  BY <1>2, <1>3 DEF IInv

\* A step keeps it, whatever the message and the cut.
LEMMA StepKeeps == IInv /\ [Next]_vars => IInv'
<1> SUFFICES ASSUME IInv, [Next]_vars PROVE IInv'
  OBVIOUS
<1>1. TextTypes /\ TextHeld /\ TextIsAccepted
  BY DEF IInv
<1>2. ASSUME NEW data \in Payloads(MaxBytes), FirstFragment(data) PROVE IInv'
  <2>1. data \in Seq(Roles)
    BY PayloadIs, Utf8Assumption DEF Utf8Assumption
  <2>2. Take(<<>>, <<>>, data, FALSE) /\ sent' = data
    BY <1>2 DEF FirstFragment
  <2>3. <<>> \o data = data /\ <<>> \o <<>> = <<>>
    BY <2>1, EmptyText, ConcatEmptySeq
  <2>4. sent' = <<>> \o data
    BY <2>2, <2>3
  <2> DEFINE e == <<>>
  <2>5. e \in Seq(Roles) /\ WellFormed(e) /\ Tails(e) /\ e \o e = e
    BY <2>3, EmptyText
  <2>6. CanBecomeText(e) => e \o e = e /\ (e = <<>> \/ Waits(e))
    BY <2>5
  <2>7. Take(e, e, data, FALSE) /\ sent' = e \o data /\ FALSE \in BOOLEAN
    BY <2>2, <2>4
  <2> HIDE DEF e
  <2> QED BY <2>1, <2>5, <2>6, <2>7, TakeKeeps
<1>3. ASSUME NEW data \in Payloads(MaxBytes - Len(sent)), NEW final \in BOOLEAN,
             Continuation(data, final)
      PROVE  IInv'
  <2>1. data \in Seq(Roles)
    <3>1. Len(sent) \in Nat /\ MaxBytes \in Nat
      BY <1>1, Utf8Assumption DEF TextTypes, Utf8Assumption
    <3>2. MaxBytes - Len(sent) \in Int
      BY <3>1
    <3> QED BY <3>2, PayloadIs
  <2>2. state = "open" /\ Take(text, tail, data, final) /\ sent' = sent \o data
    BY <1>3 DEF Continuation
  <2>3. text \in Seq(Roles) /\ tail \in Seq(Roles) /\ sent \in Seq(Roles) /\ WellFormed(text) /\ Tails(tail)
    BY <1>1 DEF TextTypes
  <2>4. CanBecomeText(sent) => text \o tail = sent /\ (tail = <<>> \/ Waits(tail))
    BY <1>1, <2>2 DEF TextHeld
  <2> QED BY <2>1, <2>2, <2>3, <2>4, TakeKeeps
<1>4. CASE NextMessage
  <2>1. state' = "idle" /\ sent' = <<>> /\ text' = text /\ tail' = tail
    BY <1>4 DEF NextMessage
  <2>2. TextTypes'
    BY <1>1, <2>1, EmptyText, Zenon DEF TextTypes
  <2>3. TextHeld' /\ TextIsAccepted'
    BY <2>1 DEF TextHeld, TextIsAccepted
  <2> QED BY <2>2, <2>3 DEF IInv
<1>5. CASE Closed \/ UNCHANGED vars
  <2>1. text' = text /\ tail' = tail /\ state' = state /\ sent' = sent
    BY <1>5 DEF Closed, vars
  <2>2. TextTypes' /\ TextHeld' /\ TextIsAccepted'
    BY <1>1, <2>1, Zenon DEF TextTypes, TextHeld, TextIsAccepted
  <2> QED BY <2>2 DEF IInv
<1> QED  BY <1>2, <1>3, <1>4, <1>5, Zenon DEF Next

LEMMA Invariance == Spec => []IInv
<1>1. IInv /\ [Next]_vars => IInv'
  BY StepKeeps
<1> QED  BY <1>1, InitEstablishes, PTL DEF Spec

(* push_text_payload never refuses a message because of where it was cut:  *)
(* an error in the middle of one means that no more bytes make it text, an *)
(* error at its end that it is none.                                       *)
THEOREM TextAccepted == Spec => []TextIsAccepted
<1>1. IInv => TextIsAccepted
  BY DEF IInv
<1>2. Spec => []IInv
  BY Invariance
<1> QED  BY <1>1, <1>2, PTL

(* The text and the tail of at most three bytes are what was sent, as long *)
(* as that can be text at all, and the text alone is always well formed.   *)
THEOREM TextKept == Spec => []TextIsKept
<1>1. IInv => TextIsKept
  BY Zenon DEF IInv, TextTypes, TextHeld, TextIsKept
<1>2. Spec => []IInv
  BY Invariance
<1> QED  BY <1>1, <1>2, PTL
=============================================================================
