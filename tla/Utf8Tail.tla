------------------------------ MODULE Utf8Tail ------------------------------
(***************************************************************************)
(* The incremental UTF-8 check of fragmented text messages:                *)
(* push_text_payload of crates/kamekichi-ws/src/proto.rs, and what         *)
(* utf8_chunks of the standard library tells it.                           *)
(*                                                                         *)
(* A byte is the role it plays: "a" is a character of one byte, "2", "3"   *)
(* and "4" begin one of so many, "c" continues one, "x" occurs in none.    *)
(* (The leading bytes that restrict their second byte are left out.)       *)
(***************************************************************************)
EXTENDS Integers, Sequences, FiniteSetsExt

CONSTANTS
  Bytes,    \* the roles the bytes of a message take: some of those above
  MaxBytes  \* bound: bytes of a message

ASSUME Utf8Assumption == Bytes \subseteq {"a", "2", "3", "4", "c", "x"} /\ MaxBytes \in Nat

Width(b) == CASE b = "a" -> 1 [] b = "2" -> 2 [] b = "3" -> 3 [] b = "4" -> 4 [] OTHER -> 0

VARIABLES
  text,  \* fragment_text
  tail,  \* utf8_tail, up to utf8_tail_len
  state, \* "idle", or "open": a fragmented message; "done", or refused
  sent   \* history: the payload bytes of the message

vars == <<text, tail, state, sent>>

-----------------------------------------------------------------------------
(* Well-formed text: every leading byte is followed by its continuations,  *)
(* and every continuation belongs to one.                                  *)
Continues(s, i, n) == i + n <= Len(s) /\ \A k \in 1..n : s[i + k] = "c"

WellFormed(s) ==
  \A i \in 1..Len(s) :
    \/ Width(s[i]) > 0 /\ Continues(s, i, Width(s[i]) - 1)
    \/ s[i] = "c" /\ \E d \in 1..3 : d < i /\ Width(s[i - d]) > d /\ Continues(s, i - d, d)

Prefix(s, n)  == SubSeq(s, 1, n)
Dropped(s, n) == SubSeq(s, n + 1, Len(s))

(* The first chunk of s.utf8_chunks(): its longest well-formed prefix, and *)
(* then as much of the next sequence as could begin a character, or one    *)
(* byte that begins none.                                                  *)
ValidLen(s) == Max({n \in 0..Len(s) : WellFormed(Prefix(s, n))})

InvalidLen(s) ==
  LET v == ValidLen(s)
  IN  IF v = Len(s) THEN 0
      ELSE 1 + Max({n \in 0..2 : n < Width(s[v + 1]) /\ Continues(s, v + 1, n)} \cup {0})

Valid(s)   == Prefix(s, ValidLen(s))
Invalid(s) == SubSeq(s, ValidLen(s) + 1, ValidLen(s) + InvalidLen(s))

-----------------------------------------------------------------------------
(* The outcome of push_text_payload: the new text and tail, or an error.   *)
Pushed(t, tl, ok) == [text |-> t, tail |-> tl, ok |-> ok]

\* Only an unfinished character at the end of a fragment may wait for the next.
Complete(data, final) == ~final /\ ValidLen(data) + InvalidLen(data) = Len(data)

\* Its second half, on the data that did not go into completing the tail.
PushRest(t, data, final) ==
  IF data = <<>> THEN Pushed(t, <<>>, TRUE)
  ELSE IF Invalid(data) = <<>> THEN Pushed(t \o Valid(data), <<>>, TRUE)
  ELSE Pushed(t \o Valid(data), Invalid(data), Complete(data, final))

TwoBorrowed == 2 \* mutant
\* The bytes of the data that are put behind a tail.
Borrowed == 3

ShorterThanAny == 3 \* mutant: characters of four bytes are forgotten
LongestChar == 4

PushTextPayload(t, tl, data, final) ==
  IF tl = <<>> THEN PushRest(t, data, final)
  ELSE LET take == Min({Len(data), Borrowed})
           joined == tl \o Prefix(data, take)
       IN  IF Valid(joined) = <<>>
           THEN Pushed(t, Invalid(joined), ~final /\ Len(joined) < LongestChar)
           ELSE PushRest(t \o Valid(joined), Dropped(data, ValidLen(joined) - Len(tl)), final)

Take(t, tl, data, final) ==
  LET r == PushTextPayload(t, tl, data, final)
  IN  /\ text' = r.text /\ tail' = r.tail
      /\ state' = CASE r.ok /\ ~final  -> "open"
                    [] r.ok /\ final   -> "done"
                    [] ~r.ok /\ ~final -> "refused"
                    [] ~r.ok /\ final  -> "refusedAtEnd"

Init == text = <<>> /\ tail = <<>> /\ state = "idle" /\ sent = <<>>

(* A TEXT frame without FIN: text and tail are reset.                      *)
FirstFragment(data) ==
  /\ state = "idle"
  /\ Take(<<>>, <<>>, data, FALSE)
  /\ sent' = data

Continuation(data, final) ==
  /\ state = "open"
  /\ Take(text, tail, data, final)
  /\ sent' = sent \o data

\* The next message; an error ends the connection.
NextMessage ==
  /\ state = "done"
  /\ state' = "idle" /\ sent' = <<>>
  /\ UNCHANGED <<text, tail>>

Closed == state \in {"refused", "refusedAtEnd"} /\ UNCHANGED vars

Payloads(n) == UNION {[1..k -> Bytes] : k \in 0..n}

Next ==
  \/ \E data \in Payloads(MaxBytes) : FirstFragment(data)
  \/ \E data \in Payloads(MaxBytes - Len(sent)), final \in BOOLEAN : Continuation(data, final)
  \/ NextMessage \/ Closed

Spec == Init /\ [][Next]_vars

-----------------------------------------------------------------------------
CanBecomeText(s) == \E n \in 0..3 : WellFormed(s \o [k \in 1..n |-> "c"])

(* Text is never refused because of where it was cut into fragments.       *)
TextIsAccepted ==
  /\ state = "refused" => ~CanBecomeText(sent)
  /\ state = "refusedAtEnd" => ~WellFormed(sent)

(* What is still well formed has been kept byte by byte, in the text or in *)
(* the tail of at most three bytes, however the fragments were cut; and    *)
(* the text alone is well formed at any time.                              *)
TextIsKept ==
  /\ state \in {"open", "done"} /\ CanBecomeText(sent) => text \o tail = sent
  /\ WellFormed(text) /\ Len(tail) <= 3

(* "Append a TEXT fragment payload, validating UTF-8 incrementally"        *)
(* (proto.rs:648): a message that is delivered is, byte for byte, what the *)
(* fragments carried.                                                      *)
OnlyTextIsDelivered == state = "done" => text = sent
=============================================================================
