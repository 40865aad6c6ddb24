---------------------------- MODULE QueueLemmas ----------------------------
(***************************************************************************)
(* What appending to a queue and settling its head do to the messages in   *)
(* it, for the queues of RabbitBroker.                                     *)
(***************************************************************************)
EXTENDS Naturals, Sequences, SequenceTheorems, TLAPS

\* Publishing to a queue appends to its end: the message being handled, at the
\* head, stays where it is (RabbitBroker).
LEMMA AppendFacts ==
  ASSUME NEW S, NEW q \in Seq(S), NEW m \in S
  PROVE  /\ Append(q, m) \in Seq(S)
         /\ Append(q, m) # <<>>
         /\ q # <<>> => Head(Append(q, m)) = Head(q)
         /\ Len(Append(q, m)) = Len(q) + 1
         /\ \A k \in 1..Len(q) : Append(q, m)[k] = q[k]
         /\ Append(q, m)[Len(q) + 1] = m
  BY AppendProperties, HeadTailAppend

\* Settling the head of a queue shifts the rest by one place.
LEMMA TailFacts ==
  ASSUME NEW S, NEW q \in Seq(S), q # <<>>
  PROVE  /\ Head(q) \in S
         /\ Head(q) = q[1]
         /\ 1 \in 1..Len(q)
         /\ Tail(q) \in Seq(S)
         /\ Len(Tail(q)) = Len(q) - 1
         /\ \A k \in 1..Len(Tail(q)) : k + 1 \in 1..Len(q) /\ Tail(q)[k] = q[k + 1]
  <1>1. Len(q) \in Nat /\ Len(q) # 0
    BY EmptySeq, LenProperties
  <1>2. Head(q) = q[1]
    OBVIOUS
  <1> QED
    BY <1>1, <1>2, HeadTailProperties

\* Dropping the first n messages shifts the rest by n places.
LEMMA DropFacts ==
  ASSUME NEW S, NEW q \in Seq(S), NEW n \in 1..Len(q)
  PROVE  /\ SubSeq(q, n + 1, Len(q)) \in Seq(S)
         /\ \A k \in 1..Len(SubSeq(q, n + 1, Len(q))) :
              k + n \in 1..Len(q) /\ SubSeq(q, n + 1, Len(q))[k] = q[k + n]
  <1>1. Len(q) \in Nat /\ \A k \in 1..Len(q) : q[k] \in S
    BY LenProperties, ElementOfSeq
  <1>2. \A k \in (n + 1)..Len(q) : q[k] \in S
    BY <1>1
  <1>3. /\ SubSeq(q, n + 1, Len(q)) \in Seq(S)
        /\ Len(SubSeq(q, n + 1, Len(q))) = IF n + 1 <= Len(q) THEN Len(q) - (n + 1) + 1 ELSE 0
        /\ \A k \in 1..(Len(q) - (n + 1) + 1) : SubSeq(q, n + 1, Len(q))[k] = q[(n + 1) + k - 1]
    BY <1>1, <1>2, SubSeqProperties
  <1> QED
    BY <1>1, <1>3

=============================================================================
