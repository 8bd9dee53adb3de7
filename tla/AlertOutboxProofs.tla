-------------------------- MODULE AlertOutboxProofs --------------------------
(***************************************************************************)
(* Proofs about AlertOutbox, for any set of channels.                      *)
(***************************************************************************)
EXTENDS AlertOutbox, SequenceTheorems, TLAPS

\* InOrderOnce with what makes it inductive: alerts are numbers.
OrderInv ==
  /\ taken \in Nat
  /\ retired \in Nat
  /\ inbox \in [Channels -> Seq(Nat)]
  /\ InOrderOnce

\* Appending a run of numbers that begins above all those in s to s, which is
\* increasing, gives an increasing sequence.
LEMMA AppendRun ==
  ASSUME NEW s \in Seq(Nat), NEW from \in Nat, NEW to \in Nat, from < to,
         \A i \in 1..Len(s) : s[i] <= from,
         \A i, j \in 1..Len(s) : i < j => s[i] < s[j]
  PROVE  /\ s \o Consecutive(from, to) \in Seq(Nat)
         /\ \A i, j \in 1..Len(s \o Consecutive(from, to)) :
              i < j => (s \o Consecutive(from, to))[i] < (s \o Consecutive(from, to))[j]
<1> DEFINE run == Consecutive(from, to)
           n == to - from
           t == s \o run
<1>1. run \in Seq(Nat) /\ Len(run) = n /\ n \in Nat /\ \A i \in 1..n : run[i] = from + i
  BY DEF Consecutive
<1>2. Len(s) \in Nat /\ \A i \in 1..Len(s) : s[i] \in Nat
  BY LenProperties, ElementOfSeq
<1>3. /\ t \in Seq(Nat) /\ Len(t) = Len(s) + Len(run)
      /\ \A i \in 1..(Len(s) + Len(run)) :
           t[i] = IF i <= Len(s) THEN s[i] ELSE run[i - Len(s)]
  BY <1>1, ConcatProperties
<1> HIDE DEF run, n, t
<1> SUFFICES ASSUME NEW i \in 1..Len(t), NEW j \in 1..Len(t), i < j
             PROVE  t[i] < t[j]
  BY <1>3 DEF t, run
<1>4. CASE j <= Len(s)
  <2>1. i \in 1..Len(s) /\ j \in 1..Len(s)
    BY <1>1, <1>2, <1>3, <1>4
  <2>2. t[i] = s[i] /\ t[j] = s[j]
    BY <1>1, <1>2, <1>3, <2>1
  <2> QED BY <2>1, <2>2
<1>5. CASE ~(j <= Len(s))
  <2>1. j - Len(s) \in 1..n /\ t[j] = from + (j - Len(s))
    BY <1>1, <1>2, <1>3, <1>5
  <2>2. CASE i <= Len(s)
    <3>1. t[i] = s[i] /\ s[i] \in Nat /\ s[i] <= from
      BY <1>1, <1>2, <1>3, <2>2
    <3> QED BY <1>2, <2>1, <3>1
  <2>3. CASE ~(i <= Len(s))
    <3>1. i - Len(s) \in 1..n /\ t[i] = from + (i - Len(s))
      BY <1>1, <1>2, <1>3, <2>3
    <3> QED BY <1>2, <2>1, <3>1
  <2> QED BY <2>2, <2>3
<1> QED BY <1>4, <1>5

\* A delivery keeps each inbox in order.
LEMMA DeliverInOrder ==
  ASSUME OrderInv, NEW to \in (retired + 1)..taken, NEW c \in Channels, Deliver(c, to)
  PROVE  OrderInv'
<1> DEFINE new == inbox[c] \o Consecutive(retired, to)
<1>1. inbox[c] \in Seq(Nat) /\ to \in Nat /\ retired \in Nat /\ retired < to
  BY DEF OrderInv
<1>2. \A i \in 1..Len(inbox[c]) : inbox[c][i] <= retired
  BY DEF Deliver
<1>3. \A i, j \in 1..Len(inbox[c]) : i < j => inbox[c][i] < inbox[c][j]
  BY DEF OrderInv, InOrderOnce
<1>4. new \in Seq(Nat) /\ \A i, j \in 1..Len(new) : i < j => new[i] < new[j]
  BY <1>1, <1>2, <1>3, AppendRun
<1>5. inbox' = [inbox EXCEPT ![c] = new] /\ UNCHANGED <<taken, retired>>
  BY DEF Deliver
<1> HIDE DEF new
<1>6. /\ inbox' \in [Channels -> Seq(Nat)]
      /\ \A d \in Channels : inbox'[d] = IF d = c THEN new ELSE inbox[d]
  BY <1>4, <1>5 DEF OrderInv
<1>7. InOrderOnce'
  BY <1>4, <1>6 DEF OrderInv, InOrderOnce
<1> QED BY <1>5, <1>6, <1>7 DEF OrderInv

\* No channel of an outbox sees an alert twice or two in the wrong order.
THEOREM InOrderOnceHolds == Spec => []InOrderOnce
<1>1. Init => OrderInv
  BY EmptySeq DEF Init, OrderInv, InOrderOnce
<1>2. OrderInv /\ [Next]_vars => OrderInv'
  <2> SUFFICES ASSUME OrderInv, [Next]_vars PROVE OrderInv'
    OBVIOUS
  <2>1. CASE Take
    BY <2>1 DEF Take, OrderInv, InOrderOnce
  <2>2. ASSUME NEW to \in (retired + 1)..taken, Retire(to) PROVE OrderInv'
    BY <2>2 DEF Retire, OrderInv, InOrderOnce
  <2>3. ASSUME NEW to \in (retired + 1)..taken, NEW c \in Channels, Deliver(c, to)
        PROVE  OrderInv'
    BY <2>3, DeliverInOrder
  <2>4. CASE UNCHANGED vars
    BY <2>4 DEF vars, OrderInv, InOrderOnce
  <2> QED BY <2>1, <2>2, <2>3, <2>4 DEF Next
<1>3. OrderInv => InOrderOnce
  BY DEF OrderInv
<1> QED BY <1>1, <1>2, <1>3, PTL DEF Spec
=============================================================================
