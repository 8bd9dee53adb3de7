----------------------------- MODULE AlertOutbox -----------------------------
(***************************************************************************)
(* What an alert notifier promises to its channels, without saying how:    *)
(* alerts are numbered in the order in which they were taken; a push is a  *)
(* run of consecutive alerts, none of them pushed before; a channel gets   *)
(* the push whole or not at all, and never twice.  AlertSink (the module   *)
(* of alert_sink.rs) is shown to implement this specification.             *)
(***************************************************************************)
EXTENDS Integers, Sequences

CONSTANT Channels

VARIABLES
  taken,     \* how many alerts have been taken so far
  retired,   \* how many of them belong to a push that is over
  inbox      \* inbox[c]: the alerts channel c has received, in order

vars == <<taken, retired, inbox>>

\* The alerts from + 1, ..., to.
Consecutive(from, to) == [i \in 1..(to - from) |-> from + i]

Init ==
  /\ taken = 0
  /\ retired = 0
  /\ inbox = [c \in Channels |-> <<>>]

Take ==
  /\ taken' = taken + 1
  /\ UNCHANGED <<retired, inbox>>

\* Channel c receives the push that ends with alert `to`, for the first time.
Deliver(c, to) ==
  /\ \A i \in 1..Len(inbox[c]) : inbox[c][i] <= retired
  /\ inbox' = [inbox EXCEPT ![c] = @ \o Consecutive(retired, to)]
  /\ UNCHANGED <<taken, retired>>

\* The push is over, wherever it has arrived: what missed it is not retried.
Retire(to) ==
  /\ \A c \in Channels : \A i \in 1..Len(inbox[c]) : inbox[c][i] <= to
  /\ retired' = to
  /\ UNCHANGED <<taken, inbox>>

Next ==
  \/ Take
  \/ \E to \in (retired + 1)..taken :
        \/ Retire(to)
        \/ \E c \in Channels : Deliver(c, to)

Spec == Init /\ [][Next]_vars

TypeOK ==
  /\ taken \in Nat
  /\ retired \in 0..taken
  /\ inbox \in [Channels -> Seq(1..taken)]

\* No channel sees an alert twice or two alerts in the wrong order.
InOrderOnce ==
  \A c \in Channels : \A i, j \in 1..Len(inbox[c]) :
    i < j => inbox[c][i] < inbox[c][j]
=============================================================================
