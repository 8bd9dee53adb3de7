----------------------------- MODULE EventFeed -----------------------------
(***************************************************************************)
(* What the way of an event from the kprobes to the collector promises,    *)
(* without saying how: what is accepted is delivered whole, in the order   *)
(* of its acceptance and once; an event is missed only when as many wait   *)
(* as there is room for; delivery stands still while as many lines are     *)
(* unread as the pipe holds; and once the feed is over nothing is accepted *)
(* or delivered any more, what waits is lost.  Loader is shown to          *)
(* implement this specification.                                           *)
(***************************************************************************)
EXTENDS Integers, Sequences

CONSTANTS
  Room,      \* how many accepted events may wait
  PipeRoom   \* how many delivered ones may be unread

VARIABLES
  accepted,   \* how many events have been accepted
  missed,     \* how many have not
  delivered,  \* the events delivered, each with whether it was complete
  unread,     \* those of them that have not been read
  over        \* whether the feed has ended

vars == <<accepted, missed, delivered, unread, over>>

Init ==
  /\ accepted = 0 /\ missed = 0
  /\ delivered = <<>> /\ unread = <<>>
  /\ over = FALSE

Waiting == accepted - Len(delivered)

Accept ==
  /\ ~over /\ Waiting < Room
  /\ accepted' = accepted + 1
  /\ UNCHANGED <<missed, delivered, unread, over>>

Miss ==
  /\ ~over /\ Waiting = Room
  /\ missed' = missed + 1
  /\ UNCHANGED <<accepted, delivered, unread, over>>

\* The next event, and no other.
Deliver ==
  /\ ~over /\ Waiting > 0 /\ Len(unread) < PipeRoom
  /\ delivered' = Append(delivered, [id |-> Len(delivered) + 1, whole |-> TRUE])
  /\ unread' = Append(unread, Len(delivered) + 1)
  /\ UNCHANGED <<accepted, missed, over>>

\* Also of a feed that is over what is unread can be read.
Read ==
  /\ unread # <<>>
  /\ unread' = Tail(unread)
  /\ UNCHANGED <<accepted, missed, delivered, over>>

End ==
  /\ ~over /\ over' = TRUE
  /\ UNCHANGED <<accepted, missed, delivered, unread>>

Next == Accept \/ Miss \/ Deliver \/ Read \/ End

Spec == Init /\ [][Next]_vars
=============================================================================
