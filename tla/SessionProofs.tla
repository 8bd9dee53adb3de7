--------------------------- MODULE SessionProofs ---------------------------
(***************************************************************************)
(* The safety of Session for any set of runners and any number of signals. *)
(***************************************************************************)
EXTENDS Session, TLAPS

LEMMA TypeInit == Init => TypeOK
<1> SUFFICES ASSUME Init PROVE TypeOK
  OBVIOUS
<1>1. requested = (handler # "listening")
  BY Zenon DEF Init
<1>2. /\ mode \in {"drive", "silent", "drain", "serve"}
      /\ offer \in [Runners -> {"nothing", "event", "runner_error"}]
      /\ live \subseteq Runners
      /\ sent \in 0..MaxSignals
      /\ failed \in SUBSET (Runners \ live)
      /\ pc \in {"startup", "select", "body", "returned"}
      /\ result \in {"none", "ok", "error"}
      /\ (pc = "returned") <=> (result # "none")
  BY SessionAssumption DEF Init
<1>3. /\ signal \in BOOLEAN /\ notified \in BOOLEAN
      /\ cancel \in BOOLEAN /\ elapsed \in BOOLEAN
      /\ handler \in {"listening", "notifying", "finished"}
  BY Zenon DEF Init
<1> QED
  BY <1>1, <1>2, <1>3, Zenon DEF TypeOK

LEMMA TypeStep == TypeOK /\ [Next]_vars => TypeOK'
<1> SUFFICES ASSUME TypeOK, [Next]_vars PROVE TypeOK'
  OBVIOUS
<1> USE SessionAssumption DEF TypeOK, stream, handling, timers
<1>1. ASSUME NEW r \in Runners, Offer(r) PROVE TypeOK'
  BY <1>1 DEF Offer
<1>2. ASSUME NEW r \in Runners, Fail(r) PROVE TypeOK'
  BY <1>2 DEF Fail
<1>3. ASSUME NEW r \in Runners, End(r) PROVE TypeOK'
  BY <1>3 DEF End
<1>4. ASSUME NEW r \in Runners, Take(r) PROVE TypeOK'
  BY <1>4 DEF Take, Return
<1>5. CASE Interrupt
  BY <1>5 DEF Interrupt
<1>6. CASE HandleSignal
  BY <1>6 DEF HandleSignal
<1>7. CASE NotifyWaiters
  BY <1>7 DEF NotifyWaiters
<1>8. CASE Turn
  BY <1>8 DEF Turn
<1>9. CASE StreamEnds
  BY <1>9 DEF StreamEnds, Return
<1>10. CASE SeeShutdown
  BY <1>10 DEF SeeShutdown, Return
<1>11. CASE SeeCancel
  BY <1>11 DEF SeeCancel, Return
<1>12. CASE SeeDeadline
  BY <1>12 DEF SeeDeadline, Return
<1>13. CASE Cancel
  BY <1>13 DEF Cancel
<1>14. CASE Elapse
  BY <1>14 DEF Elapse
<1>15. CASE UNCHANGED vars
  BY <1>15 DEF vars
<1> QED
  BY <1>1, <1>2, <1>3, <1>4, <1>5, <1>6, <1>7, <1>8, <1>9, <1>10, <1>11, <1>12,
     <1>13, <1>14, <1>15 DEF Next

\* Every reachable state is well typed; in particular the loop has a result exactly
\* when it has returned, and the flag SHUTDOWN_REQUESTED is set from the handling of
\* the first signal on.
THEOREM TypeCorrect == Spec => []TypeOK
  BY TypeInit, TypeStep, PTL DEF Spec

-----------------------------------------------------------------------------
\* The error of a runner that has failed waits in the stream until the loop has
\* returned it; this is what makes ErrorReported inductive.
ErrorKept ==
  failed # {} => result = "error" \/ \E r \in failed : offer[r] = "runner_error"

LEMMA KeptStep == TypeOK /\ ErrorKept /\ [Next]_vars => ErrorKept'
<1> SUFFICES ASSUME TypeOK, ErrorKept, [Next]_vars PROVE ErrorKept'
  OBVIOUS
<1> USE DEF stream, handling, timers
<1>1. ASSUME NEW r \in Runners, Offer(r) PROVE ErrorKept'
  <2>1. \A q \in failed : offer[q] = "runner_error" => offer'[q] = "runner_error"
    BY <1>1 DEF Offer, TypeOK
  <2> QED
    BY <1>1, <2>1 DEF Offer, ErrorKept
<1>2. ASSUME NEW r \in Runners, Fail(r) PROVE ErrorKept'
  <2>1. r \in failed' /\ offer'[r] = "runner_error"
    BY <1>2 DEF Fail, TypeOK
  <2> QED
    BY <2>1 DEF ErrorKept
<1>3. ASSUME NEW r \in Runners, End(r) PROVE ErrorKept'
  BY <1>3 DEF End, ErrorKept
<1>4. ASSUME NEW r \in Runners, Take(r) PROVE ErrorKept'
  <2>1. CASE offer[r] = "runner_error"
    BY <1>4, <2>1 DEF Take, Return, ErrorKept
  <2>2. CASE offer[r] # "runner_error"
    <3>1. \A q \in failed : offer[q] = "runner_error" => offer'[q] = "runner_error"
      BY <1>4, <2>2 DEF Take, TypeOK
    <3> QED
      BY <1>4, <2>2, <3>1 DEF Take, ErrorKept
  <2> QED
    BY <2>1, <2>2
\* The loop only returns once: until then it has no result to be overwritten.
<1>5. CASE StreamEnds
  <2>1. result # "error" /\ \A r \in Runners : offer[r] = "nothing"
    BY <1>5 DEF StreamEnds, Exhausted, TypeOK
  <2>2. failed = {}
    BY <2>1 DEF ErrorKept, TypeOK
  <2> QED
    BY <1>5, <2>2 DEF StreamEnds, ErrorKept
<1>6. CASE SeeShutdown \/ SeeCancel \/ SeeDeadline
  <2>1. pc = "select" /\ UNCHANGED <<offer, failed>>
    BY <1>6 DEF SeeShutdown, SeeCancel, SeeDeadline
  <2>2. result # "error"
    BY <2>1 DEF TypeOK
  <2> QED
    BY <2>1, <2>2 DEF ErrorKept
<1>7. CASE Interrupt \/ HandleSignal \/ NotifyWaiters \/ Turn \/ Cancel \/ Elapse
  BY <1>7 DEF Interrupt, HandleSignal, NotifyWaiters, Turn, Cancel, Elapse, ErrorKept
<1>8. CASE UNCHANGED vars
  BY <1>8 DEF vars, ErrorKept
<1> QED
  BY <1>1, <1>2, <1>3, <1>4, <1>5, <1>6, <1>7, <1>8 DEF Next

\* A failure of one of any number of runners is never lost behind the items of the
\* others and the end of the stream: a session that has gone through all of its
\* stream after a failure has returned the error.
THEOREM ErrorsReported == Spec => []ErrorReported
<1>1. Init => ErrorKept
  BY DEF Init, ErrorKept
<1>2. TypeOK /\ ErrorKept => ErrorReported
  BY DEF TypeOK, ErrorKept, ErrorReported, Exhausted
<1> QED
  BY <1>1, <1>2, TypeCorrect, KeptStep, PTL DEF Spec
=============================================================================
