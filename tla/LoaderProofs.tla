---------------------------- MODULE LoaderProofs ----------------------------
(***************************************************************************)
(* The safety of Loader for any number of CPUs and events, any capacity of *)
(* the ring and of the pipe, failing or not.                               *)
(***************************************************************************)
EXTENDS Loader, SequenceTheorems, TLAPS

\* An entry of the history of what was printed.
Printed == [id : Nat, whole : BOOLEAN]

\* TypeOK in three parts: main, the flags, and what goes through the ring.
MainTyped ==
  /\ pc \in {"open", "load", "attach", "ring", "loop", "poll", "consume", "cleanup", "exited"}
  /\ err \in {-EINTR, -EOTHER} \cup 0..MaxEvents
  /\ count \in 0..MaxEvents
  /\ code \in {Running, Signalled} \cup 0..255
  /\ (pc = "exited") <=> (code # Running)
  /\ failure \in {"none", "open", "load", "attach", "ring", "poll"}

FlagsTyped == stop \in BOOLEAN /\ attached \in BOOLEAN /\ reader \in BOOLEAN

RingTyped ==
  /\ cpu \in [Cpus -> 0..MaxEvents]
  /\ filled \subseteq 1..reserved
  /\ done \subseteq 1..reserved
  /\ ring \in Seq(1..reserved) /\ Len(ring) <= RingCapacity
  /\ reserved + missed \in 0..MaxEvents
  /\ lines \in Seq(1..reserved) /\ Len(lines) <= PipeCapacity

\* What the types rest on: the records that a poll has consumed and those that
\* wait are among the reserved, and a CPU is at one of these.
Counted ==
  /\ reserved \in Nat /\ missed \in Nat
  /\ count + Len(ring) <= reserved
  /\ \A c \in Cpus : cpu[c] <= reserved

TypeInv == MainTyped /\ FlagsTyped /\ RingTyped /\ Counted

LEMMA TypeParts == TypeInv => TypeOK
  BY Zenon DEF TypeInv, MainTyped, FlagsTyped, RingTyped, TypeOK

LEMMA TypeInit == Init => TypeInv
<1> SUFFICES ASSUME Init PROVE TypeInv
  OBVIOUS
<1>1. MainTyped
  BY LoaderAssumption DEF Init, MainTyped, Running, Signalled
<1>2. FlagsTyped
  BY Zenon DEF Init, FlagsTyped
<1>3. RingTyped /\ Counted
  BY LoaderAssumption DEF Init, RingTyped, Counted
<1> QED
  BY <1>1, <1>2, <1>3 DEF TypeInv

LEMMA FlagsStep == FlagsTyped /\ [Next]_vars => FlagsTyped'
<1> SUFFICES ASSUME FlagsTyped, [Next]_vars PROVE FlagsTyped'
  OBVIOUS
<1> USE DEF FlagsTyped, main, probes, pipe
<1>1. ASSUME NEW stage, NEW next, SetupStep(stage, next) PROVE FlagsTyped'
  BY <1>1, Zenon DEF SetupStep
<1>2. CASE SetupFails \/ sig_handler \/ LoopTest \/ PollTimesOut \/ PollFails \/ PollReady \/ PollDone
  BY <1>2, Zenon DEF SetupFails, sig_handler, LoopTest, PollTimesOut, PollFails, PollReady,
                     PollDone, PollReturns
<1>3. CASE handle_event \/ BrokenPipe \/ Cleanup \/ ReadLine \/ LetGo
  BY <1>3, Zenon DEF handle_event, BrokenPipe, Cleanup, ReadLine, LetGo
<1>4. ASSUME NEW c \in Cpus, Reserve(c) \/ Fill(c) \/ Submit(c) PROVE FlagsTyped'
  BY <1>4, Zenon DEF Reserve, Fill, Submit
<1>5. CASE UNCHANGED vars
  BY <1>5, Zenon DEF vars
<1> QED
  BY <1>1, <1>2, <1>3, <1>4, <1>5, Zenon DEF Next

\* Steps that move main and leave the ring alone.
LEMMA MainStep ==
  ASSUME MainTyped, RingTyped, Counted, UNCHANGED <<ring, probes, lines>>, count' \in {0, count}
  PROVE  RingTyped' /\ Counted'
<1>1. RingTyped'
  BY DEF RingTyped, probes
<1>2. count' + Len(ring) <= reserved
  BY DEF MainTyped, RingTyped, Counted
<1> QED
  BY <1>1, <1>2 DEF Counted, probes

LEMMA TypeStep == TypeInv /\ [Next]_vars => TypeInv'
<1> SUFFICES ASSUME TypeInv, [Next]_vars PROVE MainTyped' /\ RingTyped' /\ Counted'
  BY FlagsStep DEF TypeInv
<1>0. MainTyped /\ RingTyped /\ Counted
  BY DEF TypeInv
<1> USE LoaderAssumption DEF main, probes, pipe, EINTR, EOTHER, Running, Signalled
<1>1. ASSUME NEW stage \in {"open", "load", "attach", "ring"},
             NEW next \in {"load", "attach", "ring", "loop"}, SetupStep(stage, next)
      PROVE  MainTyped' /\ RingTyped' /\ Counted'
  <2>1. MainTyped'
    BY <1>0, <1>1 DEF SetupStep, MainTyped
  <2> QED
    BY <1>0, <1>1, <2>1, MainStep DEF SetupStep
<1>2. CASE SetupFails \/ LoopTest
  <2>1. MainTyped'
    BY <1>0, <1>2 DEF SetupFails, LoopTest, MainTyped
  <2> QED
    BY <1>0, <1>2, <2>1, MainStep DEF SetupFails, LoopTest
<1>3. CASE sig_handler
  <2>1. MainTyped'
    BY <1>0, <1>3 DEF sig_handler, MainTyped
  <2> QED
    BY <1>0, <1>3, <2>1, MainStep DEF sig_handler
<1>4. CASE PollTimesOut \/ PollFails \/ PollReady \/ PollDone
  <2>1. MainTyped'
    BY <1>0, <1>4 DEF PollTimesOut, PollFails, PollReady, PollDone, PollReturns, MainTyped
  <2> QED
    BY <1>0, <1>4, <2>1, MainStep DEF PollTimesOut, PollFails, PollReady, PollDone, PollReturns
<1>5. CASE handle_event
  <2>1. /\ ring \in Seq(1..reserved) /\ ring # <<>> /\ lines \in Seq(1..reserved)
        /\ Len(lines) < PipeCapacity /\ reserved \in Nat
    BY <1>0, <1>5 DEF handle_event, RingTyped, Counted
  <2>2. /\ Head(ring) \in 1..reserved
        /\ Tail(ring) \in Seq(1..reserved) /\ Len(Tail(ring)) = Len(ring) - 1
    BY <2>1, HeadTailProperties
  <2>3. Append(lines, Head(ring)) \in Seq(1..reserved)
        /\ Len(Append(lines, Head(ring))) <= PipeCapacity
    BY <2>1, <2>2, AppendProperties
  <2>4. count + 1 \in 0..MaxEvents /\ count + 1 + Len(Tail(ring)) <= reserved
    BY <1>0, <2>2 DEF MainTyped, RingTyped, Counted
  <2>5. MainTyped'
    BY <1>0, <1>5, <2>4 DEF handle_event, MainTyped
  <2> QED
    BY <1>0, <1>5, <2>2, <2>3, <2>4, <2>5 DEF handle_event, RingTyped, Counted
<1>6. CASE BrokenPipe
  <2>1. MainTyped'
    BY <1>0, <1>6 DEF BrokenPipe, MainTyped
  <2> QED
    BY <1>0, <1>6, <2>1, MainStep DEF BrokenPipe
<1>7. CASE Cleanup
  <2>1. err \in Int
    BY <1>0 DEF MainTyped
  <2>2. Status(err) \in 0..255
    BY <2>1 DEF Status
  <2>3. MainTyped'
    BY <1>0, <1>7, <2>2 DEF Cleanup, MainTyped
  <2> QED
    BY <1>0, <1>7, <2>3, MainStep DEF Cleanup
<1>8. ASSUME NEW c \in Cpus, Reserve(c) PROVE MainTyped' /\ RingTyped' /\ Counted'
  <2>0. MainTyped'
    BY <1>0, <1>8 DEF Reserve, MainTyped
  <2>1. CASE Len(ring) < RingCapacity
    <3> DEFINE id == reserved + 1
    <3>0. id \in Nat /\ id \in 1..id /\ 1..reserved \subseteq 1..id /\ id + missed \in 0..MaxEvents
      BY <1>0, <1>8 DEF Reserve, RingTyped, Counted
    <3>1. reserved' = id /\ cpu' = [cpu EXCEPT ![c] = id] /\ ring' = Append(ring, id)
          /\ UNCHANGED <<missed, filled, done, lines, count>>
      BY <1>8, <2>1 DEF Reserve
    <3>2. ring \in Seq(1..id) /\ lines \in Seq(1..id)
      <4>1. ring \in Seq(1..reserved) /\ lines \in Seq(1..reserved) /\ 1..reserved \subseteq 1..id
        BY <1>0, <3>0 DEF RingTyped
      <4> HIDE DEF id
      <4> QED
        BY <4>1, SeqMonotonic, Zenon
    <3> HIDE DEF id
    <3>3. Append(ring, id) \in Seq(1..id) /\ Len(Append(ring, id)) = Len(ring) + 1
      BY <3>0, <3>2, AppendProperties
    <3>4. cpu' \in [Cpus -> 0..MaxEvents]
      BY <1>0, <3>0, <3>1 DEF RingTyped, Counted
    <3>5. RingTyped'
      <4>1. filled' \subseteq 1..id /\ done' \subseteq 1..id /\ Len(lines') <= PipeCapacity
            /\ id + missed' \in 0..MaxEvents
        BY <1>0, <3>0, <3>1 DEF RingTyped
      <4>2. Len(Append(ring, id)) <= RingCapacity
        BY <1>0, <2>1, <3>3 DEF RingTyped
      <4> QED
        BY <3>1, <3>2, <3>3, <3>4, <4>1, <4>2 DEF RingTyped
    <3>6. id = reserved + 1
      BY DEF id
    <3>7. \A d \in Cpus : cpu'[d] <= id
      BY <1>0, <3>0, <3>1, <3>6 DEF RingTyped, Counted
    <3> QED
      <4>1. count' + Len(ring') <= reserved'
        BY <1>0, <3>1, <3>3, <3>6 DEF RingTyped, MainTyped, Counted
      <4> QED
        BY <1>0, <2>0, <3>0, <3>1, <3>5, <3>7, <4>1 DEF Counted
  <2>2. CASE ~(Len(ring) < RingCapacity)
    BY <1>0, <2>0, <1>8, <2>2 DEF Reserve, RingTyped, Counted
  <2> QED
    BY <2>1, <2>2
<1>9. ASSUME NEW c \in Cpus, Fill(c) \/ Submit(c) PROVE MainTyped' /\ RingTyped' /\ Counted'
  <2>1. cpu[c] \in 1..reserved /\ UNCHANGED <<ring, lines, reserved, missed, count>>
    BY <1>0, <1>9 DEF Fill, Submit, RingTyped, Counted
  <2>2. filled' \subseteq 1..reserved /\ done' \subseteq 1..reserved
    BY <1>0, <1>9, <2>1 DEF Fill, Submit, RingTyped
  <2>3. cpu' \in [Cpus -> 0..MaxEvents] /\ \A d \in Cpus : cpu'[d] <= reserved
    <3>1. cpu' = cpu \/ cpu' = [cpu EXCEPT ![c] = 0]
      BY <1>9 DEF Fill, Submit
    <3>2. CASE cpu' = cpu
      BY <1>0, <3>2 DEF RingTyped, Counted
    <3>3. CASE cpu' = [cpu EXCEPT ![c] = 0]
      <4>1. 0 \in 0..MaxEvents /\ 0 <= reserved
        BY <1>0 DEF Counted
      <4>2. cpu' \in [Cpus -> 0..MaxEvents]
        BY <1>0, <3>3, <4>1 DEF RingTyped
      <4>3. \A d \in Cpus : cpu'[d] = IF d = c THEN 0 ELSE cpu[d]
        BY <1>0, <3>3 DEF RingTyped
      <4> QED
        BY <1>0, <4>1, <4>2, <4>3 DEF Counted
    <3> QED
      BY <3>1, <3>2, <3>3
  <2>4. MainTyped'
    BY <1>0, <1>9 DEF Fill, Submit, MainTyped
  <2> QED
    BY <1>0, <2>1, <2>2, <2>3, <2>4 DEF RingTyped, Counted
<1>10. CASE ReadLine
  <2>1. Tail(lines) \in Seq(1..reserved) /\ Len(Tail(lines)) <= PipeCapacity
    BY <1>0, <1>10, HeadTailProperties DEF ReadLine, RingTyped
  <2> QED
    BY <1>0, <1>10, <2>1 DEF ReadLine, MainTyped, RingTyped, Counted
<1>11. CASE LetGo
  BY <1>0, <1>11 DEF LetGo, MainTyped, RingTyped, Counted
<1>12. CASE UNCHANGED vars
  BY <1>0, <1>12 DEF vars, MainTyped, RingTyped, Counted
<1> QED
  BY <1>1, <1>2, <1>3, <1>4, <1>5, <1>6, <1>7, <1>8, <1>9, <1>10, <1>11, <1>12 DEF Next

LEMMA Typed == Spec => []TypeInv
  BY TypeInit, TypeStep, PTL DEF Spec

\* Whatever the CPUs, the signals and the pipe do, every reachable state is well
\* typed: the ring and the pipe are within their bounds, and there is an exit status
\* exactly when the loader has exited.
THEOREM TypeCorrect == Spec => []TypeOK
  BY Typed, TypeParts, PTL

-----------------------------------------------------------------------------
\* PrintedInOrder, position by position: the records printed are the first of
\* those reserved, the others stand in the ring.
Ordered ==
  /\ printed \in Seq(Printed)
  /\ Len(printed) + Len(ring) = reserved
  /\ \A i \in 1..Len(printed) : printed[i].id = i
  /\ \A i \in 1..Len(ring) : ring[i] = Len(printed) + i

LEMMA OrderedStep == TypeInv /\ Ordered /\ [Next]_vars => Ordered'
<1> SUFFICES ASSUME TypeInv, Ordered, [Next]_vars PROVE Ordered'
  OBVIOUS
<1>0. ring \in Seq(1..reserved) /\ printed \in Seq(Printed) /\ reserved \in Nat
  BY DEF TypeInv, RingTyped, Counted, Ordered
<1>1. ASSUME NEW c \in Cpus, Reserve(c), Len(ring) < RingCapacity PROVE Ordered'
  <2>1. printed' = printed /\ ring' = Append(ring, reserved + 1) /\ reserved' = reserved + 1
    BY <1>1 DEF Reserve, pipe
  <2>2. ring \in Seq(Nat) /\ reserved + 1 \in Nat
    BY <1>0
  <2>3. /\ Len(ring') = Len(ring) + 1
        /\ \A i \in 1..Len(ring) : ring'[i] = ring[i]
        /\ ring'[Len(ring) + 1] = reserved + 1
    BY <2>1, <2>2, AppendProperties
  <2>4. Len(ring) \in Nat /\ Len(printed) \in Nat
    BY <1>0
  <2>5. ASSUME NEW i \in 1..Len(ring') PROVE ring'[i] = Len(printed) + i
    <3>1. CASE i \in 1..Len(ring)
      BY <2>3, <3>1 DEF Ordered
    <3>2. CASE i = Len(ring) + 1
      BY <2>3, <2>4, <3>2 DEF Ordered
    <3> QED
      BY <2>3, <2>4, <3>1, <3>2
  <2> QED
    BY <2>1, <2>3, <2>4, <2>5 DEF Ordered
<1>2. CASE handle_event
  <2> DEFINE new == [id |-> Head(ring), whole |-> Head(ring) \in filled]
  <2>1. ring # <<>> /\ ring' = Tail(ring) /\ printed' = Append(printed, new) /\ reserved' = reserved
    BY <1>2 DEF handle_event, probes
  <2>2. Len(ring) \in Nat \ {0} /\ Len(printed) \in Nat
    BY <1>0, <2>1
  <2>3. Head(ring) = ring[1] /\ Len(Tail(ring)) = Len(ring) - 1
        /\ \A i \in 1..Len(Tail(ring)) : Tail(ring)[i] = ring[i + 1]
    BY <1>0, <2>1
  <2>4. new.id = Len(printed) + 1
    BY <2>2, <2>3 DEF Ordered
  <2>5. new \in Printed
    <3>1. Head(ring) \in Nat
      BY <2>2, <2>4
    <3>2. (Head(ring) \in filled) \in BOOLEAN
      OBVIOUS
    <3> QED
      BY <3>1, <3>2, Zenon DEF Printed
  <2> HIDE DEF new
  <2>6. /\ printed' \in Seq(Printed) /\ Len(printed') = Len(printed) + 1
        /\ \A i \in 1..Len(printed) : printed'[i] = printed[i]
        /\ printed'[Len(printed) + 1] = new
    BY <1>0, <2>1, <2>5, AppendProperties
  <2>7. \A i \in 1..Len(printed') : printed'[i].id = i
    BY <2>2, <2>4, <2>6 DEF Ordered
  <2>8. \A i \in 1..Len(ring') : ring'[i] = Len(printed') + i
    BY <2>1, <2>2, <2>3, <2>6 DEF Ordered
  <2> QED
    BY <2>1, <2>2, <2>3, <2>6, <2>7, <2>8 DEF Ordered
<1>3. CASE UNCHANGED <<ring, printed, reserved>>
  BY <1>3 DEF Ordered
<1>4. handle_event \/ UNCHANGED <<ring, printed, reserved>>
      \/ \E c \in Cpus : Reserve(c) /\ Len(ring) < RingCapacity
  BY DEF Next, vars, probes, pipe, SetupStep, SetupFails, sig_handler, LoopTest, PollTimesOut,
         PollFails, PollReady, PollDone, PollReturns, BrokenPipe, Cleanup, Reserve, Fill, Submit,
         ReadLine, LetGo
<1> QED
  BY <1>1, <1>2, <1>3, <1>4

\* Whatever the CPUs, the signals and the pipe do, the records are printed in the
\* order of their reservation, each once, and none that got into the ring is skipped.
THEOREM PrintedOrderHolds == Spec => []PrintedInOrder
<1>1. Init => Ordered
  BY DEF Init, Ordered
<1>2. TypeInv /\ Ordered => PrintedInOrder
  <2> SUFFICES ASSUME TypeInv, Ordered PROVE PrintedInOrder
    OBVIOUS
  <2> DEFINE ids == [i \in 1..Len(printed) |-> printed[i].id]
             all == [i \in 1..reserved |-> i]
  <2>1. Len(printed) \in Nat /\ reserved \in Nat /\ ring \in Seq(Nat) /\ Len(ring) \in Nat
    BY DEF TypeInv, RingTyped, Counted, Ordered
  <2>2. ids \in Seq(Nat) /\ Len(ids) = Len(printed) /\ \A i \in 1..Len(ids) : ids[i] = i
    BY <2>1 DEF Ordered
  <2>3. all \in Seq(Nat) /\ Len(all) = reserved /\ \A i \in 1..reserved : all[i] = i
    BY <2>1
  <2> HIDE DEF ids, all
  <2>4. /\ ids \o ring \in Seq(Nat)
        /\ Len(ids \o ring) = Len(ids) + Len(ring)
        /\ \A i \in 1..Len(ids) + Len(ring) :
             (ids \o ring)[i] = IF i <= Len(ids) THEN ids[i] ELSE ring[i - Len(ids)]
    BY <2>1, <2>2, ConcatProperties
  <2>5. \A i \in 1..reserved : (ids \o ring)[i] = all[i]
    BY <2>1, <2>2, <2>3, <2>4 DEF Ordered
  <2>6. Len(ids \o ring) = Len(all)
    BY <2>1, <2>2, <2>3, <2>4 DEF Ordered
  <2>7. \A i \in 1..Len(ids \o ring) : (ids \o ring)[i] = all[i]
    BY <2>3, <2>5, <2>6
  <2>8. ids \o ring = all
    BY <2>3, <2>4, <2>6, <2>7, SeqEqual, Zenon
  <2> QED
    BY <2>8 DEF PrintedInOrder, ids, all
<1> QED
  BY <1>1, <1>2, OrderedStep, Typed, PTL DEF Spec

-----------------------------------------------------------------------------
\* What makes PrintedWhole inductive: only a record that is filled in is submitted.
SubmittedWhole == done \subseteq filled /\ PrintedWhole

LEMMA WholeStep == Ordered /\ SubmittedWhole /\ [Next]_vars => SubmittedWhole'
<1> SUFFICES ASSUME Ordered, SubmittedWhole, [Next]_vars PROVE SubmittedWhole'
  OBVIOUS
<1>1. CASE handle_event
  <2> DEFINE new == [id |-> Head(ring), whole |-> Head(ring) \in filled]
  <2>1. printed' = Append(printed, new) /\ UNCHANGED <<done, filled>> /\ Head(ring) \in done
    BY <1>1 DEF handle_event, probes
  <2>2. new.whole
    BY <2>1, Zenon DEF SubmittedWhole
  <2> HIDE DEF new
  <2>3. /\ Len(printed) \in Nat /\ Len(printed') = Len(printed) + 1
        /\ \A i \in 1..Len(printed) : printed'[i] = printed[i]
        /\ printed'[Len(printed) + 1] = new
    <3>1. printed \in Seq(Printed \cup {new}) /\ new \in Printed \cup {new}
      BY DEF Ordered
    <3> QED
      BY <2>1, <3>1, AppendProperties, LenProperties
  <2>4. \A i \in 1..Len(printed') : i \in 1..Len(printed) \/ i = Len(printed) + 1
    BY <2>3
  <2>5. \A i \in 1..Len(printed') : printed'[i].whole
    BY <2>2, <2>3, <2>4, Zenon DEF SubmittedWhole, PrintedWhole
  <2> QED
    BY <2>1, <2>5, Zenon DEF SubmittedWhole, PrintedWhole
<1>2. ASSUME NEW c \in Cpus, Fill(c) \/ Submit(c) PROVE SubmittedWhole'
  <2>1. printed' = printed /\ done' \subseteq filled'
    BY <1>2 DEF Fill, Submit, pipe, SubmittedWhole
  <2> QED
    BY <2>1, Zenon DEF SubmittedWhole, PrintedWhole
<1>3. CASE UNCHANGED <<done, filled, printed>>
  BY <1>3, Zenon DEF SubmittedWhole, PrintedWhole
<1>4. handle_event \/ UNCHANGED <<done, filled, printed>> \/ \E c \in Cpus : Fill(c) \/ Submit(c)
  BY DEF Next, vars, probes, pipe, SetupStep, SetupFails, sig_handler, LoopTest, PollTimesOut,
         PollFails, PollReady, PollDone, PollReturns, BrokenPipe, Cleanup, Reserve, ReadLine, LetGo
<1> QED
  BY <1>1, <1>2, <1>3, <1>4

\* However the CPUs interleave, no line is printed of a record that is still being
\* filled in.
THEOREM PrintedWholeHolds == Spec => []PrintedWhole
<1>1. Init => SubmittedWhole
  BY DEF Init, SubmittedWhole, PrintedWhole
<1>2. Init => Ordered
  BY DEF Init, Ordered
<1>3. SubmittedWhole => PrintedWhole
  BY DEF SubmittedWhole
<1> QED
  BY <1>1, <1>2, <1>3, OrderedStep, WholeStep, Typed, PTL DEF Spec

-----------------------------------------------------------------------------
\* StatusTells from the step on that decides it: a failure is final, and where main
\* cleans up, err says of every failure but that of ring_buffer__new that it was one.
FailureKept ==
  /\ failure # "none" => pc \in {"cleanup", "exited"}
  /\ pc = "cleanup" =>
       (failure = "none" /\ stop) \/ failure = "ring" \/ err = -EOTHER
  /\ StatusTells

LEMMA FailureStep == TypeInv /\ FailureKept /\ [Next]_vars => FailureKept'
<1> SUFFICES ASSUME TypeInv, FailureKept, [Next]_vars PROVE FailureKept'
  OBVIOUS
<1> USE DEF FailureKept, StatusTells, main, probes, pipe
<1>0. /\ count \in Nat
      /\ (pc = "exited") <=> (code # Running)
  BY DEF TypeInv, MainTyped
<1>1. ASSUME NEW stage \in {"open", "load", "attach", "ring"},
             NEW next \in {"load", "attach", "ring", "loop"}, SetupStep(stage, next)
      PROVE  FailureKept'
  BY <1>1 DEF SetupStep
<1>2. CASE SetupFails
  BY <1>2 DEF SetupFails
<1>3. CASE sig_handler
  BY <1>3 DEF sig_handler
<1>4. CASE LoopTest
  BY <1>4 DEF LoopTest
<1>5. CASE PollTimesOut
  BY <1>5 DEF PollTimesOut, PollReturns
<1>6. CASE PollFails
  BY <1>6 DEF PollFails, PollReturns, EOTHER
<1>7. CASE PollReady
  BY <1>7 DEF PollReady
<1>8. CASE handle_event
  BY <1>8 DEF handle_event
<1>9. CASE BrokenPipe
  BY <1>9 DEF BrokenPipe, Signalled
<1>10. CASE PollDone
  BY <1>0, <1>10 DEF PollDone, PollReturns
<1>11. CASE Cleanup
  <2>1. CASE err = -EOTHER
    <3>1. code' # 0
      BY <1>11, <2>1 DEF Cleanup, Status, EOTHER
    <3> QED
      BY <1>11, <3>1 DEF Cleanup
  <2>2. CASE failure = "ring"
    BY <1>11, <2>2 DEF Cleanup
  <2>3. CASE failure = "none" /\ stop
    BY <1>11, <2>3 DEF Cleanup
  <2> QED
    BY <1>11, <2>1, <2>2, <2>3 DEF Cleanup
<1>12. ASSUME NEW c \in Cpus, Reserve(c) \/ Fill(c) \/ Submit(c) PROVE FailureKept'
  BY <1>12 DEF Reserve, Fill, Submit
<1>13. CASE ReadLine \/ LetGo
  BY <1>13 DEF ReadLine, LetGo
<1>14. CASE UNCHANGED vars
  BY <1>14 DEF vars
<1> QED
  BY <1>1, <1>2, <1>3, <1>4, <1>5, <1>6, <1>7, <1>8, <1>9, <1>10, <1>11, <1>12, <1>13, <1>14
     DEF Next

\* Whatever came in which order, an exit status of 0 means a stop that found nothing
\* wrong, or a ring buffer that could not be made.
THEOREM StatusHolds == Spec => []StatusTells
<1>1. Init => FailureKept
  BY DEF Init, FailureKept, StatusTells
<1>2. FailureKept => StatusTells
  BY DEF FailureKept
<1> QED
  BY <1>1, <1>2, FailureStep, Typed, PTL DEF Spec

-----------------------------------------------------------------------------
\* While the kprobes are attached main is between the attachment and its end.
AttachedRuns == attached => pc \notin {"open", "load", "attach", "exited"}

LEMMA AttachedStep == AttachedRuns /\ [Next]_vars => AttachedRuns'
<1> SUFFICES ASSUME AttachedRuns, [Next]_vars PROVE AttachedRuns'
  OBVIOUS
<1> USE DEF AttachedRuns, main, probes, pipe
<1>1. CASE \/ SetupStep("open", "load") \/ SetupStep("load", "attach")
           \/ SetupStep("attach", "ring") \/ SetupStep("ring", "loop")
  BY <1>1 DEF SetupStep
<1>2. CASE SetupFails \/ sig_handler \/ LoopTest \/ PollTimesOut \/ PollFails \/ PollReady \/ PollDone
  BY <1>2 DEF SetupFails, sig_handler, LoopTest, PollTimesOut, PollFails, PollReady, PollDone,
              PollReturns
<1>3. CASE handle_event \/ BrokenPipe \/ Cleanup \/ ReadLine \/ LetGo
  BY <1>3 DEF handle_event, BrokenPipe, Cleanup, ReadLine, LetGo
<1>4. ASSUME NEW c \in Cpus, Reserve(c) \/ Fill(c) \/ Submit(c) PROVE AttachedRuns'
  BY <1>4 DEF Reserve, Fill, Submit
<1>5. CASE UNCHANGED vars
  BY <1>5 DEF vars
<1> QED
  BY <1>1, <1>2, <1>3, <1>4, <1>5, Zenon DEF Next

\* What the refinement rests on: as many records wait for the feed as stand in the
\* ring, the first of them is the next, it is complete if it has been submitted, and
\* an exited loader has no kprobes.
FeedInv == TypeInv /\ Ordered /\ SubmittedWhole /\ AttachedRuns

LEMMA FeedInvariant == Spec => []FeedInv
<1>1. Init => Ordered /\ SubmittedWhole /\ AttachedRuns
  BY DEF Init, Ordered, SubmittedWhole, PrintedWhole, AttachedRuns
<1> QED
  BY <1>1, OrderedStep, WholeStep, AttachedStep, Typed, PTL DEF Spec, FeedInv

\* Steps of main and of the kprobes that the feed does not see.
Hidden == UNCHANGED <<reserved, missed, printed, lines>> /\ (pc' = "exited" <=> pc = "exited")

LEMMA HiddenStutters == Hidden => UNCHANGED Feed!vars
<1> SUFFICES ASSUME Hidden PROVE UNCHANGED Feed!vars
  OBVIOUS
<1>1. (pc = "exited")' = (pc = "exited")
  BY Zenon DEF Hidden
<1> QED
  BY <1>1, Zenon DEF Hidden, Feed!vars

LEMMA StepRefines == FeedInv /\ [Next]_vars => [Feed!Next]_(Feed!vars)
<1> SUFFICES ASSUME FeedInv, [Next]_vars PROVE [Feed!Next]_(Feed!vars)
  OBVIOUS
<1>0. /\ reserved \in Nat /\ missed \in Nat /\ Len(ring) \in Nat /\ Len(printed) \in Nat
      /\ reserved - Len(printed) = Len(ring) /\ Len(ring) <= RingCapacity /\ RingCapacity \in Nat
  BY LoaderAssumption DEF FeedInv, TypeInv, Counted, RingTyped, Ordered
<1>1. CASE handle_event
  <2>1. /\ pc = "consume" /\ ring # <<>> /\ Head(ring) \in done /\ Len(lines) < PipeCapacity
        /\ lines' = Append(lines, Head(ring))
        /\ printed' = Append(printed, [id |-> Head(ring), whole |-> Head(ring) \in filled])
        /\ UNCHANGED <<pc, reserved, missed>>
    BY <1>1 DEF handle_event, probes
  <2>2. Head(ring) = Len(printed) + 1 /\ Len(ring) > 0
    <3>1. ring \in Seq(1..reserved)
      BY DEF FeedInv, TypeInv, RingTyped
    <3>2. Len(ring) > 0 /\ 1 \in 1..Len(ring) /\ Head(ring) = ring[1]
      BY <1>0, <2>1, <3>1, EmptySeq
    <3> QED
      BY <3>2 DEF FeedInv, Ordered
  <2>3. (Head(ring) \in filled) = TRUE
    BY <2>1, Zenon DEF FeedInv, SubmittedWhole
  <2>4. /\ printed' = Append(printed, [id |-> Len(printed) + 1, whole |-> TRUE])
        /\ lines' = Append(lines, Len(printed) + 1)
    BY <2>1, <2>2, <2>3, Zenon
  <2>5. ~ (pc = "exited") /\ (pc = "exited")' = (pc = "exited")
    BY <2>1, Zenon
  <2>6. reserved - Len(printed) > 0
    BY <1>0, <2>2
  <2> QED
    BY <2>1, <2>4, <2>5, <2>6, Zenon DEF Feed!Next, Feed!Deliver, Feed!Waiting
<1>2. ASSUME NEW c \in Cpus, Reserve(c) PROVE Feed!Next
  <2>1. attached /\ UNCHANGED <<pc, printed, lines>>
    BY <1>2 DEF Reserve, main, pipe
  <2>2. ~ (pc = "exited") /\ (pc = "exited")' = (pc = "exited")
    BY <2>1, Zenon DEF FeedInv, AttachedRuns
  <2>3. CASE Len(ring) < RingCapacity
    <3>1. reserved' = reserved + 1 /\ missed' = missed
      BY <1>2, <2>3 DEF Reserve
    <3>2. reserved - Len(printed) < RingCapacity
      BY <1>0, <2>3
    <3> QED
      BY <2>1, <2>2, <3>1, <3>2, Zenon DEF Feed!Next, Feed!Accept, Feed!Waiting
  <2>4. CASE ~ (Len(ring) < RingCapacity)
    <3>1. missed' = missed + 1 /\ reserved' = reserved
      BY <1>2, <2>4 DEF Reserve
    <3>2. reserved - Len(printed) = RingCapacity
      BY <1>0, <2>4
    <3> QED
      BY <2>1, <2>2, <3>1, <3>2, Zenon DEF Feed!Next, Feed!Miss, Feed!Waiting
  <2> QED
    BY <2>3, <2>4
<1>3. CASE ReadLine
  <2>1. lines # <<>> /\ lines' = Tail(lines) /\ UNCHANGED <<reserved, missed, printed, pc>>
    BY <1>3 DEF ReadLine, main, probes
  <2>2. (pc = "exited")' = (pc = "exited")
    BY <2>1, Zenon
  <2> QED
    BY <2>1, <2>2, Zenon DEF Feed!Next, Feed!Read
<1>4. CASE pc # "exited" /\ pc' = "exited" /\ UNCHANGED <<reserved, missed, printed, lines>>
  <2>1. ~ (pc = "exited") /\ (pc = "exited")' = TRUE
    BY <1>4, Zenon
  <2> QED
    BY <1>4, <2>1, Zenon DEF Feed!Next, Feed!End
<1>5. CASE Hidden
  BY <1>5, HiddenStutters
<1> DEFINE Ends == pc # "exited" /\ pc' = "exited" /\ UNCHANGED <<reserved, missed, printed, lines>>
<1>6. ASSUME NEW stage, NEW next, SetupStep(stage, next), stage # "exited", next # "exited" PROVE Hidden
  BY <1>6 DEF SetupStep, probes, pipe, Hidden
<1>7. SetupFails => Ends \/ Hidden
  BY DEF SetupFails, probes, pipe, Hidden
<1>8. sig_handler \/ LoopTest \/ PollTimesOut \/ PollFails \/ PollReady \/ PollDone => Hidden
  BY DEF sig_handler, LoopTest, PollTimesOut, PollFails, PollReady, PollDone, PollReturns,
         main, probes, pipe, Hidden
<1>9. BrokenPipe \/ Cleanup => Ends
  BY DEF BrokenPipe, Cleanup, probes, pipe
<1>10. ASSUME NEW c \in Cpus, Fill(c) \/ Submit(c) PROVE Hidden
  BY <1>10 DEF Fill, Submit, main, pipe, Hidden
<1>11. LetGo \/ UNCHANGED vars => Hidden
  BY DEF LetGo, vars, main, probes, Hidden
<1> QED
  BY <1>1, <1>2, <1>3, <1>4, <1>5, <1>6, <1>7, <1>8, <1>9, <1>10, <1>11, Zenon DEF Next

\* Ring, loader and pipe implement the feed, whatever CPUs, signals and reader do.
THEOREM LoaderImplementsFeed == Spec => FeedSpec
<1>1. Init => Feed!Init
  <2> SUFFICES ASSUME Init PROVE Feed!Init
    OBVIOUS
  <2>1. (pc = "exited") = FALSE
    BY Zenon DEF Init
  <2> QED
    BY <2>1, Zenon DEF Init, Feed!Init
<1> QED
  BY <1>1, FeedInvariant, StepRefines, PTL DEF Spec, FeedSpec, Feed!Spec
=============================================================================
