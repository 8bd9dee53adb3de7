--------------------------- MODULE AlertSinkProofs ---------------------------
(***************************************************************************)
(* Proofs about AlertSink, for every number of alerts, every capacity of a *)
(* URI and with or without faults on the network: its type invariant, the  *)
(* conservation of alerts between the stream and the pushes, and that the  *)
(* flusher implements AlertOutbox.                                         *)
(***************************************************************************)
EXTENDS AlertSink, SequenceTheorems, TLAPS

-----------------------------------------------------------------------------
(* Type correctness. *)

\* What flush_alerts leaves behind is of the right type, wherever it stops.
LEMMA FlushAlertsType ==
  ASSUME TypeOK, NEW left \in SUBSET Used(cfg),
         NEW window \in Seq(1..accepted), window # <<>>,
         NEW final \in BOOLEAN, flush_alerts(left, window, final)
  PROVE  /\ pending' \in Seq(1..accepted)
         /\ pc' \in Channels \cup {"select", "returned"}
         /\ pc' \in Channels => pc' \in Used(cfg) /\ pending' # <<>>
         /\ last' \in BOOLEAN
         /\ arrived' = FALSE
         /\ flushed' \in Seq(1..accepted)
         /\ offered' \in [Channels -> Seq(1..accepted)]
         /\ received' = received
<1> DEFINE sendable == {ch \in left : Builds(cfg, ch, window)}
           called   == IF "wecom" \in sendable THEN {"wecom"} ELSE left
<1>1. arrived' = FALSE /\ received' = received
  BY DEF flush_alerts
<1>2. offered' = [ch \in Channels |->
                    IF ch \in called THEN offered[ch] \o window ELSE offered[ch]]
  BY DEF flush_alerts
<1>3. \A ch \in Channels : offered[ch] \in Seq(1..accepted)
                           /\ offered[ch] \o window \in Seq(1..accepted)
  BY ConcatProperties DEF TypeOK
<1>4. offered' \in [Channels -> Seq(1..accepted)]
  BY <1>2, <1>3
<1>5. CASE sendable = {}
  <2>1. FlushReturns(window, final)
    BY <1>5 DEF flush_alerts
  <2>2. flushed \o window \in Seq(1..accepted)
    BY ConcatProperties DEF TypeOK
  <2>3. <<>> \in Seq(1..accepted)
    BY EmptySeq
  <2> QED
    BY <1>1, <1>4, <2>1, <2>2, <2>3 DEF FlushReturns, Channels
<1>6. CASE sendable # {}
  <2>1. /\ pc' = IF "wecom" \in sendable THEN "wecom" ELSE "serverchan"
        /\ pending' = window
        /\ last' = final
        /\ flushed' = flushed
    BY <1>6 DEF flush_alerts
  <2>2. sendable \subseteq Channels /\ sendable \subseteq Used(cfg)
    BY DEF Used
  <2>3. pc' \in sendable
    BY <1>6, <2>1, <2>2 DEF Channels
  <2> QED
    BY <1>1, <1>4, <2>1, <2>2, <2>3 DEF TypeOK
<1> QED BY <1>5, <1>6

\* A sequence over the alerts so far stays one when an alert is accepted.
LEMMA MoreAlerts ==
  ASSUME NEW n \in Nat, NEW s \in Seq(1..n)
  PROVE  s \in Seq(1..(n + 1))
<1>1. 1..n \subseteq 1..(n + 1) OBVIOUS
<1> QED BY <1>1, SeqMonotonic

\* Every step keeps the types.
LEMMA TypeStep ==
  ASSUME TypeOK, [Next]_vars
  PROVE  TypeOK'
<1> USE DEF Channels
<1>1. CASE Push
  <2>1. accepted \in Nat /\ accepted + 1 \in 1..(accepted + 1) /\ accepted' \in 0..MaxAlerts
    BY <1>1, AlertSinkAssumption DEF Push, TypeOK, setting
  <2>2. chan \in Seq(1..(accepted + 1))
    BY <2>1, MoreAlerts DEF TypeOK
  <2>3. chan' \in Seq(1..accepted')
    BY <1>1, <2>1, <2>2, AppendProperties DEF Push, setting
  <2>4. /\ pending \in Seq(1..(accepted + 1))
        /\ flushed \in Seq(1..(accepted + 1))
        /\ \A ch \in Channels : /\ offered[ch] \in Seq(1..(accepted + 1))
                                /\ received[ch] \in Seq(1..(accepted + 1))
    BY <2>1, MoreAlerts DEF TypeOK
  <2>5. /\ offered' \in [Channels -> Seq(1..accepted')]
        /\ received' \in [Channels -> Seq(1..accepted')]
    BY <1>1, <2>4 DEF Push, TypeOK, history, setting
  <2> QED
    BY <1>1, <2>1, <2>3, <2>4, <2>5 DEF Push, TypeOK, history, setting
<1>2. CASE TimerFires
  BY <1>2 DEF TimerFires, TypeOK, history, setting
<1>3. CASE OnTick
  <2>1. CASE pending # <<>>
    <3>1. flush_alerts(Used(cfg), pending, FALSE)
      BY <1>3, <2>1 DEF OnTick, setting
    <3> QED
      BY <1>3, <2>1, <3>1, FlushAlertsType DEF OnTick, TypeOK, setting
  <2>2. CASE pending = <<>>
    BY <1>3, <2>2 DEF OnTick, TypeOK, history, setting
  <2> QED BY <2>1, <2>2
<1>4. CASE OnAlert
  <2>1. Head(chan) \in 1..accepted /\ Tail(chan) \in Seq(1..accepted)
    BY <1>4, HeadTailProperties DEF OnAlert, TypeOK, setting
  <2>2. pending' \in Seq(1..accepted)
    BY <1>4, <2>1, AppendProperties DEF OnAlert, TypeOK, setting
  <2> QED
    BY <1>4, <2>1, <2>2 DEF OnAlert, TypeOK, history, setting
<1>5. CASE OnClosed
  <2>1. CASE pending # <<>>
    <3>1. flush_alerts(Used(cfg), pending, TRUE)
      BY <1>5, <2>1 DEF OnClosed, setting
    <3> QED
      BY <1>5, <2>1, <3>1, FlushAlertsType DEF OnClosed, TypeOK, setting
  <2>2. CASE pending = <<>>
    BY <1>5, <2>2 DEF OnClosed, TypeOK, history, setting
  <2> QED BY <2>1, <2>2
<1>6. CASE Arrive
  <2>1. \A ch \in Channels : received[ch] \o pending \in Seq(1..accepted)
    BY ConcatProperties DEF TypeOK
  <2>2. received' \in [Channels -> Seq(1..accepted)]
    BY <1>6, <2>1 DEF Arrive, TypeOK, setting
  <2> QED
    BY <1>6, <2>2 DEF Arrive, TypeOK, setting
<1>7. CASE Resolve
  <2>1. pending # <<>> /\ pending \in Seq(1..accepted) /\ last \in BOOLEAN
    BY <1>7 DEF Resolve, TypeOK, setting
  <2>2. PICK left \in SUBSET Used(cfg) : flush_alerts(left, pending, last)
    BY <1>7 DEF Resolve, setting
  <2> QED
    BY <1>7, <2>1, <2>2, FlushAlertsType DEF Resolve, TypeOK, setting
<1>8. CASE DropStream
  BY <1>8 DEF DropStream, TypeOK, history, setting
<1>9. CASE DropAgent
  BY <1>9 DEF DropAgent, TypeOK, history, setting
<1>10. CASE Exit
  BY <1>10 DEF Exit, TypeOK, history, setting
<1>11. CASE UNCHANGED vars
  BY <1>11 DEF vars, TypeOK, setting
<1> QED
  BY <1>1, <1>2, <1>3, <1>4, <1>5, <1>6, <1>7, <1>8, <1>9, <1>10, <1>11 DEF Next

\* The initial states are well typed.
LEMMA TypeInit == Init => TypeOK
<1> SUFFICES ASSUME Init PROVE TypeOK
  OBVIOUS
<1>1. cfg \in AlertConfig
  BY DEF Init
<1>2. accepted \in 0..MaxAlerts
  BY AlertSinkAssumption DEF Init
<1>3. <<>> \in Seq(1..accepted)
  BY EmptySeq
<1>4. /\ offered \in [Channels -> Seq(1..accepted)]
      /\ received \in [Channels -> Seq(1..accepted)]
  BY <1>3 DEF Init
<1> QED
  BY <1>1, <1>2, <1>3, <1>4 DEF Init, TypeOK, Channels

\* The type invariant holds in every state, for every bound on the alerts: in
\* particular no configured channel is ever sent an empty window.
THEOREM TypeCorrect == Spec => []TypeOK
<1>1. Init => TypeOK BY TypeInit
<1>2. TypeOK /\ [Next]_vars => TypeOK' BY TypeStep
<1> QED BY <1>1, <1>2, PTL DEF Spec

-----------------------------------------------------------------------------
(* Conservation. *)

\* Taking the head off a sequence and putting it back in front changes nothing.
LEMMA HeadThenTail ==
  ASSUME NEW S, NEW s \in Seq(S), s # <<>>
  PROVE  <<Head(s)>> \o Tail(s) = s
<1>1. /\ Head(s) \in S /\ Tail(s) \in Seq(S) /\ Len(Tail(s)) = Len(s) - 1
      /\ \A i \in 1..Len(Tail(s)) : Tail(s)[i] = s[i + 1]
  BY HeadTailProperties
<1>2. <<Head(s)>> \in Seq(S) /\ Len(<<Head(s)>>) = 1 /\ <<Head(s)>>[1] = s[1]
  BY <1>1
<1>3. Len(s) \in Nat
  BY LenProperties
<1> DEFINE t == <<Head(s)>> \o Tail(s)
<1>4. /\ t \in Seq(S) /\ Len(t) = Len(s)
      /\ \A i \in 1..Len(s) : t[i] = IF i <= 1 THEN <<Head(s)>>[i] ELSE Tail(s)[i - 1]
  BY <1>1, <1>2, <1>3, ConcatProperties
<1>5. \A i \in 1..Len(t) : t[i] = s[i]
  BY <1>1, <1>2, <1>3, <1>4
<1> QED BY <1>4, <1>5, SeqEqual

\* A flush moves its window, or leaves it where it is.
LEMMA FlushConserves ==
  ASSUME TypeOK, Conserve, NEW left, NEW final,
         flush_alerts(left, pending, final),
         chan' = chan, accepted' = accepted
  PROVE  Conserve'
<1>1. CASE FlushReturns(pending, final)
  <2>1. flushed \o pending \in Seq(1..accepted)
    BY ConcatProperties DEF TypeOK
  <2>2. (flushed \o pending) \o <<>> = flushed \o pending
    BY <2>1, ConcatEmptySeq
  <2> QED
    BY <1>1, <2>2 DEF FlushReturns, Conserve
<1>2. CASE flushed' = flushed /\ pending' = pending
  BY <1>2 DEF Conserve
<1> QED BY <1>1, <1>2 DEF flush_alerts

\* Every step keeps the alerts together and in order.
LEMMA ConserveStep ==
  ASSUME TypeOK, Conserve, [Next]_vars
  PROVE  Conserve'
<1>1. CASE Push
  <2> DEFINE S == 1..(accepted + 1)
             old == flushed \o pending
  <2>1. accepted \in Nat /\ accepted + 1 \in S
    BY DEF TypeOK
  <2>2. flushed \in Seq(S) /\ pending \in Seq(S) /\ chan \in Seq(S)
    BY <2>1, MoreAlerts DEF TypeOK
  <2>3. old \in Seq(S)
    BY <2>2, ConcatProperties
  <2>4. <<accepted + 1>> \in Seq(S)
    BY <2>1
  <2>5. old \o Append(chan, accepted + 1) = (old \o chan) \o <<accepted + 1>>
    BY <2>1, <2>2, <2>3, <2>4, AppendIsConcat, ConcatAssociative
  <2> DEFINE upTo == [i \in 1..accepted |-> i]
  <2>6. upTo \in Seq(S) /\ Len(upTo) = accepted
    BY <2>1
  <2>7. (old \o chan) = upTo
    BY DEF Conserve
  <2> DEFINE t == upTo \o <<accepted + 1>>
             u == [i \in 1..(accepted + 1) |-> i]
  <2>8. /\ t \in Seq(S) /\ Len(t) = accepted + 1
        /\ \A i \in 1..(accepted + 1) :
             t[i] = IF i <= accepted THEN upTo[i] ELSE <<accepted + 1>>[i - accepted]
    BY <2>1, <2>4, <2>6, ConcatProperties
  <2>9. u \in Seq(S) /\ Len(u) = accepted + 1 /\ \A i \in 1..Len(t) : t[i] = u[i]
    BY <2>1, <2>8
  <2>10. t = u
    BY <2>8, <2>9, SeqEqual
  <2>11. old \o Append(chan, accepted + 1) = u
    BY <2>5, <2>7, <2>10
  <2> QED
    BY <1>1, <2>11 DEF Push, Conserve, history, setting
<1>2. CASE OnTick
  <2>1. CASE pending # <<>>
    <3>1. flush_alerts(Used(cfg), pending, FALSE) /\ chan' = chan /\ accepted' = accepted
      BY <1>2, <2>1 DEF OnTick, setting
    <3> QED BY <3>1, FlushConserves
  <2>2. CASE pending = <<>>
    BY <1>2, <2>2 DEF OnTick, Conserve, history, setting
  <2> QED BY <2>1, <2>2
<1>3. CASE OnAlert
  <2> DEFINE S == 1..accepted
             h == Head(chan)
             t == Tail(chan)
  <2>1. h \in S /\ t \in Seq(S) /\ <<h>> \o t = chan
    BY <1>3, HeadTailProperties, HeadThenTail DEF OnAlert, TypeOK, setting
  <2>2. <<h>> \in Seq(S) /\ flushed \in Seq(S) /\ pending \in Seq(S)
    BY <2>1 DEF TypeOK
  <2>3. flushed \o pending \in Seq(S)
    BY <2>2, ConcatProperties
  <2>4. flushed \o Append(pending, h) = (flushed \o pending) \o <<h>>
    BY <2>1, <2>2, AppendIsConcat, ConcatAssociative
  <2>5. ((flushed \o pending) \o <<h>>) \o t = (flushed \o pending) \o chan
    <3>1. ((flushed \o pending) \o <<h>>) \o t = (flushed \o pending) \o (<<h>> \o t)
      BY ONLY <2>1, <2>2, <2>3, ConcatAssociative
    <3> QED BY <2>1, <3>1
  <2> QED
    BY <1>3, <2>4, <2>5 DEF OnAlert, Conserve, history, setting
<1>4. CASE OnClosed
  <2>1. CASE pending # <<>>
    <3>1. flush_alerts(Used(cfg), pending, TRUE) /\ chan' = chan /\ accepted' = accepted
      BY <1>4, <2>1 DEF OnClosed, setting
    <3> QED BY <3>1, FlushConserves
  <2>2. CASE pending = <<>>
    BY <1>4, <2>2 DEF OnClosed, Conserve, history, setting
  <2> QED BY <2>1, <2>2
<1>5. CASE Resolve
  BY <1>5, FlushConserves DEF Resolve, setting
<1>6. CASE UNCHANGED <<flushed, pending, chan, accepted>>
  BY <1>6 DEF Conserve
<1> QED
  BY <1>1, <1>2, <1>3, <1>4, <1>5, <1>6
  DEF Next, TimerFires, Arrive, DropStream, DropAgent, Exit, vars, history, setting

\* No alert is lost, doubled or reordered between the stream and the pushes,
\* however the ticks, the channel and the requests interleave.
THEOREM AlertsConserved == Spec => []Conserve
<1>1. Init => Conserve
  <2> SUFFICES ASSUME Init PROVE Conserve
    OBVIOUS
  <2>1. <<>> \o <<>> \o <<>> = <<>>
    BY EmptySeq, ConcatEmptySeq
  <2>2. [i \in 1..0 |-> i] = <<>>
    OBVIOUS
  <2> QED BY <2>1, <2>2 DEF Init, Conserve
<1>2. TypeOK /\ Conserve /\ [Next]_vars => Conserve'
  BY ConserveStep
<1> QED BY <1>1, <1>2, TypeCorrect, PTL DEF Spec

-----------------------------------------------------------------------------
(* Every channel gets its turn. *)

\* What has been offered to whom, also while flush_alerts is under way: WeCom
\* has been tried as soon as any request is awaited, ServerChan as soon as its
\* own one is.
Tried ==
  /\ \A ch \in Channels \ Used(cfg) : offered[ch] = <<>>
  /\ pc # "aborted" =>
       \A ch \in Used(cfg) :
         offered[ch] = IF pc \in Channels /\ ~(pc = "wecom" /\ ch = "serverchan")
                         THEN flushed \o pending ELSE flushed

\* A flush that goes on with the channels it has not tried yet leaves none out.
LEMMA FlushTries ==
  ASSUME TypeOK, Tried, cfg' = cfg, pc # "aborted",
         NEW left \in SUBSET Used(cfg), NEW final \in BOOLEAN,
         flush_alerts(left, pending, final),
         "wecom" \in left => left = Used(cfg),
         \A ch \in left : offered[ch] = flushed,
         \A ch \in Used(cfg) \ left : offered[ch] = flushed \o pending
  PROVE  Tried'
<1> DEFINE sendable == {ch \in left : Builds(cfg, ch, pending)}
           called   == IF "wecom" \in sendable THEN {"wecom"} ELSE left
<1>1. \A ch \in Channels :
        offered'[ch] = IF ch \in called THEN offered[ch] \o pending ELSE offered[ch]
  BY DEF flush_alerts
<1>2. Used(cfg) \subseteq Channels /\ called \subseteq left /\ Used(cfg)' = Used(cfg)
  BY DEF Used
<1>3. \A ch \in Channels \ Used(cfg) : offered'[ch] = <<>>
  BY <1>1, <1>2 DEF Tried
<1>4. CASE sendable = {}
  <2>1. flushed' = flushed \o pending /\ pc' \in {"select", "returned"}
    BY <1>4 DEF flush_alerts, FlushReturns
  <2>2. called = left
    BY <1>4
  <2>3. \A ch \in Used(cfg) : offered'[ch] = flushed \o pending
    BY <1>1, <1>2, <2>2
  <2> QED BY <1>2, <1>3, <2>1, <2>3 DEF Tried, Channels
<1>5. CASE "wecom" \in sendable
  <2>1. pc' = "wecom" /\ pending' = pending /\ flushed' = flushed
    BY <1>5 DEF flush_alerts
  <2>2. called = {"wecom"} /\ left = Used(cfg)
    BY <1>5
  <2>3. \A ch \in Used(cfg) :
          offered'[ch] = IF ch = "wecom" THEN flushed \o pending ELSE flushed
    BY <1>1, <1>2, <2>2
  <2> QED BY <1>2, <1>3, <2>1, <2>3 DEF Tried, Channels
<1>6. CASE sendable # {} /\ "wecom" \notin sendable
  <2>1. pc' = "serverchan" /\ pending' = pending /\ flushed' = flushed
    BY <1>6 DEF flush_alerts
  <2>2. called = left
    BY <1>6
  <2>3. \A ch \in Used(cfg) : offered'[ch] = flushed \o pending
    BY <1>1, <1>2, <2>2
  <2> QED BY <1>2, <1>3, <2>1, <2>3 DEF Tried, Channels
<1> QED BY <1>4, <1>5, <1>6

\* Every step keeps the record of what has been offered.
LEMMA TriedStep ==
  ASSUME TypeOK, Tried, [Next]_vars
  PROVE  Tried'
<1>1. CASE OnTick
  <2>1. pc = "select" /\ cfg' = cfg
    BY <1>1 DEF OnTick, setting
  <2>2. CASE pending # <<>>
    <3>1. flush_alerts(Used(cfg), pending, FALSE)
      BY <1>1, <2>2 DEF OnTick, setting
    <3>2. \A ch \in Used(cfg) : offered[ch] = flushed
      BY <2>1 DEF Tried, Channels
    <3> QED BY <2>1, <3>1, <3>2, FlushTries
  <2>3. CASE pending = <<>>
    BY <1>1, <2>3 DEF OnTick, Tried, Used, history, setting
  <2> QED BY <2>2, <2>3
<1>2. CASE OnAlert
  BY <1>2 DEF OnAlert, Tried, Used, Channels, history, setting
<1>3. CASE OnClosed
  <2>1. pc = "select" /\ cfg' = cfg
    BY <1>3 DEF OnClosed, setting
  <2>2. CASE pending # <<>>
    <3>1. flush_alerts(Used(cfg), pending, TRUE)
      BY <1>3, <2>2 DEF OnClosed, setting
    <3>2. \A ch \in Used(cfg) : offered[ch] = flushed
      BY <2>1 DEF Tried, Channels
    <3> QED BY <2>1, <3>1, <3>2, FlushTries
  <2>3. CASE pending = <<>>
    BY <1>3, <2>1, <2>3 DEF OnClosed, Tried, Used, Channels, history, setting
  <2> QED BY <2>2, <2>3
<1>4. CASE Resolve
  <2> DEFINE left == IF pc = "wecom" THEN Used(cfg) \ {"wecom"} ELSE {}
  <2>1. /\ pc \in Channels /\ cfg' = cfg /\ flush_alerts(left, pending, last)
        /\ last \in BOOLEAN /\ left \in SUBSET Used(cfg)
    BY <1>4 DEF Resolve, TypeOK, setting
  <2>2. /\ "wecom" \notin left /\ pc # "aborted"
        /\ \A ch \in left : offered[ch] = flushed
        /\ \A ch \in Used(cfg) \ left : offered[ch] = flushed \o pending
    BY <2>1 DEF Tried, Channels, Used
  <2> HIDE DEF left
  <2> QED BY <2>1, <2>2, FlushTries
<1>5. CASE Exit
  BY <1>5 DEF Exit, Tried, Used, Channels, history, setting
<1>6. CASE UNCHANGED <<cfg, pc, offered, flushed, pending>>
  BY <1>6 DEF Tried, Used
<1> QED
  BY <1>1, <1>2, <1>3, <1>4, <1>5, <1>6
  DEF Next, Push, TimerFires, Arrive, DropStream, DropAgent, vars, history, setting

\* One channel failing never costs the other one its push, for every number of
\* alerts, URI capacity and configuration.
THEOREM ChannelsTried == Spec => []EveryChannelTried
<1>1. Init => Tried
  BY DEF Init, Tried, Used, Channels
<1>2. TypeOK /\ Tried /\ [Next]_vars => Tried'
  BY TriedStep
<1>3. Tried => EveryChannelTried
  BY DEF Tried, EveryChannelTried, Channels
<1> QED BY <1>1, <1>2, <1>3, TypeCorrect, PTL DEF Spec

-----------------------------------------------------------------------------
(* The flusher implements AlertOutbox. *)

\* Whether channel ch may already have the window under way.
Reached(ch) ==
  \/ pc = "aborted"
  \/ pc = ch /\ arrived
  \/ pc = "serverchan" /\ ch = "wecom"

\* A channel has nothing but what has been flushed, and the window under way
\* if its turn in flush_alerts has come.
Backlog ==
  \A ch \in Channels : \A i \in 1..Len(received[ch]) :
    received[ch][i] <= Len(flushed) + (IF Reached(ch) THEN Len(pending) ELSE 0)

OutboxInv == TypeOK /\ Conserve /\ Backlog

\* The window is the next run of alerts.
LEMMA WindowIsNext ==
  ASSUME TypeOK, Conserve
  PROVE  /\ Len(flushed) \in Nat /\ Len(pending) \in Nat
         /\ Len(flushed) + Len(pending) <= accepted
         /\ pending = Outbox!Consecutive(Len(flushed), Len(flushed) + Len(pending))
<1> DEFINE S == 1..accepted
           F == Len(flushed)
           P == Len(pending)
           all == [i \in 1..accepted |-> i]
           next == Outbox!Consecutive(F, F + P)
<1>1. flushed \in Seq(S) /\ pending \in Seq(S) /\ chan \in Seq(S) /\ accepted \in Nat
  BY DEF TypeOK
<1>2. F \in Nat /\ P \in Nat /\ Len(chan) \in Nat
  BY <1>1, LenProperties
<1>3. /\ flushed \o pending \in Seq(S) /\ Len(flushed \o pending) = F + P
      /\ \A i \in 1..(F + P) :
           (flushed \o pending)[i] = IF i <= F THEN flushed[i] ELSE pending[i - F]
  BY <1>1, ConcatProperties
<1>4. /\ Len((flushed \o pending) \o chan) = F + P + Len(chan)
      /\ \A i \in 1..(F + P + Len(chan)) :
           ((flushed \o pending) \o chan)[i] =
             IF i <= F + P THEN (flushed \o pending)[i] ELSE chan[i - (F + P)]
  BY <1>1, <1>3, ConcatProperties
<1>5. (flushed \o pending) \o chan = all
  BY DEF Conserve
<1>6. Len(all) = accepted /\ \A i \in 1..accepted : all[i] = i
  BY <1>1
<1> HIDE DEF F, P, all, next
<1>7. F + P <= accepted
  BY <1>2, <1>4, <1>5, <1>6
<1>8. \A i \in 1..P : pending[i] = F + i
  <2> TAKE i \in 1..P
  <2>1. /\ F + i \in 1..(F + P) /\ F + i \in 1..(F + P + Len(chan)) /\ F + i \in 1..accepted
        /\ ~(F + i <= F) /\ (F + i) - F = i
    BY <1>1, <1>2, <1>7
  <2>2. ((flushed \o pending) \o chan)[F + i] = pending[i]
    BY <1>2, <1>3, <1>4, <2>1
  <2> QED
    BY <1>5, <1>6, <2>1, <2>2
<1>9. next = [i \in 1..P |-> F + i]
  BY <1>2 DEF Outbox!Consecutive, next
<1>10. next \in Seq(S) /\ Len(next) = P
  BY <1>1, <1>2, <1>7, <1>9
<1>11. \A i \in 1..Len(pending) : pending[i] = next[i]
  BY <1>2, <1>8, <1>9 DEF P
<1>12. pending = next
  BY <1>1, <1>10, <1>11, SeqEqual DEF P
<1> QED BY <1>2, <1>7, <1>12 DEF F, P, next

\* Where flush_alerts stops, the backlog is what it should be.
LEMMA FlushBacklog ==
  ASSUME OutboxInv, NEW left \in SUBSET Used(cfg), NEW final \in BOOLEAN,
         flush_alerts(left, pending, final),
         \A ch \in left : ~Reached(ch),
         pc # "aborted",
         pc \notin Channels => left = Used(cfg),
         pc = "wecom" => left = Used(cfg) \ {"wecom"},
         pc = "serverchan" => left = {}
  PROVE  Backlog'
<1>0. left \subseteq Channels
  BY DEF Used
<1>1. received' = received /\ arrived' = FALSE
  BY DEF flush_alerts
<1>2. Len(flushed) \in Nat /\ Len(pending) \in Nat
  BY WindowIsNext DEF OutboxInv
<1>3. \A ch \in Channels : received[ch] \in Seq(1..accepted) /\ Len(received[ch]) \in Nat
  BY LenProperties DEF OutboxInv, TypeOK
<1>4. accepted \in Nat /\ \A ch \in Channels, i \in Nat :
         i \in 1..Len(received[ch]) => received[ch][i] \in Nat
  BY <1>3, ElementOfSeq DEF OutboxInv, TypeOK
<1>5. CASE FlushReturns(pending, final)
  <2>1. Len(flushed') = Len(flushed) + Len(pending) /\ Len(pending') = 0
    BY <1>5, ConcatProperties, EmptySeq DEF FlushReturns, OutboxInv, TypeOK
  <2> SUFFICES ASSUME NEW ch \in Channels, NEW i \in 1..Len(received[ch])
               PROVE  received[ch][i] <= Len(flushed) + Len(pending)
    BY <1>1, <1>2, <2>1 DEF Backlog
  <2>2. received[ch][i] \in Nat
    BY <1>3, <1>4
  <2> QED
    BY <1>2, <2>2 DEF OutboxInv, Backlog
<1>6. CASE /\ pc' \in left
           /\ "wecom" \in left => pc' = "wecom" \/ pc' = "serverchan"
           /\ pending' = pending /\ flushed' = flushed
  <2> SUFFICES ASSUME NEW ch \in Channels, NEW i \in 1..Len(received[ch])
               PROVE  received[ch][i] <= Len(flushed)
                                          + (IF Reached(ch)' THEN Len(pending) ELSE 0)
    BY <1>1, <1>6 DEF Backlog
  <2>1. received[ch][i] \in Nat
    BY <1>3, <1>4
  <2>2. received[ch][i] <= Len(flushed) + (IF Reached(ch) THEN Len(pending) ELSE 0)
    BY DEF OutboxInv, Backlog
  <2>3. Reached(ch) => Reached(ch)'
    BY <1>0, <1>1, <1>6 DEF Reached, Channels
  <2> QED
    BY <1>2, <2>1, <2>2, <2>3
<1>7. \/ FlushReturns(pending, final)
      \/ pc' \in left /\ pending' = pending /\ flushed' = flushed
  <2> DEFINE sendable == {ch \in left : Builds(cfg, ch, pending)}
  <2>1. sendable \subseteq left /\ left \subseteq Channels
    BY DEF Used
  <2>2. CASE sendable = {}
    BY <2>2 DEF flush_alerts
  <2>3. CASE sendable # {}
    <3>1. /\ pc' = IF "wecom" \in sendable THEN "wecom" ELSE "serverchan"
          /\ pending' = pending /\ flushed' = flushed
      BY <2>3 DEF flush_alerts
    <3>2. pc' \in sendable
      BY <2>1, <2>3, <3>1 DEF Channels
    <3> QED BY <2>1, <3>1, <3>2
  <2> QED BY <2>2, <2>3
<1> QED BY <1>0, <1>5, <1>6, <1>7 DEF Channels

\* Bounds on the elements of two sequences bound those of their concatenation.
LEMMA ConcatBounded ==
  ASSUME NEW S, NEW s \in Seq(S), NEW t \in Seq(S), NEW bound,
         \A i \in 1..Len(s) : s[i] <= bound,
         \A i \in 1..Len(t) : t[i] <= bound
  PROVE  \A i \in 1..Len(s \o t) : (s \o t)[i] <= bound
<1>1. Len(s) \in Nat /\ Len(t) \in Nat
  BY LenProperties
<1>2. /\ Len(s \o t) = Len(s) + Len(t)
      /\ \A i \in 1..(Len(s) + Len(t)) :
           (s \o t)[i] = IF i <= Len(s) THEN s[i] ELSE t[i - Len(s)]
  BY ConcatProperties
<1> TAKE i \in 1..Len(s \o t)
<1>3. CASE i <= Len(s)
  BY <1>1, <1>2, <1>3
<1>4. CASE ~(i <= Len(s))
  <2>1. i - Len(s) \in 1..Len(t)
    BY <1>1, <1>2, <1>4
  <2> QED BY <1>2, <1>4, <2>1
<1> QED BY <1>3, <1>4

\* Every step keeps the strengthened invariant.
LEMMA BacklogStep ==
  ASSUME OutboxInv, [Next]_vars
  PROVE  Backlog'
<1> USE DEF OutboxInv
<1>1. CASE Push
  BY <1>1 DEF Push, Backlog, Reached, history, setting
<1>2. CASE OnTick
  <2>1. CASE pending # <<>>
    <3>1. flush_alerts(Used(cfg), pending, FALSE) /\ pc = "select"
      BY <1>2, <2>1 DEF OnTick, setting
    <3>2. \A ch \in Used(cfg) : ~Reached(ch)
      BY <3>1 DEF Reached, Channels, Used
    <3>3. pc # "aborted" /\ pc # "wecom" /\ pc # "serverchan"
      BY <3>1
    <3> QED BY <3>1, <3>2, <3>3, FlushBacklog
  <2>2. CASE pending = <<>>
    BY <1>2, <2>2 DEF OnTick, Backlog, Reached, history, setting
  <2> QED BY <2>1, <2>2
<1>3. CASE OnAlert
  BY <1>3 DEF OnAlert, Backlog, Reached, Channels, history, setting
<1>4. CASE OnClosed
  <2>1. CASE pending # <<>>
    <3>1. flush_alerts(Used(cfg), pending, TRUE) /\ pc = "select"
      BY <1>4, <2>1 DEF OnClosed, setting
    <3>2. \A ch \in Used(cfg) : ~Reached(ch)
      BY <3>1 DEF Reached, Channels, Used
    <3>3. pc # "aborted" /\ pc # "wecom" /\ pc # "serverchan"
      BY <3>1
    <3> QED BY <3>1, <3>2, <3>3, FlushBacklog
  <2>2. CASE pending = <<>>
    BY <1>4, <2>2 DEF OnClosed, Backlog, Reached, Channels, history, setting
  <2> QED BY <2>1, <2>2
<1>5. CASE Arrive
  <2>1. /\ pc \in Channels /\ ~arrived /\ arrived' = TRUE
        /\ received' = [received EXCEPT ![pc] = @ \o pending]
        /\ UNCHANGED <<pc, flushed, pending>>
    BY <1>5 DEF Arrive, setting
  <2>2. /\ Len(flushed) \in Nat /\ Len(pending) \in Nat
        /\ pending = Outbox!Consecutive(Len(flushed), Len(flushed) + Len(pending))
    BY WindowIsNext
  <2>3. \A i \in 1..Len(pending) : pending[i] = Len(flushed) + i
    BY <2>2 DEF Outbox!Consecutive
  <2>4. received[pc] \in Seq(1..accepted) /\ pending \in Seq(1..accepted)
    BY <2>1 DEF TypeOK
  <2>7. ~Reached(pc) /\ Reached(pc)'
    BY <2>1 DEF Reached, Channels
  <2>8. \A i \in 1..Len(received[pc]) : received[pc][i] \in Nat /\ received[pc][i] <= Len(flushed)
    <3> TAKE i \in 1..Len(received[pc])
    <3>1. received[pc][i] \in 1..accepted
      BY <2>4, ElementOfSeq
    <3>2. accepted \in Nat
      BY DEF TypeOK
    <3>3. received[pc][i] <= Len(flushed) + 0
      BY <2>1, <2>7 DEF Backlog
    <3> QED BY <2>2, <3>1, <3>2, <3>3
  <2> DEFINE bound == Len(flushed) + Len(pending)
  <2>9. \A i \in 1..Len(received'[pc]) : received'[pc][i] <= bound
    <3>1. received'[pc] = received[pc] \o pending
      BY <2>1 DEF TypeOK
    <3>2. \A i \in 1..Len(received[pc]) : received[pc][i] <= bound
      BY <2>2, <2>8
    <3>3. \A i \in 1..Len(pending) : pending[i] <= bound
      BY <2>2, <2>3
    <3> HIDE DEF bound
    <3>4. \A i \in 1..Len(received[pc] \o pending) : (received[pc] \o pending)[i] <= bound
      BY ONLY <2>4, <3>2, <3>3, ConcatBounded
    <3> QED BY <3>1, <3>4
  <2> SUFFICES ASSUME NEW ch \in Channels, NEW i \in 1..Len(received'[ch])
               PROVE  received'[ch][i] <= Len(flushed)
                                           + (IF Reached(ch)' THEN Len(pending) ELSE 0)
    BY <2>1 DEF Backlog
  <2>10. CASE ch = pc
    BY <2>1, <2>7, <2>9, <2>10
  <2>11. CASE ch # pc
    <3>1. received'[ch] = received[ch]
      BY <2>1, <2>11 DEF TypeOK
    <3>2. Reached(ch)' <=> Reached(ch)
      BY <2>1, <2>11 DEF Reached, Channels
    <3> QED BY <3>1, <3>2 DEF Backlog
  <2> QED BY <2>10, <2>11
<1>6. CASE Resolve
  <2> DEFINE left == IF pc = "wecom" THEN Used(cfg) \ {"wecom"} ELSE {}
  <2>1. pc \in Channels /\ flush_alerts(left, pending, last)
    BY <1>6 DEF Resolve, setting
  <2>2. left \in SUBSET Used(cfg) /\ last \in BOOLEAN
    BY DEF TypeOK
  <2>3. \A ch \in left : ~Reached(ch)
    BY <2>1 DEF Reached, Channels, Used
  <2>4. /\ pc # "aborted"
        /\ pc \notin Channels => left = Used(cfg)
        /\ pc = "wecom" => left = Used(cfg) \ {"wecom"}
        /\ pc = "serverchan" => left = {}
    BY <2>1 DEF Channels
  <2> HIDE DEF left
  <2> QED BY <2>1, <2>2, <2>3, <2>4, FlushBacklog
<1>7. CASE Exit
  <2> SUFFICES ASSUME NEW ch \in Channels, NEW i \in 1..Len(received[ch])
               PROVE  received[ch][i] <= Len(flushed)
                                          + (IF Reached(ch)' THEN Len(pending) ELSE 0)
    BY <1>7 DEF Exit, Backlog, history, setting
  <2>1. received[ch][i] <= Len(flushed) + (IF Reached(ch) THEN Len(pending) ELSE 0)
    BY DEF Backlog
  <2>2. Reached(ch) => Reached(ch)'
    BY <1>7 DEF Exit, Reached, Channels, setting
  <2>3. Len(flushed) \in Nat /\ Len(pending) \in Nat
    BY WindowIsNext
  <2>4. received[ch] \in Seq(1..accepted) /\ accepted \in Nat
    BY DEF TypeOK
  <2>5. received[ch][i] \in Nat
    BY <2>4, ElementOfSeq
  <2> QED BY <2>1, <2>2, <2>3, <2>5
<1>8. CASE UNCHANGED <<received, flushed, pending, pc, arrived>>
  BY <1>8 DEF Backlog, Reached
<1> QED
  BY <1>1, <1>2, <1>3, <1>4, <1>5, <1>6, <1>7, <1>8
  DEF Next, TimerFires, DropStream, DropAgent, vars, history, setting

\* The strengthening of the safety invariants that refinement needs.
THEOREM OutboxInvariant == Spec => []OutboxInv
<1>1. Init => Backlog
  BY EmptySeq DEF Init, Backlog, Channels
<1>2. OutboxInv /\ [Next]_vars => Backlog'
  BY BacklogStep
<1> QED
  BY <1>1, <1>2, TypeCorrect, AlertsConserved, PTL DEF Spec, OutboxInv

\* Once flush_alerts has returned a push is over; until then nothing happens.
LEMMA FlushRefines ==
  ASSUME OutboxInv, OutboxInv', NEW left, NEW final, pending # <<>>,
         flush_alerts(left, pending, final), accepted' = accepted
  PROVE  [Outbox!Next]_(Outbox!vars)
<1>1. received' = received
  BY DEF flush_alerts
<1>2. /\ Len(flushed) \in Nat /\ Len(pending) \in Nat
      /\ Len(flushed) + Len(pending) <= accepted
  BY WindowIsNext DEF OutboxInv
<1>3. pending \in Seq(1..accepted) /\ flushed \in Seq(1..accepted)
  BY DEF OutboxInv, TypeOK
<1>4. CASE FlushReturns(pending, final)
  <2> DEFINE to == Len(flushed) + Len(pending)
  <2>1. Len(flushed') = to
    BY <1>3, <1>4, ConcatProperties DEF FlushReturns
  <2>2. Len(pending) # 0
    BY <1>3, EmptySeq
  <2>3. to \in (Len(flushed) + 1)..accepted
    BY <1>2, <2>2 DEF OutboxInv, TypeOK
  <2>4. \A c \in Channels : \A i \in 1..Len(received[c]) : received[c][i] <= to
    <3> TAKE c \in Channels
    <3> TAKE i \in 1..Len(received[c])
    <3>1. received[c][i] <= Len(flushed) + (IF Reached(c) THEN Len(pending) ELSE 0)
      BY DEF OutboxInv, Backlog
    <3>2. received[c] \in Seq(1..accepted) /\ accepted \in Nat
      BY DEF OutboxInv, TypeOK
    <3>3. received[c][i] \in Nat
      BY <3>2, ElementOfSeq
    <3> QED BY <1>2, <3>1, <3>3
  <2>5. Outbox!Retire(to)
    BY <1>1, <2>1, <2>4 DEF Outbox!Retire
  <2> QED BY <2>3, <2>5 DEF Outbox!Next
<1>5. CASE flushed' = flushed
  BY <1>1, <1>5 DEF Outbox!vars
<1> QED BY <1>4, <1>5 DEF flush_alerts

\* Every step of the sink is a step of the outbox or none.
LEMMA StepRefines ==
  ASSUME OutboxInv, OutboxInv', [Next]_vars
  PROVE  [Outbox!Next]_(Outbox!vars)
<1>1. CASE Push
  BY <1>1 DEF Push, Outbox!Next, Outbox!Take, history
<1>2. CASE OnTick
  BY <1>2, FlushRefines DEF OnTick, Outbox!vars, history
<1>3. CASE OnClosed
  BY <1>3, FlushRefines DEF OnClosed, Outbox!vars, history
<1>4. CASE Resolve
  <2>1. pending # <<>>
    BY <1>4 DEF Resolve, OutboxInv, TypeOK, setting
  <2> QED BY <1>4, <2>1, FlushRefines DEF Resolve, setting
<1>5. CASE Arrive
  <2> DEFINE to == Len(flushed) + Len(pending)
  <2>1. /\ pc \in Channels /\ ~arrived
        /\ received' = [received EXCEPT ![pc] = @ \o pending]
        /\ UNCHANGED <<accepted, flushed>>
    BY <1>5 DEF Arrive, setting
  <2>2. /\ Len(flushed) \in Nat /\ Len(pending) \in Nat /\ to <= accepted
        /\ pending = Outbox!Consecutive(Len(flushed), to)
    BY WindowIsNext DEF OutboxInv
  <2>3. pending # <<>> /\ pending \in Seq(1..accepted) /\ accepted \in Nat
    BY <2>1 DEF OutboxInv, TypeOK
  <2>4. Len(pending) # 0
    BY <2>3, EmptySeq
  <2>5. to \in (Len(flushed) + 1)..accepted
    BY <2>2, <2>3, <2>4
  <2>6. ~Reached(pc)
    BY <2>1 DEF Reached, Channels
  <2>7. \A i \in 1..Len(received[pc]) : received[pc][i] <= Len(flushed)
    <3> TAKE i \in 1..Len(received[pc])
    <3>1. received[pc][i] <= Len(flushed) + 0
      BY <2>1, <2>6 DEF OutboxInv, Backlog
    <3> QED BY <2>2, <3>1
  <2>8. Outbox!Deliver(pc, to)
    BY <2>1, <2>2, <2>7 DEF Outbox!Deliver
  <2> QED BY <2>1, <2>5, <2>8 DEF Outbox!Next
<1>6. CASE UNCHANGED <<accepted, flushed, received>>
  BY <1>6 DEF Outbox!vars
<1> QED
  BY <1>1, <1>2, <1>3, <1>4, <1>5, <1>6
  DEF Next, TimerFires, OnAlert, DropStream, DropAgent, Exit, vars, history, setting

\* The flusher implements the outbox for every bound: each channel receives
\* each push whole or not at all, in order and at most once.
THEOREM SinkImplementsOutbox == Spec => OutboxSpec
<1>1. Init => Outbox!Init
  BY EmptySeq DEF Init, Outbox!Init
<1>2. OutboxInv /\ OutboxInv' /\ [Next]_vars => [Outbox!Next]_(Outbox!vars)
  BY StepRefines
<1> QED
  BY <1>1, <1>2, OutboxInvariant, PTL DEF Spec, OutboxSpec, Outbox!Spec

OutboxTheorems == INSTANCE AlertOutboxProofs
  WITH taken <- accepted, retired <- Len(flushed), inbox <- received

\* No endpoint ever gets an alert twice or two in the wrong order: what holds of
\* the outbox holds of the sink.
THEOREM SinkInOrderOnce == Spec => []Outbox!InOrderOnce
<1>1. OutboxSpec => []Outbox!InOrderOnce
  BY OutboxTheorems!InOrderOnceHolds
  DEF OutboxSpec, Outbox!Spec, Outbox!Init, Outbox!Next, Outbox!vars, Outbox!InOrderOnce,
      Outbox!Take, Outbox!Deliver, Outbox!Retire, Outbox!Consecutive,
      OutboxTheorems!Spec, OutboxTheorems!Init, OutboxTheorems!Next, OutboxTheorems!vars,
      OutboxTheorems!InOrderOnce, OutboxTheorems!Take, OutboxTheorems!Deliver,
      OutboxTheorems!Retire, OutboxTheorems!Consecutive
<1> QED BY <1>1, SinkImplementsOutbox, PTL
=============================================================================
