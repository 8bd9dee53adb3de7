--------------------------- MODULE ExecutorProofs ---------------------------
(***************************************************************************)
(* The safety of Executor for any number of lines and any capacity of the  *)
(* pipe, read() and wait() failing or not.                                 *)
(*                                                                         *)
(* Items is a recursive function; what it makes of a line more and of a    *)
(* line less is proved by induction first, in a form the provers can use:  *)
(* over a set of numbers.                                                  *)
(***************************************************************************)
EXTENDS Executor, SequenceTheorems, WellFoundedInduction, TLAPS

-----------------------------------------------------------------------------
\* What holds of 0 and, with a number, of the next one, holds of all: a set that
\* leaves numbers out has a least one.
LEMMA Induction ==
  ASSUME NEW S, 0 \in S, \A n \in Nat : n \in S => n + 1 \in S
  PROVE  Nat \subseteq S
<1> SUFFICES ASSUME Nat \ S # {} PROVE FALSE
  OBVIOUS
<1> DEFINE R == OpToRel(<, Nat)
<1>1. IsWellFoundedOn(R, Nat)
  BY NatLessThanWellFounded
<1>2. \A x, y \in Nat : x < y => <<x, y>> \in R
  BY DEF OpToRel
<1> HIDE DEF R
<1>3. PICK x \in Nat \ S : \A y \in Nat \ S : ~ (<<y, x>> \in R)
  <2>1. Nat \ S \subseteq Nat
    OBVIOUS
  <2> QED
    BY <1>1, <2>1, WFMin
<1>4. x # 0
  OBVIOUS
<1>5. x - 1 \in Nat /\ x - 1 < x /\ (x - 1) + 1 = x
  BY <1>4
<1>6. x - 1 \in S
  BY <1>2, <1>3, <1>5
<1> QED
  BY <1>5, <1>6

\* The values of a function from 0 up to n.
Approx(V, c, step, n) ==
  {h \in [0..n -> V] : h[0] = c /\ \A i \in 1..n : h[i] = step[i][h[i - 1]]}

\* A step that yields members of V can be iterated from one of them: what the
\* recursive function of Items needs to be one.
LEMMA Recursion ==
  ASSUME NEW V, NEW c \in V, NEW step \in [Nat -> [V -> V]]
  PROVE  \A n \in Nat : Approx(V, c, step, n) # {}
<1> DEFINE S == {n \in Nat : Approx(V, c, step, n) # {}}
<1>1. 0 \in S
  <2>1. [i \in 0..0 |-> c] \in Approx(V, c, step, 0)
    BY DEF Approx
  <2> QED
    BY <2>1
<1>2. ASSUME NEW n \in S PROVE n + 1 \in S
  <2>1. PICK h : h \in Approx(V, c, step, n)
    OBVIOUS
  <2> DEFINE g == [i \in 0..(n + 1) |-> IF i <= n THEN h[i] ELSE step[n + 1][h[n]]]
  <2>2. h \in [0..n -> V] /\ h[0] = c /\ \A i \in 1..n : h[i] = step[i][h[i - 1]]
    BY <2>1 DEF Approx
  <2>3. n \in Nat /\ n \in 0..n /\ n + 1 \in Nat
    OBVIOUS
  <2>4. step[n + 1][h[n]] \in V
    BY <2>2, <2>3
  <2>5. g \in [0..(n + 1) -> V]
    BY <2>2, <2>3, <2>4
  <2>6. g[0] = c
    BY <2>2, <2>3
  <2>7. \A i \in 1..(n + 1) : g[i] = step[i][g[i - 1]]
    BY <2>2, <2>3
  <2>8. g \in Approx(V, c, step, n + 1)
    BY <2>5, <2>6, <2>7 DEF Approx
  <2> QED
    BY <2>3, <2>8
<1> HIDE DEF S
<1>3. Nat \subseteq S
  BY <1>1, <1>2, Induction
<1> QED
  BY <1>3 DEF S

\* The events of the stream.
Events == {"event", "diagnostic", "runner_error"}

\* What Items counts up to.
Counts(f, s) ==
  /\ f \in [0..Len(s) -> Seq(Events)]
  /\ f[0] = <<>>
  /\ \A n \in 1..Len(s) : f[n] = AddItem(f[n - 1], s[n])

\* A line adds an event or none.
LEMMA AddItemTyped ==
  ASSUME NEW v \in Seq(Events), NEW line
  PROVE  AddItem(v, line) \in Seq(Events)
<1>1. parse_json_event(line.fields, "event") \in Events
  BY DEF parse_json_event, Events
<1> QED
  BY <1>1 DEF AddItem

\* The function that Items goes by exists, and it counts.
LEMMA ItemsCounts ==
  ASSUME NEW s \in Seq(Lines)
  PROVE  \E f : Counts(f, s) /\ Items(s) = f[Len(s)]
<1> DEFINE V == Seq(Events)
           step == [n \in Nat |-> [v \in V |-> AddItem(v, s[n])]]
           P(g) == g = [n \in 0..Len(s) |-> IF n = 0 THEN <<>> ELSE AddItem(g[n - 1], s[n])]
           upTo == CHOOSE g : P(g)
<1>1. Items(s) = upTo[Len(s)]
  BY DEF Items
<1>2. step \in [Nat -> [V -> V]]
  BY AddItemTyped
<1>3. <<>> \in V /\ Len(s) \in Nat
  OBVIOUS
<1>4. PICK h : h \in Approx(V, <<>>, step, Len(s))
  <2> HIDE DEF step, V
  <2> QED
    BY <1>2, <1>3, Recursion, Zenon
<1>5. P(h)
  <2>1. h \in [0..Len(s) -> V] /\ h[0] = <<>> /\ \A n \in 1..Len(s) : h[n] = step[n][h[n - 1]]
    BY <1>4 DEF Approx
  <2>2. \A n \in 1..Len(s) : n \in Nat /\ h[n - 1] \in V
    BY <1>3, <2>1
  <2>3. \A n \in 1..Len(s) : h[n] = AddItem(h[n - 1], s[n])
    BY <2>1, <2>2
  <2>4. \A n \in 0..Len(s) : n = 0 \/ n \in 1..Len(s)
    BY <1>3
  <2> QED
    BY <2>1, <2>3, <2>4
<1>6. P(upTo)
  <2> HIDE DEF P
  <2> QED
    BY <1>5, Zenon
<1> HIDE DEF upTo
<1>7. upTo[0] = <<>> /\ \A n \in 1..Len(s) : upTo[n] = AddItem(upTo[n - 1], s[n])
  BY <1>6, <1>3
<1> DEFINE S == {n \in Nat : n <= Len(s) => upTo[n] \in V}
<1>8. Nat \subseteq S
  <2>1. 0 \in S
    BY <1>3, <1>7
  <2>2. ASSUME NEW n \in Nat, n \in S PROVE n + 1 \in S
    <3> SUFFICES ASSUME n + 1 <= Len(s) PROVE upTo[n + 1] \in V
      OBVIOUS
    <3>1. n + 1 \in 1..Len(s) /\ (n + 1) - 1 = n /\ upTo[n] \in V
      BY <1>3, <2>2
    <3> QED
      BY <1>7, <3>1, AddItemTyped
  <2> HIDE DEF S
  <2> QED
    BY <2>1, <2>2, Induction
<1>9. upTo \in [0..Len(s) -> V]
  <2>1. \A n \in 0..Len(s) : upTo[n] \in V
    BY <1>3, <1>8
  <2>2. upTo = [n \in 0..Len(s) |-> upTo[n]]
    BY <1>6
  <2> QED
    BY <2>1, <2>2
<1>10. Counts(upTo, s)
  BY <1>7, <1>9 DEF Counts
<1> QED
  BY <1>1, <1>10

\* Two counts of sequences that agree so far agree so far.
LEMMA CountsAgree ==
  ASSUME NEW s \in Seq(Lines), NEW t \in Seq(Lines), NEW f, NEW g, Counts(f, s), Counts(g, t),
         Len(s) <= Len(t), \A i \in 1..Len(s) : s[i] = t[i]
  PROVE  f[Len(s)] = g[Len(s)]
<1> DEFINE S == {n \in Nat : n <= Len(s) => f[n] = g[n]}
<1>0. Len(s) \in Nat /\ Len(t) \in Nat
  OBVIOUS
<1>1. 0 \in S
  BY DEF Counts
<1>2. ASSUME NEW n \in Nat, n \in S PROVE n + 1 \in S
  <2> SUFFICES ASSUME n + 1 <= Len(s) PROVE f[n + 1] = g[n + 1]
    OBVIOUS
  <2>1. n + 1 \in 1..Len(s) /\ n + 1 \in 1..Len(t) /\ (n + 1) - 1 = n /\ f[n] = g[n]
    BY <1>0, <1>2
  <2> QED
    BY <2>1 DEF Counts
<1> HIDE DEF S
<1>3. Nat \subseteq S
  BY <1>1, <1>2, Induction
<1> QED
  BY <1>0, <1>3 DEF S

\* One line more at the end, as the probe prints.
LEMMA ItemsAppend ==
  ASSUME NEW s \in Seq(Lines), NEW l \in Lines
  PROVE  Items(Append(s, l)) = AddItem(Items(s), l)
<1> DEFINE t == Append(s, l)
<1>1. t \in Seq(Lines) /\ Len(t) = Len(s) + 1 /\ Len(s) \in Nat
      /\ (\A i \in 1..Len(s) : t[i] = s[i]) /\ t[Len(s) + 1] = l
  BY AppendProperties
<1> HIDE DEF t
<1>2. PICK f : Counts(f, s) /\ Items(s) = f[Len(s)]
  BY ItemsCounts
<1>3. PICK g : Counts(g, t) /\ Items(t) = g[Len(t)]
  BY <1>1, ItemsCounts
<1>4. f[Len(s)] = g[Len(s)]
  BY <1>1, <1>2, <1>3, CountsAgree
<1>5. g[Len(t)] = AddItem(g[Len(s)], l)
  <2>1. Len(t) \in 1..Len(t) /\ Len(t) - 1 = Len(s) /\ t[Len(t)] = l
    BY <1>1
  <2> QED
    BY <1>3, <2>1 DEF Counts
<1> QED
  BY <1>2, <1>3, <1>4, <1>5 DEF t

\* Lines become events.
LEMMA ItemsTyped ==
  ASSUME NEW s \in Seq(Lines)
  PROVE  Items(s) \in Seq(Events)
<1>1. PICK f : Counts(f, s) /\ Items(s) = f[Len(s)]
  BY ItemsCounts
<1>2. Len(s) \in 0..Len(s)
  OBVIOUS
<1> QED
  BY <1>1, <1>2 DEF Counts

\* No line, no event.
LEMMA ItemsEmpty == Items(<<>>) = <<>>
<1>1. <<>> \in Seq(Lines) /\ Len(<<>>) = 0
  OBVIOUS
<1>2. PICK f : Counts(f, <<>>) /\ Items(<<>>) = f[Len(<<>>)]
  BY <1>1, ItemsCounts
<1> QED
  BY <1>1, <1>2 DEF Counts

\* What a line adds does not depend on what is there.
LEMMA AddItemAfter ==
  ASSUME NEW a \in Seq(Events), NEW b \in Seq(Events), NEW line
  PROVE  AddItem(a \o b, line) = a \o AddItem(b, line)
<1> DEFINE x == parse_json_event(line.fields, "event")
<1>1. x \in Events
  BY DEF parse_json_event, Events
<1> HIDE DEF x
<1>2. Append(a \o b, x) = a \o Append(b, x)
  BY <1>1
<1> QED
  BY <1>2, Zenon DEF AddItem, x

\* One line less at the head, as the stream reads.
LEMMA ItemsHead ==
  ASSUME NEW s \in Seq(Lines), s # <<>>
  PROVE  Items(s) = Items(<<Head(s)>>) \o Items(Tail(s))
<1> DEFINE h == Head(s)
           t == Tail(s)
           a == Items(<<h>>)
<1>1. h \in Lines /\ t \in Seq(Lines) /\ Len(s) \in Nat /\ Len(s) > 0 /\ Len(t) = Len(s) - 1
      /\ h = s[1] /\ \A i \in 1..Len(t) : t[i] = s[i + 1]
  BY HeadTailProperties
<1> HIDE DEF h, t
<1>2. a = AddItem(<<>>, h) /\ a \in Seq(Events)
  <2>1. <<h>> = Append(<<>>, h) /\ <<>> \in Seq(Lines) /\ <<h>> \in Seq(Lines)
    BY <1>1
  <2> QED
    BY <1>1, <2>1, ItemsAppend, ItemsEmpty, ItemsTyped
<1> HIDE DEF a
<1>3. PICK f : Counts(f, s) /\ Items(s) = f[Len(s)]
  BY ItemsCounts
<1>4. PICK g : Counts(g, t) /\ Items(t) = g[Len(t)]
  BY <1>1, ItemsCounts
<1> DEFINE S == {n \in Nat : n <= Len(t) => f[n + 1] = a \o g[n]}
<1>5. 0 \in S
  <2>1. f[1] = a
    BY <1>1, <1>2, <1>3 DEF Counts
  <2>2. a \o <<>> = a
    BY <1>2
  <2>3. g[0] = <<>>
    BY <1>4 DEF Counts
  <2>4. f[0 + 1] = a \o g[0]
    BY <2>1, <2>2, <2>3
  <2> QED
    BY <2>4
<1>6. ASSUME NEW n \in Nat, n \in S PROVE n + 1 \in S
  <2> SUFFICES ASSUME n + 1 <= Len(t) PROVE f[(n + 1) + 1] = a \o g[n + 1]
    OBVIOUS
  <2>1. n + 1 \in 1..Len(t) /\ (n + 1) - 1 = n /\ n \in 0..Len(t)
    BY <1>1
  <2>2. (n + 1) + 1 \in 1..Len(s) /\ ((n + 1) + 1) - 1 = n + 1
    BY <1>1
  <2>3. f[(n + 1) + 1] = AddItem(f[n + 1], t[n + 1])
    <3>1. t[n + 1] = s[(n + 1) + 1]
      BY <1>1, <2>1
    <3>2. f[(n + 1) + 1] = AddItem(f[((n + 1) + 1) - 1], s[(n + 1) + 1])
      BY <1>3, <2>2 DEF Counts
    <3> QED
      BY <2>2, <3>1, <3>2
  <2>4. g[n + 1] = AddItem(g[n], t[n + 1]) /\ g[n] \in Seq(Events)
    <3>1. g[n + 1] = AddItem(g[(n + 1) - 1], t[n + 1])
      BY <1>4, <2>1 DEF Counts
    <3> QED
      BY <1>4, <2>1, <3>1 DEF Counts
  <2>5. f[n + 1] = a \o g[n]
    BY <1>6, <2>1
  <2>6. AddItem(a \o g[n], t[n + 1]) = a \o AddItem(g[n], t[n + 1])
    BY <1>2, <2>4, AddItemAfter, Zenon
  <2> QED
    BY <2>3, <2>4, <2>5, <2>6
<1> HIDE DEF S
<1>7. Nat \subseteq S
  BY <1>5, <1>6, Induction
<1>8. f[Len(t) + 1] = a \o g[Len(t)]
  BY <1>1, <1>7 DEF S
<1>9. Items(s) = a \o Items(t)
  BY <1>1, <1>3, <1>4, <1>8
<1> QED
  BY <1>9 DEF a, h, t

-----------------------------------------------------------------------------
\* TypeOK without the flags and the two queues' contents.
MainTyped ==
  /\ pc \in {"starting", "delay", "unpolled", "reading", "terminating", "killing",
             "waiting", "failing", "ended", "dropped", "start_error"}
  /\ guard \in {"none", "armed", "taken"}
  /\ sigterms \in 0..1
  /\ probe \in {"none", "running", "exiting", "zombie", "reaped"}
  /\ code \in {"none", "ok", "bad"}
  /\ killer \in {"none", "itself", "term", "kill", "pipe"}
  /\ stdout \in {"open", "closed"}

FlagsTyped ==
  /\ sudo \in BOOLEAN /\ delayed \in BOOLEAN /\ creds \in BOOLEAN
  /\ broken \in BOOLEAN /\ early \in BOOLEAN

OutputTyped ==
  /\ emitted \in Seq(Events)
  /\ pipe \in Seq(Lines) /\ Len(pipe) <= PipeCapacity
  /\ printed \in Seq(Lines) /\ Len(printed) <= MaxLines

\* The guard is armed exactly while the body of the stream could still be dropped
\* with its probe running; a group that has been sent SIGTERM has no guard left;
\* and a probe is reaped by the stream's last steps or after it.
GuardHeld ==
  /\ pc \in {"starting", "delay", "unpolled", "start_error"} => guard = "none"
  /\ pc \in {"reading", "terminating"} => guard = "armed"
  /\ pc \in {"killing", "waiting", "failing", "ended"} => guard = "taken"
  /\ pc = "dropped" => guard \in {"none", "taken"}
  /\ guard # "taken" => sigterms = 0
  /\ probe = "reaped" => pc \in {"start_error", "failing", "ended", "dropped"}

Gone == probe \in {"exiting", "zombie", "reaped"}

\* There is no probe before it is started; one that is gone has a status and a
\* cause.  Output that ends before the probe closed it ended with the probe, and
\* only the probe itself can have made that happen while the stream was read: what
\* the executor does comes later.
EndIsOwn ==
  /\ pc = "starting" => probe = "none"
  /\ Gone => code \in {"ok", "bad"} /\ killer # "none"
  /\ stdout = "closed" /\ ~early => Gone
  /\ pc \in {"starting", "delay", "unpolled", "reading"} => killer \in {"none", "itself"}
  /\ pc \in {"terminating", "killing", "waiting", "failing", "ended"} /\ ~early /\ ~broken =>
       stdout = "closed" /\ killer = "itself"

\* Until the end of file what is yielded and what is in the pipe is all that was
\* printed; after it nothing is added but the failure, and nothing more printed.
Delivered ==
  /\ pc \in {"starting", "delay", "unpolled", "reading"} =>
       emitted \o Items(pipe) = Items(printed)
  /\ pc \in {"terminating", "killing", "waiting"} /\ ~broken =>
       emitted = Items(printed) /\ stdout = "closed"
  /\ pc = "failing" /\ ~broken =>
       /\ emitted = Append(Items(printed), "runner_error") /\ code = "bad"
       /\ stdout = "closed" /\ probe = "reaped"
  /\ pc = "ended" /\ ~broken =>
       /\ emitted = IF code = "bad" THEN Append(Items(printed), "runner_error")
                                    ELSE Items(printed)
       /\ stdout = "closed" /\ probe = "reaped"

TypeInv == MainTyped /\ FlagsTyped /\ OutputTyped /\ GuardHeld

LEMMA TypeParts == TypeInv => TypeOK
  BY Zenon DEF TypeInv, MainTyped, FlagsTyped, OutputTyped, TypeOK, Events

LEMMA TypeInit == Init => TypeInv
<1> SUFFICES ASSUME Init PROVE TypeInv
  OBVIOUS
<1>1. MainTyped /\ GuardHeld
  BY DEF Init, MainTyped, GuardHeld
<1>2. FlagsTyped
  BY Zenon DEF Init, FlagsTyped
<1>3. OutputTyped
  BY ExecutorAssumption DEF Init, OutputTyped
<1> QED
  BY <1>1, <1>2, <1>3 DEF TypeInv

\* The report of a failure is one the session recognises, whichever of the two
\* names the runner's timestamp has.
LEMMA RunnerErrorIs == RunnerError = "runner_error"
  BY ExecutorAssumption DEF RunnerError, parse_json_event, runner_error_json

LEMMA FlagsStep == FlagsTyped /\ [Next]_vars => FlagsTyped'
<1> SUFFICES ASSUME FlagsTyped, [Next]_vars PROVE FlagsTyped'
  OBVIOUS
<1> USE DEF FlagsTyped, setting, process, output, Killed, Exits
<1>1. CASE Spawn \/ StartupCheck \/ StartupCheckFails \/ FirstPoll \/ ReadLine \/ ReadEof \/ ReadFails
  BY <1>1, Zenon
     DEF Spawn, StartupCheck, StartupCheckFails, FirstPoll, ReadLine, ReadEof, ReadFails
<1>2. CASE Terminate \/ Kill \/ Wait \/ WaitFails \/ Finish \/ Drop
  BY <1>2, Zenon DEF Terminate, Kill, Wait, WaitFails, Finish, Drop
<1>3. ASSUME NEW l \in Lines, PrintLine(l) PROVE FlagsTyped'
  BY <1>3, Zenon DEF PrintLine
<1>4. ASSUME NEW c \in {"ok", "bad"}, ProbeExits(c) \/ ProbeTermed(c) PROVE FlagsTyped'
  BY <1>4, Zenon DEF ProbeExits, ProbeTermed
<1>5. CASE CloseStdout \/ Zombie \/ Orphan \/ Expire
  BY <1>5, Zenon DEF CloseStdout, Zombie, Orphan, Expire
<1>6. CASE UNCHANGED vars
  BY <1>6, Zenon DEF vars
<1> QED
  BY <1>1, <1>2, <1>3, <1>4, <1>5, <1>6, Zenon DEF Next

LEMMA MainStep == MainTyped /\ FlagsTyped /\ GuardHeld /\ [Next]_vars => MainTyped' /\ GuardHeld'
<1> SUFFICES ASSUME MainTyped, FlagsTyped, GuardHeld, [Next]_vars PROVE MainTyped' /\ GuardHeld'
  OBVIOUS
<1> USE DEF MainTyped, GuardHeld, setting, process, output
<1>1. CASE Spawn
  BY <1>1 DEF Spawn
<1>2. CASE StartupCheck
  BY <1>2 DEF StartupCheck
<1>3. CASE FirstPoll \/ ReadLine \/ ReadEof \/ ReadFails
  BY <1>3 DEF FirstPoll, ReadLine, ReadEof, ReadFails
<1>4. CASE Terminate
  BY <1>4 DEF Terminate, Signalled
<1>5. CASE StartupCheckFails \/ Kill
  BY <1>5 DEF StartupCheckFails, Kill, Killed, Exits
<1>6. CASE Wait \/ WaitFails \/ Finish
  BY <1>6 DEF Wait, WaitFails, Finish
<1>7. CASE Drop
  BY <1>7 DEF Drop, Killed, Exits, Signalled
<1>8. ASSUME NEW l \in Lines, PrintLine(l) PROVE MainTyped' /\ GuardHeld'
  BY <1>8 DEF PrintLine, Exits
<1>9. ASSUME NEW c \in {"ok", "bad"}, ProbeExits(c) \/ ProbeTermed(c)
      PROVE  MainTyped' /\ GuardHeld'
  BY <1>9 DEF ProbeExits, ProbeTermed, Exits
<1>10. CASE CloseStdout \/ Zombie \/ Orphan \/ Expire
  BY <1>10 DEF CloseStdout, Zombie, Orphan, Expire
<1>11. CASE UNCHANGED vars
  BY <1>11 DEF vars
<1> QED
  BY <1>1, <1>2, <1>3, <1>4, <1>5, <1>6, <1>7, <1>8, <1>9, <1>10, <1>11 DEF Next

LEMMA OutputStep == OutputTyped /\ [Next]_vars => OutputTyped'
<1> SUFFICES ASSUME OutputTyped, [Next]_vars PROVE OutputTyped'
  OBVIOUS
<1> USE DEF OutputTyped, setting, process, output
<1>1. CASE Spawn \/ StartupCheck \/ FirstPoll \/ ReadEof \/ ReadFails \/ Terminate
  BY <1>1 DEF Spawn, StartupCheck, FirstPoll, ReadEof, ReadFails, Terminate
<1>2. CASE ReadLine
  <2>1. Head(pipe) \in Lines /\ Tail(pipe) \in Seq(Lines) /\ Len(Tail(pipe)) = Len(pipe) - 1
    BY <1>2, HeadTailProperties DEF ReadLine
  <2>2. Len(Tail(pipe)) <= PipeCapacity
    BY <2>1, ExecutorAssumption
  <2>3. Items(<<Head(pipe)>>) \in Seq(Events)
    <3>1. <<Head(pipe)>> \in Seq(Lines)
      BY <2>1
    <3> QED
      BY <3>1, ItemsTyped
  <2>4. emitted \o Items(<<Head(pipe)>>) \in Seq(Events)
    BY <2>3
  <2> QED
    BY <1>2, <2>1, <2>2, <2>4 DEF ReadLine
<1>3. CASE StartupCheckFails \/ Kill \/ Finish \/ Drop
  BY <1>3 DEF StartupCheckFails, Kill, Finish, Drop
<1>4. CASE Wait \/ WaitFails
  <2>1. Append(emitted, RunnerError) \in Seq(Events)
    BY RunnerErrorIs DEF Events
  <2> QED
    BY <1>4, <2>1 DEF Wait, WaitFails
<1>5. ASSUME NEW l \in Lines, PrintLine(l) PROVE OutputTyped'
  <2>1. CASE Over
    BY <1>5, <2>1 DEF PrintLine
  <2>2. CASE ~Over
    <3>1. /\ Append(pipe, l) \in Seq(Lines) /\ Len(Append(pipe, l)) = Len(pipe) + 1
          /\ Append(printed, l) \in Seq(Lines) /\ Len(Append(printed, l)) = Len(printed) + 1
      BY AppendProperties
    <3>2. Len(pipe) + 1 <= PipeCapacity /\ Len(printed) + 1 <= MaxLines
      BY <1>5, <2>2, ExecutorAssumption DEF PrintLine
    <3> QED
      BY <1>5, <2>2, <3>1, <3>2 DEF PrintLine
  <2> QED
    BY <2>1, <2>2
<1>6. ASSUME NEW c \in {"ok", "bad"}, ProbeExits(c) \/ ProbeTermed(c) PROVE OutputTyped'
  BY <1>6 DEF ProbeExits, ProbeTermed
<1>7. CASE CloseStdout \/ Zombie \/ Orphan \/ Expire
  BY <1>7 DEF CloseStdout, Zombie, Orphan, Expire
<1>8. CASE UNCHANGED vars
  BY <1>8 DEF vars
<1> QED
  BY <1>1, <1>2, <1>3, <1>4, <1>5, <1>6, <1>7, <1>8 DEF Next

LEMMA TypeStep == TypeInv /\ [Next]_vars => TypeInv'
  BY FlagsStep, MainStep, OutputStep, Zenon DEF TypeInv

LEMMA Typed == Spec => []TypeInv
  BY TypeInit, TypeStep, PTL DEF Spec

\* The executor's variables stay in their types, the queues within their bounds; the
\* group is sent SIGTERM once at most, by whichever of terminate() and drop() is first.
THEOREM TypeCorrect == Spec => []TypeOK
  BY Typed, TypeParts, PTL

\* No signal goes to a process group whose leader has been reaped, whichever way the
\* stream ends: what is reaped by it has had its guard disarmed before.
THEOREM NoStraySignalHolds == Spec => NoStraySignal
<1>1. TypeInv /\ [Next]_vars => [sigterms' > sigterms => probe # "reaped"]_vars
  <2> SUFFICES ASSUME TypeInv, [Next]_vars, sigterms' > sigterms PROVE probe # "reaped"
    OBVIOUS
  <2>0. MainTyped /\ GuardHeld
    BY DEF TypeInv
  <2> USE DEF setting, process, output
  <2>1. sigterms' # sigterms
    BY <2>0 DEF MainTyped
  <2>2. CASE Spawn \/ StartupCheck \/ FirstPoll \/ ReadLine \/ ReadEof \/ ReadFails
    BY <2>1, <2>2 DEF Spawn, StartupCheck, FirstPoll, ReadLine, ReadEof, ReadFails
  <2>3. CASE Terminate
    BY <2>0, <2>3 DEF Terminate, GuardHeld
  <2>4. CASE StartupCheckFails \/ Kill \/ Wait \/ WaitFails \/ Finish
    BY <2>1, <2>4 DEF StartupCheckFails, Kill, Wait, WaitFails, Finish
  <2>5. CASE Drop
    <3>1. guard = "armed" /\ pc \in {"unpolled", "reading", "waiting", "failing"}
      BY <2>1, <2>5 DEF Drop
    <3> QED
      BY <2>0, <3>1 DEF GuardHeld
  <2>6. ASSUME NEW l \in Lines, PrintLine(l) PROVE FALSE
    BY <2>1, <2>6 DEF PrintLine
  <2>7. ASSUME NEW c \in {"ok", "bad"}, ProbeExits(c) \/ ProbeTermed(c) PROVE FALSE
    BY <2>1, <2>7 DEF ProbeExits, ProbeTermed
  <2>8. CASE CloseStdout \/ Zombie \/ Orphan \/ Expire
    BY <2>1, <2>8 DEF CloseStdout, Zombie, Orphan, Expire
  <2>9. CASE UNCHANGED vars
    BY <2>1, <2>9 DEF vars
  <2> QED
    BY <2>2, <2>3, <2>4, <2>5, <2>6, <2>7, <2>8, <2>9 DEF Next
<1> QED
  BY <1>1, Typed, PTL DEF Spec, NoStraySignal

-----------------------------------------------------------------------------
LEMMA EndStep == TypeInv /\ EndIsOwn /\ [Next]_vars => EndIsOwn'
<1> SUFFICES ASSUME TypeInv, EndIsOwn, [Next]_vars PROVE EndIsOwn'
  OBVIOUS
<1>0. MainTyped /\ GuardHeld /\ FlagsTyped
  BY DEF TypeInv
<1> USE <1>0 DEF EndIsOwn, Gone, MainTyped, setting, process, output
<1>1. CASE Spawn \/ FirstPoll \/ ReadLine
  BY <1>1 DEF Spawn, FirstPoll, ReadLine
<1>2. CASE StartupCheck
  BY <1>2 DEF StartupCheck
<1>3. CASE ReadEof
  BY <1>3 DEF ReadEof
<1>4. CASE ReadFails \/ Terminate
  BY <1>4 DEF ReadFails, Terminate
<1>5. CASE StartupCheckFails \/ Kill
  BY <1>5 DEF StartupCheckFails, Kill, Killed, Exits
<1>6. CASE Wait \/ WaitFails \/ Finish
  BY <1>6 DEF Wait, WaitFails, Finish
<1>7. CASE Drop
  BY <1>7 DEF Drop, Killed, Exits
<1>8. ASSUME NEW l \in Lines, PrintLine(l) PROVE EndIsOwn'
  BY <1>8 DEF PrintLine, Exits, Over
<1>9. ASSUME NEW c \in {"ok", "bad"}, ProbeExits(c) PROVE EndIsOwn'
  BY <1>9 DEF ProbeExits, Exits
<1>10. ASSUME NEW c \in {"ok", "bad"}, ProbeTermed(c) PROVE EndIsOwn'
  <2>1. guard = "taken"
    BY <1>10 DEF ProbeTermed, GuardHeld
  <2>2. pc \notin {"starting", "delay", "unpolled", "reading"}
    BY <2>1 DEF GuardHeld
  <2> QED
    BY <1>10, <2>2 DEF ProbeTermed, Exits
<1>11. CASE CloseStdout
  BY <1>11 DEF CloseStdout
<1>12. CASE Zombie \/ Orphan \/ Expire
  BY <1>12 DEF Zombie, Orphan, Expire
<1>13. CASE UNCHANGED vars
  BY <1>13 DEF vars
<1> QED
  BY <1>1, <1>2, <1>3, <1>4, <1>5, <1>6, <1>7, <1>8, <1>9, <1>10, <1>11, <1>12, <1>13 DEF Next

LEMMA EndHolds == Spec => []EndIsOwn
<1>1. Init => EndIsOwn
  BY DEF Init, EndIsOwn, Gone
<1> QED
  BY <1>1, EndStep, Typed, PTL DEF Spec

\* The status that is judged is the one the probe exited with by itself, although the
\* executor sends SIGTERM and SIGKILL before it waits: by then the end of file has
\* said that the probe was gone.
THEOREM StatusIsOwnHolds == Spec => []StatusIsOwn
<1>1. EndIsOwn => StatusIsOwn
  BY DEF EndIsOwn, StatusIsOwn
<1> QED
  BY <1>1, EndHolds, PTL

-----------------------------------------------------------------------------
\* Steps after which the same has been printed, yielded and left in the pipe, and
\* the stream is where it was, or has gone on before the end of file.
LEMMA DeliveredKept ==
  ASSUME Delivered, UNCHANGED <<emitted, pipe, printed, broken>>,
         \/ UNCHANGED pc
         \/ /\ pc \in {"starting", "delay", "unpolled"}
            /\ pc' \in {"delay", "unpolled", "reading"}
         \/ pc' = "start_error"
         \/ pc' = "dropped"
         \/ pc = "terminating" /\ pc' = "killing"
         \/ pc = "killing" /\ pc' = "waiting",
         stdout = "closed" => stdout' = "closed",
         probe = "reaped" => probe' = "reaped" /\ code' = code
  PROVE  Delivered'
  BY DEF Delivered

LEMMA DeliveredStep == TypeInv /\ EndIsOwn /\ Delivered /\ [Next]_vars => Delivered'
<1> SUFFICES ASSUME TypeInv, EndIsOwn, Delivered, [Next]_vars PROVE Delivered'
  OBVIOUS
<1>0. MainTyped /\ GuardHeld /\ FlagsTyped /\ OutputTyped
  BY DEF TypeInv
<1> USE DEF setting, process, output
<1>1. CASE Spawn
  BY <1>0, <1>1, DeliveredKept DEF Spawn, GuardHeld
<1>2. CASE StartupCheck
  BY <1>2, DeliveredKept DEF StartupCheck
<1>3. CASE FirstPoll
  BY <1>3, DeliveredKept DEF FirstPoll
<1>4. CASE ReadLine
  <2>1. pc = "reading" /\ pc' = "reading" /\ printed' = printed /\ pipe # <<>>
        /\ pipe' = Tail(pipe) /\ emitted' = emitted \o Items(<<Head(pipe)>>)
    BY <1>4 DEF ReadLine
  <2>2. emitted \in Seq(Events) /\ pipe \in Seq(Lines)
    BY <1>0 DEF OutputTyped
  <2>3. Head(pipe) \in Lines /\ Tail(pipe) \in Seq(Lines)
    BY <2>1, <2>2, HeadTailProperties
  <2>4. Items(<<Head(pipe)>>) \in Seq(Events) /\ Items(Tail(pipe)) \in Seq(Events)
    <3>1. <<Head(pipe)>> \in Seq(Lines)
      BY <2>3
    <3> QED
      BY <2>3, <3>1, ItemsTyped
  <2>5. Items(pipe) = Items(<<Head(pipe)>>) \o Items(Tail(pipe))
    BY <2>1, <2>2, ItemsHead
  <2>6. (emitted \o Items(<<Head(pipe)>>)) \o Items(Tail(pipe))
          = emitted \o (Items(<<Head(pipe)>>) \o Items(Tail(pipe)))
    <3> DEFINE a == Items(<<Head(pipe)>>)
               b == Items(Tail(pipe))
    <3>1. emitted \in Seq(Events) /\ a \in Seq(Events) /\ b \in Seq(Events)
      BY <2>2, <2>4
    <3> HIDE DEF a, b
    <3>2. (emitted \o a) \o b = emitted \o (a \o b)
      BY <3>1, ConcatAssociative
    <3> QED
      BY <3>2 DEF a, b
  <2>7. emitted \o Items(pipe) = Items(printed)
    BY <2>1 DEF Delivered
  <2>8. emitted' \o Items(pipe') = Items(printed')
    BY <2>1, <2>5, <2>6, <2>7
  <2> QED
    BY <2>1, <2>8 DEF Delivered
<1>5. CASE ReadEof
  <2>1. emitted \o <<>> = emitted
    BY <1>0 DEF OutputTyped
  <2>2. pc' = "terminating" /\ emitted = Items(printed)
    BY <1>5, <2>1, ItemsEmpty DEF ReadEof, Delivered
  <2> QED
    BY <1>5, <2>2 DEF ReadEof, Delivered
<1>6. CASE ReadFails
  BY <1>6 DEF ReadFails, Delivered
<1>7. CASE Terminate
  BY <1>7, DeliveredKept DEF Terminate
<1>8. CASE StartupCheckFails \/ Kill
  BY <1>8, DeliveredKept DEF StartupCheckFails, Kill, Killed, Exits
<1>9. CASE Wait
  <2>1. code \in {"ok", "bad"}
    BY <1>9 DEF Wait, EndIsOwn, Gone
  <2>2. CASE code = "ok"
    BY <1>9, <2>2 DEF Wait, Delivered
  <2>3. CASE code = "bad"
    BY <1>9, <2>3, RunnerErrorIs DEF Wait, Delivered
  <2> QED
    BY <2>1, <2>2, <2>3
<1>10. CASE WaitFails
  BY <1>10 DEF WaitFails, Delivered
<1>11. CASE Finish
  BY <1>11 DEF Finish, Delivered
<1>12. CASE Drop
  BY <1>12, DeliveredKept DEF Drop, Killed, Exits
<1>13. ASSUME NEW l \in Lines, PrintLine(l) PROVE Delivered'
  <2>1. CASE Over
    BY <1>13, <2>1, DeliveredKept DEF PrintLine, Exits
  <2>2. CASE ~Over
    <3>1. /\ probe = "running" /\ stdout = "open"
          /\ pipe' = Append(pipe, l) /\ printed' = Append(printed, l)
          /\ UNCHANGED <<pc, emitted, broken>>
      BY <1>13, <2>2 DEF PrintLine
    <3>2. CASE pc \in {"starting", "delay", "unpolled", "reading"}
      <4>1. emitted \o Items(pipe) = Items(printed)
        BY <3>2 DEF Delivered
      <4>2. emitted \in Seq(Events) /\ pipe \in Seq(Lines) /\ printed \in Seq(Lines)
        BY <1>0 DEF OutputTyped
      <4>3. Items(pipe) \in Seq(Events)
        BY <4>2, ItemsTyped
      <4>4. Items(pipe') = AddItem(Items(pipe), l) /\ Items(printed') = AddItem(Items(printed), l)
        BY <3>1, <4>2, ItemsAppend
      <4>5. AddItem(emitted \o Items(pipe), l) = emitted \o AddItem(Items(pipe), l)
        BY <4>2, <4>3, AddItemAfter
      <4>6. emitted' \o Items(pipe') = Items(printed')
        BY <3>1, <4>1, <4>4, <4>5
      <4> QED
        BY <3>1, <3>2, <4>6 DEF Delivered
    <3>3. CASE pc \notin {"starting", "delay", "unpolled", "reading"}
      BY <3>1, <3>3 DEF Delivered
    <3> QED
      BY <3>2, <3>3
  <2> QED
    BY <2>1, <2>2
<1>14. ASSUME NEW c \in {"ok", "bad"}, ProbeExits(c) \/ ProbeTermed(c) PROVE Delivered'
  BY <1>14, DeliveredKept DEF ProbeExits, ProbeTermed, Exits
<1>15. CASE CloseStdout \/ Zombie \/ Orphan \/ Expire
  BY <1>15, DeliveredKept DEF CloseStdout, Zombie, Orphan, Expire
<1>16. CASE UNCHANGED vars
  BY <1>16, DeliveredKept DEF vars
<1> QED
  BY <1>1, <1>2, <1>3, <1>4, <1>5, <1>6, <1>7, <1>8, <1>9, <1>10, <1>11, <1>12, <1>13, <1>14,
     <1>15, <1>16 DEF Next

\* What the stream yields is what the probe printed, line by line, in order; at its end
\* it is all of it, with the failure, if there was one, behind it.
THEOREM StreamIsFaithfulHolds == Spec => []StreamIsFaithful
<1>1. Init => Delivered
  <2> SUFFICES ASSUME Init PROVE Delivered
    OBVIOUS
  <2>1. <<>> \o <<>> = <<>>
    OBVIOUS
  <2> QED
    BY <2>1, ItemsEmpty DEF Init, Delivered
<1>2. TypeInv /\ Delivered => StreamIsFaithful
  <2> SUFFICES ASSUME TypeInv, Delivered PROVE StreamIsFaithful
    OBVIOUS
  <2>1. Items(printed) \in Seq(Events)
    BY ItemsTyped DEF TypeInv, OutputTyped
  <2>2. /\ Items(printed) \o <<"runner_error">> = Append(Items(printed), "runner_error")
        /\ Items(printed) \o <<>> = Items(printed)
    BY <2>1
  <2> QED
    BY <2>2 DEF Delivered, StreamIsFaithful
<1> QED
  BY <1>1, <1>2, DeliveredStep, EndHolds, Typed, PTL DEF Spec
=============================================================================
