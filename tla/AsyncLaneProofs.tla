--------------------------- MODULE AsyncLaneProofs --------------------------
(***************************************************************************)
(* The async lane, proved for any number of tasks, loops and io slots, any *)
(* cap and any wedge window: slots and wakeups are never lost, a           *)
(* heartbeat that is out can be answered, and a loop that finishes tasks   *)
(* is never taken for a wedged one unless submissions were refused, which  *)
(* takes a caller that left without an answer.                             *)
(***************************************************************************)
EXTENDS AsyncLane, FiniteSetTheorems, SequenceTheorems, WellFoundedInduction, TLAPS

\* Tokens are handed out in order.
TokensInOrder ==
    \E k \in 0 .. MaxToken : \A t \in Tasks : call[t] = "new" <=> t > k

\* SlotKept, and what it needs of the calls that do not wait yet.
SlotInv ==
    /\ TokensInOrder
    /\ SlotKept
    /\ \A t \in Tasks : call[t] = "new" => answer[t] = None
    /\ \A t \in Tasks : call[t] = "send" /\ answer[t] = None => t \in pending

\* The watchdog has read the counters of loop l in this probe.
Read(l) == dog.at = "judge" \/ (dog.at \in {"stamp", "schedule"} /\ l < dog.on)

\* LoopWatch never runs ahead of its loop: as long as no task has ended since it was
\* last brought up to date, the loop has been quiet for as long as it says.
WatchHonest ==
    \A l \in Loops :
        /\ dog.seen[l] <= loop[l].done
        /\ dog.since[l] # None /\ loop[l].done = dog.seen[l] => quiet[l] >= dog.since[l]

\* The same of the counters the watchdog has read and not judged yet.
BeatHonest ==
    \A l \in Loops : Read(l) =>
        /\ dog.beats[l].completed <= loop[l].done
        /\ dog.since[l] # None /\ dog.beats[l].completed = dog.seen[l]
            => dog.beats[l].quiet >= dog.since[l]

WedgeInv ==
    /\ WatchHonest /\ BeatHonest
    /\ dog.rejectedAge # None => rejected > 0
    /\ ProgressProtects

\* The lines a task may stand in: the channel (0), the queues of the loops, and the
\* batch of the submitter.
Places == 0 .. LoopCount + 1

Lines == [p \in Places |-> IF p = 0 THEN channel
                           ELSE IF p = LoopCount + 1 THEN sub.batch ELSE loop[p].queue]

\* Nothing stands in two places.
Once(L) ==
    \A p, q \in Places : \A i \in 1 .. Len(L[p]), j \in 1 .. Len(L[q]) :
        L[p][i] = L[q][j] => p = q /\ i = j

InLine(L, t) == \E p \in Places : \E i \in 1 .. Len(L[p]) : L[p][i] = t

\* The steps of a line: the first leaves, one joins at the end, all leave at once, and the
\* first n move to an empty line.
Popped(L, M, p, t) ==
    /\ L[p] # <<>> /\ t = Head(L[p]) /\ M[p] = Tail(L[p])
    /\ \A q \in Places : q # p => M[q] = L[q]

Joined(L, M, p, t) ==
    /\ M[p] = Append(L[p], t)
    /\ \A q \in Places : q # p => M[q] = L[q]

Cleared(L, M, p) ==
    /\ M[p] = <<>>
    /\ \A q \in Places : q # p => M[q] = L[q]

Split(L, M, p, q, n) ==
    /\ p # q /\ n \in 0 .. Len(L[p])
    /\ M[q] = SubSeq(L[p], 1, n) /\ M[p] = SubSeq(L[p], n + 1, Len(L[p]))
    /\ \A r \in Places : r # p /\ r # q => M[r] = L[r]

\* A task that left the lines for a coroutine or a refusal.
Begun(t) == (\E l \in Loops : t \in loop[l].live) \/ \E f \in sub.failed : f[1] = t

Unsent(t) == call[t] \in {"new", "send"}

\* What stands in a line was sent, and nobody can have answered it yet.
LineInv ==
    /\ Once(Lines)
    /\ \A t \in Tasks : InLine(Lines, t) => ~Unsent(t) /\ answer[t] = None /\ ~Begun(t)
    /\ \A t \in Tasks : Unsent(t) => answer[t] = None /\ ~Begun(t)

\* Callers hold permits, and a refusal is the work of a caller that left without an answer.
StarvedInv ==
    /\ Cardinality(InFlight) <= Permits
    /\ rejected > 0 => \E t \in Tasks : call[t] = "done" /\ answer[t] = None

IInv == /\ TypeOK /\ SlotInv /\ NoLostWakeup /\ StampAnswerable /\ WedgeInv
        /\ LineInv /\ StarvedInv

-----------------------------------------------------------------------------
(* Facts about the operators *)

\* A set of loops has a first one (wedge_loop looks at them in order).
LEMMA LeastExists ==
    ASSUME NEW S, S \subseteq Nat, S # {}
    PROVE  Min(S) \in S
  <1>1. PICK x \in S : \A y \in S : ~(<<y, x>> \in OpToRel(<, Nat))
    BY WFMin, NatLessThanWellFounded
  <1>2. OpToRel(<, Nat) = {ss \in Nat \X Nat : ss[1] < ss[2]}
    BY Zenon DEF OpToRel
  <1>3. \A y \in S : ~(<<y, x>> \in {ss \in Nat \X Nat : ss[1] < ss[2]})
    BY <1>1, <1>2, Zenon
  <1>4. \A y \in S : x <= y
    <2> SUFFICES ASSUME NEW y \in S, y < x PROVE FALSE
      BY S \subseteq Nat
    <2>1. <<y, x>> \in Nat \X Nat
      BY S \subseteq Nat
    <2>2. <<y, x>>[1] < <<y, x>>[2]
      OBVIOUS
    <2>3. <<y, x>> \in {ss \in Nat \X Nat : ss[1] < ss[2]}
      BY <2>1, <2>2, Zenon
    <2> QED BY <1>3, <2>3, Zenon
  <1> QED BY <1>4 DEF Min

\* An age grows by one up to the top, and no age stays none.
LEMMA OlderType ==
    ASSUME NEW top \in Nat, NEW a \in 0 .. top \cup {None}
    PROVE  /\ Older(a, top) \in 0 .. top \cup {None}
           /\ Older(a, top) = None <=> a = None
           /\ a # None => Older(a, top) \in 0 .. top /\ Older(a, top) >= a
  BY AsyncLaneAssumption DEF Older

\* Two ages that grow together keep their order.
LEMMA OlderMonotonic ==
    ASSUME NEW top \in Nat, NEW a \in 0 .. top, NEW b \in 0 .. top, a <= b
    PROVE  Older(a, top) <= Older(b, top)
  BY AsyncLaneAssumption DEF Older

\* The loop after l, and back.
LEMMA RoundRobin ==
    ASSUME NEW l \in Loops
    PROVE  /\ (l % LoopCount) + 1 \in Loops
           /\ (l % LoopCount) + 1 = IF l = LoopCount THEN 1 ELSE l + 1
  <1>1. LoopCount \in Nat /\ l \in Nat /\ 1 <= l /\ l <= LoopCount
    BY AsyncLaneAssumption DEF Loops
  <1>2. (l % LoopCount) + 1 = IF l = LoopCount THEN 1 ELSE l + 1
    BY <1>1
  <1> QED BY <1>1, <1>2 DEF Loops

\* The token of the next caller is new, and the tokens stay in order.
LEMMA TokenFresh ==
    ASSUME call \in [Tasks -> Calls], TokensInOrder, NEW t \in Tasks, t = NextToken
    PROVE  /\ call[t] = "new"
           /\ t \in 0 .. MaxToken /\ \A u \in Tasks : u # t => (call[u] = "new" <=> u > t)
  <1>1. PICK k \in 0 .. MaxToken : \A u \in Tasks : call[u] = "new" <=> u > k
    BY DEF TokensInOrder
  <1>2. MaxToken \in Nat /\ k \in Nat
    BY AsyncLaneAssumption
  <1>3. {u \in Tasks : call[u] # "new"} = 1 .. k
    BY <1>1, <1>2 DEF Tasks
  <1>4. Cardinality(1 .. k) = k
    BY <1>2, FS_Interval
  <1>5. t = k + 1
    BY <1>3, <1>4 DEF NextToken
  <1> QED BY <1>1, <1>2, <1>5 DEF Tasks

\* complete_pending.
LEMMA CompleteType ==
    ASSUME TypeOK, NEW t \in Tasks, NEW o \in Answers, Complete(t, o)
    PROVE  pending' \subseteq Tasks /\ answer' \in [Tasks -> Answers \cup {None}]
  BY DEF TypeOK, Complete

-----------------------------------------------------------------------------
(* Types *)

\* The oneshots, the submitter and the loops, each as far as a step touches it.
LEMMA InitTypes == Init => TypeOK
  <1> SUFFICES ASSUME Init PROVE TypeOK
    OBVIOUS
  <1>1. 1 \in Loops /\ 0 \in 0 .. Window
    BY AsyncLaneAssumption DEF Loops
  <1>2. NewLoop \in EventLoops
    BY <1>1 DEF NewLoop, EventLoops, Ages
  <1>3. NoBeats \in [Loops -> Beats]
    BY <1>1 DEF NoBeats, Beats, Ages
  <1>4. /\ call \in [Tasks -> Calls] /\ pending \subseteq Tasks
        /\ answer \in [Tasks -> Answers \cup {None}] /\ channel \in Seq(Tasks) /\ rejected \in Nat
    BY DEF Init, Calls
  <1>5. sub \in [at : {"submit", "wake"}, batch : Seq(Tasks), failed : SUBSET (Tasks \X Answers),
                 rr : Loops]
    BY <1>1 DEF Init, NewSubmitter
  <1>6. dog \in [due : BOOLEAN, at : {"sleep", "stamp", "schedule", "judge"}, on : Loops,
                 beats : [Loops -> Beats], seen : [Loops -> Nat], since : [Loops -> Ages],
                 rejected : Nat, rejectedAge : 0 .. Window + 1 \cup {None}]
    BY <1>1, <1>3 DEF Init, NewDog, Ages
  <1>7. loop \in [Loops -> EventLoops] /\ quiet \in [Loops -> 0 .. Window]
    BY <1>1, <1>2 DEF Init
  <1> QED BY <1>4, <1>5, <1>6, <1>7 DEF Init, TypeOK

\* A caller.
LEMMA CallerTypes ==
    ASSUME TypeOK, NEW t \in Tasks, Caller(t)
    PROVE  TypeOK'
  <1>1. channel' \in Seq(Tasks)
    <2>1. channel \in Seq(Tasks) /\ Append(channel, t) \in Seq(Tasks)
      BY AppendProperties DEF TypeOK
    <2>2. channel' \in {channel, Append(channel, t)}
      BY DEF Caller, Register, Send, Receive, Backstop, Cancel
    <2> QED BY <2>1, <2>2
  <1>2. call' \in [Tasks -> Calls] /\ pending' \subseteq Tasks
    BY DEF TypeOK, Caller, Register, Send, Receive, Backstop, Cancel, Calls
  <1>3. UNCHANGED <<answer, sub, rejected, loop, dog, quiet, draining, exit>>
    BY DEF Caller, Register, Send, Receive, Backstop, Cancel
  <1> QED BY <1>1, <1>2, <1>3 DEF TypeOK

\* The submitter thread.
LEMMA SubmitterTypes ==
    ASSUME TypeOK, Submitter
    PROVE  TypeOK'
  <1> DEFINE S == [at : {"submit", "wake"}, batch : Seq(Tasks), failed : SUBSET (Tasks \X Answers),
                   rr : Loops]
  <1>1. CASE Recv
    <2> DEFINE n == Min({DrainMax, Len(channel)})
    <2>1. channel \in Seq(Tasks) /\ sub \in S /\ Len(channel) \in Nat /\ DrainMax \in Nat
      BY AsyncLaneAssumption DEF TypeOK
    <2>2. n \in 0 .. Len(channel)
      <3>1. {DrainMax, Len(channel)} \subseteq Nat
        BY <2>1
      <3> QED BY <2>1 DEF Min
    <2> HIDE DEF n
    <2>3. SubSeq(channel, 1, n) \in Seq(Tasks) /\ SubSeq(channel, n + 1, Len(channel)) \in Seq(Tasks)
      BY <2>1, <2>2
    <2>4. /\ sub' = [sub EXCEPT !.batch = SubSeq(channel, 1, n)]
          /\ channel' = SubSeq(channel, n + 1, Len(channel))
          /\ UNCHANGED <<call, pending, answer, rejected, loop, dog, quiet, draining, exit>>
      BY <1>1 DEF Recv, n
    <2>5. sub' \in S
      BY <2>1, <2>3, <2>4
    <2> QED BY <2>3, <2>4, <2>5 DEF TypeOK
  <1>2. CASE RefuseArgs
    <2>1. Head(sub.batch) \in Tasks /\ Tail(sub.batch) \in Seq(Tasks) /\ sub \in S
      BY <1>2, HeadTailProperties DEF RefuseArgs, TypeOK
    <2>2. ArgsFailure \in Answers
      BY DEF Answers
    <2>3. sub.failed \cup {<<Head(sub.batch), ArgsFailure>>} \in SUBSET (Tasks \X Answers)
      BY <2>1, <2>2
    <2>4. sub' \in S
      BY <1>2, <2>1, <2>3 DEF RefuseArgs
    <2> QED BY <1>2, <2>4 DEF RefuseArgs, TypeOK
  <1>3. CASE Submit
    <2> DEFINE t == Head(sub.batch)
               l == sub.rr
    <2>1. t \in Tasks /\ Tail(sub.batch) \in Seq(Tasks) /\ sub \in S /\ l \in Loops
      BY <1>3, HeadTailProperties DEF Submit, TypeOK
    <2>2. ShimFailure \in Answers /\ (l % LoopCount) + 1 \in Loops
      BY <2>1, RoundRobin DEF Answers
    <2>3. loop[l] \in EventLoops /\ loop \in [Loops -> EventLoops] /\ rejected \in Nat
      BY <2>1 DEF TypeOK
    <2>4. CASE Len(loop[l].queue) >= PendingCap
      <3>1. /\ sub' = [sub EXCEPT !.batch = Tail(@), !.rr = (l % LoopCount) + 1,
                                  !.failed = @ \cup {<<t, ShimFailure>>}]
            /\ rejected' = rejected + 1
            /\ UNCHANGED <<call, pending, answer, channel, loop, dog, quiet, draining, exit>>
        BY <1>3, <2>1, <2>4 DEF Submit
      <3>2. sub.failed \cup {<<t, ShimFailure>>} \in SUBSET (Tasks \X Answers)
        BY <2>1, <2>2
      <3>3. sub' \in S
        BY <2>1, <2>2, <3>1, <3>2
      <3>4. rejected' \in Nat
        BY <2>3, <3>1
      <3> QED BY <3>1, <3>3, <3>4 DEF TypeOK
    <2>5. CASE ~(Len(loop[l].queue) >= PendingCap)
      <3>1. /\ sub' = [sub EXCEPT !.batch = Tail(@), !.rr = (l % LoopCount) + 1,
                                  !.at = IF loop[l].queue = <<>> THEN "wake" ELSE "submit"]
            /\ loop' = [loop EXCEPT ![l].queue = Append(@, t), ![l].handed = @ + 1]
            /\ UNCHANGED <<call, pending, answer, channel, rejected, dog, quiet, draining, exit>>
        BY <1>3, <2>1, <2>5 DEF Submit
      <3>2. sub' \in S
        BY <2>1, <2>2, <3>1
      <3>3. loop[l].queue \in Seq(Tasks) /\ Append(loop[l].queue, t) \in Seq(Tasks)
        BY <2>1, <2>3, AppendProperties DEF EventLoops
      <3>4. loop[l].handed + 1 \in Nat
        BY <2>3 DEF EventLoops
      <3>5. [loop[l] EXCEPT !.queue = Append(loop[l].queue, t), !.handed = loop[l].handed + 1]
              \in EventLoops
        BY <2>3, <3>3, <3>4 DEF EventLoops
      <3>6. loop' \in [Loops -> EventLoops]
        BY <2>1, <2>3, <3>1, <3>5
      <3> QED BY <3>1, <3>2, <3>6 DEF TypeOK
    <2> QED BY <2>4, <2>5
  <1>4. CASE Wake
    <2>1. Woken \in Loops
      BY AsyncLaneAssumption DEF Woken, TypeOK, Loops
    <2>2. loop \in [Loops -> EventLoops] /\ loop[Woken].drains + 1 \in Nat
      <3>1. loop \in [Loops -> EventLoops] /\ loop[Woken] \in EventLoops
        BY <2>1 DEF TypeOK
      <3> QED BY <3>1 DEF EventLoops
    <2>3. [loop[Woken] EXCEPT !.drains = loop[Woken].drains + 1] \in EventLoops
      BY <2>1, <2>2 DEF EventLoops
    <2>4. loop' \in [Loops -> EventLoops]
      BY <1>4, <2>1, <2>2, <2>3 DEF Wake
    <2>5. sub' \in S
      BY <1>4 DEF Wake, TypeOK
    <2> QED BY <1>4, <2>4, <2>5 DEF Wake, TypeOK
  <1>5. CASE FailPending
    <2>1. PICK f \in sub.failed : Complete(f[1], f[2]) /\ sub' = [sub EXCEPT !.failed = @ \ {f}]
      BY <1>5 DEF FailPending
    <2>2. f[1] \in Tasks /\ f[2] \in Answers /\ sub \in S
      BY DEF TypeOK
    <2>3. pending' \subseteq Tasks /\ answer' \in [Tasks -> Answers \cup {None}]
      BY <2>1, <2>2, CompleteType
    <2>4. sub' \in S
      BY <2>1, <2>2
    <2> QED BY <1>5, <2>3, <2>4 DEF FailPending, TypeOK
  <1> QED BY <1>1, <1>2, <1>3, <1>4, <1>5 DEF Submitter

\* A loop.
LEMMA LoopTypes ==
    ASSUME TypeOK, NEW l \in Loops, LoopStep(l)
    PROVE  TypeOK'
  <1>1. loop \in [Loops -> EventLoops] /\ loop[l] \in EventLoops /\ 0 \in 0 .. Window
    BY AsyncLaneAssumption DEF TypeOK
  <1>2. CASE Drain(l)
    <2>1. ToSet(loop[l].queue) \subseteq Tasks
      BY <1>1, ElementOfSeq DEF ToSet, EventLoops
    <2>2. /\ loop[l].drains - 1 \in Nat /\ <<>> \in Seq(Tasks)
          /\ loop[l].live \cup ToSet(loop[l].queue) \in SUBSET Tasks
      BY <1>1, <1>2, <2>1 DEF Drain, EventLoops
    <2>3. [loop[l] EXCEPT !.drains = loop[l].drains - 1, !.queue = <<>>,
                          !.live = loop[l].live \cup ToSet(loop[l].queue)] \in EventLoops
      BY <1>1, <2>2 DEF EventLoops
    <2>4. loop' \in [Loops -> EventLoops]
      BY <1>1, <1>2, <2>3 DEF Drain
    <2> QED BY <1>2, <2>4 DEF Drain, TypeOK, laneVars
  <1>3. CASE Unblock(l)
    <2>1. loop' \in [Loops -> EventLoops]
      BY <1>1, <1>3 DEF Unblock, EventLoops
    <2> QED BY <1>3, <2>1 DEF Unblock, TypeOK, laneVars
  <1>4. CASE Ack(l)
    <2>1. loop' \in [Loops -> EventLoops]
      BY <1>1, <1>4 DEF Ack, EventLoops, Ages
    <2> QED BY <1>4, <2>1 DEF Ack, TypeOK, laneVars
  <1>5. ASSUME NEW t \in Tasks, Block(l, t) PROVE TypeOK'
    <2>1. loop' \in [Loops -> EventLoops]
      BY <1>1, <1>5 DEF Block, EventLoops
    <2> QED BY <1>5, <2>1 DEF Block, TypeOK, laneVars
  <1>6. ASSUME NEW t \in Tasks, Arun(l, t) PROVE TypeOK'
    <2>1. loop[l].live \ {t} \in SUBSET Tasks /\ loop[l].done + 1 \in Nat
      BY <1>1 DEF EventLoops
    <2>2. [loop[l] EXCEPT !.live = loop[l].live \ {t}, !.done = loop[l].done + 1] \in EventLoops
      BY <1>1, <2>1 DEF EventLoops
    <2>3. loop' \in [Loops -> EventLoops] /\ quiet' \in [Loops -> 0 .. Window]
      BY <1>1, <1>6, <2>2 DEF Arun, TypeOK
    <2>4. PICK e \in Endings : Complete(t, OutcomeFromPy(ShimReply(e)))
      BY <1>6 DEF Arun
    <2>5. OutcomeFromPy(ShimReply(e)) \in Answers
      BY DEF Answers
    <2>6. pending' \subseteq Tasks /\ answer' \in [Tasks -> Answers \cup {None}]
      BY <2>4, <2>5, CompleteType
    <2> QED BY <1>6, <2>3, <2>6 DEF Arun, TypeOK
  <1> QED BY <1>2, <1>3, <1>4, <1>5, <1>6 DEF LoopStep

\* The watchdog and the clock.
LEMMA WatchdogTypes ==
    ASSUME TypeOK, Watchdog \/ Tick \/ Shutdown
    PROVE  TypeOK'
  <1> DEFINE D == [due : BOOLEAN, at : {"sleep", "stamp", "schedule", "judge"}, on : Loops,
                   beats : [Loops -> Beats], seen : [Loops -> Nat], since : [Loops -> Ages],
                   rejected : Nat, rejectedAge : 0 .. Window + 1 \cup {None}]
  <1>1. /\ dog \in D /\ loop \in [Loops -> EventLoops] /\ quiet \in [Loops -> 0 .. Window]
        /\ dog.on \in Loops /\ loop[dog.on] \in EventLoops /\ dog.beats \in [Loops -> Beats]
    BY DEF TypeOK
  <1>2. Window \in Nat /\ LoopCount \in Nat \ {0} /\ 1 \in Loops /\ Loops \subseteq Nat
    BY AsyncLaneAssumption DEF Loops
  <1>3. /\ Stepped(dog.on) \in D /\ Stepped(dog.on).beats = dog.beats
    <2>1. CASE dog.on = LoopCount
      BY <1>1, <1>2, <2>1 DEF Stepped
    <2>2. CASE dog.on # LoopCount
      <3>1. dog.on + 1 \in Loops
        BY <1>1, <1>2, <2>2 DEF Loops
      <3> QED BY <1>1, <2>2, <3>1 DEF Stepped
    <2> QED BY <2>1, <2>2
  <1>4. \A a \in Ages : Beat(dog.on, a) \in Beats
    <2>1. /\ loop[dog.on].handed - loop[dog.on].done \in Int /\ loop[dog.on].done \in Nat
          /\ quiet[dog.on] \in 0 .. Window
      BY <1>1 DEF EventLoops
    <2> QED BY <2>1 DEF Beat, Beats
  <1>5. CASE Probe
    <2>1. dog' \in D
      BY <1>1, <1>2, <1>5 DEF Probe
    <2> QED BY <1>5, <2>1 DEF Probe, TypeOK, laneVars
  <1>6. CASE Overdue
    <2>1. dog' = [Stepped(dog.on) EXCEPT !.beats[dog.on] = Beat(dog.on, loop[dog.on].sent)]
      BY <1>6 DEF Overdue
    <2>2. Beat(dog.on, loop[dog.on].sent) \in Beats
      BY <1>1, <1>4 DEF EventLoops
    <2>3. dog' \in D
      BY <1>1, <1>3, <2>1, <2>2
    <2> QED BY <1>6, <2>3 DEF Overdue, TypeOK, laneVars
  <1>7. CASE Stamp
    <2>1. [loop[dog.on] EXCEPT !.sent = 0] \in EventLoops
      <3>1. 0 \in Ages
        BY <1>2 DEF Ages
      <3> QED BY <1>1, <3>1 DEF EventLoops
    <2>2. loop' \in [Loops -> EventLoops]
      BY <1>1, <1>7, <2>1 DEF Stamp
    <2>3. [dog.beats[dog.on] EXCEPT !.lag = loop[dog.on].lag] \in Beats
      BY <1>1 DEF Beats, EventLoops
    <2>4. dog' \in D
      BY <1>1, <1>7, <2>3 DEF Stamp
    <2> QED BY <1>7, <2>2, <2>4 DEF Stamp, TypeOK, laneVars
  <1>8. CASE Schedule
    <2>1. loop' \in [Loops -> EventLoops]
      BY <1>1, <1>8 DEF Schedule, EventLoops
    <2>2. Beat(dog.on, dog.beats[dog.on].lag) \in Beats
      BY <1>1, <1>4 DEF Beats
    <2>3. dog' = [Stepped(dog.on) EXCEPT !.beats[dog.on] = Beat(dog.on, dog.beats[dog.on].lag)]
      BY <1>8 DEF Schedule
    <2>4. dog' \in D
      BY <1>1, <1>3, <2>2, <2>3
    <2> QED BY <1>8, <2>1, <2>4 DEF Schedule, TypeOK, laneVars
  <1>9. CASE Judge
    <2>1. /\ \A l \in Loops : dog.beats[l].completed \in Nat
          /\ 0 \in Ages /\ 0 \in 0 .. Window + 1 \cup {None} /\ rejected \in Nat
      BY <1>1, <1>2 DEF Beats, Ages, TypeOK
    <2>2. Watched \in D
      BY <1>1, <2>1 DEF Watched
    <2>3. NoBeats \in [Loops -> Beats]
      BY <1>2 DEF NoBeats, Beats, Ages
    <2>4. [Watched EXCEPT !.beats = NoBeats] \in D
      BY <2>2, <2>3
    <2>5. dog' \in D
      BY <1>9, <2>2, <2>4 DEF Judge
    <2>6. exit' \in Loops \cup {None}
      <3> DEFINE W == {l \in Loops : WedgeConfirmed(dog.beats[l], Watched.since[l], Watched.rejectedAge)}
      <3>1. exit' = IF W = {} THEN None ELSE Min(W)
        BY <1>9 DEF Judge
      <3>2. W \subseteq Loops /\ W \subseteq Nat
        BY <1>2
      <3> HIDE DEF W
      <3>3. W # {} => Min(W) \in W
        BY <3>2, LeastExists
      <3> QED BY <3>1, <3>2, <3>3
    <2> QED BY <1>9, <2>5, <2>6 DEF Judge, TypeOK, laneVars
  <1>10. CASE Tick
    <2>1. \A l \in Loops : /\ Older(loop[l].sent, Window) \in Ages
                           /\ Older(dog.since[l], Window) \in Ages
                           /\ Older(quiet[l], Window) \in 0 .. Window
      BY <1>1, <1>2, OlderType, AsyncLaneAssumption, SMTT(40) DEF EventLoops, Ages
    <2>2. Older(dog.rejectedAge, Window + 1) \in 0 .. Window + 1 \cup {None}
      <3>1. Window + 1 \in Nat /\ dog.rejectedAge \in 0 .. Window + 1 \cup {None}
        BY <1>1, <1>2
      <3> QED BY <3>1, OlderType
    <2>3. \A l \in Loops : [loop[l] EXCEPT !.sent = Older(loop[l].sent, Window)] \in EventLoops
      BY <1>1, <2>1 DEF EventLoops
    <2>4. loop' \in [Loops -> EventLoops] /\ quiet' \in [Loops -> 0 .. Window]
      BY <1>10, <2>1, <2>3 DEF Tick
    <2>5. dog' = [dog EXCEPT !.due = TRUE, !.since = [l \in Loops |-> Older(dog.since[l], Window)],
                             !.rejectedAge = Older(dog.rejectedAge, Window + 1)]
      BY <1>1, <1>10 DEF Tick
    <2>6. [l \in Loops |-> Older(dog.since[l], Window)] \in [Loops -> Ages]
      BY <2>1
    <2>7. dog' \in D
      BY <1>1, <2>2, <2>5, <2>6
    <2> QED BY <1>10, <2>4, <2>7 DEF Tick, TypeOK, laneVars
  <1>11. CASE Shutdown
    BY <1>11 DEF Shutdown, TypeOK, laneVars
  <1> QED BY <1>5, <1>6, <1>7, <1>8, <1>9, <1>10, <1>11 DEF Watchdog

\* Every step keeps the types.
LEMMA NextTypes == TypeOK /\ [Next]_vars => TypeOK'
  <1> SUFFICES ASSUME TypeOK, [Next]_vars PROVE TypeOK'
    OBVIOUS
  <1>1. CASE UNCHANGED vars
    BY <1>1 DEF vars, laneVars, TypeOK
  <1> QED BY <1>1, CallerTypes, SubmitterTypes, LoopTypes, WatchdogTypes DEF Next

-----------------------------------------------------------------------------
(* Slots *)

\* An answer to whoever has the slot of t.
LEMMA CompleteKeeps ==
    ASSUME TypeOK, SlotInv, NEW t \in Tasks, NEW o \in Answers, Complete(t, o), call' = call
    PROVE  SlotInv'
  <1>1. o # None
    BY NoneAssumption
  <1>2. CASE t \in pending
    <2>1. pending' = pending \ {t} /\ answer' = [answer EXCEPT ![t] = o]
      BY <1>2 DEF Complete
    <2>2. TokensInOrder'
      BY DEF SlotInv, TokensInOrder
    <2>3. SlotKept'
      BY <1>1, <2>1 DEF TypeOK, SlotInv, SlotKept
    <2>4. \A u \in Tasks : call'[u] = "new" => answer'[u] = None
      BY <1>2, <2>1 DEF TypeOK, SlotInv, SlotKept
    <2>5. \A u \in Tasks : call'[u] = "send" /\ answer'[u] = None => u \in pending'
      BY <1>1, <2>1 DEF TypeOK, SlotInv
    <2> QED BY <2>2, <2>3, <2>4, <2>5 DEF SlotInv
  <1>3. CASE t \notin pending
    <2>1. pending' = pending /\ answer' = answer
      BY <1>3 DEF Complete
    <2> QED BY <2>1 DEF SlotInv, SlotKept, TokensInOrder
  <1> QED BY <1>2, <1>3

\* A slot is there from its registration until it is answered or cancelled.
LEMMA NextSlots == TypeOK /\ SlotInv /\ [Next]_vars => SlotInv'
  <1> SUFFICES ASSUME TypeOK, SlotInv, [Next]_vars PROVE SlotInv'
    OBVIOUS
  <1>1. ASSUME NEW t \in Tasks, Register(t) PROVE SlotInv'
    <2>1. /\ call[t] = "new" /\ t \in 0 .. MaxToken
          /\ \A u \in Tasks : u # t => (call[u] = "new" <=> u > t)
      BY <1>1, TokenFresh DEF Register, TypeOK, SlotInv
    <2>2. call' = [call EXCEPT ![t] = "send"] /\ pending' = pending \cup {t} /\ answer' = answer
      BY <1>1 DEF Register
    <2>3. \A u \in Tasks : call'[u] = "new" <=> u > t
      BY <2>1, <2>2 DEF TypeOK, Tasks
    <2>4. TokensInOrder'
      BY <2>1, <2>3 DEF TokensInOrder
    <2> QED BY <2>1, <2>2, <2>4 DEF TypeOK, SlotInv, SlotKept
  <1>2. ASSUME NEW t \in Tasks, Send(t) \/ Receive(t) \/ Backstop(t) \/ Cancel(t) PROVE SlotInv'
    <2>1. /\ call[t] # "new" /\ call' = [call EXCEPT ![t] = call'[t]] /\ call'[t] # "new"
      BY <1>2 DEF Send, Receive, Backstop, Cancel, TypeOK
    <2>2. TokensInOrder'
      BY <2>1 DEF TypeOK, SlotInv, TokensInOrder
    <2> QED BY <1>2, <2>2 DEF Send, Receive, Backstop, Cancel, TypeOK, SlotInv, SlotKept
  <1>3. CASE FailPending
    <2>1. PICK f \in sub.failed : Complete(f[1], f[2]) /\ call' = call
      BY <1>3 DEF FailPending
    <2>2. f[1] \in Tasks /\ f[2] \in Answers
      BY DEF TypeOK
    <2> QED BY <2>1, <2>2, CompleteKeeps
  <1>4. ASSUME NEW l \in Loops, NEW t \in Tasks, Arun(l, t) PROVE SlotInv'
    <2>1. PICK e \in Endings : Complete(t, OutcomeFromPy(ShimReply(e))) /\ call' = call
      BY <1>4 DEF Arun
    <2>2. OutcomeFromPy(ShimReply(e)) \in Answers
      BY DEF Answers
    <2> QED BY <2>1, <2>2, CompleteKeeps
  <1>5. CASE UNCHANGED <<call, pending, answer>>
    BY <1>5 DEF SlotInv, SlotKept, TokensInOrder
  <1>6. CASE Recv \/ RefuseArgs \/ Submit \/ Wake
    BY <1>5, <1>6 DEF Recv, RefuseArgs, Submit, Wake
  <1>7. ASSUME NEW l \in Loops, Drain(l) \/ Unblock(l) \/ Ack(l) \/ \E t \in Tasks : Block(l, t)
        PROVE  SlotInv'
    BY <1>5, <1>7 DEF Drain, Unblock, Ack, Block, laneVars
  <1>8. CASE Watchdog \/ Tick \/ Shutdown \/ UNCHANGED vars
    BY <1>5, <1>8
    DEF Watchdog, Probe, Overdue, Stamp, Schedule, Judge, Tick, Shutdown, vars, laneVars
  <1> QED BY <1>1, <1>2, <1>3, <1>4, <1>6, <1>7, <1>8 DEF Next, Caller, Submitter, LoopStep

-----------------------------------------------------------------------------
(* Wakeups and heartbeats *)

\* submit_async touches the queue and the count of the loop it hands to, nothing else.
LEMMA SubmitFrame ==
    ASSUME TypeOK, Submit
    PROVE  /\ UNCHANGED <<dog, quiet, exit>>
           /\ \A l \in Loops : /\ loop'[l].done = loop[l].done /\ loop'[l].sent = loop[l].sent
                               /\ loop'[l].ack = loop[l].ack
  <1> DEFINE m == sub.rr
  <1>1. m \in Loops /\ loop \in [Loops -> EventLoops] /\ loop[m] \in EventLoops
    BY DEF TypeOK
  <1>2. \/ loop' = loop
        \/ loop' = [loop EXCEPT ![m] = [loop[m] EXCEPT !.queue = Append(loop[m].queue, Head(sub.batch)),
                                                      !.handed = loop[m].handed + 1]]
    BY DEF Submit
  <1>3. UNCHANGED <<dog, quiet, exit>>
    BY DEF Submit
  <1> HIDE DEF m
  <1>4. CASE loop' = loop
    BY <1>3, <1>4
  <1>5. CASE loop' # loop
    <2>1. loop'[m] = [loop[m] EXCEPT !.queue = Append(loop[m].queue, Head(sub.batch)),
                                     !.handed = loop[m].handed + 1]
      BY <1>1, <1>2, <1>5
    <2>2. /\ loop'[m].done = loop[m].done /\ loop'[m].sent = loop[m].sent
          /\ loop'[m].ack = loop[m].ack
      BY <1>1, <2>1 DEF EventLoops
    <2>3. \A l \in Loops : l # m => loop'[l] = loop[l]
      BY <1>1, <1>2
    <2> QED BY <1>3, <2>2, <2>3
  <1> QED BY <1>4, <1>5

\* A loop is woken by whoever finds its queue empty; the others find a drain under way.
LEMMA NextWakeups == TypeOK /\ NoLostWakeup /\ [Next]_vars => NoLostWakeup'
  <1> SUFFICES ASSUME TypeOK, NoLostWakeup, [Next]_vars PROVE NoLostWakeup'
    OBVIOUS
  <1> DEFINE Kept == /\ \A l \in Loops : loop'[l].queue = loop[l].queue /\ loop'[l].drains = loop[l].drains
                     /\ sub'.at = sub.at /\ sub'.rr = sub.rr
  <1>1. loop \in [Loops -> EventLoops] /\ sub.rr \in Loops
    BY DEF TypeOK
  <1>2. CASE Kept
    BY <1>2 DEF NoLostWakeup, Woken
  <1>3. ASSUME NEW t \in Tasks, Caller(t) PROVE NoLostWakeup'
    BY <1>2, <1>3 DEF Caller, Register, Send, Receive, Backstop, Cancel
  <1>4. CASE Recv \/ RefuseArgs \/ FailPending
    <2>1. loop' = loop /\ sub'.at = sub.at /\ sub'.rr = sub.rr
      BY <1>4 DEF Recv, RefuseArgs, FailPending, TypeOK
    <2> QED BY <1>2, <2>1
  <1>5. CASE Submit
    <2> DEFINE l == sub.rr
    <2>1. CASE Len(loop[l].queue) >= PendingCap
      <3>1. loop' = loop /\ sub.at = "submit"
        BY <1>5, <2>1 DEF Submit
      <3> QED BY <3>1 DEF NoLostWakeup
    <2>2. CASE ~(Len(loop[l].queue) >= PendingCap)
      <3>1. /\ sub.at = "submit"
            /\ sub' = [sub EXCEPT !.batch = Tail(@), !.rr = (l % LoopCount) + 1,
                                  !.at = IF loop[l].queue = <<>> THEN "wake" ELSE "submit"]
            /\ loop' = [loop EXCEPT ![l].queue = Append(@, Head(sub.batch)), ![l].handed = @ + 1]
        BY <1>5, <2>2 DEF Submit
      <3>2. \A m \in Loops : loop'[m].drains = loop[m].drains /\ (m # l => loop'[m] = loop[m])
        BY <1>1, <3>1 DEF EventLoops
      <3>3. \A m \in Loops : loop[m].queue # <<>> => loop[m].drains > 0
        BY <3>1 DEF NoLostWakeup
      <3>4. CASE loop[l].queue # <<>>
        BY <3>2, <3>3, <3>4 DEF NoLostWakeup
      <3>5. CASE loop[l].queue = <<>>
        <4>1. sub'.at = "wake" /\ sub'.rr = (l % LoopCount) + 1
          BY <3>1, <3>5 DEF TypeOK
        <4>2. Woken' = l
          <5>1. sub'.rr = IF l = LoopCount THEN 1 ELSE l + 1
            BY <1>1, <4>1, RoundRobin
          <5>2. l \in 1 .. LoopCount /\ LoopCount \in Nat
            BY <1>1, AsyncLaneAssumption DEF Loops
          <5> HIDE DEF l
          <5> QED BY <5>1, <5>2 DEF Woken
        <4> QED BY <3>2, <3>3, <4>1, <4>2 DEF NoLostWakeup
      <3> QED BY <3>4, <3>5
    <2> QED BY <2>1, <2>2
  <1>6. CASE Wake
    <2>1. Woken \in Loops
      BY AsyncLaneAssumption DEF Woken, TypeOK, Loops
    <2>2. loop[Woken] \in EventLoops /\ loop' = [loop EXCEPT ![Woken].drains = @ + 1]
      BY <1>1, <1>6, <2>1 DEF Wake
    <2>3. /\ loop'[Woken].drains > 0
          /\ \A m \in Loops : m # Woken => loop'[m] = loop[m]
      BY <1>1, <2>1, <2>2 DEF EventLoops
    <2> QED BY <2>3 DEF NoLostWakeup
  <1>7. ASSUME NEW l \in Loops, Drain(l) PROVE NoLostWakeup'
    <2>1. loop[l] \in EventLoops /\ sub' = sub
      BY <1>1, <1>7 DEF Drain, laneVars
    <2>2. loop'[l].queue = <<>> /\ \A m \in Loops : m # l => loop'[m] = loop[m]
      BY <1>1, <1>7, <2>1 DEF Drain, EventLoops
    <2> QED BY <2>1, <2>2 DEF NoLostWakeup, Woken
  <1>8. ASSUME NEW l \in Loops, Unblock(l) \/ Ack(l) \/ \E t \in Tasks : Block(l, t) \/ Arun(l, t)
        PROVE  NoLostWakeup'
    <2>1. CASE Unblock(l)
      BY <1>1, <1>2, <2>1 DEF Unblock, laneVars, EventLoops
    <2>2. CASE Ack(l)
      BY <1>1, <1>2, <2>2 DEF Ack, laneVars, EventLoops
    <2>3. ASSUME NEW t \in Tasks, Block(l, t) PROVE NoLostWakeup'
      BY <1>1, <1>2, <2>3 DEF Block, laneVars, EventLoops
    <2>4. ASSUME NEW t \in Tasks, Arun(l, t) PROVE NoLostWakeup'
      BY <1>1, <1>2, <2>4 DEF Arun, EventLoops
    <2> QED BY <1>8, <2>1, <2>2, <2>3, <2>4
  <1>9. CASE Watchdog \/ Tick \/ Shutdown \/ UNCHANGED vars
    <2>1. CASE Probe \/ Overdue \/ Judge \/ Shutdown \/ UNCHANGED vars
      BY <1>2, <2>1 DEF Probe, Overdue, Judge, Shutdown, vars, laneVars
    <2>2. CASE Stamp \/ Schedule
      <3>1. dog.on \in Loops /\ sub' = sub
        BY <2>2 DEF TypeOK, Stamp, Schedule, laneVars
      <3>2. CASE Stamp
        <4>1. loop' = [loop EXCEPT ![dog.on].sent = 0]
          BY <3>2 DEF Stamp
        <4> QED BY <1>1, <1>2, <3>1, <4>1 DEF EventLoops
      <3>3. CASE Schedule
        <4>1. loop' = [loop EXCEPT ![dog.on].ack = TRUE]
          BY <3>3 DEF Schedule
        <4> QED BY <1>1, <1>2, <3>1, <4>1 DEF EventLoops
      <3> QED BY <2>2, <3>2, <3>3
    <2>3. CASE Tick
      BY <1>1, <1>2, <2>3 DEF Tick, laneVars, EventLoops
    <2> QED BY <1>9, <2>1, <2>2, <2>3 DEF Watchdog
  <1> QED BY <1>3, <1>4, <1>5, <1>6, <1>7, <1>8, <1>9 DEF Next, Submitter, LoopStep

\* A stamp is written first and handed to its loop next.
LEMMA NextStamps == TypeOK /\ StampAnswerable /\ [Next]_vars => StampAnswerable'
  <1> SUFFICES ASSUME TypeOK, StampAnswerable, [Next]_vars PROVE StampAnswerable'
    OBVIOUS
  <1> DEFINE Kept == /\ \A l \in Loops : loop'[l].sent = loop[l].sent /\ loop'[l].ack = loop[l].ack
                     /\ dog'.at = dog.at /\ dog'.on = dog.on
  <1>1. loop \in [Loops -> EventLoops] /\ dog.on \in Loops
    BY DEF TypeOK
  <1>2. CASE Kept
    BY <1>2 DEF StampAnswerable
  <1>3. ASSUME NEW t \in Tasks, Caller(t) PROVE StampAnswerable'
    BY <1>2, <1>3 DEF Caller, Register, Send, Receive, Backstop, Cancel
  <1>4. CASE Submitter
    <2>1. Kept
      <3>1. sub.rr \in Loops /\ Woken \in Loops
        BY AsyncLaneAssumption DEF Woken, TypeOK, Loops
      <3>2. CASE Submit
        BY <3>2, SubmitFrame
      <3>3. CASE Recv \/ RefuseArgs \/ FailPending
        BY <3>3 DEF Recv, RefuseArgs, FailPending
      <3>4. CASE Wake
        BY <1>1, <3>1, <3>4 DEF Wake, EventLoops
      <3> QED BY <1>4, <3>2, <3>3, <3>4 DEF Submitter
    <2> QED BY <1>2, <2>1
  <1>5. ASSUME NEW l \in Loops,
               Drain(l) \/ Unblock(l) \/ \E t \in Tasks : Block(l, t) \/ Arun(l, t)
        PROVE  StampAnswerable'
    <2>1. CASE Drain(l)
      BY <1>1, <1>2, <2>1 DEF Drain, EventLoops
    <2>2. CASE Unblock(l)
      BY <1>1, <1>2, <2>2 DEF Unblock, EventLoops
    <2>3. ASSUME NEW t \in Tasks, Block(l, t) PROVE StampAnswerable'
      BY <1>1, <1>2, <2>3 DEF Block, EventLoops
    <2>4. ASSUME NEW t \in Tasks, Arun(l, t) PROVE StampAnswerable'
      BY <1>1, <1>2, <2>4 DEF Arun, EventLoops
    <2> QED BY <1>5, <2>1, <2>2, <2>3, <2>4
  <1>6. ASSUME NEW l \in Loops, Ack(l) PROVE StampAnswerable'
    <2>1. loop'[l].sent = None /\ dog' = dog /\ \A m \in Loops : m # l => loop'[m] = loop[m]
      BY <1>1, <1>6 DEF Ack, EventLoops
    <2> QED BY <2>1 DEF StampAnswerable
  <1>7. CASE Tick
    <2>1. dog'.at = dog.at /\ dog'.on = dog.on
      BY <1>7 DEF Tick, TypeOK
    <2>2. \A l \in Loops : loop'[l].ack = loop[l].ack /\ loop'[l].sent = Older(loop[l].sent, Window)
      BY <1>1, <1>7 DEF Tick, EventLoops
    <2>3. \A l \in Loops : loop'[l].sent # None => loop[l].sent # None
      BY <2>2 DEF Older
    <2> QED BY <2>1, <2>2, <2>3 DEF StampAnswerable
  <1>8. CASE Probe \/ Overdue \/ Judge
    <2>1. loop' = loop /\ dog.at # "schedule"
      BY <1>8 DEF Probe, Overdue, Judge
    <2> QED BY <2>1 DEF StampAnswerable
  <1>9. CASE Stamp
    <2>1. /\ dog'.at = "schedule" /\ dog'.on = dog.on /\ dog.at = "stamp"
          /\ \A m \in Loops : m # dog.on => loop'[m] = loop[m]
      BY <1>1, <1>9 DEF Stamp, TypeOK
    <2> QED BY <2>1 DEF StampAnswerable
  <1>10. CASE Schedule
    <2>1. loop'[dog.on].ack = TRUE /\ \A m \in Loops : m # dog.on => loop'[m] = loop[m]
      BY <1>1, <1>10 DEF Schedule, EventLoops
    <2> QED BY <2>1 DEF StampAnswerable
  <1>11. CASE Shutdown \/ UNCHANGED vars
    BY <1>2, <1>11 DEF Shutdown, vars
  <1> QED BY <1>3, <1>4, <1>5, <1>6, <1>7, <1>8, <1>9, <1>10, <1>11 DEF Next, LoopStep, Watchdog

-----------------------------------------------------------------------------
(* The wedge watchdog *)

\* A step that finishes no task and leaves the watchdog alone.
LEMMA WedgeFrame ==
    ASSUME TypeOK, WedgeInv, dog' = dog, quiet' = quiet, exit' = exit, Running,
           rejected' \in Nat, rejected' >= rejected, \A l \in Loops : loop'[l].done = loop[l].done
    PROVE  WedgeInv'
  <1>1. WatchHonest' /\ BeatHonest'
    BY DEF WedgeInv, WatchHonest, BeatHonest, Read
  <1>2. (dog.rejectedAge # None => rejected > 0)'
    BY DEF WedgeInv, TypeOK
  <1>3. ProgressProtects'
    BY DEF Running, ProgressProtects
  <1> QED BY <1>1, <1>2, <1>3 DEF WedgeInv

\* Reading the counters of loop l.
LEMMA ReadHonest ==
    ASSUME TypeOK, WedgeInv, Running, exit' = exit, rejected' = rejected, quiet' = quiet,
           dog.at \in {"stamp", "schedule"}, NEW lag,
           \A l \in Loops : loop'[l].done = loop[l].done,
           dog' = [Stepped(dog.on) EXCEPT !.beats[dog.on] = Beat(dog.on, lag)]
    PROVE  WedgeInv'
  <1>1. /\ dog.on \in Loops /\ Loops \subseteq Nat /\ LoopCount \in Nat
        /\ dog.beats \in [Loops -> Beats]
    BY AsyncLaneAssumption DEF TypeOK, Loops
  <1>2. /\ dog'.seen = dog.seen /\ dog'.since = dog.since /\ dog'.rejectedAge = dog.rejectedAge
        /\ dog'.beats = [dog.beats EXCEPT ![dog.on] = Beat(dog.on, lag)]
        /\ IF dog.on = LoopCount THEN dog'.at = "judge" ELSE dog'.at = "stamp" /\ dog'.on = dog.on + 1
    <2>1. CASE dog.on = LoopCount
      BY <2>1 DEF TypeOK, Stepped
    <2>2. CASE dog.on # LoopCount
      BY <2>2 DEF TypeOK, Stepped
    <2> QED BY <2>1, <2>2
  <1>3. \A l \in Loops : Read(l)' => l = dog.on \/ Read(l)
    BY <1>1, <1>2 DEF Read, Loops
  <1>4. WatchHonest'
    BY <1>2 DEF WedgeInv, WatchHonest
  <1>5. BeatHonest'
    <2> SUFFICES ASSUME NEW l \in Loops, Read(l)'
                 PROVE  /\ dog'.beats[l].completed <= loop[l].done
                        /\ dog.since[l] # None /\ dog'.beats[l].completed = dog.seen[l]
                            => dog'.beats[l].quiet >= dog.since[l]
      BY <1>2 DEF BeatHonest
    <2>1. CASE l = dog.on
      <3>1. dog'.beats[l].completed = loop[l].done /\ dog'.beats[l].quiet = quiet[l]
        BY <1>1, <1>2, <2>1 DEF Beat
      <3>2. loop[l].done \in Nat
        BY DEF TypeOK, EventLoops
      <3> QED BY <3>1, <3>2 DEF WedgeInv, WatchHonest
    <2>2. CASE l # dog.on
      <3>1. dog'.beats[l] = dog.beats[l] /\ Read(l)
        BY <1>1, <1>2, <1>3, <2>2
      <3> QED BY <3>1 DEF WedgeInv, BeatHonest
    <2> QED BY <2>1, <2>2
  <1>6. ProgressProtects'
    BY DEF Running, ProgressProtects
  <1> QED BY <1>2, <1>4, <1>5, <1>6 DEF WedgeInv

\* wedge_loop after a probe: a loop it ends for was quiet, or submissions were refused.
LEMMA JudgeHonest ==
    ASSUME TypeOK, WedgeInv, Judge
    PROVE  WedgeInv'
  <1> DEFINE W == {l \in Loops : WedgeConfirmed(dog.beats[l], Watched.since[l], Watched.rejectedAge)}
  <1>1. /\ dog' = (IF W = {} THEN [Watched EXCEPT !.beats = NoBeats] ELSE Watched)
        /\ exit' = (IF W = {} THEN None ELSE Min(W))
        /\ UNCHANGED <<rejected, loop, quiet>> /\ dog.at = "judge"
    BY DEF Judge, laneVars
  <1>2. W \subseteq Loops /\ Loops \subseteq Nat
    BY AsyncLaneAssumption DEF Loops
  <1>3. \A l \in W : WedgeConfirmed(dog.beats[l], Watched.since[l], Watched.rejectedAge)
    OBVIOUS
  <1> HIDE DEF W
  <1>4. /\ Watched.at = "sleep" /\ Watched.beats = dog.beats
        /\ Watched.rejectedAge = IF rejected > dog.rejected THEN 0 ELSE dog.rejectedAge
        /\ Watched.seen = [l \in Loops |-> dog.beats[l].completed]
        /\ Watched.since = [l \in Loops |-> IF dog.since[l] = None \/ dog.beats[l].completed # dog.seen[l]
                                            THEN 0 ELSE dog.since[l]]
    BY DEF Watched, TypeOK
  <1>5. /\ dog'.at = "sleep" /\ dog'.seen = Watched.seen /\ dog'.since = Watched.since
        /\ dog'.rejectedAge = Watched.rejectedAge
    <2>1. CASE W = {}
      BY <1>1, <1>4, <2>1 DEF Watched, TypeOK
    <2>2. CASE W # {}
      BY <1>1, <1>4, <2>2
    <2> QED BY <2>1, <2>2
  <1>6. /\ \A l \in Loops : loop[l].done \in Nat /\ quiet[l] \in Nat /\ dog.beats[l].completed \in Nat
        /\ rejected \in Nat /\ dog.rejected \in Nat /\ Window \in Nat \ {0}
    <2>1. \A l \in Loops : loop[l] \in EventLoops /\ dog.beats[l] \in Beats /\ quiet[l] \in 0 .. Window
      BY DEF TypeOK
    <2>2. rejected \in Nat /\ dog.rejected \in Nat /\ Window \in Nat \ {0}
      BY AsyncLaneAssumption DEF TypeOK
    <2> QED BY <2>1, <2>2 DEF EventLoops, Beats
  <1>7. WatchHonest'
    <2> SUFFICES ASSUME NEW l \in Loops
                 PROVE  /\ dog'.seen[l] <= loop[l].done
                        /\ loop[l].done = dog'.seen[l] => quiet[l] >= dog'.since[l]
      BY <1>1 DEF WatchHonest
    <2>1. dog'.seen[l] = dog.beats[l].completed /\ dog.beats[l].completed <= loop[l].done
      BY <1>1, <1>4, <1>5 DEF WedgeInv, BeatHonest, Read
    <2>2. CASE dog.since[l] = None \/ dog.beats[l].completed # dog.seen[l]
      <3>1. dog'.since[l] = 0
        BY <1>4, <1>5, <2>2
      <3> QED BY <1>6, <2>1, <3>1
    <2>3. CASE ~(dog.since[l] = None \/ dog.beats[l].completed # dog.seen[l])
      <3>1. dog'.since[l] = dog.since[l]
        BY <1>4, <1>5, <2>3
      <3> QED BY <2>1, <2>3, <3>1 DEF WedgeInv, WatchHonest
    <2> QED BY <2>2, <2>3
  <1>8. BeatHonest'
    BY <1>5 DEF BeatHonest, Read
  <1>9. Watched.rejectedAge # None => rejected > 0
    BY <1>4, <1>6 DEF WedgeInv
  <1>10. ProgressProtects'
    <2> SUFFICES ASSUME W # {}
                 PROVE  \/ dog'.beats[exit'].quiet >= Window
                        \/ rejected' > 0 /\ dog'.rejectedAge \in 0 .. Window
      BY <1>1 DEF ProgressProtects
    <2>1. exit' \in W
      BY <1>1, <1>2, LeastExists
    <2> DEFINE l == exit'
    <2>2. l \in Loops /\ dog'.beats[l] = dog.beats[l]
      BY <1>1, <1>2, <1>4, <2>1
    <2>3. \/ Watched.since[l] >= Window
          \/ Watched.rejectedAge # None /\ Watched.rejectedAge <= Window
      BY <1>3, <2>1 DEF WedgeConfirmed
    <2> HIDE DEF l
    <2>4. CASE Watched.since[l] >= Window
      <3>1. Watched.since[l] # 0
        BY <1>6, <2>4
      <3>2. /\ dog.since[l] # None /\ dog.beats[l].completed = dog.seen[l]
            /\ Watched.since[l] = dog.since[l]
        BY <1>4, <2>2, <3>1
      <3>3. dog.beats[l].quiet >= dog.since[l]
        BY <1>1, <2>2, <3>2 DEF WedgeInv, BeatHonest, Read
      <3>4. dog.beats[l].quiet \in Nat /\ dog.since[l] \in Nat
        BY <2>2, <3>2 DEF TypeOK, Beats, Ages
      <3>5. dog.beats[l].quiet >= Window
        BY <1>6, <2>4, <3>2, <3>3, <3>4
      <3> QED BY <2>2, <3>5 DEF l
    <2>5. CASE Watched.rejectedAge # None /\ Watched.rejectedAge <= Window
      <3>1. Watched.rejectedAge \in 0 .. Window + 1
        BY <1>4, <1>6, <2>5 DEF TypeOK
      <3>2. Watched.rejectedAge \in 0 .. Window
        BY <1>6, <2>5, <3>1
      <3> QED BY <1>1, <1>5, <1>9, <2>5, <3>2
    <2> QED BY <2>3, <2>4, <2>5
  <1> QED BY <1>1, <1>5, <1>7, <1>8, <1>9, <1>10 DEF WedgeInv

\* The watchdog's view stays true of its loops.
LEMMA NextWedge == TypeOK /\ WedgeInv /\ [Next]_vars => WedgeInv'
  <1> SUFFICES ASSUME TypeOK, WedgeInv, [Next]_vars PROVE WedgeInv'
    OBVIOUS
  <1>1. loop \in [Loops -> EventLoops] /\ dog.on \in Loops /\ rejected \in Nat
    BY DEF TypeOK
  <1>2. ASSUME NEW t \in Tasks, Caller(t) PROVE WedgeInv'
    <2>1. Running /\ UNCHANGED <<rejected, loop, dog, quiet, exit>>
      BY <1>2 DEF Caller, Register, Send, Receive, Backstop, Cancel
    <2> QED BY <1>1, <2>1, WedgeFrame
  <1>3. CASE Submitter
    <2>1. sub.rr \in Loops /\ Woken \in Loops
      BY AsyncLaneAssumption DEF Woken, TypeOK, Loops
    <2>2. Running /\ UNCHANGED <<dog, quiet, exit>>
      BY <1>3 DEF Submitter, Recv, RefuseArgs, Submit, Wake, FailPending
    <2>3. rejected' \in {rejected, rejected + 1}
      BY <1>3 DEF Submitter, Recv, RefuseArgs, Submit, Wake, FailPending
    <2>4. \A l \in Loops : loop'[l].done = loop[l].done
      <3>1. CASE Recv \/ RefuseArgs \/ FailPending
        BY <3>1 DEF Recv, RefuseArgs, FailPending
      <3>2. CASE Submit
        BY <3>2, SubmitFrame
      <3>3. CASE Wake
        BY <1>1, <2>1, <3>3 DEF Wake, EventLoops
      <3> QED BY <1>3, <3>1, <3>2, <3>3 DEF Submitter
    <2>5. rejected' \in Nat /\ rejected' >= rejected
      BY <1>1, <2>3
    <2> QED BY <2>2, <2>4, <2>5, WedgeFrame
  <1>4. ASSUME NEW l \in Loops, Drain(l) \/ Unblock(l) \/ Ack(l) \/ \E t \in Tasks : Block(l, t)
        PROVE  WedgeInv'
    <2>1. Running /\ UNCHANGED <<rejected, dog, quiet, exit>>
      BY <1>4 DEF Drain, Unblock, Ack, Block, Responsive, laneVars
    <2>2. \A m \in Loops : loop'[m].done = loop[m].done
      <3>1. CASE Drain(l)
        BY <1>1, <3>1 DEF Drain, EventLoops
      <3>2. CASE Unblock(l)
        BY <1>1, <3>2 DEF Unblock, EventLoops
      <3>3. CASE Ack(l)
        BY <1>1, <3>3 DEF Ack, EventLoops
      <3>4. ASSUME NEW t \in Tasks, Block(l, t) PROVE \A m \in Loops : loop'[m].done = loop[m].done
        BY <1>1, <3>4 DEF Block, EventLoops
      <3> QED BY <1>4, <3>1, <3>2, <3>3, <3>4
    <2> QED BY <1>1, <2>1, <2>2, WedgeFrame
  <1>5. ASSUME NEW l \in Loops, NEW t \in Tasks, Arun(l, t) PROVE WedgeInv'
    <2>1. Running /\ UNCHANGED <<rejected, dog, exit>>
      BY <1>5 DEF Arun, Responsive
    <2>2. /\ loop'[l].done = loop[l].done + 1
          /\ \A m \in Loops : m # l => loop'[m] = loop[m] /\ quiet'[m] = quiet[m]
      BY <1>1, <1>5 DEF Arun, EventLoops, TypeOK
    <2>3. \A m \in Loops : loop[m].done \in Nat /\ dog.seen[m] \in Nat /\ dog.beats[m].completed \in Nat
      BY DEF TypeOK, EventLoops, Beats
    <2>4. WatchHonest'
      BY <2>1, <2>2, <2>3 DEF WedgeInv, WatchHonest
    <2>5. BeatHonest'
      BY <2>1, <2>2, <2>3 DEF WedgeInv, BeatHonest, Read
    <2> QED BY <2>1, <2>4, <2>5 DEF WedgeInv, ProgressProtects, Running
  <1>6. CASE Tick
    <2>1. Running /\ UNCHANGED <<rejected, exit>>
      BY <1>6 DEF Tick, laneVars
    <2>2. /\ dog' = [dog EXCEPT !.due = TRUE, !.since = [l \in Loops |-> Older(dog.since[l], Window)],
                                !.rejectedAge = Older(dog.rejectedAge, Window + 1)]
          /\ dog.at = "sleep" \/ (dog.at = "stamp" /\ dog.on = 1)
      BY <1>6 DEF Tick, TypeOK
    <2>3. /\ dog'.at = dog.at /\ dog'.on = dog.on /\ dog'.seen = dog.seen
          /\ dog'.since = [l \in Loops |-> Older(dog.since[l], Window)]
          /\ dog'.rejectedAge = Older(dog.rejectedAge, Window + 1)
      BY <2>2 DEF TypeOK
    <2>4. \A l \in Loops : loop'[l].done = loop[l].done /\ quiet'[l] = Older(quiet[l], Window)
      BY <1>1, <1>6 DEF Tick, EventLoops
    <2>5. WatchHonest'
      <3> SUFFICES ASSUME NEW l \in Loops
                   PROVE  /\ dog.seen[l] <= loop[l].done
                          /\ dog'.since[l] # None /\ loop[l].done = dog.seen[l]
                              => quiet'[l] >= dog'.since[l]
        BY <2>3, <2>4 DEF WatchHonest
      <3>1. /\ Window \in Nat /\ quiet[l] \in 0 .. Window /\ dog.since[l] \in 0 .. Window \cup {None}
        BY AsyncLaneAssumption DEF TypeOK, Ages
      <3>2. dog'.since[l] = Older(dog.since[l], Window) /\ quiet'[l] = Older(quiet[l], Window)
        BY <2>3, <2>4
      <3>3. dog.seen[l] <= loop[l].done
        BY DEF WedgeInv, WatchHonest
      <3>4. ASSUME dog'.since[l] # None, loop[l].done = dog.seen[l]
            PROVE  quiet'[l] >= dog'.since[l]
        <4>1. dog.since[l] # None /\ dog.since[l] \in 0 .. Window
          BY <3>1, <3>2, <3>4 DEF Older
        <4>2. dog.since[l] <= quiet[l]
          BY <3>1, <3>4, <4>1 DEF WedgeInv, WatchHonest
        <4>3. Older(dog.since[l], Window) <= Older(quiet[l], Window)
          BY <3>1, <4>1, <4>2, OlderMonotonic
        <4>4. Older(dog.since[l], Window) \in Int /\ Older(quiet[l], Window) \in Int
          BY <3>1, <4>1, AsyncLaneAssumption DEF Older
        <4> QED BY <3>2, <4>3, <4>4
      <3> QED BY <3>3, <3>4
    <2>6. BeatHonest'
      <3>1. \A l \in Loops : ~ Read(l)'
        BY <2>2, <2>3 DEF Read, Loops
      <3> QED BY <3>1 DEF BeatHonest
    <2>7. (dog.rejectedAge # None => rejected > 0)'
      BY <2>1, <2>3 DEF WedgeInv, Older
    <2> QED BY <2>1, <2>5, <2>6, <2>7 DEF WedgeInv, ProgressProtects, Running
  <1>7. CASE Probe
    <2>1. /\ Running /\ UNCHANGED <<rejected, exit, loop, quiet>>
          /\ dog'.at \in {"sleep", "stamp"} /\ dog'.on = 1 /\ dog'.seen = dog.seen
          /\ dog'.since = dog.since /\ dog'.rejectedAge = dog.rejectedAge
      BY <1>7 DEF Probe, laneVars, TypeOK
    <2>2. \A l \in Loops : ~ Read(l)'
      BY <2>1 DEF Read, Loops
    <2>3. WatchHonest' /\ BeatHonest'
      BY <2>1, <2>2 DEF WedgeInv, WatchHonest, BeatHonest
    <2> QED BY <2>1, <2>3 DEF WedgeInv, ProgressProtects, Running
  <1>8. CASE Overdue
    BY <1>8, ReadHonest DEF Overdue, laneVars
  <1>9. CASE Stamp
    <2>1. Running /\ UNCHANGED <<rejected, exit, quiet>>
      BY <1>9 DEF Stamp, laneVars
    <2>2. /\ dog'.at = "schedule" /\ dog'.on = dog.on /\ dog'.seen = dog.seen /\ dog.at = "stamp"
          /\ dog'.since = dog.since /\ dog'.rejectedAge = dog.rejectedAge
          /\ dog'.beats = [dog.beats EXCEPT ![dog.on].lag = loop[dog.on].lag]
      BY <1>9 DEF Stamp, TypeOK
    <2>3. \A l \in Loops : /\ dog'.beats[l].completed = dog.beats[l].completed
                           /\ dog'.beats[l].quiet = dog.beats[l].quiet
      <3>1. dog.beats \in [Loops -> Beats] /\ dog.beats[dog.on] \in Beats
        BY <1>1 DEF TypeOK
      <3>2. dog'.beats[dog.on] = [dog.beats[dog.on] EXCEPT !.lag = loop[dog.on].lag]
        BY <1>1, <2>2, <3>1
      <3>3. \A l \in Loops : l # dog.on => dog'.beats[l] = dog.beats[l]
        BY <1>1, <2>2, <3>1
      <3> QED BY <3>1, <3>2, <3>3 DEF Beats
    <2>4. \A l \in Loops : loop'[l].done = loop[l].done
      BY <1>1, <1>9 DEF Stamp, EventLoops
    <2>5. WatchHonest'
      BY <2>1, <2>2, <2>4 DEF WedgeInv, WatchHonest
    <2>6. BeatHonest'
      BY <2>2, <2>3, <2>4 DEF WedgeInv, BeatHonest, Read
    <2> QED BY <2>1, <2>2, <2>5, <2>6 DEF WedgeInv, ProgressProtects, Running
  <1>10. CASE Schedule
    <2>1. \A l \in Loops : loop'[l].done = loop[l].done
      BY <1>1, <1>10 DEF Schedule, EventLoops
    <2> QED BY <1>10, <2>1, ReadHonest DEF Schedule, laneVars
  <1>11. CASE Judge
    BY <1>11, JudgeHonest
  <1>12. CASE Shutdown
    BY <1>1, <1>12, WedgeFrame DEF Shutdown, laneVars
  <1>13. CASE UNCHANGED vars
    BY <1>13 DEF vars, laneVars, WedgeInv, WatchHonest, BeatHonest, Read, ProgressProtects
  <1> QED BY <1>2, <1>3, <1>4, <1>5, <1>6, <1>7, <1>8, <1>9, <1>10, <1>11, <1>12, <1>13
          DEF Next, LoopStep, Watchdog

-----------------------------------------------------------------------------
(* No task stands in two lines *)

\* The lines, by their names.
LEMMA LineTypes ==
    ASSUME TypeOK
    PROVE  /\ Lines \in [Places -> Seq(Tasks)]
           /\ 0 \in Places /\ LoopCount + 1 \in Places /\ 0 # LoopCount + 1
           /\ Lines[0] = channel /\ Lines[LoopCount + 1] = sub.batch
           /\ \A l \in Loops : l \in Places /\ l # 0 /\ l # LoopCount + 1 /\ Lines[l] = loop[l].queue
  <1>1. LoopCount \in Nat
    BY AsyncLaneAssumption
  <1>2. channel \in Seq(Tasks) /\ sub.batch \in Seq(Tasks)
    BY DEF TypeOK
  <1>3. \A l \in Loops : loop[l].queue \in Seq(Tasks)
    BY DEF TypeOK, EventLoops
  <1>4. \A p \in Places : p # 0 /\ p # LoopCount + 1 => p \in Loops
    BY <1>1 DEF Places, Loops
  <1>5. 0 \in Places /\ LoopCount + 1 \in Places /\ 0 # LoopCount + 1
    BY <1>1 DEF Places
  <1>6. \A l \in Loops : l \in Places /\ l # 0 /\ l # LoopCount + 1
    BY <1>1 DEF Places, Loops
  <1> QED BY <1>2, <1>3, <1>4, <1>5, <1>6 DEF Lines

\* What the lines say of two places, and of one.
LEMMA OnceUse ==
    ASSUME NEW L, Once(L), NEW p \in Places, NEW q \in Places,
           NEW i \in 1 .. Len(L[p]), NEW j \in 1 .. Len(L[q]), L[p][i] = L[q][j]
    PROVE  p = q /\ i = j
  BY DEF Once

LEMMA InLineUse ==
    ASSUME NEW L, NEW p \in Places, NEW i \in 1 .. Len(L[p])
    PROVE  InLine(L, L[p][i])
  BY DEF InLine

\* The first of a line leaves it.
LEMMA OnceTail ==
    ASSUME NEW L \in [Places -> Seq(Tasks)], NEW p \in Places, NEW M, NEW h,
           Once(L), Popped(L, M, p, h)
    PROVE  /\ Once(M)
           /\ \A t \in Tasks : InLine(M, t) => InLine(L, t)
           /\ h \in Tasks /\ InLine(L, h) /\ ~InLine(M, h)
  <1>0. /\ L[p] # <<>> /\ h = Head(L[p]) /\ M[p] = Tail(L[p])
        /\ \A q \in Places : q # p => M[q] = L[q]
    BY DEF Popped
  <1>1. /\ Tail(L[p]) \in Seq(Tasks) /\ Len(Tail(L[p])) = Len(L[p]) - 1 /\ Len(L[p]) \in Nat
        /\ \A i \in 1 .. Len(Tail(L[p])) : Tail(L[p])[i] = L[p][i + 1]
        /\ Head(L[p]) = L[p][1] /\ Len(L[p]) >= 1 /\ Head(L[p]) \in Tasks
    BY <1>0, HeadTailProperties
  <1>2. Once(L)
    OBVIOUS
  \* Where an element of M stands in L.
  <1> DEFINE at(q, i) == IF q = p THEN i + 1 ELSE i
  <1>3. \A q \in Places : \A i \in 1 .. Len(M[q]) :
            at(q, i) \in 1 .. Len(L[q]) /\ M[q][i] = L[q][at(q, i)] /\ (q = p => at(q, i) # 1)
    <2> SUFFICES ASSUME NEW q \in Places, NEW i \in 1 .. Len(M[q])
                 PROVE  /\ at(q, i) \in 1 .. Len(L[q]) /\ M[q][i] = L[q][at(q, i)]
                        /\ q = p => at(q, i) # 1
      OBVIOUS
    <2>1. CASE q = p
      BY <1>0, <1>1, <2>1
    <2>2. CASE q # p
      BY <1>0, <2>2
    <2> QED BY <2>1, <2>2
  <1>4. Once(M)
    <2>0. SUFFICES ASSUME NEW q \in Places, NEW r \in Places, NEW i \in 1 .. Len(M[q]),
                          NEW j \in 1 .. Len(M[r]), M[q][i] = M[r][j]
                   PROVE  q = r /\ i = j
      BY DEF Once
    <2>1. /\ at(q, i) \in 1 .. Len(L[q]) /\ at(r, j) \in 1 .. Len(L[r])
          /\ L[q][at(q, i)] = L[r][at(r, j)]
      BY <1>3, <2>0
    <2>2. q = r /\ at(q, i) = at(r, j)
      <3> HIDE DEF at
      <3> QED BY <1>2, <2>1, OnceUse
    <2>3. i \in Int /\ j \in Int
      OBVIOUS
    <2> QED BY <2>2, <2>3
  <1>5. \A t \in Tasks : InLine(M, t) => InLine(L, t)
    <2> HIDE DEF at
    <2> QED BY <1>3 DEF InLine
  <1>6. 1 \in 1 .. Len(L[p])
    BY <1>1
  <1>7. InLine(L, Head(L[p]))
    BY <1>1, <1>6, InLineUse
  <1>8. ~InLine(M, Head(L[p]))
    <2>0. SUFFICES ASSUME NEW q \in Places, NEW i \in 1 .. Len(M[q]), M[q][i] = L[p][1] PROVE FALSE
      BY <1>1 DEF InLine
    <2>1. /\ at(q, i) \in 1 .. Len(L[q]) /\ L[q][at(q, i)] = L[p][1]
          /\ q = p => at(q, i) # 1
      BY <1>3, <2>0
    <2> HIDE DEF at
    <2>2. q = p /\ at(q, i) = 1
      BY <1>2, <1>6, <2>1, OnceUse
    <2> QED BY <2>1, <2>2
  <1> QED BY <1>0, <1>1, <1>4, <1>5, <1>7, <1>8

\* A task that stands nowhere joins a line.
LEMMA OnceAppend ==
    ASSUME NEW L \in [Places -> Seq(Tasks)], NEW p \in Places, NEW t \in Tasks, NEW M,
           Once(L), ~InLine(L, t), Joined(L, M, p, t)
    PROVE  Once(M) /\ \A u \in Tasks : InLine(M, u) => InLine(L, u) \/ u = t
  <1>0. M[p] = Append(L[p], t) /\ \A q \in Places : q # p => M[q] = L[q]
    BY DEF Joined
  <1>1. /\ Len(Append(L[p], t)) = Len(L[p]) + 1 /\ Len(L[p]) \in Nat
        /\ \A i \in 1 .. Len(L[p]) : Append(L[p], t)[i] = L[p][i]
        /\ Append(L[p], t)[Len(L[p]) + 1] = t
    BY AppendProperties
  <1>2. Once(L)
    OBVIOUS
  <1>3. \A q \in Places : \A i \in 1 .. Len(M[q]) :
            \/ i \in 1 .. Len(L[q]) /\ M[q][i] = L[q][i]
            \/ q = p /\ i = Len(L[p]) + 1 /\ M[q][i] = t
    <2> SUFFICES ASSUME NEW q \in Places, NEW i \in 1 .. Len(M[q])
                 PROVE  \/ i \in 1 .. Len(L[q]) /\ M[q][i] = L[q][i]
                        \/ q = p /\ i = Len(L[p]) + 1 /\ M[q][i] = t
      OBVIOUS
    <2>1. CASE q = p
      <3>1. i \in 1 .. Len(L[p]) \/ i = Len(L[p]) + 1
        BY <1>0, <1>1, <2>1
      <3> QED BY <1>0, <1>1, <2>1, <3>1
    <2>2. CASE q # p
      BY <1>0, <2>2
    <2> QED BY <2>1, <2>2
  <1>4. \A q \in Places : \A i \in 1 .. Len(L[q]) : L[q][i] # t
    BY DEF InLine
  <1>5. Once(M)
    <2>0. SUFFICES ASSUME NEW q \in Places, NEW r \in Places, NEW i \in 1 .. Len(M[q]),
                          NEW j \in 1 .. Len(M[r]), M[q][i] = M[r][j]
                   PROVE  q = r /\ i = j
      BY DEF Once
    <2>1. CASE i \in 1 .. Len(L[q]) /\ M[q][i] = L[q][i] /\ j \in 1 .. Len(L[r]) /\ M[r][j] = L[r][j]
      <3>1. L[q][i] = L[r][j] /\ i \in 1 .. Len(L[q]) /\ j \in 1 .. Len(L[r])
        BY <2>0, <2>1
      <3> QED BY <1>2, <3>1, OnceUse
    <2> QED BY <1>3, <1>4, <2>0, <2>1
  <1>6. \A u \in Tasks : InLine(M, u) => InLine(L, u) \/ u = t
    BY <1>3 DEF InLine
  <1> QED BY <1>5, <1>6

\* A line is emptied.
LEMMA OnceClear ==
    ASSUME NEW L \in [Places -> Seq(Tasks)], NEW p \in Places, NEW M, Once(L), Cleared(L, M, p)
    PROVE  /\ Once(M)
           /\ \A t \in Tasks : InLine(M, t) => InLine(L, t)
           /\ \A i \in 1 .. Len(L[p]) : ~InLine(M, L[p][i])
  <1>0. M[p] = <<>> /\ \A q \in Places : q # p => M[q] = L[q]
    BY DEF Cleared
  <1>1. \A q \in Places : \A i \in 1 .. Len(M[q]) : q # p /\ M[q] = L[q] /\ i \in 1 .. Len(L[q])
    BY <1>0
  <1>2. Once(M)
    BY <1>0, <1>1 DEF Once
  <1>3. \A t \in Tasks : InLine(M, t) => InLine(L, t)
    BY <1>1 DEF InLine
  <1>4. \A i \in 1 .. Len(L[p]) : ~InLine(M, L[p][i])
    BY <1>0, <1>1 DEF InLine, Once
  <1> QED BY <1>2, <1>3, <1>4

\* The head of a line moves to an empty one.
LEMMA OnceSplit ==
    ASSUME NEW L \in [Places -> Seq(Tasks)], NEW p \in Places, NEW q \in Places, NEW n, NEW M,
           Once(L), Split(L, M, p, q, n)
    PROVE  Once(M) /\ \A t \in Tasks : InLine(M, t) => InLine(L, t)
  <1>0. /\ p # q /\ n \in 0 .. Len(L[p])
        /\ M[q] = SubSeq(L[p], 1, n) /\ M[p] = SubSeq(L[p], n + 1, Len(L[p]))
        /\ \A r \in Places : r # p /\ r # q => M[r] = L[r]
    BY DEF Split
  <1>1. /\ L[p] \in Seq(Tasks) /\ Len(L[p]) \in Nat /\ n \in Nat /\ n <= Len(L[p])
        /\ Once(L) /\ p # q
    BY <1>0
  <1>2. Len(M[q]) = n /\ \A i \in 1 .. n : M[q][i] = L[p][i]
    BY <1>0, <1>1
  <1>3. Len(M[p]) = Len(L[p]) - n /\ \A i \in 1 .. (Len(L[p]) - n) : M[p][i] = L[p][n + i]
    BY <1>0, <1>1
  <1> DEFINE place(r) == IF r = q THEN p ELSE r
             at(r, i) == IF r = p THEN n + i ELSE i
  <1>4. \A r \in Places : \A i \in 1 .. Len(M[r]) :
            /\ place(r) \in Places /\ at(r, i) \in 1 .. Len(L[place(r)])
            /\ M[r][i] = L[place(r)][at(r, i)]
    <2> SUFFICES ASSUME NEW r \in Places, NEW i \in 1 .. Len(M[r])
                 PROVE  /\ place(r) \in Places /\ at(r, i) \in 1 .. Len(L[place(r)])
                        /\ M[r][i] = L[place(r)][at(r, i)]
      OBVIOUS
    <2>1. CASE r = q
      BY <1>1, <1>2, <2>1
    <2>2. CASE r = p
      BY <1>1, <1>3, <2>2
    <2>3. CASE r # p /\ r # q
      BY <1>0, <2>3
    <2> QED BY <2>1, <2>2, <2>3
  <1>5. Once(M)
    <2>0. SUFFICES ASSUME NEW r \in Places, NEW s \in Places, NEW i \in 1 .. Len(M[r]),
                          NEW j \in 1 .. Len(M[s]), M[r][i] = M[s][j]
                   PROVE  r = s /\ i = j
      BY DEF Once
    <2>1. /\ place(r) \in Places /\ at(r, i) \in 1 .. Len(L[place(r)])
          /\ place(s) \in Places /\ at(s, j) \in 1 .. Len(L[place(s)])
          /\ L[place(r)][at(r, i)] = L[place(s)][at(s, j)]
      <3> HIDE DEF at, place
      <3> QED BY <1>4, <2>0
    <2>2. place(r) = place(s) /\ at(r, i) = at(s, j)
      <3> HIDE DEF at, place
      <3> QED BY <1>1, <2>1, OnceUse
    <2>3. i \in Int /\ j \in Int /\ i >= 1 /\ j >= 1
      OBVIOUS
    <2>4. CASE r = s
      BY <1>1, <2>2, <2>3, <2>4
    <2>5. CASE r = p /\ s = q
      BY <1>1, <1>2, <2>2, <2>3, <2>5
    <2>6. CASE r = q /\ s = p
      BY <1>1, <1>2, <2>2, <2>3, <2>6
    <2> QED BY <2>2, <2>4, <2>5, <2>6
  <1>6. \A t \in Tasks : InLine(M, t) => InLine(L, t)
    <2> SUFFICES ASSUME NEW t \in Tasks, InLine(M, t) PROVE InLine(L, t)
      OBVIOUS
    <2>1. PICK r \in Places : \E i \in 1 .. Len(M[r]) : M[r][i] = t
      BY Zenon DEF InLine
    <2>2. PICK i \in 1 .. Len(M[r]) : M[r][i] = t
      BY <2>1
    <2>3. /\ place(r) \in Places /\ at(r, i) \in 1 .. Len(L[place(r)])
          /\ M[r][i] = L[place(r)][at(r, i)]
      <3> HIDE DEF at, place
      <3> QED BY <1>4
    <2>4. InLine(L, L[place(r)][at(r, i)])
      <3> HIDE DEF at, place
      <3> QED BY <2>3, InLineUse
    <2> QED BY <2>2, <2>3, <2>4
  <1> QED BY <1>5, <1>6

\* What a step may do to the lines and to the answers, whoever takes it.
LEMMA LineKept ==
    ASSUME LineInv, Once(Lines)',
           \A t \in Tasks : InLine(Lines, t)' => InLine(Lines, t) \/ (call[t] = "send" /\ ~Unsent(t)'),
           \A t \in Tasks : Begun(t)' => Begun(t) \/ (InLine(Lines, t) /\ ~InLine(Lines, t)'),
           \A t \in Tasks : answer'[t] # answer[t] => Begun(t),
           \A t \in Tasks : Unsent(t)' => Unsent(t)
    PROVE  LineInv'
  <1>1. ASSUME NEW t \in Tasks, InLine(Lines, t)'
        PROVE  ~Unsent(t)' /\ answer'[t] = None /\ ~Begun(t)'
    <2>1. CASE InLine(Lines, t)
      BY <1>1, <2>1 DEF LineInv
    <2>2. CASE call[t] = "send" /\ ~Unsent(t)'
      <3>1. Unsent(t)
        BY <2>2 DEF Unsent
      <3> QED BY <1>1, <2>2, <3>1 DEF LineInv
    <2> QED BY <1>1, <2>1, <2>2
  <1>2. ASSUME NEW t \in Tasks, Unsent(t)'
        PROVE  answer'[t] = None /\ ~Begun(t)'
    BY <1>2 DEF LineInv
  <1> QED BY <1>1, <1>2 DEF LineInv

\* A step that leaves every line alone.
LEMMA LinesSame ==
    ASSUME channel' = channel, sub'.batch = sub.batch,
           \A l \in Loops : loop'[l].queue = loop[l].queue
    PROVE  Lines' = Lines
  <1>1. LoopCount \in Nat
    BY AsyncLaneAssumption
  <1>2. \A p \in Places : p # 0 /\ p # LoopCount + 1 => p \in Loops
    BY <1>1 DEF Places, Loops
  <1> QED BY <1>2 DEF Lines

\* Whom a completion answers.
LEMMA CompleteAnswers ==
    ASSUME TypeOK, NEW t \in Tasks, NEW o, Complete(t, o)
    PROVE  \A u \in Tasks : answer'[u] # answer[u] => u = t /\ t \in pending
  BY DEF TypeOK, Complete

\* Every step keeps the lines apart.
LEMMA NextLines == TypeOK /\ LineInv /\ SlotInv /\ [Next]_vars => LineInv'
  <1> SUFFICES ASSUME TypeOK, LineInv, SlotInv, [Next]_vars PROVE LineInv'
    OBVIOUS
  <1>0. /\ Lines \in [Places -> Seq(Tasks)] /\ Once(Lines)
        /\ loop \in [Loops -> EventLoops] /\ call \in [Tasks -> Calls]
    BY LineTypes DEF TypeOK, LineInv
  \* The lines, the coroutines and the refusals stay as they are.
  <1>1. ASSUME channel' = channel, sub'.batch = sub.batch,
               \A l \in Loops : loop'[l].queue = loop[l].queue,
               \A t \in Tasks : Begun(t)' => Begun(t),
               \A t \in Tasks : answer'[t] # answer[t] => Begun(t),
               \A t \in Tasks : Unsent(t)' => Unsent(t)
        PROVE  LineInv'
    <2>1. Lines' = Lines
      BY <1>1, LinesSame
    <2>2. Once(Lines)' /\ \A t \in Tasks : InLine(Lines, t)' <=> InLine(Lines, t)
      BY <1>0, <2>1 DEF Once, InLine
    <2> QED BY <1>1, <2>2, LineKept
  <1>2. ASSUME NEW t \in Tasks, Register(t) \/ Receive(t) \/ Backstop(t) \/ Cancel(t) PROVE LineInv'
    <2>1. UNCHANGED <<channel, sub, loop, answer>>
      BY <1>2 DEF Register, Receive, Backstop, Cancel
    <2>2. \A u \in Tasks : Unsent(u)' => Unsent(u)
      <3>1. call'[t] = "send" => call[t] = "new"
        BY <1>0, <1>2, TokenFresh DEF Register, Receive, Backstop, Cancel, SlotInv
      <3> QED BY <1>0, <1>2, <3>1 DEF Register, Receive, Backstop, Cancel, Unsent
    <2> QED BY <1>1, <2>1, <2>2 DEF Begun
  <1>3. ASSUME NEW t \in Tasks, Send(t) PROVE LineInv'
    <2>1. 0 \in Places /\ Lines[0] = channel
      BY LineTypes
    <2>2. Joined(Lines, Lines', 0, t)
      <3>1. channel' = Append(channel, t) /\ UNCHANGED <<sub, loop>>
        BY <1>3 DEF Send
      <3> QED BY <2>1, <3>1 DEF Lines, Joined
    <2>3. ~InLine(Lines, t)
      BY <1>3 DEF Send, LineInv, Unsent
    <2>4. Once(Lines') /\ \A u \in Tasks : InLine(Lines', u) => InLine(Lines, u) \/ u = t
      BY <1>0, <2>1, <2>2, <2>3, OnceAppend
    <2>5. Once(Lines)' /\ \A u \in Tasks : InLine(Lines, u)' => InLine(Lines, u) \/ u = t
      BY <2>4 DEF Once, InLine
    <2>6. UNCHANGED <<answer, sub, loop>> /\ call[t] = "send" /\ call' = [call EXCEPT ![t] = "wait"]
      BY <1>3 DEF Send
    <2>7. ~Unsent(t)' /\ \A u \in Tasks : Unsent(u)' => Unsent(u)
      BY <1>0, <2>6 DEF Unsent
    <2>8. \A u \in Tasks : Begun(u)' => Begun(u)
      BY <2>6 DEF Begun
    <2> QED BY <2>5, <2>6, <2>7, <2>8, LineKept
  <1>4. CASE Recv
    <2> DEFINE n == Min({DrainMax, Len(channel)})
    <2>1. channel \in Seq(Tasks) /\ Len(channel) \in Nat /\ DrainMax \in Nat
      BY AsyncLaneAssumption DEF TypeOK
    <2>2. n \in 0 .. Len(channel)
      <3>1. {DrainMax, Len(channel)} \subseteq Nat
        BY <2>1
      <3> QED BY <2>1 DEF Min
    <2>3. /\ sub' = [sub EXCEPT !.batch = SubSeq(channel, 1, n)] /\ sub.batch = <<>>
          /\ channel' = SubSeq(channel, n + 1, Len(channel)) /\ UNCHANGED <<call, answer, loop>>
      BY <1>4 DEF Recv
    <2> HIDE DEF n
    <2>4. sub'.batch = SubSeq(channel, 1, n) /\ sub'.failed = sub.failed
      BY <2>3 DEF TypeOK
    <2>5. /\ 0 \in Places /\ LoopCount + 1 \in Places /\ 0 # LoopCount + 1
          /\ Lines[0] = channel /\ Lines[LoopCount + 1] = sub.batch
      BY LineTypes
    <2>6. Split(Lines, Lines', 0, LoopCount + 1, n)
      BY <2>2, <2>3, <2>4, <2>5 DEF Lines, Split
    <2>7. Once(Lines') /\ \A t \in Tasks : InLine(Lines', t) => InLine(Lines, t)
      BY <1>0, <2>5, <2>6, OnceSplit
    <2>8. Once(Lines)' /\ \A t \in Tasks : InLine(Lines, t)' => InLine(Lines, t)
      BY <2>7 DEF Once, InLine
    <2>9. \A t \in Tasks : (Begun(t)' => Begun(t)) /\ (Unsent(t)' => Unsent(t))
      BY <2>3, <2>4 DEF Begun, Unsent
    <2> QED BY <2>3, <2>8, <2>9, LineKept
  \* The head of the batch is refused, by the codec or by a full queue.
  <1>5. ASSUME NEW o, sub.batch # <<>>, sub'.batch = Tail(sub.batch),
               sub'.failed = sub.failed \cup {<<Head(sub.batch), o>>},
               UNCHANGED <<call, answer, channel, loop>>
        PROVE  LineInv'
    <2> DEFINE b == LoopCount + 1
               t == Head(Lines[b])
    <2>1. b \in Places /\ b # 0 /\ Lines[b] = sub.batch
      BY LineTypes
    <2>2. Popped(Lines, Lines', b, t)
      BY <1>5, <2>1 DEF Lines, Popped
    <2> HIDE DEF b, t
    <2>3. /\ Once(Lines') /\ \A u \in Tasks : InLine(Lines', u) => InLine(Lines, u)
          /\ InLine(Lines, t) /\ ~InLine(Lines', t)
      BY <1>0, <2>1, <2>2, OnceTail
    <2>4. /\ Once(Lines)' /\ \A u \in Tasks : InLine(Lines, u)' => InLine(Lines, u)
          /\ \A u \in Tasks : u = t => InLine(Lines, u) /\ ~InLine(Lines, u)'
      BY <2>3 DEF Once, InLine
    <2>5. \A u \in Tasks : Begun(u)' => Begun(u) \/ u = t
      BY <1>5, <2>1 DEF Begun, t
    <2>6. \A u \in Tasks : Unsent(u)' => Unsent(u)
      BY <1>5 DEF Unsent
    <2>7. \A u \in Tasks : Begun(u)' => Begun(u) \/ (InLine(Lines, u) /\ ~InLine(Lines, u)')
      BY <2>4, <2>5
    <2> QED BY <1>5, <2>4, <2>6, <2>7, LineKept
  <1>6. CASE RefuseArgs
    BY <1>5, <1>6 DEF RefuseArgs, TypeOK
  <1>7. CASE Submit
    <2> DEFINE l == sub.rr
               t == Head(sub.batch)
    <2>1. l \in Loops /\ sub.batch # <<>> /\ t \in Tasks
      BY <1>7, HeadTailProperties DEF Submit, TypeOK
    <2>2. CASE Len(loop[l].queue) >= PendingCap
      <3>1. /\ sub'.batch = Tail(sub.batch)
            /\ sub'.failed = sub.failed \cup {<<Head(sub.batch), ShimFailure>>}
        BY <1>7, <2>2 DEF Submit, TypeOK
      <3>2. UNCHANGED <<call, answer, channel, loop>>
        BY <1>7, <2>2 DEF Submit
      <3> QED BY <1>5, <2>1, <3>1, <3>2
    <2>3. CASE ~(Len(loop[l].queue) >= PendingCap)
      <3> DEFINE b == LoopCount + 1
                 M == [Lines EXCEPT ![b] = Tail(Lines[b])]
      <3>1. /\ sub'.batch = Tail(sub.batch) /\ sub'.failed = sub.failed
            /\ loop' = [loop EXCEPT ![l].queue = Append(@, t), ![l].handed = @ + 1]
            /\ UNCHANGED <<call, answer, channel>>
        BY <1>7, <2>3 DEF Submit, TypeOK
      <3>2. /\ \A k \in Loops : k # l => loop'[k] = loop[k]
            /\ loop'[l].queue = Append(loop[l].queue, t)
            /\ \A k \in Loops : loop'[k].live = loop[k].live
        BY <1>0, <2>1, <3>1 DEF EventLoops
      <3>3. /\ b \in Places /\ b # 0 /\ Lines[b] = sub.batch
            /\ l \in Places /\ l # 0 /\ l # b /\ Lines[l] = loop[l].queue
        BY <2>1, LineTypes
      <3>4. \A p \in Places : p # 0 /\ p # b => p \in Loops
        BY AsyncLaneAssumption DEF Places, Loops
      <3>5. Lines'[l] = Append(Lines[l], t)
        BY <3>2, <3>3 DEF Lines
      <3>6. Lines'[b] = Tail(Lines[b])
        BY <3>1, <3>3 DEF Lines
      <3>7. \A p \in Places : p # l /\ p # b => Lines'[p] = Lines[p]
        <4> SUFFICES ASSUME NEW p \in Places, p # l, p # b PROVE Lines'[p] = Lines[p]
          OBVIOUS
        <4>1. CASE p = 0
          BY <3>1, <4>1 DEF Lines
        <4>2. CASE p # 0
          <5>1. p \in Loops /\ loop'[p] = loop[p]
            BY <3>2, <3>4, <4>2
          <5> QED BY <4>2, <5>1 DEF Lines
        <4> QED BY <4>1, <4>2
      <3> HIDE DEF b, l
      <3>8. Tail(Lines[b]) \in Seq(Tasks)
        BY <1>0, <2>1, <3>3, HeadTailProperties
      <3>9. M \in [Places -> Seq(Tasks)] /\ M[b] = Tail(Lines[b])
            /\ \A p \in Places : p # b => M[p] = Lines[p]
        BY <1>0, <3>3, <3>8
      <3> HIDE DEF M
      <3>10. Popped(Lines, M, b, t)
        BY <2>1, <3>3, <3>9 DEF Popped
      <3>11. Joined(M, Lines', l, t)
        BY <3>3, <3>5, <3>6, <3>7, <3>9 DEF Joined
      <3> HIDE DEF t
      <3>12. /\ Once(M) /\ \A u \in Tasks : InLine(M, u) => InLine(Lines, u)
             /\ InLine(Lines, t) /\ ~InLine(M, t)
        BY <1>0, <3>3, <3>10, OnceTail
      <3>13. Once(Lines') /\ \A u \in Tasks : InLine(Lines', u) => InLine(M, u) \/ u = t
        BY <2>1, <3>3, <3>9, <3>12, <3>11, OnceAppend
      <3>14. Once(Lines)' /\ \A u \in Tasks : InLine(Lines, u)' => InLine(Lines, u)
        <4>1. \A u \in Tasks : InLine(Lines', u) => InLine(Lines, u)
          BY <3>12, <3>13
        <4> QED BY <3>13, <4>1 DEF Once, InLine
      <3>15. \A u \in Tasks : (Begun(u)' => Begun(u)) /\ (Unsent(u)' => Unsent(u))
        BY <3>1, <3>2 DEF Begun, Unsent
      <3> QED BY <3>1, <3>14, <3>15, LineKept
    <2> QED BY <2>2, <2>3
  <1>8. CASE Wake
    <2>1. /\ sub'.batch = sub.batch /\ sub'.failed = sub.failed /\ UNCHANGED <<channel, call, answer>>
      BY <1>8 DEF Wake, TypeOK
    <2>2. \A l \in Loops : loop'[l].queue = loop[l].queue /\ loop'[l].live = loop[l].live
      BY <1>0, <1>8 DEF Wake, EventLoops
    <2> QED BY <1>1, <2>1, <2>2 DEF Begun, Unsent
  <1>9. CASE FailPending
    <2>1. PICK f \in sub.failed : Complete(f[1], f[2]) /\ sub' = [sub EXCEPT !.failed = @ \ {f}]
      BY <1>9 DEF FailPending
    <2>2. f[1] \in Tasks /\ Begun(f[1])
      BY DEF TypeOK, Begun
    <2>3. /\ sub'.batch = sub.batch /\ sub'.failed \subseteq sub.failed
          /\ UNCHANGED <<channel, call, loop>>
      BY <1>9, <2>1 DEF FailPending, TypeOK
    <2>4. \A u \in Tasks : answer'[u] # answer[u] => Begun(u)
      BY <2>1, <2>2, CompleteAnswers
    <2>5. \A u \in Tasks : (Begun(u)' => Begun(u)) /\ (Unsent(u)' => Unsent(u))
      BY <2>3 DEF Begun, Unsent
    <2> QED BY <1>1, <2>3, <2>4, <2>5
  <1>10. ASSUME NEW l \in Loops, Drain(l) PROVE LineInv'
    <2>1. /\ \A k \in Loops : k # l => loop'[k] = loop[k]
          /\ loop'[l].queue = <<>> /\ loop'[l].live = loop[l].live \cup ToSet(loop[l].queue)
          /\ UNCHANGED <<call, answer, channel, sub>>
      BY <1>0, <1>10 DEF Drain, EventLoops, laneVars
    <2>2. l \in Places /\ l # 0 /\ l # LoopCount + 1 /\ Lines[l] = loop[l].queue
      BY LineTypes
    <2>3. Cleared(Lines, Lines', l)
      <3>1. \A p \in Places : p # 0 /\ p # LoopCount + 1 => p \in Loops
        BY AsyncLaneAssumption DEF Places, Loops
      <3> QED BY <2>1, <2>2, <3>1 DEF Lines, Cleared
    <2>4. /\ Once(Lines') /\ \A u \in Tasks : InLine(Lines', u) => InLine(Lines, u)
          /\ \A i \in 1 .. Len(Lines[l]) : ~InLine(Lines', Lines[l][i])
      BY <1>0, <2>2, <2>3, OnceClear
    <2>5. /\ Once(Lines)' /\ \A u \in Tasks : InLine(Lines, u)' => InLine(Lines, u)
          /\ \A u \in Tasks : InLine(Lines, u)' <=> InLine(Lines', u)
      BY <2>4 DEF Once, InLine
    <2>6. ASSUME NEW u \in Tasks, Begun(u)'
          PROVE  Begun(u) \/ (InLine(Lines, u) /\ ~InLine(Lines, u)')
      <3>1. Begun(u) \/ u \in ToSet(loop[l].queue)
        BY <2>1, <2>6 DEF Begun
      <3>2. CASE u \in ToSet(loop[l].queue)
        <4>1. PICK i \in 1 .. Len(Lines[l]) : Lines[l][i] = u
          BY <2>2, <3>2, ElementOfSeq DEF ToSet
        <4> QED BY <2>2, <2>4, <2>5, <4>1 DEF InLine
      <3> QED BY <3>1, <3>2
    <2>7. \A u \in Tasks : Unsent(u)' => Unsent(u)
      BY <2>1 DEF Unsent
    <2> QED BY <2>1, <2>5, <2>6, <2>7, LineKept
  <1>11. ASSUME NEW l \in Loops, NEW t \in Tasks, Arun(l, t) PROVE LineInv'
    <2>1. /\ \A k \in Loops : loop'[k].queue = loop[k].queue /\ loop'[k].live \subseteq loop[k].live
          /\ UNCHANGED <<call, channel, sub>> /\ t \in loop[l].live
      BY <1>0, <1>11 DEF Arun, EventLoops
    <2>2. PICK e \in Endings : Complete(t, OutcomeFromPy(ShimReply(e)))
      BY <1>11 DEF Arun
    <2>3. \A u \in Tasks : answer'[u] # answer[u] => Begun(u)
      BY <2>1, <2>2, CompleteAnswers DEF Begun
    <2>4. \A u \in Tasks : (Begun(u)' => Begun(u)) /\ (Unsent(u)' => Unsent(u))
      BY <2>1 DEF Begun, Unsent
    <2> QED BY <1>1, <2>1, <2>3, <2>4
  \* Everybody else leaves the callers, the lines and the coroutines alone.
  <1>12. ASSUME UNCHANGED laneVars,
                \A l \in Loops : loop'[l].queue = loop[l].queue /\ loop'[l].live = loop[l].live
         PROVE  LineInv'
    <2>1. UNCHANGED <<call, answer, channel, sub>>
      BY <1>12 DEF laneVars
    <2> QED BY <1>1, <1>12, <2>1 DEF Begun, Unsent
  <1>13. ASSUME NEW l \in Loops, Unblock(l) \/ Ack(l) \/ \E t \in Tasks : Block(l, t) PROVE LineInv'
    <2>1. \A k \in Loops : loop'[k].queue = loop[k].queue /\ loop'[k].live = loop[k].live
      <3>1. CASE Unblock(l)
        BY <1>0, <3>1 DEF Unblock, EventLoops
      <3>2. CASE Ack(l)
        BY <1>0, <3>2 DEF Ack, EventLoops
      <3>3. CASE \E t \in Tasks : Block(l, t)
        BY <1>0, <3>3 DEF Block, EventLoops
      <3> QED BY <1>13, <3>1, <3>2, <3>3
    <2> QED BY <1>12, <1>13, <2>1 DEF Unblock, Ack, Block
  <1>14. CASE Watchdog \/ Tick \/ Shutdown
    <2>1. \A k \in Loops : loop'[k].queue = loop[k].queue /\ loop'[k].live = loop[k].live
      <3>1. CASE Stamp
        BY <1>0, <3>1 DEF Stamp, EventLoops
      <3>2. CASE Schedule
        BY <1>0, <3>2 DEF Schedule, EventLoops
      <3>3. CASE Tick
        BY <1>0, <3>3 DEF Tick, EventLoops
      <3>4. CASE UNCHANGED loop
        BY <3>4
      <3> QED BY <1>14, <3>1, <3>2, <3>3, <3>4 DEF Watchdog, Probe, Overdue, Judge, Shutdown
    <2> QED BY <1>12, <1>14, <2>1 DEF Watchdog, Probe, Overdue, Stamp, Schedule, Judge, Tick, Shutdown
  <1>15. CASE UNCHANGED vars
    BY <1>12, <1>15 DEF vars
  <1> QED BY <1>2, <1>3, <1>4, <1>6, <1>7, <1>8, <1>9, <1>10, <1>11, <1>13, <1>14, <1>15
          DEF Next, Caller, Submitter, LoopStep

-----------------------------------------------------------------------------
(* Whoever is refused, somebody left without an answer *)

\* A queue holds as many tasks as there are permits before a submission is refused.
LEMMA CapCoversPermits ==
    PendingCap \in Nat /\ PendingCap >= Permits
  <1>1. CapFloor \in Nat /\ Permits \in Nat
    BY AsyncLaneAssumption
  <1> QED BY <1>1 DEF PendingCap, Max

\* The callers that hold a permit are finitely many.
LEMMA InFlightFinite ==
    ASSUME NEW S, S \subseteq Tasks
    PROVE  IsFiniteSet(S) /\ Cardinality(S) \in Nat
  <1>1. IsFiniteSet(Tasks)
    BY AsyncLaneAssumption, FS_Interval DEF Tasks
  <1>2. IsFiniteSet(S)
    BY <1>1, FS_Subset
  <1> QED BY <1>2, FS_CardinalityType

\* A full queue and the task it refuses are more than the permits: one of their callers
\* is gone, and it left without an answer.
LEMMA FullMeansGone ==
    ASSUME TypeOK, LineInv, Cardinality(InFlight) <= Permits, sub.batch # <<>>,
           NEW l \in Loops, Len(loop[l].queue) >= PendingCap
    PROVE  \E t \in Tasks : call[t] = "done" /\ answer[t] = None
  <1> DEFINE b == LoopCount + 1
             n == Permits + 1
             f == [i \in 1 .. n |-> IF i = n THEN Lines[b][1] ELSE Lines[l][i]]
  <1>1. /\ Lines \in [Places -> Seq(Tasks)] /\ b \in Places /\ l \in Places /\ l # b
        /\ Lines[b] = sub.batch /\ Lines[l] = loop[l].queue
    BY LineTypes
  <1>2. Permits \in Nat /\ Len(Lines[l]) \in Nat /\ Len(Lines[l]) >= Permits
    BY <1>1, CapCoversPermits, AsyncLaneAssumption
  <1>3. Len(Lines[b]) \in Nat /\ 1 \in 1 .. Len(Lines[b])
    BY <1>1
  <1> HIDE DEF b
  <1>4. \A i \in 1 .. n : i # n => i \in 1 .. Len(Lines[l])
    BY <1>2
  <1>5. \A i \in 1 .. n : f[i] \in Tasks /\ InLine(Lines, f[i])
    <2> SUFFICES ASSUME NEW i \in 1 .. n PROVE f[i] \in Tasks /\ InLine(Lines, f[i])
      OBVIOUS
    <2>1. CASE i = n
      BY <1>1, <1>3, <2>1, ElementOfSeq DEF InLine
    <2>2. CASE i # n
      BY <1>1, <1>4, <2>2, ElementOfSeq DEF InLine
    <2> QED BY <2>1, <2>2
  <1>6. \A i, j \in 1 .. n : f[i] = f[j] => i = j
    <2> SUFFICES ASSUME NEW i \in 1 .. n, NEW j \in 1 .. n, f[i] = f[j] PROVE i = j
      OBVIOUS
    <2>0. Once(Lines)
      BY DEF LineInv
    <2>1. CASE i = n /\ j # n
      BY <1>1, <1>3, <1>4, <2>0, <2>1 DEF Once
    <2>2. CASE i # n /\ j = n
      BY <1>1, <1>3, <1>4, <2>0, <2>2 DEF Once
    <2>3. CASE i # n /\ j # n
      BY <1>1, <1>4, <2>0, <2>3 DEF Once
    <2> QED BY <2>1, <2>2, <2>3
  <1>7. SUFFICES ASSUME \A t \in Tasks : answer[t] = None => call[t] # "done" PROVE FALSE
    OBVIOUS
  <1>8. f \in [1 .. n -> InFlight]
    <2>1. \A i \in 1 .. n : f[i] \in InFlight
      <3> HIDE DEF f
      <3> QED BY <1>5, <1>7 DEF InFlight, LineInv, Unsent
    <2> QED BY <2>1
  <1>9. IsFiniteSet(1 .. n) /\ Cardinality(1 .. n) = n
    <2>1. n \in Int /\ 1 \in Int /\ ~(1 > n) /\ n - 1 + 1 = n
      BY <1>2
    <2> HIDE DEF n
    <2> QED BY <2>1, FS_Interval
  <1>10. IsFiniteSet(InFlight) /\ Cardinality(InFlight) \in Nat
    BY InFlightFinite DEF InFlight
  <1>11. Cardinality(InFlight) < Cardinality(1 .. n)
    BY <1>2, <1>9, <1>10
  <1> HIDE DEF f, n
  <1>12. \E i, j \in 1 .. n : i # j /\ f[i] = f[j]
    BY <1>8, <1>9, <1>10, <1>11, FS_PigeonHole
  <1> QED BY <1>6, <1>12

\* Every step keeps the permits, and a caller that is gone stays gone.
LEMMA NextStarved ==
    TypeOK /\ SlotInv /\ LineInv /\ StarvedInv /\ [Next]_vars => StarvedInv'
  <1> SUFFICES ASSUME TypeOK, SlotInv, LineInv, StarvedInv, [Next]_vars PROVE StarvedInv'
    OBVIOUS
  <1> DEFINE Gone(t) == call[t] = "done" /\ answer[t] = None
  <1>0. Permits \in Nat /\ rejected \in Nat /\ call \in [Tasks -> Calls]
    BY AsyncLaneAssumption DEF TypeOK
  <1>1. \A S \in SUBSET Tasks : IsFiniteSet(S) /\ Cardinality(S) \in Nat
    BY InFlightFinite
  <1>2. InFlight \subseteq Tasks
    BY DEF InFlight
  <1>3. ASSUME NEW t \in Tasks, Caller(t) PROVE StarvedInv'
    <2>1. UNCHANGED <<answer, rejected>>
      BY <1>3 DEF Caller, Register, Send, Receive, Backstop, Cancel
    <2>2. \A u \in Tasks : call[u] = "done" => call'[u] = "done"
      BY <1>0, <1>3, TokenFresh
         DEF Caller, Register, Send, Receive, Backstop, Cancel, SlotInv
    <2>3. Cardinality(InFlight') <= Permits
      <3>1. CASE Register(t)
        <4>1. InFlight' = InFlight \cup {t}
          BY <1>0, <3>1 DEF Register, InFlight
        <4>2. Cardinality(InFlight \cup {t}) <= Cardinality(InFlight) + 1
          BY <1>1, <1>2, FS_AddElement
        <4>3. Cardinality(InFlight) < Permits
          BY <3>1 DEF Register
        <4>4. Cardinality(InFlight) \in Nat /\ Cardinality(InFlight \cup {t}) \in Nat
          BY <1>1, <1>2
        <4> QED BY <1>0, <4>1, <4>2, <4>3, <4>4
      <3>2. CASE ~Register(t)
        <4>1. InFlight' \subseteq InFlight
          BY <1>0, <1>3, <3>2 DEF Caller, Send, Receive, Backstop, Cancel, InFlight
        <4>2. Cardinality(InFlight') <= Cardinality(InFlight)
          BY <1>1, <1>2, <4>1, FS_Subset
        <4>3. Cardinality(InFlight) \in Nat /\ Cardinality(InFlight') \in Nat
          BY <1>1, <1>2, <4>1
        <4> QED BY <1>0, <4>2, <4>3 DEF StarvedInv
      <3> QED BY <3>1, <3>2
    <2> QED BY <2>1, <2>2, <2>3 DEF StarvedInv
  <1>4. ASSUME UNCHANGED <<call, rejected>>,
               \A u \in Tasks : Gone(u) => answer'[u] = None
        PROVE  StarvedInv'
    BY <1>4 DEF StarvedInv, InFlight
  <1>5. CASE Submit
    <2>1. UNCHANGED <<call, answer>>
      BY <1>5 DEF Submit
    <2>2. CASE Len(loop[sub.rr].queue) >= PendingCap
      <3>1. \E t \in Tasks : Gone(t)
        BY <1>5, <2>2, FullMeansGone DEF Submit, TypeOK, StarvedInv
      <3> QED BY <2>1, <3>1 DEF StarvedInv, InFlight
    <2>3. CASE ~(Len(loop[sub.rr].queue) >= PendingCap)
      BY <1>4, <1>5, <2>1, <2>3 DEF Submit
    <2> QED BY <2>2, <2>3
  <1>6. ASSUME NEW t \in Tasks, NEW o, Complete(t, o), UNCHANGED <<call, rejected>> PROVE StarvedInv'
    <2>1. \A u \in Tasks : Gone(u) => u \notin pending
      BY DEF SlotInv, SlotKept
    <2>2. \A u \in Tasks : Gone(u) => answer'[u] = None
      BY <1>6, <2>1, CompleteAnswers
    <2> QED BY <1>4, <1>6, <2>2
  <1>7. CASE FailPending
    <2>1. PICK f \in sub.failed : Complete(f[1], f[2])
      BY <1>7 DEF FailPending
    <2>2. f[1] \in Tasks
      BY DEF TypeOK
    <2> QED BY <1>6, <1>7, <2>1, <2>2 DEF FailPending
  <1>8. ASSUME NEW l \in Loops, NEW t \in Tasks, Arun(l, t) PROVE StarvedInv'
    <2>1. PICK e \in Endings : Complete(t, OutcomeFromPy(ShimReply(e)))
      BY <1>8 DEF Arun
    <2> QED BY <1>6, <1>8, <2>1 DEF Arun
  <1>9. CASE Recv \/ RefuseArgs \/ Wake
    BY <1>4, <1>9 DEF Recv, RefuseArgs, Wake
  <1>10. ASSUME UNCHANGED laneVars PROVE StarvedInv'
    BY <1>4, <1>10 DEF laneVars
  <1>11. ASSUME NEW l \in Loops, Drain(l) \/ Unblock(l) \/ Ack(l) \/ \E t \in Tasks : Block(l, t)
         PROVE  StarvedInv'
    BY <1>10, <1>11 DEF Drain, Unblock, Ack, Block
  <1>12. CASE Watchdog \/ Tick \/ Shutdown \/ UNCHANGED vars
    BY <1>10, <1>12
       DEF Watchdog, Probe, Overdue, Stamp, Schedule, Judge, Tick, Shutdown, vars
  <1> QED BY <1>3, <1>5, <1>7, <1>8, <1>9, <1>11, <1>12 DEF Next, Submitter, LoopStep

-----------------------------------------------------------------------------
(* Theorems *)

\* No task, no submission, no stamp.
LEMMA InitHolds == Init => IInv
  <1> SUFFICES ASSUME Init PROVE IInv
    OBVIOUS
  <1>1. TypeOK
    BY InitTypes
  <1>2. SlotInv
    <2>1. 0 \in 0 .. MaxToken /\ \A t \in Tasks : call[t] = "new" <=> t > 0
      BY AsyncLaneAssumption DEF Init, Tasks
    <2>2. TokensInOrder
      BY <2>1, Zenon DEF TokensInOrder
    <2> QED BY <2>2 DEF Init, SlotInv, SlotKept
  <1>3. NoLostWakeup /\ StampAnswerable
    BY DEF Init, NoLostWakeup, StampAnswerable, NewLoop
  <1>4. WedgeInv
    <2>1. /\ dog.at = "sleep" /\ dog.rejectedAge = None
          /\ \A l \in Loops : dog.since[l] = None /\ dog.seen[l] = 0 /\ loop[l].done = 0
      BY DEF Init, NewDog, NewLoop
    <2> QED BY <2>1 DEF Init, WedgeInv, WatchHonest, BeatHonest, Read, ProgressProtects
  <1>5. LineInv
    <2>1. \A p \in Places : Lines[p] = <<>>
      <3>1. \A p \in Places : p # 0 /\ p # LoopCount + 1 => p \in Loops
        BY AsyncLaneAssumption DEF Places, Loops
      <3> QED BY <3>1 DEF Init, Lines, NewLoop, NewSubmitter
    <2>2. Once(Lines) /\ \A t \in Tasks : ~InLine(Lines, t)
      BY <2>1 DEF Once, InLine
    <2>3. \A t \in Tasks : answer[t] = None /\ ~Begun(t)
      BY DEF Init, Begun, NewLoop, NewSubmitter
    <2> QED BY <2>2, <2>3 DEF LineInv
  <1>6. StarvedInv
    <2>1. InFlight = {}
      BY DEF Init, InFlight
    <2>2. Cardinality({}) = 0 /\ Permits \in Nat
      BY AsyncLaneAssumption, FS_EmptySet
    <2> QED BY <2>1, <2>2 DEF Init, StarvedInv
  <1> QED BY <1>1, <1>2, <1>3, <1>4, <1>5, <1>6 DEF IInv

\* The inductive invariant of the lane and its watchdog (pyrt.rs, shim.py, wedge_loop).
THEOREM InvariantHolds == Spec => []IInv
  <1>1. IInv /\ [Next]_vars => IInv'
    BY NextTypes, NextSlots, NextWakeups, NextStamps, NextWedge, NextLines, NextStarved DEF IInv
  <1> QED BY InitHolds, <1>1, PTL DEF Spec

\* A waiting caller has an answer or a slot that can still get one, and no slot outlives
\* its caller (queue_submit, cancel and the completion callback), for any number of tasks.
THEOREM SlotsKept == Spec => []SlotKept
  <1>1. IInv => SlotKept
    BY DEF IInv, SlotInv
  <1> QED BY <1>1, InvariantHolds, PTL

\* A queued submission has a _drain scheduled or about to be (submit_async).
THEOREM WakeupsKept == Spec => []NoLostWakeup
  <1>1. IInv => NoLostWakeup
    BY DEF IInv
  <1> QED BY <1>1, InvariantHolds, PTL

\* A stamp that is out can be answered (heartbeat and _hb_ack).
THEOREM StampsAnswerable == Spec => []StampAnswerable
  <1>1. IInv => StampAnswerable
    BY DEF IInv
  <1> QED BY <1>1, InvariantHolds, PTL

\* wedge_confirmed never ends the process for a loop that finishes tasks, unless
\* submissions were refused within the window, for any window and any number of loops.
THEOREM ProgressIsProtected == Spec => []ProgressProtects
  <1>1. IInv => ProgressProtects
    BY DEF IInv, WedgeInv
  <1> QED BY <1>1, InvariantHolds, PTL

\* submit_async refuses nothing while every caller so far got an answer in time, however
\* many loops share the io slots (start_loops raises the cap to them).
THEOREM RefusalsMeanStarvation == Spec => []RejectedOnlyIfStarved
  <1>1. IInv => RejectedOnlyIfStarved
    BY DEF IInv, StarvedInv, RejectedOnlyIfStarved
  <1> QED BY <1>1, InvariantHolds, PTL

=============================================================================
