---------------------------- MODULE CpuPoolProofs ---------------------------
(***************************************************************************)
(* The cpu lane proved for any number of jobs, slots and children, any     *)
(* concurrency, prefetch and recycle budget: every request has one owner,  *)
(* the count of idle slots is exact, what has a deadline can run, and the  *)
(* recycle budget is never exceeded.                                       *)
(***************************************************************************)
EXTENDS CpuPool, FiniteSetTheorems, SequenceTheorems, TLAPS

ChildRecord == [state : ChildStates, inbox : Seq(Jobs), running : SUBSET Jobs, out : SUBSET Jobs]

SlotRecord == [at : Places, kid : Children \cup {None}, idle : BOOLEAN, admit : BOOLEAN,
               write : Jobs \cup {None}, order : Seq(Jobs), armed : SUBSET Jobs,
               completed : Nat]

\* TypeOK without the bound on the count, which follows from IdleExact.
Types ==
    /\ backlog \in Seq(Jobs) /\ Len(backlog) <= Capacity
    /\ outcome \in [Jobs -> Outcomes]
    /\ forks \in Nat /\ parent \in BOOLEAN
    /\ child \in [Children -> ChildRecord]
    /\ slot \in [Slots -> SlotRecord]
    /\ count \in Int
    /\ started \subseteq Jobs /\ faults \in 0 .. MaxFaults

Serving(s) == slot[s].at \notin {"ask", "await"}

Injective(q) == \A i, k \in 1 .. Len(q) : q[i] = q[k] => i = k

Prefix(q, n) == {q[i] : i \in {k \in 1 .. Len(q) : k <= n}}

\* Every waiting request has one owner: the channel, or one slot.
Owned ==
    /\ Injective(backlog)
    /\ \A i \in 1 .. Len(backlog) :
          outcome[backlog[i]] = "wait" /\ \A s \in Slots : backlog[i] \notin Held(s)
    /\ \A s \in Slots : \A j \in Held(s) : outcome[j] = "wait"
    /\ \A s, u \in Slots : \A j \in Jobs : j \in Held(s) /\ j \in Held(u) => s = u
    /\ \A j \in Jobs : outcome[j] = "wait" =>
          \/ \E i \in 1 .. Len(backlog) : backlog[i] = j
          \/ \E s \in Slots : j \in Held(s)

\* The locals of a slot: nothing before it serves, distinct requests, a deadline for the
\* oldest Concurrency of them, and the recycle budget.
SlotSound(r) ==
    /\ r.at \in {"ask", "await"} =>
          r.idle = TRUE /\ r.order = <<>> /\ r.write = None /\ r.armed = {} /\ r.completed = 0
    /\ Injective(r.order)
    /\ \A i \in 1 .. Len(r.order) : r.order[i] # r.write
    /\ r.armed = Prefix(r.order, Concurrency)
    /\ Recycle > 0 => /\ r.completed + Len(r.order) <= Recycle
                      /\ r.write # None => r.completed + Len(r.order) < Recycle

SlotsSound == \A s \in Slots : SlotSound(slot[s])

\* The child has begun the oldest of what the slot has pending, in order, and the rest
\* is in its socket.
Linked(r, k, begun) ==
    /\ k.state \in {"up", "dead"}
    /\ k.state = "dead" => \A j \in k.out : \E i \in 1 .. Len(r.order) : r.order[i] = j
    /\ k.state = "up" =>
          /\ Len(k.inbox) <= Len(r.order)
          /\ \A i \in 1 .. Len(k.inbox) : k.inbox[i] = r.order[Len(r.order) - Len(k.inbox) + i]
          /\ \A j \in k.running \cup k.out :
                \E i \in 1 .. Len(r.order) - Len(k.inbox) : r.order[i] = j
          /\ \A i \in 1 .. Len(r.order) - Len(k.inbox) : r.order[i] \in begun
          /\ \A j \in k.running : j \notin k.out

ChildSound(k) ==
    /\ k.state # "up" => k.inbox = <<>> /\ k.running = {}
    /\ k.state \notin {"up", "dead"} => k.out = {}

Links ==
    /\ \A c \in Children : ChildSound(child[c])
    /\ \A s \in Slots : Serving(s) => slot[s].kid \in Children /\ Linked(slot[s], Kid(s), started)
    /\ \A s, u \in Slots : Serving(s) /\ Serving(u) /\ slot[s].kid = slot[u].kid => s = u

-----------------------------------------------------------------------------
(* Facts about sequences and the operators *)

\* A sequence without one of its elements (order.retain).
LEMMA RemoveAtFacts ==
    ASSUME NEW S, NEW q \in Seq(S), NEW p \in 1 .. Len(q)
    PROVE  /\ RemoveAt(q, p) \in Seq(S)
           /\ Len(RemoveAt(q, p)) = Len(q) - 1
           /\ \A i \in 1 .. Len(q) - 1 : RemoveAt(q, p)[i] = IF i < p THEN q[i] ELSE q[i + 1]
  <1> DEFINE a == SubSeq(q, 1, p - 1)
             b == SubSeq(q, p + 1, Len(q))
  <1>0. p \in Nat /\ p >= 1 /\ p <= Len(q) /\ Len(q) \in Nat
    OBVIOUS
  <1>1. /\ a \in Seq(S) /\ Len(a) = p - 1 /\ \A i \in 1 .. p - 1 : a[i] = q[i]
    BY <1>0
  <1>2. /\ b \in Seq(S) /\ Len(b) = Len(q) - p /\ \A i \in 1 .. Len(q) - p : b[i] = q[p + i]
    BY <1>0
  <1>3. RemoveAt(q, p) = a \o b
    BY DEF RemoveAt
  <1> HIDE DEF a, b
  <1>4. /\ a \o b \in Seq(S) /\ Len(a \o b) = Len(q) - 1
        /\ \A i \in 1 .. Len(q) - 1 : (a \o b)[i] = IF i < p THEN a[i] ELSE b[i - (p - 1)]
    <2>1. a \o b \in Seq(S) /\ Len(a \o b) = Len(a) + Len(b)
      BY <1>1, <1>2, ConcatProperties
    <2>2. \A i \in 1 .. Len(a) + Len(b) : (a \o b)[i] = IF i <= Len(a) THEN a[i] ELSE b[i - Len(a)]
      BY <1>1, <1>2, ConcatProperties
    <2> QED BY <1>0, <1>1, <1>2, <2>1, <2>2
  <1>5. ASSUME NEW i \in 1 .. Len(q) - 1
        PROVE  (a \o b)[i] = IF i < p THEN q[i] ELSE q[i + 1]
    <2>1. CASE i < p
      BY <1>0, <1>1, <1>4, <2>1
    <2>2. CASE ~(i < p)
      <3>1. i - (p - 1) \in 1 .. Len(q) - p
        BY <1>0, <2>2
      <3>2. b[i - (p - 1)] = q[p + (i - (p - 1))] /\ p + (i - (p - 1)) = i + 1
        BY <1>0, <1>2, <3>1
      <3> QED BY <1>0, <1>4, <2>2, <3>2
    <2> QED BY <2>1, <2>2
  <1> QED BY <1>3, <1>4, <1>5

\* A sequence without its head.
LEMMA TailFacts ==
    ASSUME NEW S, NEW q \in Seq(S), q # <<>>
    PROVE  /\ Len(q) >= 1 /\ Head(q) = q[1] /\ Head(q) \in S
           /\ Tail(q) \in Seq(S) /\ Len(Tail(q)) = Len(q) - 1
           /\ \A i \in 1 .. Len(q) - 1 : Tail(q)[i] = q[i + 1]
  OBVIOUS

\* What has begun is as many requests as there are places for it.
LEMMA PrefixSize ==
    ASSUME NEW S, NEW q \in Seq(S), Injective(q), NEW n \in Nat, n <= Len(q)
    PROVE  IsFiniteSet(Prefix(q, n)) /\ Cardinality(Prefix(q, n)) = n
  <1> DEFINE f == [i \in 1 .. n |-> q[i]]
             T == Prefix(q, n)
  <1>1. \A i \in 1 .. n : i \in 1 .. Len(q)
    OBVIOUS
  <1>2. T = {q[i] : i \in 1 .. n}
    BY <1>1 DEF Prefix
  <1>3. f \in [1 .. n -> T] /\ \A t \in T : \E i \in 1 .. n : f[i] = t
    BY <1>2
  <1>4. \A i, k \in 1 .. n : f[i] = f[k] => i = k
    BY <1>1 DEF Injective
  <1> HIDE DEF f, T
  <1>5. f \in Bijection(1 .. n, T)
    BY <1>3, <1>4 DEF Bijection, Injection, Surjection, IsInjective
  <1>6. IsFiniteSet(1 .. n) /\ Cardinality(1 .. n) = n
    BY FS_Interval
  <1> QED BY <1>5, <1>6, FS_Bijection DEF ExistsBijection, T

\* arm_started: when the oldest n requests have a deadline, and n is within the
\* concurrency, it gives one to the oldest Concurrency.
LEMMA ArmOldest ==
    ASSUME NEW q \in Seq(Jobs), Injective(q), NEW n \in Nat, n <= Len(q), n <= Concurrency
    PROVE  ArmStarted(q, Prefix(q, n)) = Prefix(q, Concurrency)
  <1> DEFINE A == Prefix(q, n)
  <1>1. Cardinality(A) = n /\ Concurrency \in Nat
    BY PrefixSize, CpuPoolAssumption
  <1>2. \A i \in 1 .. Len(q) : q[i] \in A <=> i <= n
    BY DEF Prefix, Injective
  <1> HIDE DEF A
  <1>3. ASSUME NEW i \in 1 .. Len(q), i > n
        PROVE  Cardinality({k \in 1 .. i : q[k] \notin A}) = i - n
    <2>1. {k \in 1 .. i : q[k] \notin A} = n + 1 .. i
      BY <1>2, <1>3
    <2>2. n + 1 \in Int /\ i \in Int /\ ~(n + 1 > i) /\ i - (n + 1) + 1 = i - n
      BY <1>3
    <2>3. Cardinality(n + 1 .. i) = i - (n + 1) + 1
      BY <2>2, FS_Interval
    <2> QED BY <2>1, <2>2, <2>3
  <1>4. ASSUME NEW i \in 1 .. Len(q)
        PROVE  NextToArm(q, A, i, Concurrency - Cardinality(A)) <=> i > n /\ i <= Concurrency
    BY <1>1, <1>2, <1>3 DEF NextToArm
  <1>5. A = {q[i] : i \in {k \in 1 .. Len(q) : k <= n}}
    BY DEF A, Prefix
  <1>6. ArmStarted(q, A) = {q[i] : i \in {k \in 1 .. Len(q) : k <= Concurrency}}
    <2> DEFINE N == {k \in 1 .. Len(q) : NextToArm(q, A, k, Concurrency - Cardinality(A))}
    <2>1. N = {k \in 1 .. Len(q) : k > n /\ k <= Concurrency}
      BY <1>4
    <2>2. ArmStarted(q, A) = A \cup {q[i] : i \in N}
      BY DEF ArmStarted
    <2> HIDE DEF N
    <2>3. \A k \in 1 .. Len(q) : k <= Concurrency <=> k <= n \/ k \in N
      BY <1>1, <2>1
    <2> QED BY <1>5, <2>1, <2>2, <2>3
  <1> QED BY <1>6 DEF A, Prefix

\* The requests of a slot, in the channel's terms.
LEMMA HeldIs ==
    ASSUME NEW r \in SlotRecord, NEW j
    PROVE  j \in ToSet(r.order) \cup ({r.write} \ {None})
             <=> j \in Jobs /\ (r.write = j \/ \E i \in 1 .. Len(r.order) : r.order[i] = j)
  BY CpuPoolAssumption DEF SlotRecord, ToSet

\* ArmStarted arms requests of the slot.
LEMMA ArmType ==
    ASSUME NEW q \in Seq(Jobs), NEW A \in SUBSET Jobs
    PROVE  ArmStarted(q, A) \in SUBSET Jobs
  BY DEF ArmStarted

-----------------------------------------------------------------------------
(* Types *)

\* The types under the steps of a slot.
LEMMA SlotTypes ==
    ASSUME Types, Links, NEW s \in Slots, SlotStep(s)
    PROVE  Types'
  <1>1. /\ slot[s] \in SlotRecord /\ slot \in [Slots -> SlotRecord] /\ Len(backlog) \in Nat
        /\ child \in [Children -> ChildRecord] /\ Capacity \in Nat
        /\ Serving(s) => slot[s].kid \in Children
    <2>1. Cardinality(Slots) \in Nat /\ Concurrency \in Nat
      BY CpuPoolAssumption, FS_CardinalityType
    <2>2. Capacity \in Nat
      BY <2>1 DEF Capacity
    <2> QED BY <2>2 DEF Types, Links
  \* A slot that changes its locals only.
  <1>2. ASSUME NEW r \in SlotRecord, slot' = [slot EXCEPT ![s] = r]
        PROVE  slot' \in [Slots -> SlotRecord]
    BY <1>1, <1>2
  <1>3. CASE Ask(s)
    <2>1. slot' = [slot EXCEPT ![s] = [slot[s] EXCEPT !.at = "await"]] /\ forks' = forks + 1
      BY <1>3 DEF Ask
    <2>2. [slot[s] EXCEPT !.at = "await"] \in SlotRecord
      BY <1>1 DEF SlotRecord, Places
    <2> QED BY <1>2, <1>3, <2>1, <2>2 DEF Ask, Types
  <1>4. CASE ForkWait(s)
    <2>1. slot' = [slot EXCEPT ![s] = [slot[s] EXCEPT !.at = "ask"]]
      BY <1>4 DEF ForkWait
    <2>2. [slot[s] EXCEPT !.at = "ask"] \in SlotRecord
      BY <1>1 DEF SlotRecord, Places
    <2> QED BY <1>2, <1>4, <2>1, <2>2 DEF ForkWait, Types, poolVars
  <1>5. CASE Connect(s)
    <2>1. PICK c \in InState({"ready", "stale"}) :
            /\ child' = [child EXCEPT ![c].state = IF @ = "ready" THEN "up" ELSE "dead"]
            /\ slot' = [slot EXCEPT ![s] = [NoServe EXCEPT !.at = "top", !.kid = c]]
      BY <1>5 DEF Connect
    <2>2. c \in Children /\ child[c] \in ChildRecord
      BY <1>1 DEF InState
    <2>3. [NoServe EXCEPT !.at = "top", !.kid = c] \in SlotRecord
      <3>1. NoServe \in SlotRecord
        BY DEF NoServe, SlotRecord, Places
      <3> QED BY <2>2, <3>1 DEF SlotRecord, Places
    <2>4. child' \in [Children -> ChildRecord]
      BY <1>1, <2>1, <2>2 DEF ChildRecord, ChildStates
    <2> QED BY <1>2, <1>5, <2>1, <2>3, <2>4 DEF Connect, Types, poolVars
  <1>6. CASE Recount(s)
    <2> DEFINE now == Cardinality(Held(s)) < Concurrency
               left == slot[s].idle /\ ~now
    <2>1. slot' = [u \in Slots |->
                      IF u = s THEN [slot[s] EXCEPT !.at = "load", !.idle = now]
                      ELSE IF left /\ Listening(slot[u]) THEN [slot[u] EXCEPT !.at = "top"]
                      ELSE slot[u]]
      BY <1>6 DEF Recount
    <2>2. now \in BOOLEAN
      OBVIOUS
    <2> HIDE DEF now
    <2>3. [slot[s] EXCEPT !.at = "load", !.idle = now] \in SlotRecord
      BY <1>1, <2>2 DEF SlotRecord, Places
    <2>4. \A u \in Slots : [slot[u] EXCEPT !.at = "top"] \in SlotRecord
      BY <1>1 DEF SlotRecord, Places
    <2>5. slot' \in [Slots -> SlotRecord]
      BY <1>1, <2>1, <2>3, <2>4
    <2>6. count' \in Int
      BY <1>6 DEF Recount, Types
    <2> QED BY <1>6, <2>5, <2>6 DEF Recount, Types
  <1>7. CASE LoadIdle(s)
    <2> DEFINE may == (slot[s].idle \/ count = 0)
               r == [slot[s] EXCEPT !.admit = may, !.at = IF may THEN "select" ELSE "arm"]
    <2>1. slot' = [slot EXCEPT ![s] = r]
      BY <1>7 DEF LoadIdle
    <2>2. may \in BOOLEAN
      OBVIOUS
    <2> HIDE DEF may
    <2>3. r \in SlotRecord
      BY <1>1, <2>2 DEF SlotRecord, Places
    <2> QED BY <1>2, <1>7, <2>1, <2>3 DEF LoadIdle, Types, poolVars
  <1>8. CASE Listen(s)
    <2>1. slot' = [slot EXCEPT ![s] = [slot[s] EXCEPT !.at = "select"]]
      BY <1>8 DEF Listen
    <2>2. [slot[s] EXCEPT !.at = "select"] \in SlotRecord
      BY <1>1 DEF SlotRecord, Places
    <2> QED BY <1>2, <1>8, <2>1, <2>2 DEF Listen, Types, poolVars
  <1>9. CASE Take(s)
    <2>1. /\ slot' = [slot EXCEPT ![s] = [slot[s] EXCEPT !.write = Head(backlog), !.at = "top"]]
          /\ backlog' = Tail(backlog) /\ backlog # <<>>
      BY <1>9 DEF Take
    <2>2. /\ backlog' \in Seq(Jobs) /\ Len(backlog') = Len(backlog) - 1
          /\ Head(backlog) \in Jobs
      BY <2>1, TailFacts DEF Types
    <2>3. [slot[s] EXCEPT !.write = Head(backlog), !.at = "top"] \in SlotRecord
      BY <1>1, <2>2 DEF SlotRecord, Places
    <2>4. Len(backlog') <= Capacity
      BY <1>1, <2>2 DEF Types
    <2> QED BY <1>2, <1>9, <2>1, <2>2, <2>3, <2>4 DEF Take, Types
  <1>10. CASE Write(s)
    <2> DEFINE w == slot[s].write
               order == Append(slot[s].order, w)
               armed == ArmStarted(order, slot[s].armed)
               r == [slot[s] EXCEPT !.write = None, !.at = "top", !.order = order, !.armed = armed]
               c == slot[s].kid
               k == [child[c] EXCEPT !.inbox = Append(child[c].inbox, w)]
    <2>1. slot' = [slot EXCEPT ![s] = r] /\ child' = [child EXCEPT ![c] = k] /\ w # None
      BY <1>10 DEF Write
    <2>2. c \in Children /\ w \in Jobs /\ slot[s].order \in Seq(Jobs) /\ slot[s].armed \in SUBSET Jobs
      BY <1>1, <1>10, <2>1 DEF Write, Serving, SlotRecord
    <2>3. child[c] \in ChildRecord /\ child[c].inbox \in Seq(Jobs)
      BY <1>1, <2>2 DEF ChildRecord
    <2>4. order \in Seq(Jobs) /\ Append(child[c].inbox, w) \in Seq(Jobs)
      BY <2>2, <2>3
    <2> HIDE DEF order
    <2>5. armed \in SUBSET Jobs
      BY <2>2, <2>4, ArmType
    <2> HIDE DEF armed
    <2>6. r \in SlotRecord
      BY <1>1, <2>4, <2>5 DEF SlotRecord, Places
    <2>7. k \in ChildRecord
      BY <2>3, <2>4 DEF ChildRecord
    <2> HIDE DEF r, k
    <2>8. child' \in [Children -> ChildRecord]
      BY <1>1, <2>1, <2>7
    <2> QED BY <1>2, <1>10, <2>1, <2>6, <2>8 DEF Write, Types, poolVars
  <1>11. ASSUME NEW E, NEW A, Leave(s, E, A) PROVE Types'
    <2>1. NoServe \in SlotRecord /\ NoChild \in ChildRecord
      BY DEF NoServe, NoChild, SlotRecord, ChildRecord, Places, ChildStates
    <2>2. child' \in [Children -> ChildRecord]
      BY <1>1, <1>11, <2>1 DEF Leave
    <2>3. outcome' \in [Jobs -> Outcomes]
      BY <1>11 DEF Leave, Types, Outcomes
    <2>4. count' \in Int
      BY <1>11 DEF Leave, Types
    <2>5. slot' \in [Slots -> SlotRecord]
      BY <1>1, <1>11, <2>1 DEF Leave
    <2> QED BY <1>11, <2>2, <2>3, <2>4, <2>5 DEF Leave, Types
  <1>12. CASE Respond(s)
    <2>1. PICK i \in 1 .. Len(slot[s].order) : Respond(s)!2!(i)
      BY <1>12 DEF Respond
    <2> DEFINE j == slot[s].order[i]
               order == RemoveAt(slot[s].order, i)
               armed == ArmStarted(order, slot[s].armed \ {j})
               n == slot[s].completed + 1
               r == [slot[s] EXCEPT !.at = "top", !.order = order, !.armed = armed, !.completed = n]
               c == slot[s].kid
               k == [child[c] EXCEPT !.out = child[c].out \ {j}]
    <2>2. CASE Leave(s, {}, {j})
      BY <1>11, <2>2
    <2>3. CASE ~Leave(s, {}, {j})
      <3>1. /\ slot' = [slot EXCEPT ![s] = r] /\ child' = [child EXCEPT ![c] = k]
            /\ outcome' = [outcome EXCEPT ![j] = "resp"]
            /\ UNCHANGED <<poolVars, started>>
        BY <2>1, <2>3
      <3>2. /\ c \in Children /\ j \in Jobs /\ slot[s].order \in Seq(Jobs)
            /\ slot[s].armed \in SUBSET Jobs /\ n \in Nat
        BY <1>1, <1>12 DEF Respond, Serving, SlotRecord
      <3>3. order \in Seq(Jobs) /\ slot[s].armed \ {j} \in SUBSET Jobs
        BY <3>2, RemoveAtFacts
      <3> HIDE DEF order
      <3>4. armed \in SUBSET Jobs
        BY <3>3, ArmType
      <3> HIDE DEF armed, n
      <3>5. r \in SlotRecord
        BY <1>1, <3>2, <3>3, <3>4 DEF SlotRecord, Places
      <3>6. k \in ChildRecord
        BY <1>1, <3>2 DEF ChildRecord
      <3> HIDE DEF r, k
      <3>7. child' \in [Children -> ChildRecord]
        BY <1>1, <3>1, <3>6
      <3>8. outcome' \in [Jobs -> Outcomes]
        BY <3>1 DEF Types, Outcomes
      <3> QED BY <1>2, <3>1, <3>5, <3>7, <3>8 DEF Types, poolVars
    <2> QED BY <2>2, <2>3
  <1>13. CASE Exited(s) \/ HardTimeout(s) \/ Wedged(s)
    BY <1>11, <1>13 DEF Exited, HardTimeout, Wedged
  <1> QED BY <1>3, <1>4, <1>5, <1>6, <1>7, <1>8, <1>9, <1>10, <1>12, <1>13 DEF SlotStep

\* The types under the steps of the callers, the parent and the children.
LEMMA OtherTypes ==
    ASSUME Types,
           \/ \E j \in Jobs : Send(j)
           \/ \E c \in Children : Fork(c) \/ ChildStep(c)
           \/ ParentDies \/ RespawnParent \/ UNCHANGED vars
    PROVE  Types'
  <1>1. child \in [Children -> ChildRecord] /\ Capacity \in Nat /\ MaxFaults \in Nat
    <2>1. Cardinality(Slots) \in Nat /\ Concurrency \in Nat
      BY CpuPoolAssumption, FS_CardinalityType
    <2>2. Capacity \in Nat
      BY <2>1 DEF Capacity
    <2> QED BY <2>2, CpuPoolAssumption DEF Types
  <1>2. ASSUME NEW c \in Children, NEW k \in ChildRecord, child' = [child EXCEPT ![c] = k]
        PROVE  child' \in [Children -> ChildRecord]
    BY <1>1, <1>2
  <1>3. Fault => faults' \in 0 .. MaxFaults
    BY <1>1 DEF Fault, Types
  <1>4. ASSUME NEW c \in Children PROVE Remains(child[c]) \in ChildRecord
    <2>1. child[c] \in ChildRecord /\ NoChild \in ChildRecord
      BY <1>1 DEF NoChild, ChildRecord, ChildStates
    <2>2. [child[c] EXCEPT !.state = "stale"] \in ChildRecord
      BY <2>1 DEF ChildRecord, ChildStates
    <2>3. [child[c] EXCEPT !.state = "dead", !.inbox = <<>>, !.running = {}] \in ChildRecord
      <3>1. <<>> \in Seq(Jobs) /\ {} \in SUBSET Jobs
        OBVIOUS
      <3> QED BY <2>1, <3>1 DEF ChildRecord, ChildStates
    <2> QED BY <2>1, <2>2, <2>3 DEF Remains
  <1>5. ASSUME NEW j \in Jobs, Send(j) PROVE Types'
    <2>1. /\ backlog' = Append(backlog, j) /\ Len(backlog) < Capacity /\ Len(backlog) \in Nat
          /\ outcome' = [outcome EXCEPT ![j] = "wait"]
      BY <1>5 DEF Send, Types
    <2>2. backlog' \in Seq(Jobs) /\ Len(backlog') = Len(backlog) + 1
      BY <2>1 DEF Types
    <2>3. Len(backlog') <= Capacity
      BY <1>1, <2>1, <2>2
    <2>4. outcome' \in [Jobs -> Outcomes]
      BY <2>1 DEF Types, Outcomes
    <2> QED BY <1>5, <2>2, <2>3, <2>4 DEF Send, Types
  <1>6. ASSUME NEW c \in Children, Fork(c) PROVE Types'
    <2>1. child' = [child EXCEPT ![c] = [child[c] EXCEPT !.state = "forked"]]
      BY <1>6 DEF Fork
    <2>2. [child[c] EXCEPT !.state = "forked"] \in ChildRecord
      BY <1>1 DEF ChildRecord, ChildStates
    <2>3. forks' \in Nat
      BY <1>6 DEF Fork, Types
    <2> QED BY <1>2, <1>6, <2>1, <2>2, <2>3 DEF Fork, Types
  <1>7. ASSUME NEW c \in Children, Handshake(c) PROVE Types'
    <2>1. child' = [child EXCEPT ![c] = [child[c] EXCEPT !.state = "ready"]]
      BY <1>7 DEF Handshake
    <2>2. [child[c] EXCEPT !.state = "ready"] \in ChildRecord
      BY <1>1 DEF ChildRecord, ChildStates
    <2> QED BY <1>2, <1>7, <2>1, <2>2 DEF Handshake, Types, poolVars
  <1>8. ASSUME NEW c \in Children, HandshakeFails(c) PROVE Types'
    <2>1. NoChild \in ChildRecord
      BY DEF NoChild, ChildRecord, ChildStates
    <2> QED BY <1>2, <1>3, <1>8, <2>1 DEF HandshakeFails, Types
  <1>9. ASSUME NEW c \in Children, ChildDies(c) PROVE Types'
    BY <1>2, <1>3, <1>4, <1>9 DEF ChildDies, Types
  <1>10. ASSUME NEW c \in Children, Begin(c) PROVE Types'
    <2> DEFINE q == child[c].inbox
               k == [child[c] EXCEPT !.inbox = Tail(q), !.running = child[c].running \cup {Head(q)}]
    <2>1. child' = [child EXCEPT ![c] = k] /\ q # <<>> /\ started' = started \cup {Head(q)}
      BY <1>10 DEF Begin
    <2>2. child[c] \in ChildRecord /\ q \in Seq(Jobs) /\ child[c].running \in SUBSET Jobs
      BY <1>1 DEF ChildRecord
    <2>3. Tail(q) \in Seq(Jobs) /\ Head(q) \in Jobs
      BY <2>1, <2>2, TailFacts
    <2>4. k \in ChildRecord
      BY <2>2, <2>3 DEF ChildRecord
    <2> HIDE DEF k, q
    <2> QED BY <1>2, <1>10, <2>1, <2>3, <2>4 DEF Begin, Types, poolVars
  <1>11. ASSUME NEW c \in Children, NEW j \in Jobs, Answer(c, j) \/ AnswerLost(c, j) PROVE Types'
    <2>1. child[c] \in ChildRecord
      BY <1>1
    <2>2. CASE Answer(c, j)
      <3>1. child' = [child EXCEPT ![c] =
                       [child[c] EXCEPT !.running = child[c].running \ {j}, !.out = child[c].out \cup {j}]]
        BY <2>2 DEF Answer
      <3>2. [child[c] EXCEPT !.running = child[c].running \ {j}, !.out = child[c].out \cup {j}]
              \in ChildRecord
        BY <2>1 DEF ChildRecord
      <3> QED BY <1>2, <2>2, <3>1, <3>2 DEF Answer, Types, poolVars
    <2>3. CASE AnswerLost(c, j)
      <3>1. child' = [child EXCEPT ![c] = [child[c] EXCEPT !.running = child[c].running \ {j}]]
        BY <2>3 DEF AnswerLost
      <3>2. [child[c] EXCEPT !.running = child[c].running \ {j}] \in ChildRecord
        BY <2>1 DEF ChildRecord
      <3> QED BY <1>2, <1>3, <2>3, <3>1, <3>2 DEF AnswerLost, Types
    <2> QED BY <1>11, <2>2, <2>3
  <1>12. CASE ParentDies
    <2>1. child' \in [Children -> ChildRecord] /\ parent' \in BOOLEAN
      BY <1>4, <1>12 DEF ParentDies
    <2> QED BY <1>3, <1>12, <2>1 DEF ParentDies, Types
  <1>13. CASE RespawnParent \/ UNCHANGED vars
    BY <1>13 DEF RespawnParent, Types, vars
  <1> QED BY <1>5, <1>6, <1>7, <1>8, <1>9, <1>10, <1>11, <1>12, <1>13 DEF ChildStep

\* The types under every step.
LEMMA NextTypes == Types /\ Links /\ [Next]_vars => Types'
  BY SlotTypes, OtherTypes DEF Next

-----------------------------------------------------------------------------
(* Owners, slots and children *)

Sound == Owned /\ SlotsSound /\ Links

\* What a step of its loop that moves no request leaves of a slot.
Kept(r, q) ==
    /\ r.order = q.order /\ r.write = q.write /\ r.armed = q.armed
    /\ r.completed = q.completed /\ r.kid = q.kid
    /\ r.at \in {"ask", "await"} <=> q.at \in {"ask", "await"}
    /\ r.at \in {"ask", "await"} => r.idle = q.idle

\* Steps that move no request.
LEMMA QuietKeeps ==
    ASSUME Types, Sound, UNCHANGED <<backlog, outcome, child, started>>,
           \A u \in Slots : Kept(slot'[u], slot[u])
    PROVE  Sound'
  <1>1. \A u \in Slots : Held(u)' = Held(u)
    BY DEF Held, Pending, Kept
  <1>2. Owned'
    BY <1>1 DEF Sound, Owned
  <1>3. SlotsSound'
    BY DEF Sound, SlotsSound, SlotSound, Kept
  <1>4. ASSUME NEW u \in Slots PROVE Serving(u)' <=> Serving(u)
    BY DEF Serving, Kept
  <1>5. ASSUME NEW u \in Slots, Serving(u)
        PROVE  slot'[u].kid \in Children /\ Linked(slot[u], Kid(u), started)'
    <2>1. slot[u].kid \in Children /\ Linked(slot[u], Kid(u), started)
      BY <1>5 DEF Sound, Links
    <2>2. slot'[u].order = slot[u].order /\ slot'[u].kid = slot[u].kid /\ Kid(u)' = Kid(u)
      BY DEF Kept, Kid
    <2>3. Linked(slot'[u], Kid(u)', started')
      BY <2>1, <2>2 DEF Linked
    <2> QED BY <2>1, <2>2, <2>3
  <1>7. Links'
    BY <1>4, <1>5 DEF Sound, Links, Kept
  <1> QED BY <1>2, <1>3, <1>7 DEF Sound

\* Steps of the children and their parent: the slots keep what they hold.
LEMMA ChildKeeps ==
    ASSUME Types, Sound, UNCHANGED <<backlog, outcome, slot>>,
           \A c \in Children : ChildSound(child'[c]),
           \A u \in Slots : Serving(u) => Linked(slot[u], Kid(u), started)'
    PROVE  Sound'
  <1>1. Owned'
    BY DEF Sound, Owned, Held, Pending
  <1>2. SlotsSound'
    BY DEF Sound, SlotsSound
  <1>3. Links'
    BY DEF Sound, Links, Serving, Kid
  <1> QED BY <1>1, <1>2, <1>3 DEF Sound

\* A child that does not belong to a slot that serves leaves the others alone.
LEMMA OneChild ==
    ASSUME Types, Sound, UNCHANGED <<backlog, outcome, slot>>,
           NEW c \in Children, NEW k, child' = [child EXCEPT ![c] = k], ChildSound(k),
           started \subseteq started',
           \A u \in Slots : Serving(u) /\ slot[u].kid = c => Linked(slot'[u], k, started')
    PROVE  Sound'
  <1>1. child'[c] = k /\ \A d \in Children : d # c => child'[d] = child[d]
    BY DEF Types
  <1>2. \A d \in Children : ChildSound(child'[d])
    BY <1>1 DEF Sound, Links
  <1>3. ASSUME NEW u \in Slots, Serving(u) PROVE Linked(slot[u], Kid(u), started)'
    <2>1. slot[u].kid \in Children /\ Linked(slot[u], Kid(u), started)
      BY <1>3 DEF Sound, Links
    <2>2. CASE slot[u].kid = c
      BY <1>1, <1>3, <2>2 DEF Kid
    <2>3. CASE slot[u].kid # c
      <3>1. Kid(u)' = Kid(u) /\ slot'[u] = slot[u]
        BY <1>1, <2>1, <2>3 DEF Kid
      <3> QED BY <2>1, <3>1 DEF Linked
    <2> QED BY <2>2, <2>3
  <1> QED BY <1>2, <1>3, ChildKeeps

\* What a dead child leaves behind (Remains) still belongs to its slot.
LEMMA RemainsSound ==
    ASSUME NEW k \in ChildRecord, ChildSound(k)
    PROVE  /\ ChildSound(Remains(k))
           /\ \A r, b : Linked(r, k, b) => Linked(r, Remains(k), b)
  <1>1. CASE k.state = "up"
    <2>1. Remains(k) = [k EXCEPT !.state = "dead", !.inbox = <<>>, !.running = {}]
      BY <1>1 DEF Remains
    <2>2. /\ Remains(k).state = "dead" /\ Remains(k).inbox = <<>> /\ Remains(k).running = {}
          /\ Remains(k).out = k.out
      BY <2>1 DEF ChildRecord
    <2>3. ASSUME NEW r, NEW b, Linked(r, k, b) PROVE Linked(r, Remains(k), b)
      <3>1. ASSUME NEW j \in k.out PROVE \E i \in 1 .. Len(r.order) : r.order[i] = j
        <4>1. PICK i \in 1 .. Len(r.order) - Len(k.inbox) : r.order[i] = j
          BY <1>1, <2>3 DEF Linked
        <4>2. Len(k.inbox) \in Nat /\ Len(k.inbox) <= Len(r.order)
          BY <1>1, <2>3 DEF Linked, ChildRecord
        <4>3. i \in 1 .. Len(r.order)
          BY <4>2
        <4> QED BY <4>1, <4>3
      <3> QED BY <2>2, <3>1 DEF Linked
    <2> QED BY <2>2, <2>3 DEF ChildSound
  <1>2. CASE k.state = "ready"
    <2>1. Remains(k) = [k EXCEPT !.state = "stale"]
      BY <1>2 DEF Remains
    <2>2. /\ Remains(k).state = "stale" /\ Remains(k).inbox = k.inbox
          /\ Remains(k).running = k.running /\ Remains(k).out = k.out
      BY <2>1 DEF ChildRecord
    <2> QED BY <1>2, <2>2 DEF ChildSound, Linked
  <1>3. CASE k.state = "forked"
    BY <1>3 DEF Remains, NoChild, ChildSound, Linked
  <1>4. CASE k.state \notin {"up", "ready", "forked"}
    BY <1>4 DEF Remains
  <1> QED BY <1>1, <1>2, <1>3, <1>4

\* The steps of callers, parent and children.
LEMMA OtherSound ==
    ASSUME Types, Sound,
           \/ \E c \in Children : Fork(c) \/ ChildStep(c)
           \/ ParentDies \/ RespawnParent \/ UNCHANGED vars
    PROVE  Sound'
  <1>1. /\ child \in [Children -> ChildRecord] /\ slot \in [Slots -> SlotRecord]
        /\ \A c \in Children : child[c] \in ChildRecord /\ ChildSound(child[c])
        /\ \A u \in Slots : Serving(u) => /\ slot[u].kid \in Children
                                          /\ Linked(slot[u], Kid(u), started)
    BY DEF Types, Sound, Links
  \* A child that no slot serves.
  <1>2. ASSUME NEW c \in Children, child[c].state \notin {"up", "dead"}, NEW k \in ChildRecord,
               child' = [child EXCEPT ![c] = k], k.inbox = <<>>, k.running = {}, k.out = {},
               UNCHANGED <<backlog, outcome, slot, started>>
        PROVE  Sound'
    <2>1. \A u \in Slots : Serving(u) => slot[u].kid # c
      BY <1>1, <1>2 DEF Linked, Kid
    <2>2. ChildSound(k)
      BY <1>2 DEF ChildSound
    <2> QED BY <1>2, <2>1, <2>2, OneChild
  <1>3. ASSUME NEW c \in Children, Fork(c) \/ Handshake(c) \/ HandshakeFails(c) PROVE Sound'
    <2>1. /\ child[c].state \notin {"up", "dead"} /\ UNCHANGED <<backlog, outcome, slot, started>>
          /\ child[c].inbox = <<>> /\ child[c].running = {} /\ child[c].out = {}
      BY <1>1, <1>3 DEF Fork, Handshake, HandshakeFails, ChildSound, poolVars
    <2>2. CASE HandshakeFails(c)
      <3>1. child' = [child EXCEPT ![c] = NoChild]
        BY <2>2 DEF HandshakeFails
      <3>2. NoChild \in ChildRecord /\ NoChild.inbox = <<>> /\ NoChild.running = {} /\ NoChild.out = {}
        BY DEF NoChild, ChildRecord, ChildStates
      <3> QED BY <1>2, <2>1, <3>1, <3>2
    <2>3. CASE Fork(c) \/ Handshake(c)
      <3>1. PICK st \in {"forked", "ready"} :
              child' = [child EXCEPT ![c] = [child[c] EXCEPT !.state = st]]
        BY <2>3 DEF Fork, Handshake
      <3> DEFINE k == [child[c] EXCEPT !.state = st]
      <3>2. k \in ChildRecord
        BY <1>1, <3>1 DEF ChildRecord, ChildStates
      <3>3. k.inbox = <<>> /\ k.running = {} /\ k.out = {}
        BY <1>1, <2>1 DEF ChildRecord
      <3> HIDE DEF k
      <3>4. child' = [child EXCEPT ![c] = k]
        BY <3>1 DEF k
      <3> QED BY <1>2, <2>1, <3>2, <3>3, <3>4
    <2> QED BY <1>3, <2>2, <2>3
  <1>4. ASSUME NEW c \in Children, ChildDies(c) PROVE Sound'
    <2>1. child' = [child EXCEPT ![c] = Remains(child[c])] /\ UNCHANGED <<backlog, outcome, slot, started>>
      BY <1>4 DEF ChildDies
    <2>2. ChildSound(Remains(child[c]))
      BY <1>1, RemainsSound
    <2>3. \A u \in Slots : Serving(u) /\ slot[u].kid = c => Linked(slot[u], Remains(child[c]), started)
      BY <1>1, RemainsSound DEF Kid
    <2> QED BY <2>1, <2>2, <2>3, OneChild
  <1>5. CASE ParentDies
    <2>1. child' = [c \in Children |-> Remains(child[c])] /\ UNCHANGED <<backlog, outcome, slot, started>>
      BY <1>5 DEF ParentDies
    <2>2. \A c \in Children : ChildSound(child'[c])
      BY <1>1, <2>1, RemainsSound
    <2>3. ASSUME NEW u \in Slots, Serving(u) PROVE Linked(slot[u], Kid(u), started)'
      <3>1. Linked(slot[u], Remains(child[slot[u].kid]), started)
        BY <1>1, <2>3, RemainsSound DEF Kid
      <3>2. Kid(u)' = Remains(child[slot[u].kid]) /\ slot'[u] = slot[u] /\ started' = started
        BY <1>1, <2>1, <2>3 DEF Kid
      <3> QED BY <3>1, <3>2
    <2> QED BY <2>1, <2>2, <2>3, ChildKeeps
  <1>6. ASSUME NEW c \in Children, Begin(c) PROVE Sound'
    <2> DEFINE q == child[c].inbox
               h == Head(q)
               k == [child[c] EXCEPT !.inbox = Tail(q), !.running = child[c].running \cup {h}]
    <2>1. /\ child' = [child EXCEPT ![c] = k] /\ q # <<>> /\ started' = started \cup {h}
          /\ child[c].state = "up" /\ UNCHANGED <<backlog, outcome, slot>>
      BY <1>6 DEF Begin, poolVars
    <2>2. child[c] \in ChildRecord /\ q \in Seq(Jobs)
      BY <1>1 DEF ChildRecord
    <2>3. /\ Len(q) \in Nat /\ Len(q) >= 1 /\ h = q[1] /\ Tail(q) \in Seq(Jobs)
          /\ Len(Tail(q)) = Len(q) - 1 /\ \A i \in 1 .. Len(q) - 1 : Tail(q)[i] = q[i + 1]
      BY <2>1, <2>2, TailFacts
    <2>4. /\ k.state = "up" /\ k.inbox = Tail(q) /\ k.running = child[c].running \cup {h}
          /\ k.out = child[c].out
      BY <2>1, <2>2 DEF ChildRecord
    <2> HIDE DEF k, q, h
    <2>5. ChildSound(k)
      BY <2>4 DEF ChildSound
    <2>6. ASSUME NEW u \in Slots, Serving(u), slot[u].kid = c PROVE Linked(slot[u], k, started')
      <3> DEFINE o == slot[u].order
                 b == Len(o) - Len(q)
      <3>1. /\ Len(q) <= Len(o) /\ \A i \in 1 .. Len(q) : q[i] = o[b + i]
            /\ \A j \in child[c].running \cup child[c].out : \E i \in 1 .. b : o[i] = j
            /\ \A i \in 1 .. b : o[i] \in started
            /\ \A j \in child[c].running : j \notin child[c].out
        BY <1>1, <2>1, <2>6 DEF Kid, Linked, q
      <3>2. Len(o) \in Nat /\ Injective(o) /\ o \in Seq(Jobs)
        BY <1>1 DEF SlotRecord, Sound, SlotsSound, SlotSound
      <3> HIDE DEF o
      <3>3. b \in Nat /\ b + 1 \in 1 .. Len(o) /\ Len(o) - Len(Tail(q)) = b + 1 /\ h = o[b + 1]
        <4>1. 1 \in 1 .. Len(q)
          BY <2>3
        <4>2. h = o[b + 1]
          BY <2>3, <3>1, <4>1
        <4> QED BY <2>3, <3>1, <3>2, <4>2
      <3> HIDE DEF b
      <3>4. \A i \in 1 .. Len(Tail(q)) : Tail(q)[i] = o[b + 1 + i]
        <4> TAKE i \in 1 .. Len(Tail(q))
        <4>1. i + 1 \in 1 .. Len(q) /\ i \in 1 .. Len(q) - 1 /\ b + (i + 1) = b + 1 + i
          BY <2>3, <3>3
        <4> QED BY <2>3, <3>1, <4>1
      <3>5. \A i \in 1 .. b : i \in 1 .. b + 1 /\ i \in 1 .. Len(o) /\ i # b + 1
        BY <3>3, <3>2
      <3>6. b + 1 \in 1 .. b + 1 /\ \A i \in 1 .. b + 1 : i \in 1 .. b \/ i = b + 1
        BY <3>3
      <3>7. h \notin child[c].out
        <4> SUFFICES ASSUME h \in child[c].out PROVE FALSE
          OBVIOUS
        <4>1. PICK i \in 1 .. b : o[i] = h
          BY <3>1
        <4> QED BY <3>2, <3>3, <3>5, <4>1 DEF Injective
      <3>8. \A j \in k.running \cup k.out : \E i \in 1 .. b + 1 : o[i] = j
        BY <2>4, <3>1, <3>3, <3>5, <3>6
      <3>9. \A i \in 1 .. b + 1 : o[i] \in started'
        BY <2>1, <3>1, <3>3, <3>6
      <3>10. \A j \in k.running : j \notin k.out
        BY <2>4, <3>1, <3>7
      <3>11. Len(k.inbox) <= Len(o)
        BY <2>3, <2>4, <3>1, <3>2
      <3> QED BY <2>4, <3>3, <3>4, <3>8, <3>9, <3>10, <3>11 DEF Linked, o
    <2> QED BY <2>1, <2>5, <2>6, OneChild
  <1>7. ASSUME NEW c \in Children, NEW j \in Jobs, Answer(c, j) \/ AnswerLost(c, j) PROVE Sound'
    <2>1. PICK o \in {child[c].out, child[c].out \cup {j}} :
            /\ child' = [child EXCEPT ![c] =
                          [child[c] EXCEPT !.running = child[c].running \ {j}, !.out = o]]
            /\ j \in child[c].running /\ UNCHANGED <<backlog, outcome, slot, started>>
      <3>1. child[c] = [child[c] EXCEPT !.out = child[c].out]
        BY <1>1 DEF ChildRecord
      <3>2. [child[c] EXCEPT !.running = child[c].running \ {j}]
              = [child[c] EXCEPT !.running = child[c].running \ {j}, !.out = child[c].out]
        BY <1>1 DEF ChildRecord
      <3>3. CASE Answer(c, j)
        BY <3>3 DEF Answer, poolVars
      <3>4. CASE AnswerLost(c, j)
        <4>1. child' = [child EXCEPT ![c] = [child[c] EXCEPT !.running = child[c].running \ {j}]]
          BY <3>4 DEF AnswerLost
        <4> QED BY <3>2, <3>4, <4>1 DEF AnswerLost
      <3> QED BY <1>7, <3>3, <3>4
    <2> DEFINE k == [child[c] EXCEPT !.running = child[c].running \ {j}, !.out = o]
    <2>2. /\ k.state = child[c].state /\ k.inbox = child[c].inbox
          /\ k.running = child[c].running \ {j} /\ k.out = o
      BY <1>1 DEF ChildRecord
    <2>3. child' = [child EXCEPT ![c] = k]
      BY <2>1
    <2> HIDE DEF k
    <2>4. child[c].state = "up"
      BY <1>1, <2>1 DEF ChildSound
    <2>5. ChildSound(k)
      BY <2>2, <2>4 DEF ChildSound
    <2>6. ASSUME NEW u \in Slots, Serving(u), slot[u].kid = c PROVE Linked(slot[u], k, started)
      <3>1. Linked(slot[u], child[c], started)
        BY <1>1, <2>6 DEF Kid
      <3>2. \A x \in k.running \cup k.out : x \in child[c].running \cup child[c].out
        BY <2>1, <2>2
      <3>3. \A x \in k.running : x \notin k.out
        BY <2>1, <2>2, <2>4, <3>1 DEF Linked
      <3> DEFINE q == slot[u].order
                 b == Len(q) - Len(child[c].inbox)
      <3>4. /\ Len(child[c].inbox) <= Len(q)
            /\ \A i \in 1 .. Len(child[c].inbox) : child[c].inbox[i] = q[b + i]
            /\ \A x \in child[c].running \cup child[c].out : \E i \in 1 .. b : q[i] = x
            /\ \A i \in 1 .. b : q[i] \in started
        BY <2>4, <3>1 DEF Linked
      <3> HIDE DEF q
      <3>5. \A x \in k.running \cup k.out : \E i \in 1 .. Len(q) - Len(k.inbox) : q[i] = x
        BY <2>2, <3>2, <3>4
      <3> QED BY <2>2, <2>4, <3>3, <3>4, <3>5 DEF Linked, q
    <2> QED BY <2>1, <2>3, <2>5, <2>6, OneChild
  <1>8. CASE RespawnParent \/ UNCHANGED vars
    BY <1>1, <1>8, ChildKeeps DEF RespawnParent, vars, Kid
  <1> QED BY <1>3, <1>4, <1>5, <1>6, <1>7, <1>8 DEF ChildStep

\* run_cpu_task: the channel owns the job.
LEMMA SendSound ==
    ASSUME Types, Sound, NEW j \in Jobs, Send(j)
    PROVE  Sound'
  <1>1. /\ backlog' = Append(backlog, j) /\ outcome[j] = "new"
        /\ outcome' = [outcome EXCEPT ![j] = "wait"]
        /\ UNCHANGED <<child, slot, started>>
    BY DEF Send
  <1>2. /\ Len(backlog') = Len(backlog) + 1 /\ Len(backlog) \in Nat
        /\ \A i \in 1 .. Len(backlog) : backlog'[i] = backlog[i]
        /\ backlog'[Len(backlog) + 1] = j
        /\ \A i \in 1 .. Len(backlog') : i \in 1 .. Len(backlog) \/ i = Len(backlog) + 1
        /\ \A i \in 1 .. Len(backlog) : i \in 1 .. Len(backlog')
        /\ Len(backlog) + 1 \in 1 .. Len(backlog')
        /\ \A i \in 1 .. Len(backlog) : backlog[i] \in Jobs
    BY <1>1 DEF Types
  <1>3. outcome'[j] = "wait" /\ \A k \in Jobs : k # j => outcome'[k] = outcome[k]
    BY <1>1 DEF Types
  <1>4. \A s \in Slots : Held(s)' = Held(s) /\ Held(s) \subseteq Jobs
    BY <1>1, HeldIs DEF Held, Pending, Types
  <1>5. \A i \in 1 .. Len(backlog) : backlog[i] # j
    BY <1>1 DEF Sound, Owned
  <1>6. \A s \in Slots : j \notin Held(s)
    BY <1>1 DEF Sound, Owned
  <1>7. Injective(backlog')
    BY <1>2, <1>5 DEF Sound, Owned, Injective
  <1>8. ASSUME NEW i \in 1 .. Len(backlog')
        PROVE  outcome'[backlog'[i]] = "wait" /\ \A s \in Slots : backlog'[i] \notin Held(s)
    <2>1. CASE i = Len(backlog) + 1
      BY <1>2, <1>3, <1>6, <2>1
    <2>2. CASE i \in 1 .. Len(backlog)
      BY <1>2, <1>3, <1>5, <2>2 DEF Sound, Owned
    <2> QED BY <1>2, <2>1, <2>2
  <1>9. \A s \in Slots : \A k \in Held(s) : outcome'[k] = "wait"
    BY <1>3, <1>4, <1>6 DEF Sound, Owned
  <1>10. ASSUME NEW k \in Jobs, outcome'[k] = "wait"
         PROVE  (\E i \in 1 .. Len(backlog') : backlog'[i] = k) \/ \E s \in Slots : k \in Held(s)
    <2>1. CASE k = j
      BY <1>2, <2>1
    <2>2. CASE k # j
      <3>1. (\E i \in 1 .. Len(backlog) : backlog[i] = k) \/ \E s \in Slots : k \in Held(s)
        BY <1>3, <1>10, <2>2 DEF Sound, Owned
      <3> QED BY <1>2, <3>1
    <2> QED BY <2>1, <2>2
  <1>11. Owned'
    BY <1>4, <1>7, <1>8, <1>9, <1>10 DEF Sound, Owned
  <1>12. SlotsSound' /\ Links'
    BY <1>1 DEF Sound, SlotsSound, Links, Serving, Kid
  <1> QED BY <1>11, <1>12 DEF Sound

\* The steps of a slot that move no request.
LEMMA QuietSound ==
    ASSUME Types, Sound, NEW s \in Slots,
           Ask(s) \/ ForkWait(s) \/ Recount(s) \/ LoadIdle(s) \/ Listen(s)
    PROVE  Sound'
  <1>1. slot \in [Slots -> SlotRecord]
    BY DEF Types
  <1>2. UNCHANGED <<backlog, outcome, child, started>>
    BY DEF Ask, ForkWait, Recount, LoadIdle, Listen, poolVars
  <1>3. ASSUME NEW u \in Slots PROVE Kept(slot'[u], slot[u])
    <2>1. CASE Ask(s) \/ ForkWait(s)
      <3>1. PICK a \in {"ask", "await"} :
              slot' = [slot EXCEPT ![s].at = a] /\ slot[s].at \in {"ask", "await"}
        BY <2>1 DEF Ask, ForkWait
      <3> QED BY <1>1, <3>1 DEF Kept, SlotRecord
    <2>2. CASE Recount(s)
      <3>1. CASE u = s
        <4> DEFINE now == Cardinality(Held(s)) < Concurrency
        <4>1. slot'[s] = [slot[s] EXCEPT !.at = "load", !.idle = now] /\ slot[s].at = "top"
          BY <2>2 DEF Recount
        <4> HIDE DEF now
        <4> QED BY <1>1, <3>1, <4>1 DEF Kept, SlotRecord
      <3>2. CASE u # s
        <4>1. \/ slot'[u] = slot[u]
              \/ Listening(slot[u]) /\ slot'[u] = [slot[u] EXCEPT !.at = "top"]
          BY <2>2, <3>2 DEF Recount
        <4> QED BY <1>1, <4>1 DEF Kept, SlotRecord, Listening
      <3> QED BY <3>1, <3>2
    <2>3. CASE LoadIdle(s)
      BY <1>1, <2>3 DEF LoadIdle, Kept, SlotRecord
    <2>4. CASE Listen(s)
      BY <1>1, <2>4 DEF Listen, Kept, SlotRecord
    <2> QED BY <2>1, <2>2, <2>3, <2>4
  <1> QED BY <1>2, <1>3, QuietKeeps

\* A slot that changes its locals and perhaps its child: what the others are is left alone.
LEMMA OneSlot ==
    ASSUME Types, Sound, NEW s \in Slots, NEW r \in SlotRecord, NEW k \in ChildRecord,
           NEW c \in Children, slot' = [slot EXCEPT ![s] = r], child' = [child EXCEPT ![c] = k],
           \A u \in Slots : u # s /\ Serving(u) => slot[u].kid # c,
           started' = started, SlotSound(r), ChildSound(k),
           r.at \notin {"ask", "await"} => r.kid = c /\ Linked(r, k, started)
    PROVE  SlotsSound' /\ Links'
  <1>1. slot'[s] = r /\ \A u \in Slots : u # s => slot'[u] = slot[u]
    BY DEF Types
  <1>2. child'[c] = k /\ \A d \in Children : d # c => child'[d] = child[d]
    BY DEF Types
  <1>3. SlotsSound'
    BY <1>1 DEF Sound, SlotsSound
  <1>4. \A d \in Children : ChildSound(child'[d])
    BY <1>2 DEF Sound, Links
  <1>5. Serving(s)' => slot'[s].kid = c /\ Linked(slot'[s], Kid(s)', started')
    BY <1>1, <1>2 DEF Serving, Kid
  <1>6. ASSUME NEW u \in Slots, u # s, Serving(u)'
        PROVE  /\ Serving(u) /\ slot'[u].kid \in Children \ {c} /\ slot'[u].kid = slot[u].kid
               /\ Linked(slot'[u], Kid(u)', started')
    <2>1. slot'[u] = slot[u] /\ Serving(u)
      BY <1>1, <1>6 DEF Serving
    <2>2. slot[u].kid \in Children \ {c} /\ Linked(slot[u], Kid(u), started)
      BY <1>6, <2>1 DEF Sound, Links
    <2>3. Kid(u)' = Kid(u)
      BY <1>2, <2>1, <2>2 DEF Kid
    <2> QED BY <2>1, <2>2, <2>3
  <1>7. \A u, v \in Slots : Serving(u)' /\ Serving(v)' /\ slot'[u].kid = slot'[v].kid => u = v
    BY <1>5, <1>6 DEF Sound, Links
  <1>8. Links'
    BY <1>4, <1>5, <1>6, <1>7 DEF Links
  <1> QED BY <1>3, <1>8

\* Requests that a slot answers have no owner, and are no longer waiting.
LEMMA AnswerOwned ==
    ASSUME Types, Owned, NEW s \in Slots, NEW D \in SUBSET Held(s), backlog' = backlog,
           \A u \in Slots : u # s => Held(u)' = Held(u), Held(s)' = Held(s) \ D,
           Held(s) \subseteq Jobs,
           \A j \in D : outcome'[j] # "wait", \A j \in Jobs \ D : outcome'[j] = outcome[j]
    PROVE  Owned'
  <1>1. \A i \in 1 .. Len(backlog) : backlog[i] \in Jobs
    BY DEF Types
  <1>2. \A i \in 1 .. Len(backlog) : backlog[i] \notin D
    BY DEF Owned
  <1>3. \A i \in 1 .. Len(backlog) : outcome'[backlog[i]] = "wait"
    BY <1>1, <1>2 DEF Owned
  <1>4. \A u \in Slots : Held(u)' \subseteq Held(u)
    OBVIOUS
  <1>5. \A u \in Slots : u # s => \A j \in Held(u) : j \notin D
    BY DEF Owned
  <1>6. ASSUME NEW u \in Slots, NEW j \in Held(u)' PROVE outcome'[j] = "wait"
    <2>1. j \in Held(u) /\ j \notin D /\ outcome[j] = "wait"
      BY <1>4, <1>5, <1>6 DEF Owned
    <2>2. j \in Jobs
      <3>1. CASE j \in Jobs
        BY <3>1
      <3>2. CASE j \notin Jobs
        BY <2>1, <3>2, HeldIs DEF Held, Pending, Types
      <3> QED BY <3>1, <3>2
    <2> QED BY <2>1, <2>2
  <1>7. ASSUME NEW j \in Jobs, outcome'[j] = "wait"
        PROVE  (\E i \in 1 .. Len(backlog) : backlog[i] = j) \/ \E u \in Slots : j \in Held(u)'
    <2>1. j \notin D /\ outcome[j] = "wait"
      BY <1>7
    <2>2. (\E i \in 1 .. Len(backlog) : backlog[i] = j) \/ \E u \in Slots : j \in Held(u)
      BY <2>1 DEF Owned
    <2>3. \A u \in Slots : j \in Held(u) => j \in Held(u)'
      BY <2>1
    <2> QED BY <2>2, <2>3
  <1>8. /\ Injective(backlog')
        /\ \A i \in 1 .. Len(backlog) : \A u \in Slots : backlog[i] \notin Held(u)'
        /\ \A u, v \in Slots : \A j \in Jobs : j \in Held(u)' /\ j \in Held(v)' => u = v
    BY <1>4 DEF Owned
  <1> QED BY <1>3, <1>6, <1>7, <1>8 DEF Owned

\* What a slot holds follows its locals.
LEMMA OthersHold ==
    ASSUME Types, NEW s \in Slots, NEW r, slot' = [slot EXCEPT ![s] = r]
    PROVE  /\ \A u \in Slots : u # s => Held(u)' = Held(u)
           /\ Held(s)' = ToSet(r.order) \cup ({r.write} \ {None})
  BY DEF Types, Held, Pending

\* The end of serve_child: everything the slot held is answered.
LEMMA LeaveSound ==
    ASSUME Types, Sound, NEW s \in Slots, Serving(s),
           NEW E \in SUBSET Held(s), NEW A \in SUBSET Held(s), Leave(s, E, A)
    PROVE  Sound'
  <1>1. /\ slot' = [slot EXCEPT ![s] = NoServe] /\ child' = [child EXCEPT ![slot[s].kid] = NoChild]
        /\ started' = started /\ backlog' = backlog
        /\ outcome' = [j \in Jobs |-> IF j \in A THEN "resp"
                                      ELSE IF j \in E THEN "timeout"
                                      ELSE IF j \in Held(s) THEN "lost" ELSE outcome[j]]
    BY DEF Leave
  <1>2. NoServe \in SlotRecord /\ NoChild \in ChildRecord /\ slot[s] \in SlotRecord
    BY DEF NoServe, NoChild, SlotRecord, ChildRecord, Places, ChildStates, Types
  <1>3. Held(s) \subseteq Jobs
    BY <1>2, HeldIs DEF Held, Pending
  <1>4. Held(s)' = {} /\ \A u \in Slots : u # s => Held(u)' = Held(u)
    <2>1. ToSet(NoServe.order) \cup ({NoServe.write} \ {None}) = {}
      BY DEF NoServe, ToSet
    <2> QED BY <1>1, <2>1, OthersHold
  <1>5. \A j \in Held(s) : outcome'[j] # "wait"
    BY <1>1, <1>3
  <1>6. \A j \in Jobs \ Held(s) : outcome'[j] = outcome[j]
    BY <1>1
  <1>7. Owned'
    BY <1>1, <1>3, <1>4, <1>5, <1>6, AnswerOwned DEF Sound
  <1>8. SlotSound(NoServe)
    BY CpuPoolAssumption DEF SlotSound, NoServe, Injective, Prefix
  <1>9. ChildSound(NoChild) /\ NoServe.at = "ask"
    BY DEF ChildSound, NoChild, NoServe
  <1>10. slot[s].kid \in Children /\ \A u \in Slots : u # s /\ Serving(u) => slot[u].kid # slot[s].kid
    BY DEF Sound, Links
  <1>11. SlotsSound' /\ Links'
    BY <1>1, <1>2, <1>8, <1>9, <1>10, OneSlot
  <1> QED BY <1>7, <1>11 DEF Sound

\* The child handshaken is handed to a slot, which starts with nothing.
LEMMA ConnectSound ==
    ASSUME Types, Sound, NEW s \in Slots, Connect(s)
    PROVE  Sound'
  <1>1. PICK c \in InState({"ready", "stale"}) :
            /\ child' = [child EXCEPT ![c].state = IF @ = "ready" THEN "up" ELSE "dead"]
            /\ slot' = [slot EXCEPT ![s] = [NoServe EXCEPT !.at = "top", !.kid = c]]
    BY DEF Connect
  <1> DEFINE r == [NoServe EXCEPT !.at = "top", !.kid = c]
             k == [child[c] EXCEPT !.state = IF child[c].state = "ready" THEN "up" ELSE "dead"]
  <1>2. /\ c \in Children /\ child[c] \in ChildRecord /\ child[c].state \in {"ready", "stale"}
        /\ ChildSound(child[c])
        /\ UNCHANGED <<backlog, outcome, started>> /\ slot[s].at = "await"
    BY DEF InState, Types, Sound, Links, Connect, poolVars
  <1>3. NoServe \in SlotRecord /\ slot[s] \in SlotRecord
    BY DEF NoServe, SlotRecord, Places, Types
  <1>4. r \in SlotRecord
    BY <1>2, <1>3 DEF SlotRecord, Places
  <1>5. /\ r.at = "top" /\ r.kid = c /\ r.idle = TRUE /\ r.order = <<>> /\ r.write = None
        /\ r.armed = {} /\ r.completed = 0
    BY <1>3 DEF NoServe
  <1>6. k \in ChildRecord
    BY <1>2 DEF ChildRecord, ChildStates
  <1>7. /\ k.state \in {"up", "dead"} /\ k.inbox = <<>> /\ k.running = {} /\ k.out = {}
    BY <1>2 DEF ChildRecord, ChildSound
  <1>8. slot' = [slot EXCEPT ![s] = r] /\ child' = [child EXCEPT ![c] = k]
    BY <1>1
  <1> HIDE DEF r, k
  <1>9. SlotSound(r) /\ ChildSound(k) /\ Linked(r, k, started)
    BY <1>5, <1>7, CpuPoolAssumption DEF SlotSound, ChildSound, Linked, Injective, Prefix
  <1>10. \A u \in Slots : Serving(u) => slot[u].kid # c
    BY <1>2 DEF Sound, Links, Linked, Kid
  <1>11. SlotsSound' /\ Links'
    BY <1>2, <1>4, <1>5, <1>6, <1>8, <1>9, <1>10, OneSlot
  <1>12. Held(s) = {} /\ Held(s)' = {} /\ \A u \in Slots : u # s => Held(u)' = Held(u)
    <2>1. slot[s].order = <<>> /\ slot[s].write = None
      BY <1>2 DEF Sound, SlotsSound, SlotSound
    <2>2. ToSet(<<>>) \cup ({None} \ {None}) = {}
      BY DEF ToSet
    <2> QED BY <1>5, <1>8, <2>1, <2>2, OthersHold DEF Held, Pending
  <1>13. Owned'
    BY <1>2, <1>12 DEF Sound, Owned
  <1> QED BY <1>11, <1>13 DEF Sound

\* rx.recv: the request passes from the channel to the slot.
LEMMA TakeSound ==
    ASSUME Types, Sound, NEW s \in Slots, Take(s)
    PROVE  Sound'
  <1> DEFINE h == Head(backlog)
             r == [slot[s] EXCEPT !.write = h, !.at = "top"]
             c == slot[s].kid
             k == child[c]
  <1>1. /\ backlog # <<>> /\ backlog' = Tail(backlog) /\ slot' = [slot EXCEPT ![s] = r]
        /\ slot[s].at = "select" /\ slot[s].write = None
        /\ Recycle = 0 \/ slot[s].completed + Len(slot[s].order) < Recycle
        /\ UNCHANGED <<outcome, child, started>>
    BY DEF Take
  <1>2. /\ slot[s] \in SlotRecord /\ Serving(s) /\ c \in Children /\ k \in ChildRecord
        /\ Linked(slot[s], k, started) /\ SlotSound(slot[s]) /\ ChildSound(k)
        /\ \A u \in Slots : u # s /\ Serving(u) => slot[u].kid # c
    BY <1>1 DEF Types, Sound, Links, Serving, Kid, SlotsSound
  <1>3. /\ Len(backlog) \in Nat /\ Len(backlog) >= 1 /\ h = backlog[1] /\ h \in Jobs
        /\ Len(Tail(backlog)) = Len(backlog) - 1
        /\ \A i \in 1 .. Len(backlog) - 1 : Tail(backlog)[i] = backlog[i + 1]
    BY <1>1, TailFacts DEF Types
  <1> HIDE DEF h
  <1>4. r \in SlotRecord
    BY <1>2, <1>3 DEF SlotRecord, Places
  <1>5. /\ r.at = "top" /\ r.kid = c /\ r.write = h /\ r.order = slot[s].order
        /\ r.armed = slot[s].armed /\ r.completed = slot[s].completed
    BY <1>2 DEF SlotRecord
  <1> HIDE DEF r
  <1>6. 1 \in 1 .. Len(backlog) /\ \A u \in Slots : h \notin Held(u)
    BY <1>3 DEF Sound, Owned
  <1>7. \A i \in 1 .. Len(r.order) : r.order[i] # h
    BY <1>2, <1>3, <1>5, <1>6, HeldIs DEF Held, Pending
  <1>8. Recycle \in Nat /\ r.completed \in Nat /\ Len(r.order) \in Nat /\ h # None
    BY <1>3, <1>4, CpuPoolAssumption DEF SlotRecord
  <1>9. SlotSound(r)
    <2>1. Recycle > 0 => r.completed + Len(r.order) < Recycle /\ r.completed + Len(r.order) <= Recycle
      BY <1>1, <1>5, <1>8
    <2> QED BY <1>2, <1>5, <1>7, <2>1 DEF SlotSound
  <1>10. Linked(r, k, started)
    <2> HIDE DEF k, c
    <2> QED BY <1>2, <1>5 DEF Linked
  <1>11. child' = [child EXCEPT ![c] = k]
    BY <1>1, <1>2 DEF Types
  <1>12. SlotsSound' /\ Links'
    <2> HIDE DEF k, c
    <2> QED BY <1>1, <1>2, <1>4, <1>5, <1>9, <1>10, <1>11, OneSlot
  <1>13. Held(s)' = Held(s) \cup {h} /\ \A u \in Slots : u # s => Held(u)' = Held(u)
    <2>1. Held(s) = ToSet(slot[s].order) \cup ({None} \ {None})
      BY <1>1 DEF Held, Pending
    <2>2. Held(s)' = ToSet(r.order) \cup ({r.write} \ {None})
      BY <1>1, OthersHold
    <2>3. Held(s)' = ToSet(slot[s].order) \cup ({h} \ {None})
      BY <1>5, <2>2
    <2>4. \A u \in Slots : u # s => Held(u)' = Held(u)
      BY <1>1, OthersHold
    <2> QED BY <1>8, <2>1, <2>3, <2>4
  <1>14. Owned'
    <2>1. \A i \in 1 .. Len(backlog') : /\ i + 1 \in 1 .. Len(backlog) /\ i + 1 # 1
                                        /\ backlog'[i] = backlog[i + 1] /\ i \in Nat
      BY <1>1, <1>3
    <2>2. \A i \in 1 .. Len(backlog) : i # 1 => i - 1 \in 1 .. Len(backlog') /\ backlog'[i - 1] = backlog[i]
      BY <1>1, <1>3
    <2>3. Injective(backlog')
      <3> SUFFICES ASSUME NEW i \in 1 .. Len(backlog'), NEW n \in 1 .. Len(backlog'),
                          backlog'[i] = backlog'[n]
                   PROVE  i = n
        BY DEF Injective
      <3>1. i + 1 = n + 1 /\ i \in Nat /\ n \in Nat
        BY <2>1 DEF Sound, Owned, Injective
      <3> QED BY <3>1
    <2>4. ASSUME NEW i \in 1 .. Len(backlog')
          PROVE  outcome'[backlog'[i]] = "wait" /\ \A u \in Slots : backlog'[i] \notin Held(u)'
      <3>1. backlog[i + 1] # h
        BY <1>3, <1>6, <2>1 DEF Sound, Owned, Injective
      <3> QED BY <1>1, <1>13, <2>1, <3>1 DEF Sound, Owned
    <2>5. \A u \in Slots : \A j \in Held(u)' : outcome'[j] = "wait"
      BY <1>1, <1>3, <1>6, <1>13 DEF Sound, Owned
    <2>6. \A u, v \in Slots : \A j \in Jobs : j \in Held(u)' /\ j \in Held(v)' => u = v
      BY <1>6, <1>13 DEF Sound, Owned
    <2>7. ASSUME NEW j \in Jobs, outcome'[j] = "wait"
          PROVE  (\E i \in 1 .. Len(backlog') : backlog'[i] = j) \/ \E u \in Slots : j \in Held(u)'
      <3>1. (\E i \in 1 .. Len(backlog) : backlog[i] = j) \/ \E u \in Slots : j \in Held(u)
        BY <1>1, <2>7 DEF Sound, Owned
      <3>2. ASSUME NEW i \in 1 .. Len(backlog), backlog[i] = j
            PROVE  (\E n \in 1 .. Len(backlog') : backlog'[n] = j) \/ j \in Held(s)'
        BY <1>3, <1>13, <2>2, <3>2
      <3> QED BY <1>13, <3>1, <3>2
    <2> QED BY <2>3, <2>4, <2>5, <2>6, <2>7 DEF Owned
  <1> QED BY <1>12, <1>14 DEF Sound

\* A request written joins pending and the socket, and gets a deadline if it is among the
\* oldest Concurrency.
LEMMA WriteSound ==
    ASSUME Types, Sound, NEW s \in Slots, Write(s)
    PROVE  Sound'
  <1> DEFINE w == slot[s].write
             o == slot[s].order
             n == Len(o)
             order == Append(o, w)
             armed == ArmStarted(order, slot[s].armed)
             r == [slot[s] EXCEPT !.write = None, !.at = "top", !.order = order, !.armed = armed]
             c == slot[s].kid
             q == child[c].inbox
             inbox == Append(q, w)
             k == [child[c] EXCEPT !.inbox = inbox]
  <1>1. /\ slot' = [slot EXCEPT ![s] = r] /\ child' = [child EXCEPT ![c] = k] /\ w # None
        /\ slot[s].at = "select" /\ child[c].state = "up"
        /\ UNCHANGED <<backlog, outcome, started>>
    BY DEF Write, Kid, poolVars
  <1>2. /\ slot[s] \in SlotRecord /\ Serving(s) /\ c \in Children /\ child[c] \in ChildRecord
        /\ Linked(slot[s], child[c], started) /\ SlotSound(slot[s]) /\ ChildSound(child[c])
        /\ \A u \in Slots : u # s /\ Serving(u) => slot[u].kid # c
    BY <1>1 DEF Types, Sound, Links, Serving, Kid, SlotsSound
  <1>3. /\ w \in Jobs /\ o \in Seq(Jobs) /\ n \in Nat /\ slot[s].armed \in SUBSET Jobs
        /\ q \in Seq(Jobs) /\ Len(q) \in Nat /\ slot[s].completed \in Nat
    BY <1>1, <1>2 DEF SlotRecord, ChildRecord
  <1>4. /\ order \in Seq(Jobs) /\ Len(order) = n + 1 /\ order[n + 1] = w
        /\ \A i \in 1 .. n : order[i] = o[i]
    BY <1>3
  <1>5. /\ inbox \in Seq(Jobs) /\ Len(inbox) = Len(q) + 1 /\ inbox[Len(q) + 1] = w
        /\ \A i \in 1 .. Len(q) : inbox[i] = q[i]
    BY <1>3
  <1>6. Injective(o) /\ (\A i \in 1 .. n : o[i] # w) /\ slot[s].armed = Prefix(o, Concurrency)
    BY <1>2 DEF SlotSound
  <1>7. /\ Len(q) <= n
        /\ \A i \in 1 .. Len(q) : q[i] = o[n - Len(q) + i]
        /\ \A j \in child[c].running \cup child[c].out : \E i \in 1 .. n - Len(q) : o[i] = j
        /\ \A i \in 1 .. n - Len(q) : o[i] \in started
        /\ \A j \in child[c].running : j \notin child[c].out
    BY <1>1, <1>2 DEF Linked
  <1> HIDE DEF order, inbox, o, q
  <1>8. Injective(order)
    <2> SUFFICES ASSUME NEW i \in 1 .. Len(order), NEW m \in 1 .. Len(order), order[i] = order[m]
                 PROVE  i = m
      BY DEF Injective
    <2>1. (i \in 1 .. n \/ i = n + 1) /\ (m \in 1 .. n \/ m = n + 1)
      BY <1>3, <1>4
    <2> QED BY <1>4, <1>6, <2>1 DEF Injective
  <1>9. armed = Prefix(order, Concurrency)
    <2>1. Concurrency \in Nat
      BY CpuPoolAssumption
    <2>2. PICK m \in Nat : m <= n /\ m <= Concurrency /\ slot[s].armed = Prefix(order, m)
      <3>1. CASE n <= Concurrency
        <4>1. Prefix(o, Concurrency) = Prefix(order, n)
          <5>1. {i \in 1 .. n : i <= Concurrency} = 1 .. n /\ {i \in 1 .. n + 1 : i <= n} = 1 .. n
            BY <1>3, <2>1, <3>1
          <5> QED BY <1>4, <5>1 DEF Prefix
        <4> QED BY <1>3, <1>6, <3>1, <4>1
      <3>2. CASE Concurrency < n
        <4>1. Prefix(o, Concurrency) = Prefix(order, Concurrency)
          <5>1. {i \in 1 .. n : i <= Concurrency} = {i \in 1 .. n + 1 : i <= Concurrency}
            BY <1>3, <2>1, <3>2
          <5> QED BY <1>4, <5>1 DEF Prefix
        <4> QED BY <1>3, <1>6, <2>1, <3>2, <4>1
      <3> QED BY <1>3, <2>1, <3>1, <3>2
    <2>3. m <= Len(order)
      BY <1>3, <1>4, <2>2
    <2> QED BY <1>4, <1>8, <2>2, <2>3, ArmOldest
  <1>10. armed \in SUBSET Jobs
    BY <1>3, <1>4, ArmType
  <1> HIDE DEF armed
  <1>11. r \in SlotRecord /\ k \in ChildRecord
    <2>1. r \in SlotRecord
      BY <1>2, <1>4, <1>10 DEF SlotRecord, Places
    <2>2. k \in ChildRecord
      BY <1>2, <1>5 DEF ChildRecord
    <2> QED BY <2>1, <2>2
  <1>12. /\ r.at = "top" /\ r.kid = c /\ r.write = None /\ r.order = order
         /\ r.armed = armed /\ r.completed = slot[s].completed
         /\ k.state = "up" /\ k.inbox = inbox /\ k.running = child[c].running /\ k.out = child[c].out
    BY <1>1, <1>2 DEF SlotRecord, ChildRecord
  <1> HIDE DEF r, k
  <1>13. SlotSound(r)
    <2>1. \A i \in 1 .. Len(order) : order[i] # None
      BY <1>4, CpuPoolAssumption
    <2>2. Recycle > 0 => slot[s].completed + Len(order) <= Recycle
      <3>1. Recycle > 0 => slot[s].completed + n < Recycle
        BY <1>1, <1>2 DEF SlotSound, o
      <3>2. Recycle \in Nat
        BY CpuPoolAssumption
      <3> QED BY <1>3, <1>4, <3>1, <3>2
    <2> QED BY <1>8, <1>9, <1>12, <2>1, <2>2 DEF SlotSound
  <1>14. Linked(r, k, started)
    <2>1. Len(inbox) <= Len(order) /\ Len(order) - Len(inbox) = n - Len(q)
      BY <1>3, <1>4, <1>5, <1>7
    <2>2. \A i \in 1 .. n - Len(q) : i \in 1 .. n /\ order[i] = o[i]
      BY <1>3, <1>4
    <2>3. ASSUME NEW i \in 1 .. Len(inbox) PROVE inbox[i] = order[n - Len(q) + i]
      <3>1. CASE i = Len(q) + 1
        <4>1. n - Len(q) + i = n + 1
          BY <1>3, <3>1
        <4> QED BY <1>4, <1>5, <3>1, <4>1
      <3>2. CASE i \in 1 .. Len(q)
        <4>1. n - Len(q) + i \in 1 .. n
          BY <1>3, <1>7, <3>2
        <4> QED BY <1>4, <1>5, <1>7, <3>2, <4>1
      <3> QED BY <1>3, <1>5, <3>1, <3>2
    <2>4. \A j \in k.running \cup k.out : \E i \in 1 .. n - Len(q) : order[i] = j
      BY <1>7, <1>12, <2>2
    <2>5. \A i \in 1 .. n - Len(q) : order[i] \in started
      BY <1>7, <2>2
    <2> QED BY <1>7, <1>12, <2>1, <2>3, <2>4, <2>5 DEF Linked
  <1>15. ChildSound(k)
    BY <1>12 DEF ChildSound
  <1>16. SlotsSound' /\ Links'
    <2> HIDE DEF c
    <2> QED BY <1>1, <1>2, <1>11, <1>12, <1>13, <1>14, <1>15, OneSlot
  <1>17. Held(s)' = Held(s) /\ \A u \in Slots : u # s => Held(u)' = Held(u)
    <2>1. Held(s) = ToSet(o) \cup ({w} \ {None})
      BY DEF Held, Pending, o
    <2>2. ToSet(order) = ToSet(o) \cup {w}
      <3>1. DOMAIN order = 1 .. n + 1 /\ DOMAIN o = 1 .. n
        BY <1>3, <1>4
      <3>2. \A i \in 1 .. n + 1 : i \in 1 .. n \/ i = n + 1
        BY <1>3
      <3>3. \A i \in 1 .. n : i \in 1 .. n + 1
        BY <1>3
      <3>4. n + 1 \in 1 .. n + 1
        BY <1>3
      <3> QED BY <1>4, <3>1, <3>2, <3>3, <3>4 DEF ToSet
    <2>3. Held(s)' = ToSet(order) \cup ({None} \ {None})
      BY <1>1, <1>12, OthersHold
    <2> QED BY <1>1, <2>1, <2>2, <2>3, OthersHold
  <1>18. Owned'
    BY <1>1, <1>17 DEF Sound, Owned
  <1> QED BY <1>16, <1>18 DEF Sound

\* An answer read: the request leaves pending wherever it stands there, and the oldest
\* Concurrency of the others have a deadline.
LEMMA RespondSound ==
    ASSUME Types, Sound, NEW s \in Slots, Respond(s)
    PROVE  Sound'
  <1>1. PICK p \in 1 .. Len(slot[s].order) : Respond(s)!2!(p)
    BY DEF Respond
  <1> DEFINE o == slot[s].order
             n == Len(o)
             j == o[p]
             order == RemoveAt(o, p)
             rest == slot[s].armed \ {j}
             armed == ArmStarted(order, rest)
             m == slot[s].completed + 1
             r == [slot[s] EXCEPT !.at = "top", !.order = order, !.armed = armed, !.completed = m]
             c == slot[s].kid
             out == child[c].out \ {j}
             k == [child[c] EXCEPT !.out = out]
             q == child[c].inbox
  <1>2. /\ slot[s].at = "select" /\ j \in child[c].out
        /\ \/ Leave(s, {}, {j})
           \/ /\ ~(Recycle > 0 /\ m >= Recycle /\ order = <<>>)
              /\ slot' = [slot EXCEPT ![s] = r] /\ child' = [child EXCEPT ![c] = k]
              /\ outcome' = [outcome EXCEPT ![j] = "resp"]
              /\ UNCHANGED <<backlog, started>>
    BY <1>1 DEF Respond, Kid, poolVars
  <1>3. /\ slot[s] \in SlotRecord /\ Serving(s) /\ c \in Children /\ child[c] \in ChildRecord
        /\ Linked(slot[s], child[c], started) /\ SlotSound(slot[s]) /\ ChildSound(child[c])
        /\ \A u \in Slots : u # s /\ Serving(u) => slot[u].kid # c
    BY <1>2 DEF Types, Sound, Links, Serving, Kid, SlotsSound
  <1>4. /\ o \in Seq(Jobs) /\ n \in Nat /\ p \in Nat /\ p >= 1 /\ p <= n /\ p \in 1 .. n /\ j \in Jobs
        /\ slot[s].armed \in SUBSET Jobs
        /\ q \in Seq(Jobs) /\ Len(q) \in Nat /\ slot[s].completed \in Nat
    BY <1>3 DEF SlotRecord, ChildRecord
  <1>5. j \in Held(s) /\ Held(s) \subseteq Jobs
    BY <1>3, <1>4, HeldIs DEF Held, Pending
  <1>6. CASE Leave(s, {}, {j})
    BY <1>3, <1>5, <1>6, LeaveSound
  <1>7. CASE ~Leave(s, {}, {j})
    <2>1. /\ slot' = [slot EXCEPT ![s] = r] /\ child' = [child EXCEPT ![c] = k]
          /\ outcome' = [outcome EXCEPT ![j] = "resp"] /\ UNCHANGED <<backlog, started>>
      BY <1>2, <1>7
    <2>2. /\ order \in Seq(Jobs) /\ Len(order) = n - 1
          /\ \A i \in 1 .. n - 1 : order[i] = IF i < p THEN o[i] ELSE o[i + 1]
      BY <1>4, RemoveAtFacts
    <2>3. Injective(o) /\ (\A i \in 1 .. n : o[i] # slot[s].write) /\ slot[s].armed = Prefix(o, Concurrency)
      BY <1>3 DEF SlotSound
    <2> HIDE DEF order, o, q
    \* The old place of what is left, and the new place of everything but the answer.
    <2>4. ASSUME NEW i \in 1 .. n - 1
          PROVE  \E x \in 1 .. n : /\ x # p /\ order[i] = o[x]
                                   /\ x = IF i < p THEN i ELSE i + 1
      BY <1>4, <2>2
    <2>5. ASSUME NEW x \in 1 .. n, x # p
          PROVE  \E i \in 1 .. n - 1 : order[i] = o[x] /\ i = IF x < p THEN x ELSE x - 1
      <3> DEFINE i == IF x < p THEN x ELSE x - 1
      <3>1. i \in 1 .. n - 1 /\ x = IF i < p THEN i ELSE i + 1
        BY <1>4, <2>5
      <3> HIDE DEF i
      <3>2. order[i] = o[x]
        BY <2>2, <3>1
      <3> QED BY <3>1, <3>2 DEF i
    <2>6. Injective(order)
      <3> SUFFICES ASSUME NEW i \in 1 .. n - 1, NEW l \in 1 .. n - 1, order[i] = order[l] PROVE i = l
        BY <2>2 DEF Injective
      <3>1. PICK x \in 1 .. n : order[i] = o[x] /\ x = IF i < p THEN i ELSE i + 1
        BY <2>4
      <3>2. PICK y \in 1 .. n : order[l] = o[y] /\ y = IF l < p THEN l ELSE l + 1
        BY <2>4
      <3>3. x = y
        BY <2>3, <3>1, <3>2 DEF Injective
      <3> QED BY <1>4, <3>1, <3>2, <3>3
    <2>7. armed = Prefix(order, Concurrency)
      <3>1. Concurrency \in Nat
        BY CpuPoolAssumption
      <3>2. PICK a \in Nat : a <= n - 1 /\ a <= Concurrency /\ rest = Prefix(order, a)
        <4> DEFINE a == IF p <= Concurrency THEN (IF n <= Concurrency THEN n - 1 ELSE Concurrency - 1)
                        ELSE Concurrency
        <4>1. a \in Nat /\ a <= n - 1 /\ a <= Concurrency
          BY <1>4, <3>1
        <4>2. \A i \in 1 .. n - 1 : i <= a <=> (IF i < p THEN i ELSE i + 1) <= Concurrency
          BY <1>4, <3>1
        <4> HIDE DEF a
        <4>3. ASSUME NEW y PROVE y \in rest <=> y \in Prefix(order, a)
          <5>1. y \in rest <=> \E x \in 1 .. n : x <= Concurrency /\ x # p /\ o[x] = y
            <6>1. y \in slot[s].armed <=> \E x \in 1 .. n : x <= Concurrency /\ o[x] = y
              BY <2>3 DEF Prefix
            <6>2. \A x \in 1 .. n : o[x] = j <=> x = p
              BY <1>4, <2>3 DEF Injective
            <6> QED BY <6>1, <6>2
          <5>2. y \in Prefix(order, a) <=> \E i \in 1 .. n - 1 : i <= a /\ order[i] = y
            BY <2>2 DEF Prefix
          <5>3. ASSUME NEW x \in 1 .. n, x <= Concurrency, x # p, o[x] = y
                PROVE  \E i \in 1 .. n - 1 : i <= a /\ order[i] = y
            <6>1. PICK i \in 1 .. n - 1 : order[i] = o[x] /\ i = IF x < p THEN x ELSE x - 1
              BY <2>5, <5>3
            <6>2. (IF i < p THEN i ELSE i + 1) = x
              BY <1>4, <5>3, <6>1
            <6> QED BY <4>2, <5>3, <6>1, <6>2
          <5>4. ASSUME NEW i \in 1 .. n - 1, i <= a, order[i] = y
                PROVE  \E x \in 1 .. n : x <= Concurrency /\ x # p /\ o[x] = y
            BY <2>4, <4>2, <5>4
          <5> QED BY <5>1, <5>2, <5>3, <5>4
        <4>4. rest = Prefix(order, a)
          BY <4>3
        <4> QED BY <4>1, <4>4
      <3> QED BY <2>2, <2>6, <3>2, ArmOldest
    <2>8. armed \in SUBSET Jobs /\ m \in Nat
      <3>1. rest \in SUBSET Jobs /\ m \in Nat
        BY <1>4
      <3> HIDE DEF rest, m
      <3> QED BY <2>2, <3>1, ArmType
    <2> HIDE DEF armed, rest, m, out
    <2>9. r \in SlotRecord
      BY <1>3, <2>2, <2>8 DEF SlotRecord, Places
    <2>10. k \in ChildRecord
      BY <1>3 DEF ChildRecord, out
    <2>11. /\ r.at = "top" /\ r.kid = c /\ r.write = slot[s].write /\ r.order = order
           /\ r.armed = armed /\ r.completed = m
      BY <1>3 DEF SlotRecord
    <2>12. /\ k.state = child[c].state /\ k.inbox = q /\ k.running = child[c].running /\ k.out = out
      BY <1>3 DEF ChildRecord, q
    <2> HIDE DEF r, k
    <2>13. SlotSound(r)
      <3>1. \A i \in 1 .. Len(order) : order[i] # slot[s].write
        BY <2>2, <2>3, <2>4
      <3>2. Recycle > 0 => /\ m + Len(order) <= Recycle
                           /\ slot[s].write # None => m + Len(order) < Recycle
        <4>1. m + Len(order) = slot[s].completed + n
          BY <1>4, <2>2 DEF m
        <4> QED BY <1>3, <4>1 DEF SlotSound, o
      <3> QED BY <2>6, <2>7, <2>11, <3>1, <3>2 DEF SlotSound
    <2>14. ChildSound(k)
      BY <1>3, <2>12 DEF ChildSound, out, q
    <2>15. Linked(r, k, started)
      <3>1. CASE child[c].state = "dead"
        <4>1. ASSUME NEW y \in out PROVE \E i \in 1 .. Len(order) : order[i] = y
          <5>1. PICK x \in 1 .. n : o[x] = y
            BY <1>3, <3>1 DEF Linked, o, out
          <5>2. x # p
            BY <5>1 DEF out
          <5> QED BY <2>2, <2>5, <5>1, <5>2
        <4> QED BY <2>11, <2>12, <3>1, <4>1 DEF Linked
      <3>2. CASE child[c].state = "up"
        <4>1. /\ Len(q) <= n
              /\ \A i \in 1 .. Len(q) : q[i] = o[n - Len(q) + i]
              /\ \A y \in child[c].running \cup child[c].out : \E i \in 1 .. n - Len(q) : o[i] = y
              /\ \A i \in 1 .. n - Len(q) : o[i] \in started
              /\ \A y \in child[c].running : y \notin child[c].out
          BY <1>3, <3>2 DEF Linked, o, q
        <4>2. p <= n - Len(q)
          <5>1. PICK i \in 1 .. n - Len(q) : o[i] = j
            BY <1>2, <4>1
          <5>2. i \in 1 .. n
            BY <1>4, <5>1
          <5>3. i = p
            BY <1>4, <2>3, <5>1, <5>2 DEF Injective
          <5> QED BY <1>4, <5>1, <5>3
        <4>3. Len(q) <= Len(order) /\ Len(order) - Len(q) = n - Len(q) - 1
          BY <1>4, <2>2, <4>1, <4>2
        <4>4. ASSUME NEW i \in 1 .. Len(q) PROVE q[i] = order[n - Len(q) - 1 + i]
          <5>1. /\ n - Len(q) - 1 + i \in 1 .. n - 1 /\ ~(n - Len(q) - 1 + i < p)
                /\ n - Len(q) - 1 + i + 1 = n - Len(q) + i
            BY <1>4, <4>1, <4>2
          <5> QED BY <2>2, <4>1, <5>1
        <4>5. ASSUME NEW y \in k.running \cup k.out
              PROVE  \E i \in 1 .. n - Len(q) - 1 : order[i] = y
          <5>1. y \in child[c].running \cup child[c].out /\ y # j
            BY <1>2, <2>12, <4>1 DEF out
          <5>2. PICK x \in 1 .. n - Len(q) : o[x] = y
            BY <4>1, <5>1
          <5>3. x \in 1 .. n /\ x # p
            BY <1>4, <5>1, <5>2
          <5>4. PICK i \in 1 .. n - 1 : order[i] = o[x] /\ i = IF x < p THEN x ELSE x - 1
            BY <2>5, <5>3
          <5>5. i \in 1 .. n - Len(q) - 1
            BY <1>4, <4>2, <5>2, <5>3, <5>4
          <5> QED BY <5>2, <5>4, <5>5
        <4>6. ASSUME NEW i \in 1 .. n - Len(q) - 1 PROVE order[i] \in started
          <5>1. i \in 1 .. n - 1 /\ i \in 1 .. n - Len(q) /\ i + 1 \in 1 .. n - Len(q)
            BY <1>4
          <5> QED BY <2>2, <4>1, <5>1
        <4>7. \A y \in k.running : y \notin k.out
          BY <2>12, <4>1 DEF out
        <4> QED BY <2>11, <2>12, <3>2, <4>3, <4>4, <4>5, <4>6, <4>7 DEF Linked
      <3> QED BY <1>3, <3>1, <3>2 DEF Linked
    <2>16. SlotsSound' /\ Links'
      <3>1. slot' = [slot EXCEPT ![s] = r] /\ child' = [child EXCEPT ![c] = k] /\ started' = started
        BY <2>1
      <3>2. r.at \notin {"ask", "await"}
        BY <2>11
      <3>3. c \in Children /\ r.kid = c /\ \A u \in Slots : u # s /\ Serving(u) => slot[u].kid # c
        BY <1>3, <2>11
      <3> HIDE DEF c, n, j
      <3> QED BY <3>1, <3>2, <3>3, <2>9, <2>10, <2>13, <2>14, <2>15, OneSlot
    <2>17. ToSet(order) = ToSet(o) \ {j}
      <3>1. DOMAIN order = 1 .. n - 1 /\ DOMAIN o = 1 .. n
        BY <1>4, <2>2
      <3>2. \A x \in 1 .. n : o[x] = j <=> x = p
        BY <1>4, <2>3 DEF Injective
      <3>3. \A y : y \in ToSet(order) <=> \E i \in 1 .. n - 1 : order[i] = y
        BY <3>1 DEF ToSet
      <3>4. \A y : y \in ToSet(o) <=> \E x \in 1 .. n : o[x] = y
        BY <3>1 DEF ToSet
      <3>5. \A y : y \in ToSet(order) <=> y \in ToSet(o) \ {j}
        <4> TAKE y
        <4>1. ASSUME NEW i \in 1 .. n - 1, order[i] = y PROVE y # j /\ \E x \in 1 .. n : o[x] = y
          BY <2>4, <3>2, <4>1
        <4>2. ASSUME NEW x \in 1 .. n, o[x] = y, y # j PROVE \E i \in 1 .. n - 1 : order[i] = y
          BY <2>5, <3>2, <4>2
        <4> QED BY <3>3, <3>4, <4>1, <4>2
      <3> QED BY <3>5
    <2>18. Held(s)' = Held(s) \ {j} /\ \A u \in Slots : u # s => Held(u)' = Held(u)
      <3>1. Held(s)' = ToSet(order) \cup ({slot[s].write} \ {None})
        BY <2>1, <2>11, OthersHold
      <3>2. Held(s) = ToSet(o) \cup ({slot[s].write} \ {None}) /\ j # slot[s].write
        BY <2>3 DEF Held, Pending, o
      <3>3. \A u \in Slots : u # s => Held(u)' = Held(u)
        BY <2>1, OthersHold
      <3> QED BY <2>17, <3>1, <3>2, <3>3
    <2>19. outcome'[j] # "wait" /\ \A y \in Jobs \ {j} : outcome'[y] = outcome[y]
      BY <1>4, <2>1 DEF Types
    <2>20. Owned'
      BY <1>5, <2>1, <2>18, <2>19, AnswerOwned DEF Sound
    <2> QED BY <2>16, <2>20 DEF Sound
  <1> QED BY <1>6, <1>7

\* Owners, slots and children under every step.
LEMMA NextSound == Types /\ Sound /\ [Next]_vars => Sound'
  <1> SUFFICES ASSUME Types, Sound, [Next]_vars PROVE Sound'
    OBVIOUS
  <1>1. ASSUME NEW s \in Slots, Exited(s) \/ HardTimeout(s) \/ Wedged(s) PROVE Sound'
    <2>1. Serving(s) /\ slot[s] \in SlotRecord
      BY <1>1 DEF Exited, HardTimeout, Wedged, Serving, Types
    <2>2. slot[s].armed \subseteq Held(s)
      <3>1. slot[s].armed = Prefix(slot[s].order, Concurrency)
        BY DEF Sound, SlotsSound, SlotSound
      <3> QED BY <2>1, <3>1 DEF Prefix, Held, Pending, ToSet, SlotRecord
    <2>3. PICK E \in SUBSET Held(s) : Leave(s, E, {})
      BY <1>1, <2>2 DEF Exited, HardTimeout, Wedged
    <2> QED BY <2>1, <2>3, LeaveSound
  <1>2. ASSUME NEW s \in Slots, SlotStep(s) PROVE Sound'
    BY <1>1, <1>2, QuietSound, ConnectSound, TakeSound, WriteSound, RespondSound DEF SlotStep
  <1> QED BY <1>2, SendSound, OtherSound DEF Next

-----------------------------------------------------------------------------
(* The count of idle slots *)

\* A slot that joins or leaves the idle ones is counted once.
LEMMA IdleMoves ==
    ASSUME Types, IdleExact, NEW s \in Slots, slot'[s].idle \in BOOLEAN,
           \A u \in Slots : u # s => slot'[u].idle = slot[u].idle,
           count' = IF slot[s].idle /\ ~slot'[s].idle THEN count - 1
                    ELSE IF ~slot[s].idle /\ slot'[s].idle THEN count + 1 ELSE count
    PROVE  IdleExact'
  <1> DEFINE I == {u \in Slots : slot[u].idle}
             J == {u \in Slots : slot'[u].idle}
  <1>1. slot[s].idle \in BOOLEAN
    BY DEF Types, SlotRecord
  <1>2. IsFiniteSet(I) /\ count = Cardinality(I) /\ Cardinality(I) \in Nat
    <2>1. IsFiniteSet(I)
      BY CpuPoolAssumption, FS_Subset
    <2> QED BY <2>1, FS_CardinalityType DEF IdleExact
  <1>3. CASE slot[s].idle /\ ~slot'[s].idle
    <2>1. J = I \ {s} /\ s \in I
      BY <1>3
    <2>2. Cardinality(J) = Cardinality(I) - 1
      BY <1>2, <2>1, FS_RemoveElement
    <2> QED BY <1>2, <1>3, <2>2 DEF IdleExact
  <1>4. CASE ~slot[s].idle /\ slot'[s].idle
    <2>1. J = I \cup {s} /\ s \notin I
      BY <1>4
    <2>2. Cardinality(J) = Cardinality(I) + 1
      BY <1>2, <2>1, FS_AddElement
    <2> QED BY <1>2, <1>4, <2>2 DEF IdleExact
  <1>5. CASE slot[s].idle <=> slot'[s].idle
    <2>1. J = I
      BY <1>5
    <2> QED BY <1>2, <1>5, <2>1 DEF IdleExact
  <1> QED BY <1>1, <1>3, <1>4, <1>5

\* The count under every step.
LEMMA NextIdle == Types /\ Sound /\ IdleExact /\ [Next]_vars => IdleExact'
  <1> SUFFICES ASSUME Types, Sound, IdleExact, [Next]_vars PROVE IdleExact'
    OBVIOUS
  <1>1. slot \in [Slots -> SlotRecord] /\ \A u \in Slots : slot[u] \in SlotRecord /\ slot[u].idle \in BOOLEAN
    BY DEF Types, SlotRecord
  <1>2. ASSUME count' = count, \A u \in Slots : slot'[u].idle = slot[u].idle PROVE IdleExact'
    <2>1. {u \in Slots : slot'[u].idle} = {u \in Slots : slot[u].idle}
      BY <1>2
    <2> QED BY <1>2, <2>1 DEF IdleExact
  <1>3. ASSUME NEW s \in Slots, NEW E, NEW A, Leave(s, E, A) PROVE IdleExact'
    <2>1. NoServe.idle = TRUE /\ slot'[s] = NoServe /\ \A u \in Slots : u # s => slot'[u] = slot[u]
      BY <1>1, <1>3 DEF Leave, NoServe
    <2>2. count' = IF slot[s].idle THEN count ELSE count + 1
      BY <1>3 DEF Leave
    <2> QED BY <1>1, <2>1, <2>2, IdleMoves
  <1>4. ASSUME NEW s \in Slots, Recount(s) PROVE IdleExact'
    <2> DEFINE now == Cardinality(Held(s)) < Concurrency
               left == slot[s].idle /\ ~now
    <2>1. now \in BOOLEAN
      OBVIOUS
    <2>2. /\ count' = IF left THEN count - 1 ELSE IF now /\ ~slot[s].idle THEN count + 1 ELSE count
          /\ slot' = [u \in Slots |->
                      IF u = s THEN [slot[s] EXCEPT !.at = "load", !.idle = now]
                      ELSE IF left /\ Listening(slot[u]) THEN [slot[u] EXCEPT !.at = "top"]
                      ELSE slot[u]]
      BY <1>4 DEF Recount
    <2> HIDE DEF now
    <2>3. slot'[s].idle = now
      BY <1>1, <2>2 DEF SlotRecord
    <2>4. ASSUME NEW u \in Slots, u # s PROVE slot'[u].idle = slot[u].idle
      <3>1. slot'[u] = slot[u] \/ slot'[u] = [slot[u] EXCEPT !.at = "top"]
        BY <2>2, <2>4
      <3> QED BY <1>1, <3>1 DEF SlotRecord
    <2> QED BY <1>1, <2>1, <2>2, <2>3, <2>4, IdleMoves
  <1>5. ASSUME NEW s \in Slots, Connect(s) PROVE IdleExact'
    <2>1. slot[s].idle = TRUE
      BY <1>5 DEF Connect, Sound, SlotsSound, SlotSound
    <2>2. PICK c : slot' = [slot EXCEPT ![s] = [NoServe EXCEPT !.at = "top", !.kid = c]]
      BY <1>5 DEF Connect
    <2>3. slot'[s].idle = TRUE /\ \A u \in Slots : u # s => slot'[u] = slot[u]
      BY <1>1, <2>2 DEF NoServe
    <2>4. count' = count
      BY <1>5 DEF Connect, poolVars
    <2> QED BY <1>2, <2>1, <2>3, <2>4
  <1>6. ASSUME NEW s \in Slots, Ask(s) \/ ForkWait(s) \/ LoadIdle(s) \/ Listen(s) \/ Take(s) \/ Write(s)
        PROVE  IdleExact'
    <2>1. count' = count
      BY <1>6 DEF Ask, ForkWait, LoadIdle, Listen, Take, Write, poolVars
    <2>2. ASSUME NEW u \in Slots PROVE slot'[u].idle = slot[u].idle
      <3>1. CASE Ask(s) \/ ForkWait(s) \/ Listen(s)
        <4>1. PICK a : slot' = [slot EXCEPT ![s].at = a]
          BY <3>1 DEF Ask, ForkWait, Listen
        <4> QED BY <1>1, <4>1 DEF SlotRecord
      <3>2. CASE LoadIdle(s)
        <4>1. PICK a, b : slot' = [slot EXCEPT ![s].admit = a, ![s].at = b]
          BY <3>2 DEF LoadIdle
        <4> QED BY <1>1, <4>1 DEF SlotRecord
      <3>3. CASE Take(s)
        <4>1. PICK a, b : slot' = [slot EXCEPT ![s].write = a, ![s].at = b]
          BY <3>3 DEF Take
        <4> QED BY <1>1, <4>1 DEF SlotRecord
      <3>4. CASE Write(s)
        <4> DEFINE o == Append(slot[s].order, slot[s].write)
                   a == ArmStarted(o, slot[s].armed)
        <4>1. slot' = [slot EXCEPT ![s].write = None, ![s].at = "top", ![s].order = o, ![s].armed = a]
          BY <3>4 DEF Write
        <4> HIDE DEF o, a
        <4> QED BY <1>1, <4>1 DEF SlotRecord
      <3> QED BY <1>6, <3>1, <3>2, <3>3, <3>4
    <2> QED BY <1>2, <2>1, <2>2
  <1>7. ASSUME NEW s \in Slots, Respond(s) PROVE IdleExact'
    <2>1. PICK p \in 1 .. Len(slot[s].order) : Respond(s)!2!(p)
      BY <1>7 DEF Respond
    <2> DEFINE j == slot[s].order[p]
               o == RemoveAt(slot[s].order, p)
               a == ArmStarted(o, slot[s].armed \ {j})
               m == slot[s].completed + 1
    <2>2. CASE Leave(s, {}, {j})
      BY <1>3, <2>2
    <2>3. CASE ~Leave(s, {}, {j})
      <3>1. /\ slot' = [slot EXCEPT ![s].at = "top", ![s].order = o, ![s].armed = a, ![s].completed = m]
            /\ count' = count
        BY <2>1, <2>3 DEF poolVars
      <3> HIDE DEF j, o, a, m
      <3>2. \A u \in Slots : slot'[u].idle = slot[u].idle
        BY <1>1, <3>1 DEF SlotRecord
      <3> QED BY <1>2, <3>1, <3>2
    <2> QED BY <2>2, <2>3
  <1>8. ASSUME NEW s \in Slots, SlotStep(s) PROVE IdleExact'
    BY <1>3, <1>4, <1>5, <1>6, <1>7, <1>8 DEF SlotStep, Exited, HardTimeout, Wedged
  <1>9. CASE UNCHANGED <<slot, count>>
    BY <1>9 DEF IdleExact
  <1>10. ASSUME NEW c \in Children, Fork(c) \/ ChildStep(c) PROVE IdleExact'
    <2>1. UNCHANGED <<slot, count>>
      BY <1>10 DEF Fork, ChildStep, Handshake, HandshakeFails, ChildDies, Begin, Answer, AnswerLost, poolVars
    <2> QED BY <1>9, <2>1
  <1>11. CASE (\E j \in Jobs : Send(j)) \/ ParentDies \/ RespawnParent \/ UNCHANGED vars
    BY <1>9, <1>11 DEF Send, ParentDies, RespawnParent, vars
  <1> QED BY <1>8, <1>10, <1>11 DEF Next

-----------------------------------------------------------------------------
(* Theorems *)

IInv == Types /\ Sound /\ IdleExact

\* No request, no child, every slot idle.
LEMMA InitHolds == Init => IInv
  <1> SUFFICES ASSUME Init PROVE IInv
    OBVIOUS
  <1>1. /\ IsFiniteSet(Slots) /\ Cardinality(Slots) \in Nat /\ Concurrency \in Nat /\ Recycle \in Nat
        /\ MaxFaults \in Nat
    BY CpuPoolAssumption, FS_CardinalityType
  <1>2. NoServe \in SlotRecord /\ NoChild \in ChildRecord
    BY DEF NoServe, NoChild, SlotRecord, ChildRecord, Places, ChildStates
  <1>3. Types
    <2>1. 0 <= Capacity
      BY <1>1 DEF Capacity
    <2> QED BY <1>1, <1>2, <2>1 DEF Init, Types, Outcomes
  <1>4. SlotSound(NoServe) /\ ChildSound(NoChild) /\ NoServe.at = "ask"
    BY <1>1 DEF SlotSound, NoServe, ChildSound, NoChild, Injective, Prefix
  <1>5. SlotsSound /\ Links
    BY <1>4 DEF Init, SlotsSound, Links, Serving
  <1>6. \A s \in Slots : Held(s) = {}
    BY DEF Init, Held, Pending, NoServe, ToSet
  <1>7. Owned
    BY <1>6 DEF Init, Owned, Injective
  <1>8. IdleExact
    <2>1. {s \in Slots : slot[s].idle} = Slots
      BY DEF Init, NoServe
    <2> QED BY <2>1 DEF Init, IdleExact
  <1> QED BY <1>3, <1>5, <1>7, <1>8 DEF IInv, Sound

\* The inductive invariant of the cpu lane.
THEOREM InvariantHolds == Spec => []IInv
  <1>1. IInv /\ [Next]_vars => IInv'
    BY NextTypes, NextSound, NextIdle DEF IInv, Sound
  <1> QED BY InitHolds, <1>1, PTL DEF Spec

\* Every variable keeps its type, and the count of idle slots is at most the slots.
THEOREM TypesHold == Spec => []TypeOK
  <1>1. ASSUME IInv PROVE TypeOK
    <2> DEFINE I == {s \in Slots : slot[s].idle}
    <2>1. IsFiniteSet(I) /\ Cardinality(I) <= Cardinality(Slots)
      BY CpuPoolAssumption, FS_Subset
    <2>2. Cardinality(I) \in Nat /\ Cardinality(Slots) \in Nat
      BY <2>1, CpuPoolAssumption, FS_CardinalityType
    <2>3. count \in 0 .. Cardinality(Slots)
      BY <1>1, <2>1, <2>2 DEF IInv, IdleExact
    <2> QED BY <1>1, <2>3 DEF IInv, Types, TypeOK, ChildRecord, SlotRecord
  <1> QED BY <1>1, InvariantHolds, PTL

\* Whatever ends a child, every request waiting is in the channel once or held by one slot,
\* and no other is anywhere (serve_child).
THEOREM OneOwner == Spec => []HeldOnce
  <1>1. ASSUME IInv PROVE HeldOnce
    <2> DEFINE B(j) == {i \in 1 .. Len(backlog) : backlog[i] = j}
               S(j) == {s \in Slots : j \in Held(s)}
    <2>0. SUFFICES ASSUME NEW j \in Jobs
                   PROVE  Cardinality(B(j)) + Cardinality(S(j)) = IF outcome[j] = "wait" THEN 1 ELSE 0
      BY DEF HeldOnce
    <2>1. Owned
      BY <1>1 DEF IInv, Sound
    <2>2. /\ Cardinality({}) = 0 /\ \A x : Cardinality({x}) = 1
      BY FS_EmptySet, FS_Singleton
    <2>3. CASE B(j) # {}
      <3>1. PICK i \in 1 .. Len(backlog) : backlog[i] = j
        BY <2>3
      <3>2. B(j) = {i}
        BY <2>1, <3>1 DEF Owned, Injective
      <3>3. S(j) = {} /\ outcome[j] = "wait"
        BY <2>1, <3>1 DEF Owned
      <3>4. Cardinality({i}) = 1
        BY <2>2, Zenon
      <3> HIDE DEF B, S
      <3> QED BY <2>2, <3>2, <3>3, <3>4
    <2>4. CASE B(j) = {} /\ S(j) # {}
      <3>1. PICK s \in Slots : j \in Held(s)
        BY <2>4
      <3>2. S(j) = {s} /\ outcome[j] = "wait"
        BY <2>1, <3>1 DEF Owned
      <3> HIDE DEF B, S
      <3> QED BY <2>2, <2>4, <3>2
    <2>5. CASE B(j) = {} /\ S(j) = {}
      <3>1. outcome[j] # "wait"
        BY <2>1, <2>5 DEF Owned
      <3> HIDE DEF B, S
      <3> QED BY <2>2, <2>5, <3>1
    <2> QED BY <2>3, <2>4, <2>5
  <1> QED BY <1>1, InvariantHolds, PTL

\* IdleSlots.count is the number of idle slots, on every way through the loop.
THEOREM CountExact == Spec => []IdleExact
  <1>1. IInv => IdleExact
    BY DEF IInv
  <1> QED BY <1>1, InvariantHolds, PTL

\* arm_started never gives a deadline to a request that waits behind a full child.
THEOREM DeadlinesJust == Spec => []ArmedCanRun
  <1>1. ASSUME IInv PROVE ArmedCanRun
    <2> SUFFICES ASSUME NEW s \in Slots, NEW j \in slot[s].armed, j \notin started, Kid(s).state = "up"
                 PROVE  \E i \in 1 .. Concurrency - Cardinality(Kid(s).running) :
                          i <= Len(Kid(s).inbox) /\ Kid(s).inbox[i] = j
      BY DEF ArmedCanRun
    <2> DEFINE o == slot[s].order
               q == Kid(s).inbox
               b == Len(o) - Len(q)
    <2>1. slot[s] \in SlotRecord /\ SlotSound(slot[s])
      BY <1>1 DEF IInv, Sound, SlotsSound, Types
    <2>2. Serving(s)
      BY <2>1 DEF SlotSound, Serving
    <2>3. Linked(slot[s], Kid(s), started) /\ Kid(s) \in ChildRecord
      BY <1>1, <2>2 DEF IInv, Sound, Links, Types, Kid
    <2>4. /\ o \in Seq(Jobs) /\ Len(o) \in Nat /\ Len(q) \in Nat /\ Concurrency \in Nat
          /\ Injective(o)
      BY <2>1, <2>3, CpuPoolAssumption DEF SlotRecord, ChildRecord, SlotSound
    <2>5. /\ Len(q) <= Len(o) /\ \A i \in 1 .. Len(q) : q[i] = o[b + i]
          /\ \A x \in Kid(s).running : \E i \in 1 .. b : o[i] = x
          /\ \A i \in 1 .. b : o[i] \in started
      BY <2>3 DEF Linked
    <2>6. PICK x \in 1 .. Len(o) : x <= Concurrency /\ o[x] = j
      BY <2>1 DEF SlotSound, Prefix
    <2>7. Cardinality(Kid(s).running) \in Nat /\ Cardinality(Kid(s).running) <= b
      <3> HIDE DEF o, q
      <3>1. b \in Nat /\ b <= Len(o)
        BY <2>4, <2>5
      <3>2. Kid(s).running \subseteq Prefix(o, b)
        <4>1. \A i \in 1 .. b : i \in {k \in 1 .. Len(o) : k <= b}
          BY <2>4, <3>1
        <4> QED BY <2>5, <4>1 DEF Prefix
      <3> HIDE DEF b
      <3>3. IsFiniteSet(Prefix(o, b)) /\ Cardinality(Prefix(o, b)) = b
        BY <2>4, <3>1, PrefixSize
      <3>4. IsFiniteSet(Kid(s).running) /\ Cardinality(Kid(s).running) <= b
        BY <3>2, <3>3, FS_Subset
      <3> QED BY <3>4, FS_CardinalityType
    <2> HIDE DEF o, q
    <2>8. x > b
      BY <2>4, <2>5, <2>6
    <2>9. x - b \in 1 .. Len(q) /\ b + (x - b) = x /\ x - b <= Len(q)
      BY <2>4, <2>5, <2>6, <2>8
    <2>10. q[x - b] = j
      BY <2>5, <2>6, <2>9
    <2>11. x - b \in 1 .. Concurrency - Cardinality(Kid(s).running)
      BY <2>4, <2>6, <2>7, <2>9
    <2> QED BY <2>9, <2>10, <2>11 DEF q
  <1> QED BY <1>1, InvariantHolds, PTL

\* What a child has completed and was given never exceeds its recycle budget: none of it is
\* killed with the child that is recycled.
THEOREM BudgetKept == Spec => []RecycleDrains
  <1>1. ASSUME IInv PROVE RecycleDrains
    <2> SUFFICES ASSUME Recycle > 0, NEW s \in Slots
                 PROVE  slot[s].completed + Cardinality(Held(s)) <= Recycle
      BY DEF RecycleDrains
    <2> DEFINE o == slot[s].order
               w == slot[s].write
    <2>1. slot[s] \in SlotRecord /\ SlotSound(slot[s])
      BY <1>1 DEF IInv, Sound, SlotsSound, Types
    <2>2. o \in Seq(Jobs) /\ Len(o) \in Nat /\ slot[s].completed \in Nat /\ Recycle \in Nat
      BY <2>1, CpuPoolAssumption DEF SlotRecord
    <2>3. /\ Injective(o) /\ slot[s].completed + Len(o) <= Recycle
          /\ w # None => slot[s].completed + Len(o) < Recycle
      BY <2>1 DEF SlotSound
    <2>4. Held(s) = ToSet(o) \cup ({w} \ {None})
      BY DEF Held, Pending
    <2> HIDE DEF o, w
    <2>5. ToSet(o) = Prefix(o, Len(o))
      <3>1. DOMAIN o = 1 .. Len(o) /\ {k \in 1 .. Len(o) : k <= Len(o)} = 1 .. Len(o)
        BY <2>2
      <3> QED BY <3>1 DEF ToSet, Prefix
    <2>6. IsFiniteSet(ToSet(o)) /\ Cardinality(ToSet(o)) = Len(o)
      BY <2>2, <2>3, <2>5, PrefixSize
    <2>7. CASE w = None
      <3>1. Held(s) = ToSet(o)
        BY <2>4, <2>7
      <3> QED BY <2>3, <2>6, <3>1
    <2>8. CASE w # None
      <3>1. Held(s) = ToSet(o) \cup {w}
        BY <2>4, <2>8
      <3>2. Cardinality(Held(s)) = Len(o) \/ Cardinality(Held(s)) = Len(o) + 1
        BY <2>6, <3>1, FS_AddElement
      <3> QED BY <2>2, <2>3, <2>8, <3>2
    <2> QED BY <2>7, <2>8
  <1> QED BY <1>1, InvariantHolds, PTL
=============================================================================
