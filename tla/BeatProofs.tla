----------------------------- MODULE BeatProofs -----------------------------
(***************************************************************************)
(* The scheduler proved for any number of replicas, any period, lateness   *)
(* bound and fault bound: while all of them declare one definition and     *)
(* nobody edits it, a slot only moves forward and is published once, and   *)
(* a claim is skipped exactly when every slot it swallows is too late.     *)
(***************************************************************************)
EXTENDS Beat, TLAPS

\* What a replica has read when it acts on it.
ReadInv ==
    /\ torn <= faults
    /\ \A b \in Beats :
        /\ nowRead[b] <= now
        /\ pc[b] \in {"seed", "fire"} => Enabled(defnRead[b])
        /\ pc[b] \in {"drop", "dropRev", "lateDrop", "lateDropRev"} => ~Enabled(defnRead[b])
        /\ pc[b] = "fire" => dueRead[b] >= 1 /\ dueRead[b] <= nowRead[b]

\* One definition, and nobody has edited it.
Fixed == edits = 0 /\ OneRelease

\* Every replica past the reconciliation has stored and read the definition all declare.
DefnInv ==
    \A b \in Beats :
        /\ defn \in {NoDef, Declared[b]}
        /\ reconciled[b] \/ pc[b] \notin {"lead", "sync", "apply"} => defn = Declared[b]
        /\ pc[b] = "apply" => defnRead[b] \in {NoDef, defn}
        /\ pc[b] \notin {"delDue", "delRev"}
        /\ pc[b] \notin {"lead", "sync", "apply", "time", "load"} => defnRead[b] = Declared[b]

\* A slot belongs to the enabled definition and carries its fingerprint.
SlotInv ==
    \A b \in Beats : due # 0 => Enabled(Declared[b]) /\ rev = Declared[b].schedule

\* Slots to come are unpublished, the one due at most by scripts that stopped.
FiredInv ==
    \A x \in 1 .. MaxTime :
        /\ x > due => fired[x] = 0
        /\ x = due => fired[x] <= torn
        /\ x < due => fired[x] <= 1 + torn

IInv == TypeOK /\ ReadInv /\ LatenessJudged /\ (Fixed => DefnInv /\ SlotInv /\ FiredInv)

-----------------------------------------------------------------------------
(* Facts about schedules *)

\* Division rounds down.
LEMMA DivFacts ==
    ASSUME NEW t \in Int, NEW e \in Nat \ {0}
    PROVE  /\ t \div e \in Int
           /\ (t \div e) * e <= t
           /\ t < (t \div e + 1) * e
           /\ t >= 0 => t \div e >= 0
  OBVIOUS

\* The multiple of e after t is the least one above t.
LEMMA LeastMultiple ==
    ASSUME NEW t \in Int, NEW e \in Nat \ {0}, NEW k \in Int, k * e > t
    PROVE  k * e >= (t \div e + 1) * e
  <1>1. t \div e \in Int /\ (t \div e) * e <= t
    BY DivFacts
  <1>2. k > t \div e
    <2> SUFFICES ASSUME k <= t \div e PROVE FALSE
      BY <1>1
    <2>1. k * e <= (t \div e) * e
      BY <1>1
    <2> QED BY <1>1, <2>1
  <1>3. k >= t \div e + 1
    BY <1>1, <1>2
  <1> QED BY <1>1, <1>3

\* Schedule.advance_past: the slot lies after both, and is one of the sequence.
LEMMA AdvanceFacts ==
    ASSUME NEW s \in Schedules, NEW t \in Nat, NEW n \in Nat
    PROVE  /\ NextAfter(s, t) \in Nat /\ NextAfter(s, t) > t
           /\ AdvancePast(s, t, n) \in Nat /\ AdvancePast(s, t, n) > t /\ AdvancePast(s, t, n) > n
  <1> DEFINE e == Every[s]
  <1>1. e \in Nat \ {0}
    BY BeatAssumption
  <1> HIDE DEF e
  <1>2. \A m \in Nat : /\ (m \div e + 1) * e \in Int /\ (m \div e + 1) * e > m
    BY <1>1, DivFacts
  <1>3. \A m \in Nat : NextAfter(s, m) \in Nat /\ NextAfter(s, m) > m
    <2> TAKE m \in Nat
    <2>1. (m \div e + 1) * e \in Int /\ (m \div e + 1) * e > m
      BY <1>2
    <2>2. CASE s \in Aligned
      BY <2>1, <2>2 DEF NextAfter, e
    <2>3. CASE s \notin Aligned
      BY <1>1, <2>3 DEF NextAfter, e
    <2> QED BY <2>2, <2>3
  <1>4. CASE n < t
    BY <1>3, <1>4 DEF AdvancePast
  <1>5. CASE ~(n < t) /\ s \in Aligned
    BY <1>3, <1>5 DEF AdvancePast
  <1>6. CASE ~(n < t) /\ s \notin Aligned
    <2>1. n - t \in Nat
      BY <1>6
    <2>2. ((n - t) \div e + 1) * e \in Int /\ ((n - t) \div e + 1) * e > n - t
      BY <1>2, <2>1
    <2>3. AdvancePast(s, t, n) = t + ((n - t) \div e + 1) * e
      BY <1>6 DEF AdvancePast, e
    <2> QED BY <1>3, <2>1, <2>2, <2>3
  <1> QED BY <1>4, <1>5, <1>6

\* advance_past reaches no slot of the sequence early and skips none.
LEMMA AdvanceLeast ==
    ASSUME NEW s \in Schedules, NEW t \in Nat, NEW y \in Nat, NEW z \in Nat, t <= y, t <= z,
           AdvancePast(s, t, y) > z
    PROVE  AdvancePast(s, t, z) <= AdvancePast(s, t, y)
  <1> DEFINE e == Every[s]
  <1>1. e \in Nat \ {0}
    BY BeatAssumption
  <1> HIDE DEF e
  <1>2. CASE s \in Aligned
    <2>1. /\ AdvancePast(s, t, y) = (y \div e + 1) * e
          /\ AdvancePast(s, t, z) = (z \div e + 1) * e
      BY <1>2 DEF AdvancePast, NextAfter, e
    <2>2. y \div e + 1 \in Int /\ z \div e + 1 \in Int
      BY <1>1, DivFacts
    <2>3. (y \div e + 1) * e >= (z \div e + 1) * e
      BY <1>1, <2>1, <2>2, LeastMultiple
    <2> QED BY <1>1, <2>1, <2>2, <2>3
  <1>3. CASE s \notin Aligned
    <2> DEFINE k == (y - t) \div e + 1
               m == (z - t) \div e + 1
    <2>1. AdvancePast(s, t, y) = t + k * e /\ AdvancePast(s, t, z) = t + m * e
      BY <1>3 DEF AdvancePast, e
    <2>2. k \in Int /\ m \in Int /\ z - t \in Int
      BY <1>1, DivFacts
    <2>3. k * e \in Int /\ m * e \in Int
      BY <1>1, <2>2
    <2> HIDE DEF k, m
    <2>4. k * e > z - t
      BY <2>1, <2>3
    <2>5. k * e >= m * e
      BY <1>1, <2>2, <2>4, LeastMultiple DEF m
    <2> QED BY <2>1, <2>3, <2>5
  <1> QED BY <1>2, <1>3

\* _fire judges the lateness of the newest slot a claim swallows.
LEMMA SuppressedNewest ==
    ASSUME NEW s \in Schedules, NEW t \in Nat, NEW n \in Nat, t <= n
    PROVE  Suppressed(s, t, n) <=>
             SkipMissed /\ \A x \in Coalesced(s, t, n) : n - x > MaxLateness
  <1> DEFINE z == n - MaxLateness - 1
  <1>1. MaxLateness \in Nat
    BY BeatAssumption
  <1>2. ASSUME Suppressed(s, t, n), NEW x \in Coalesced(s, t, n) PROVE n - x > MaxLateness
    <2>1. n - t > MaxLateness /\ AdvancePast(s, t, z) > n
      BY <1>2 DEF Suppressed
    <2>2. z \in Nat /\ t <= z
      BY <1>1, <2>1
    <2>3. CASE x = t
      BY <2>1, <2>3
    <2>4. CASE x # t
      <3>1. PICK y \in t .. n : x = AdvancePast(s, t, y)
        BY <1>2, <2>4 DEF Coalesced
      <3>2. x \in t .. n /\ y \in Nat /\ t <= y
        BY <1>2 DEF Coalesced
      <3> HIDE DEF z
      <3>3. x > z => AdvancePast(s, t, z) <= x
        BY <2>2, <3>1, <3>2, AdvanceLeast
      <3>4. AdvancePast(s, t, z) \in Nat
        BY <2>2, AdvanceFacts
      <3>5. ~(x > z)
        BY <2>1, <3>2, <3>3, <3>4
      <3> QED BY <1>1, <3>2, <3>5 DEF z
    <2> QED BY <2>3, <2>4
  <1>3. ASSUME SkipMissed, \A x \in Coalesced(s, t, n) : n - x > MaxLateness
        PROVE  Suppressed(s, t, n)
    <2>1. t \in Coalesced(s, t, n)
      BY DEF Coalesced
    <2>2. n - t > MaxLateness
      BY <1>3, <2>1
    <2>3. z \in Nat /\ t <= z /\ z \in t .. n
      BY <1>1, <2>2
    <2>4. AdvancePast(s, t, z) \in Nat /\ AdvancePast(s, t, z) > z /\ AdvancePast(s, t, z) > t
      <3> HIDE DEF z
      <3> QED BY <2>3, AdvanceFacts
    <2>5. AdvancePast(s, t, z) > n
      <3> SUFFICES ASSUME AdvancePast(s, t, z) <= n PROVE FALSE
        BY <2>4
      <3>1. AdvancePast(s, t, z) \in Coalesced(s, t, n)
        <4> HIDE DEF z
        <4> QED BY <2>3, <2>4 DEF Coalesced
      <3>2. n - AdvancePast(s, t, z) > MaxLateness
        BY <1>3, <3>1
      <3> QED BY <1>1, <2>4, <3>2
    <2> QED BY <1>3, <2>2, <2>5 DEF Suppressed
  <1>4. Suppressed(s, t, n) => SkipMissed
    BY DEF Suppressed
  <1> QED BY <1>2, <1>3, <1>4

\* What a claim skips is still too late afterwards, and it swallows nothing newer.
LEMMA LateStays ==
    ASSUME NEW s \in Schedules, NEW t \in Nat, NEW n \in Nat, NEW m \in Nat, t <= n, n <= m,
           Suppressed(s, t, n), NEW x \in Coalesced(s, t, m), x < AdvancePast(s, t, n)
    PROVE  m - x > MaxLateness
  <1>1. MaxLateness \in Nat /\ x \in t .. m
    BY BeatAssumption DEF Coalesced
  <1>2. CASE x = t
    BY <1>1, <1>2 DEF Suppressed
  <1>3. CASE x # t
    <2>1. PICK y \in t .. m : x = AdvancePast(s, t, y)
      BY <1>3 DEF Coalesced
    <2>2. y \in Nat /\ t <= y /\ x > y /\ AdvancePast(s, t, n) \in Nat
      BY <2>1, AdvanceFacts
    <2>3. x > n => AdvancePast(s, t, n) <= x
      BY <2>1, <2>2, AdvanceLeast
    <2>4. x <= n
      BY <1>1, <2>2, <2>3
    <2>5. x \in Coalesced(s, t, n)
      BY <1>1, <2>1, <2>2, <2>4 DEF Coalesced
    <2>6. n - x > MaxLateness
      BY <2>5, SuppressedNewest
    <2> QED BY <1>1, <2>6
  <1> QED BY <1>2, <1>3

-----------------------------------------------------------------------------
(* The invariant is preserved *)

\* A replica that fires read an enabled definition and a slot that is due.
LEMMA FireRead ==
    ASSUME TypeOK, ReadInv, NEW b \in Beats, pc[b] = "fire"
    PROVE  /\ defnRead[b].schedule \in Schedules
           /\ dueRead[b] \in 1 .. MaxTime /\ dueRead[b] \in Nat /\ nowRead[b] \in Nat
           /\ dueRead[b] <= nowRead[b]
  <1>1. defnRead[b] \in Defs
    BY DEF TypeOK, ReadInv, Enabled
  <1>2. now \in 0 .. MaxTime /\ nowRead[b] \in 0 .. MaxTime /\ dueRead[b] \in Nat /\ MaxTime \in Nat
    BY BeatAssumption DEF TypeOK
  <1>3. dueRead[b] >= 1 /\ dueRead[b] <= nowRead[b]
    BY DEF ReadInv
  <1> QED BY <1>1, <1>2, <1>3 DEF Defs

\* What a replica does next, the end of its tick and a fault keep their types.
LEMMA StepTypes ==
    ASSUME TypeOK, NEW b \in Beats
    PROVE  /\ \A p \in Steps : Goto(b, p) => pc' \in [Beats -> Steps]
           /\ EndTick(b) => /\ pc' \in [Beats -> Steps]
                            /\ nowRead' \in [Beats -> 0 .. MaxTime]
                            /\ defnRead' \in [Beats -> Defs \cup {NoDef}]
                            /\ dueRead' \in [Beats -> Nat]
           /\ Proceed(b) => pc' \in [Beats -> Steps]
           /\ Fault => faults' \in 0 .. MaxFaults
  <1>1. 0 \in 0 .. MaxTime /\ MaxFaults \in Nat
    BY BeatAssumption
  <1>2. \A p \in Steps : Goto(b, p) => pc' \in [Beats -> Steps]
    BY DEF Goto, TypeOK
  <1>3. "lead" \in Steps /\ "time" \in Steps /\ "sync" \in Steps
    BY DEF Steps
  <1>4. EndTick(b) => pc' \in [Beats -> Steps]
    BY <1>2, <1>3 DEF EndTick
  <1>5. EndTick(b) => nowRead' \in [Beats -> 0 .. MaxTime]
    BY <1>1 DEF EndTick, TypeOK
  <1>6. EndTick(b) => defnRead' \in [Beats -> Defs \cup {NoDef}]
    BY DEF EndTick, TypeOK
  <1>7. EndTick(b) => dueRead' \in [Beats -> Nat]
    BY DEF EndTick, TypeOK
  <1>8. Proceed(b) => pc' \in [Beats -> Steps]
    BY <1>2, <1>3 DEF Proceed
  <1>9. Fault => faults' \in 0 .. MaxFaults
    BY <1>1 DEF Fault, TypeOK
  <1> QED BY <1>2, <1>4, <1>5, <1>6, <1>7, <1>8, <1>9

\* Every step keeps the types.
LEMMA NextTypes == TypeOK /\ ReadInv /\ [Next]_vars => TypeOK'
  <1> SUFFICES ASSUME TypeOK, ReadInv, [Next]_vars PROVE TypeOK'
    OBVIOUS
  <1> USE DEF storeVars, readVars, roleVars
  <1>1. ASSUME NEW b \in Beats, StayLeader(b) PROVE TypeOK'
    BY <1>1, BeatAssumption DEF StayLeader, Proceed, Goto, TypeOK, Steps
  <1>2. ASSUME NEW b \in Beats, RefreshLease(b) PROVE TypeOK'
    <2>1. pc' \in [Beats -> Steps]
      BY <1>2, StepTypes DEF RefreshLease, TypeOK
    <2>2. forced' \in [Beats -> BOOLEAN] /\ leader' \in [Beats -> BOOLEAN]
          /\ reconciled' \in [Beats -> BOOLEAN]
      BY <1>2 DEF RefreshLease, TypeOK
    <2> QED BY <1>2, <2>1, <2>2 DEF RefreshLease, TypeOK
  <1>3. ASSUME NEW b \in Beats, AcquireLease(b) PROVE TypeOK'
    BY <1>3, BeatAssumption DEF AcquireLease, Proceed, Goto, TypeOK, Steps
  <1>4. ASSUME NEW b \in Beats, SyncLoad(b) PROVE TypeOK'
    BY <1>4, BeatAssumption DEF SyncLoad, Goto, TypeOK, Steps
  <1>5. ASSUME NEW b \in Beats, SyncApply(b) PROVE TypeOK'
    <2>1. defn' \in Defs \cup {NoDef}
      BY <1>5, BeatAssumption DEF SyncApply, TypeOK
    <2>2. pc' \in [Beats -> Steps]
      BY <1>5 DEF SyncApply, Goto, TypeOK, Steps
    <2> QED BY <1>5, <2>1, <2>2 DEF SyncApply, TypeOK
  <1>6. ASSUME NEW b \in Beats, SyncDeleteDue(b) PROVE TypeOK'
    BY <1>6, BeatAssumption DEF SyncDeleteDue, Goto, TypeOK, Steps
  <1>7. ASSUME NEW b \in Beats, SyncDeleteRev(b) PROVE TypeOK'
    BY <1>7, BeatAssumption DEF SyncDeleteRev, Goto, TypeOK, Steps
  <1>8. ASSUME NEW b \in Beats, TickTime(b) PROVE TypeOK'
    BY <1>8, BeatAssumption DEF TickTime, Goto, TypeOK, Steps
  <1>9. ASSUME NEW b \in Beats, TickLoad(b) PROVE TypeOK'
    BY <1>9, BeatAssumption DEF TickLoad, Goto, TypeOK, Steps
  <1>10. ASSUME NEW b \in Beats, TickSlots(b) PROVE TypeOK'
    BY <1>10, BeatAssumption DEF TickSlots, Goto, TypeOK, Steps
  <1>11. ASSUME NEW b \in Beats, TickRevs(b) PROVE TypeOK'
    BY <1>11, BeatAssumption DEF TickRevs, Goto, TypeOK, Steps
  <1>12. ASSUME NEW b \in Beats, DropSlot(b) PROVE TypeOK'
    BY <1>12, BeatAssumption DEF DropSlot, Goto, TypeOK, Steps
  <1>13. ASSUME NEW b \in Beats, DropRev(b) PROVE TypeOK'
    <2>1. /\ pc' \in [Beats -> Steps]
          /\ nowRead' \in [Beats -> 0 .. MaxTime]
          /\ defnRead' \in [Beats -> Defs \cup {NoDef}]
          /\ dueRead' \in [Beats -> Nat]
      <3>1. CASE pc[b] = "dropRev"
        BY <1>13, <3>1 DEF DropRev, Goto, TypeOK, Steps
      <3>2. CASE pc[b] # "dropRev"
        BY <1>13, <3>2, StepTypes DEF DropRev
      <3> QED BY <3>1, <3>2
    <2> QED BY <1>13, <2>1 DEF DropRev, TypeOK
  <1>14. ASSUME NEW b \in Beats, Seed(b) PROVE TypeOK'
    <2>1. defnRead[b].schedule \in Schedules
      BY <1>14 DEF Seed, TypeOK, ReadInv, Enabled, Defs
    <2>2. nowRead[b] \in Nat
      BY BeatAssumption DEF TypeOK
    <2>3. NextAfter(defnRead[b].schedule, nowRead[b]) \in Nat
      BY <2>1, <2>2, AdvanceFacts
    <2>4. due' \in Nat /\ rev' \in Schedules \cup {None}
      BY <1>14, <2>1, <2>3 DEF Seed, TypeOK
    <2>5. pc' \in [Beats -> Steps]
      BY <1>14 DEF Seed, Goto, TypeOK, Steps
    <2> QED BY <1>14, <2>4, <2>5 DEF Seed, TypeOK
  <1>15. ASSUME NEW b \in Beats, TickDue(b) PROVE TypeOK'
    <2>1. /\ pc' \in [Beats -> Steps]
          /\ nowRead' \in [Beats -> 0 .. MaxTime]
          /\ defnRead' \in [Beats -> Defs \cup {NoDef}]
          /\ dueRead' \in [Beats -> Nat]
      <3>1. CASE due # 0 /\ due <= nowRead[b]
        <4>1. pc' \in [Beats -> Steps]
          BY <1>15, <3>1 DEF TickDue, Goto, TypeOK, Steps
        <4> QED BY <1>15, <3>1, <4>1 DEF TickDue, TypeOK
      <3>2. CASE ~(due # 0 /\ due <= nowRead[b])
        BY <1>15, <3>2, StepTypes DEF TickDue
      <3> QED BY <3>1, <3>2
    <2> QED BY <1>15, <2>1 DEF TickDue, TypeOK
  <1>16. ASSUME NEW b \in Beats, Claim(b) PROVE TypeOK'
    <2> DEFINE s == defnRead[b].schedule
               v == [schedule |-> s, slot |-> dueRead[b], at |-> nowRead[b],
                     skipped |-> Suppressed(s, dueRead[b], nowRead[b])]
    <2>1. /\ s \in Schedules /\ dueRead[b] \in 1 .. MaxTime
          /\ dueRead[b] \in Nat /\ nowRead[b] \in Nat
      BY <1>16, FireRead DEF Claim
    <2>2. AdvancePast(s, dueRead[b], nowRead[b]) \in Nat
      <3> HIDE DEF s
      <3> QED BY <2>1, AdvanceFacts
    <2>3. Suppressed(s, dueRead[b], nowRead[b]) \in BOOLEAN
      BY BeatAssumption DEF Suppressed
    <2>4. v \in [schedule : Schedules \cup {None}, slot : Nat, at : Nat, skipped : BOOLEAN]
      BY <2>1, <2>3
    <2>5. due' \in Nat
      BY <1>16, <2>2 DEF Claim, TypeOK
    <2>6. judged' \in [schedule : Schedules \cup {None}, slot : Nat, at : Nat, skipped : BOOLEAN]
      BY <1>16, <2>4 DEF Claim, TypeOK
    <2>7. fired' \in [1 .. MaxTime -> Nat]
      <3>1. CASE UNCHANGED fired
        BY <3>1 DEF TypeOK
      <3>2. CASE Publish(dueRead[b])
        BY <2>1, <3>2 DEF Publish, TypeOK
      <3> QED BY <1>16, <3>1, <3>2 DEF Claim
    <2> QED BY <1>16, <2>5, <2>6, <2>7, StepTypes DEF Claim, TypeOK
  <1>17. ASSUME NEW b \in Beats, ClaimTorn(b) PROVE TypeOK'
    <2>1. dueRead[b] \in 1 .. MaxTime
      BY <1>17, FireRead DEF ClaimTorn
    <2>2. torn' \in 0 .. MaxFaults /\ faults' \in 0 .. MaxFaults
      BY <1>17, BeatAssumption DEF ClaimTorn, Fault, TypeOK, ReadInv
    <2>3. fired' \in [1 .. MaxTime -> Nat]
      BY <1>17, <2>1 DEF ClaimTorn, Publish, TypeOK
    <2> QED BY <1>17, <2>2, <2>3, StepTypes DEF ClaimTorn, TypeOK
  <1>18. ASSUME NEW b \in Beats, ClaimFailed(b) PROVE TypeOK'
    BY <1>18, StepTypes DEF ClaimFailed, TypeOK
  <1>19. ASSUME NEW b \in Beats, RedisError(b) PROVE TypeOK'
    <2>1. forced' \in [Beats -> BOOLEAN] /\ reconciled' \in [Beats -> BOOLEAN]
      BY <1>19 DEF RedisError, TypeOK
    <2>2. lock' \in Beats \cup {None}
      BY <1>19 DEF RedisError, TypeOK
    <2> QED BY <1>19, <2>1, <2>2, StepTypes DEF RedisError, TypeOK
  <1>20. ASSUME NEW b \in Beats, Stop(b) PROVE TypeOK'
    <2>1. /\ leader' \in [Beats -> BOOLEAN] /\ forced' \in [Beats -> BOOLEAN]
          /\ reconciled' \in [Beats -> BOOLEAN]
      BY <1>20 DEF Stop, TypeOK
    <2> QED BY <1>20, <2>1, StepTypes DEF Stop, TypeOK
  <1>21. ASSUME NEW b \in Beats, Crash(b) PROVE TypeOK'
    <2>1. /\ leader' \in [Beats -> BOOLEAN] /\ forced' \in [Beats -> BOOLEAN]
          /\ reconciled' \in [Beats -> BOOLEAN]
      BY <1>21 DEF Crash, TypeOK
    <2> QED BY <1>21, <2>1, StepTypes DEF Crash, TypeOK
  <1>22. ASSUME NEW b \in Beats, Start(b) PROVE TypeOK'
    BY <1>22, BeatAssumption DEF Start, TypeOK, Steps
  <1>23. ASSUME NEW d \in UserDefs, Edit(d) PROVE TypeOK'
    BY <1>23, BeatAssumption DEF Edit, TypeOK
  <1>24. CASE ExpireLease
    BY <1>24 DEF ExpireLease, TypeOK
  <1>25. CASE Tick
    BY <1>25, BeatAssumption DEF Tick, TypeOK
  <1>26. CASE UNCHANGED vars
    BY <1>26 DEF vars, TypeOK
  <1> QED BY <1>1, <1>2, <1>3, <1>4, <1>5, <1>6, <1>7, <1>8, <1>9, <1>10, <1>11, <1>12, <1>13, <1>14, <1>15, <1>16, <1>17, <1>18, <1>19, <1>20, <1>21, <1>22, <1>23, <1>24, <1>25, <1>26 DEF Next, Run

\* Every step keeps what the replicas rely on about their reads.
LEMMA NextReads == TypeOK /\ ReadInv /\ [Next]_vars => ReadInv'
  <1> SUFFICES ASSUME TypeOK, ReadInv, [Next]_vars PROVE ReadInv'
    OBVIOUS
  <1> USE DEF storeVars, readVars, roleVars
  <1>0. /\ now \in Nat /\ torn \in Nat /\ faults \in Nat /\ due \in Nat
        /\ nowRead \in [Beats -> Nat] /\ dueRead \in [Beats -> Nat]
        /\ DOMAIN pc = Beats /\ DOMAIN defnRead = Beats
    BY BeatAssumption DEF TypeOK
  <1>1. ASSUME NEW b \in Beats, StayLeader(b) PROVE ReadInv'
    BY <1>0, <1>1 DEF StayLeader, Proceed, Goto, ReadInv
  <1>2. ASSUME NEW b \in Beats, RefreshLease(b) PROVE ReadInv'
    BY <1>0, <1>2 DEF RefreshLease, Proceed, Goto, ReadInv
  <1>3. ASSUME NEW b \in Beats, AcquireLease(b) PROVE ReadInv'
    BY <1>0, <1>3 DEF AcquireLease, Proceed, Goto, ReadInv
  <1>4. ASSUME NEW b \in Beats, SyncLoad(b) PROVE ReadInv'
    BY <1>0, <1>4 DEF SyncLoad, Goto, ReadInv
  <1>5. ASSUME NEW b \in Beats, SyncApply(b) PROVE ReadInv'
    BY <1>0, <1>5 DEF SyncApply, Goto, ReadInv
  <1>6. ASSUME NEW b \in Beats, SyncDeleteDue(b) PROVE ReadInv'
    BY <1>0, <1>6 DEF SyncDeleteDue, Goto, ReadInv
  <1>7. ASSUME NEW b \in Beats, SyncDeleteRev(b) PROVE ReadInv'
    BY <1>0, <1>7 DEF SyncDeleteRev, Goto, ReadInv
  <1>8. ASSUME NEW b \in Beats, TickTime(b) PROVE ReadInv'
    BY <1>0, <1>8 DEF TickTime, Goto, ReadInv
  <1>9. ASSUME NEW b \in Beats, TickLoad(b) PROVE ReadInv'
    BY <1>0, <1>9 DEF TickLoad, Goto, ReadInv
  <1>10. ASSUME NEW b \in Beats, TickSlots(b) PROVE ReadInv'
    BY <1>0, <1>10 DEF TickSlots, Goto, ReadInv
  <1>11. ASSUME NEW b \in Beats, TickRevs(b) PROVE ReadInv'
    BY <1>0, <1>11 DEF TickRevs, Goto, ReadInv
  <1>12. ASSUME NEW b \in Beats, DropSlot(b) PROVE ReadInv'
    BY <1>0, <1>12 DEF DropSlot, Goto, ReadInv
  <1>13. ASSUME NEW b \in Beats, DropRev(b) PROVE ReadInv'
    BY <1>0, <1>13 DEF DropRev, EndTick, Goto, ReadInv
  <1>14. ASSUME NEW b \in Beats, Seed(b) PROVE ReadInv'
    BY <1>0, <1>14 DEF Seed, Goto, ReadInv
  <1>15. ASSUME NEW b \in Beats, TickDue(b) PROVE ReadInv'
    BY <1>0, <1>15 DEF TickDue, EndTick, Goto, ReadInv
  <1>16. ASSUME NEW b \in Beats, Claim(b) PROVE ReadInv'
    BY <1>0, <1>16 DEF Claim, EndTick, Goto, ReadInv
  <1>17. ASSUME NEW b \in Beats, ClaimTorn(b) PROVE ReadInv'
    BY <1>0, <1>17 DEF ClaimTorn, Fault, EndTick, Goto, ReadInv
  <1>18. ASSUME NEW b \in Beats, ClaimFailed(b) PROVE ReadInv'
    BY <1>0, <1>18 DEF ClaimFailed, Fault, EndTick, Goto, ReadInv
  <1>19. ASSUME NEW b \in Beats, RedisError(b) PROVE ReadInv'
    BY <1>0, <1>19 DEF RedisError, Fault, EndTick, Goto, ReadInv
  <1>20. ASSUME NEW b \in Beats, Stop(b) PROVE ReadInv'
    BY <1>0, <1>20 DEF Stop, Fault, ReadInv
  <1>21. ASSUME NEW b \in Beats, Crash(b) PROVE ReadInv'
    BY <1>0, <1>21 DEF Crash, Fault, EndTick, Goto, ReadInv
  <1>22. ASSUME NEW b \in Beats, Start(b) PROVE ReadInv'
    BY <1>0, <1>22 DEF Start, ReadInv
  <1>23. ASSUME NEW d \in UserDefs, Edit(d) PROVE ReadInv'
    BY <1>23 DEF Edit, ReadInv
  <1>24. CASE ExpireLease
    BY <1>24 DEF ExpireLease, ReadInv
  <1>25. CASE Tick
    BY <1>0, <1>25 DEF Tick, ReadInv
  <1>26. CASE UNCHANGED vars
    BY <1>26 DEF vars, ReadInv
  <1> QED BY <1>1, <1>2, <1>3, <1>4, <1>5, <1>6, <1>7, <1>8, <1>9, <1>10, <1>11, <1>12, <1>13, <1>14, <1>15, <1>16, <1>17, <1>18, <1>19, <1>20, <1>21, <1>22, <1>23, <1>24, <1>25, <1>26 DEF Next, Run

\* Only a claim judges lateness.
LEMMA NextJudged == TypeOK /\ ReadInv /\ LatenessJudged /\ [Next]_vars => LatenessJudged'
  <1> SUFFICES ASSUME TypeOK, ReadInv, LatenessJudged, [Next]_vars PROVE LatenessJudged'
    OBVIOUS
  <1>1. ASSUME NEW b \in Beats, Claim(b) PROVE LatenessJudged'
    <2> DEFINE s == defnRead[b].schedule
    <2>1. /\ s \in Schedules /\ dueRead[b] \in Nat /\ nowRead[b] \in Nat
          /\ dueRead[b] <= nowRead[b]
      BY <1>1, FireRead DEF Claim
    <2>2. CASE judged' = judged
      BY <2>2 DEF LatenessJudged
    <2>3. CASE judged' = [schedule |-> s, slot |-> dueRead[b], at |-> nowRead[b],
                          skipped |-> Suppressed(s, dueRead[b], nowRead[b])]
      <3> HIDE DEF s
      <3>1. Suppressed(s, dueRead[b], nowRead[b]) <=>
              /\ SkipMissed
              /\ \A x \in Coalesced(s, dueRead[b], nowRead[b]) : nowRead[b] - x > MaxLateness
        BY <2>1, SuppressedNewest
      <3>2. /\ judged'.schedule = s /\ judged'.slot = dueRead[b] /\ judged'.at = nowRead[b]
            /\ judged'.skipped = Suppressed(s, dueRead[b], nowRead[b])
        BY <2>3
      <3> QED BY <3>1, <3>2 DEF LatenessJudged
    <2> QED BY <1>1, <2>2, <2>3 DEF Claim
  <1>2. CASE UNCHANGED judged
    BY <1>2 DEF LatenessJudged
  <1>3. (\A b \in Beats : ~Claim(b)) => UNCHANGED judged
    BY DEF vars, Next, Run, StayLeader, RefreshLease, AcquireLease, SyncLoad, SyncApply,
           SyncDeleteDue, SyncDeleteRev, TickTime, TickLoad, TickSlots, TickRevs,
           DropSlot, DropRev, Seed, TickDue, ClaimTorn, ClaimFailed, RedisError, Stop,
           Crash, Start, Edit, ExpireLease, Tick
  <1> QED BY <1>1, <1>2, <1>3

\* An edit is never taken back.
LEMMA FixedBefore ==
    ASSUME TypeOK, [Next]_vars, Fixed'
    PROVE  Fixed /\ \A d \in UserDefs : ~Edit(d)
  <1>1. edits \in Nat /\ edits' = 0 /\ OneRelease
    BY BeatAssumption DEF TypeOK, Fixed, OneRelease
  <1>2. \A d \in UserDefs : ~Edit(d)
    BY <1>1 DEF Edit
  <1>3. UNCHANGED edits
    BY <1>2 DEF vars, Next, Run, StayLeader, RefreshLease, AcquireLease, SyncLoad,
           SyncApply, SyncDeleteDue, SyncDeleteRev, TickTime, TickLoad, TickSlots,
           TickRevs, DropSlot, DropRev, Seed, TickDue, Claim, ClaimTorn, ClaimFailed,
           RedisError, Stop, Crash, Start, ExpireLease, Tick
  <1> QED BY <1>1, <1>2, <1>3 DEF Fixed

\* Without edits every replica stores, and then reads, the definition all declare.
LEMMA NextDefn ==
    ASSUME TypeOK, Fixed, DefnInv, [Next]_vars, Fixed'
    PROVE  DefnInv'
  <1> USE DEF storeVars, readVars, roleVars
  <1>0. /\ DOMAIN pc = Beats /\ DOMAIN defnRead = Beats /\ DOMAIN reconciled = Beats
        /\ \A a, b \in Beats : Declared[a] = Declared[b]
    BY DEF TypeOK, Fixed, OneRelease
  <1>1. ASSUME NEW b \in Beats, StayLeader(b) PROVE DefnInv'
    BY <1>0, <1>1 DEF StayLeader, Proceed, Goto, DefnInv
  <1>2. ASSUME NEW b \in Beats, RefreshLease(b) PROVE DefnInv'
    BY <1>0, <1>2 DEF RefreshLease, Proceed, Goto, DefnInv
  <1>3. ASSUME NEW b \in Beats, AcquireLease(b) PROVE DefnInv'
    BY <1>0, <1>3 DEF AcquireLease, Proceed, Goto, DefnInv
  <1>4. ASSUME NEW b \in Beats, SyncLoad(b) PROVE DefnInv'
    BY <1>0, <1>4 DEF SyncLoad, Goto, DefnInv
  <1>5. ASSUME NEW b \in Beats, SyncApply(b) PROVE DefnInv'
    BY <1>0, <1>5 DEF SyncApply, Goto, DefnInv
  <1>6. ASSUME NEW b \in Beats, SyncDeleteDue(b) PROVE DefnInv'
    BY <1>0, <1>6 DEF SyncDeleteDue, Goto, DefnInv
  <1>7. ASSUME NEW b \in Beats, SyncDeleteRev(b) PROVE DefnInv'
    BY <1>0, <1>7 DEF SyncDeleteRev, Goto, DefnInv
  <1>8. ASSUME NEW b \in Beats, TickTime(b) PROVE DefnInv'
    BY <1>0, <1>8 DEF TickTime, Goto, DefnInv
  <1>9. ASSUME NEW b \in Beats, TickLoad(b) PROVE DefnInv'
    BY <1>0, <1>9 DEF TickLoad, Goto, DefnInv
  <1>10. ASSUME NEW b \in Beats, TickSlots(b) PROVE DefnInv'
    BY <1>0, <1>10 DEF TickSlots, Goto, DefnInv
  <1>11. ASSUME NEW b \in Beats, TickRevs(b) PROVE DefnInv'
    BY <1>0, <1>11 DEF TickRevs, Goto, DefnInv
  <1>12. ASSUME NEW b \in Beats, DropSlot(b) PROVE DefnInv'
    BY <1>0, <1>12 DEF DropSlot, Goto, DefnInv
  <1>13. ASSUME NEW b \in Beats, DropRev(b) PROVE DefnInv'
    BY <1>0, <1>13 DEF DropRev, EndTick, Goto, DefnInv
  <1>14. ASSUME NEW b \in Beats, Seed(b) PROVE DefnInv'
    BY <1>0, <1>14 DEF Seed, Goto, DefnInv
  <1>15. ASSUME NEW b \in Beats, TickDue(b) PROVE DefnInv'
    BY <1>0, <1>15 DEF TickDue, EndTick, Goto, DefnInv
  <1>16. ASSUME NEW b \in Beats, Claim(b) PROVE DefnInv'
    BY <1>0, <1>16 DEF Claim, EndTick, Goto, DefnInv
  <1>17. ASSUME NEW b \in Beats, ClaimTorn(b) PROVE DefnInv'
    BY <1>0, <1>17 DEF ClaimTorn, EndTick, Goto, DefnInv
  <1>18. ASSUME NEW b \in Beats, ClaimFailed(b) PROVE DefnInv'
    BY <1>0, <1>18 DEF ClaimFailed, EndTick, Goto, DefnInv
  <1>19. ASSUME NEW b \in Beats, RedisError(b) PROVE DefnInv'
    BY <1>0, <1>19 DEF RedisError, EndTick, Goto, DefnInv
  <1>20. ASSUME NEW b \in Beats, Stop(b) PROVE DefnInv'
    BY <1>0, <1>20 DEF Stop, DefnInv
  <1>21. ASSUME NEW b \in Beats, Crash(b) PROVE DefnInv'
    BY <1>0, <1>21 DEF Crash, EndTick, Goto, DefnInv
  <1>22. ASSUME NEW b \in Beats, Start(b) PROVE DefnInv'
    BY <1>0, <1>22 DEF Start, DefnInv
  <1>23. CASE UNCHANGED <<defn, defnRead, reconciled, pc>>
    BY <1>23 DEF DefnInv
  <1>24. \A d \in UserDefs : ~Edit(d)
    BY FixedBefore
  <1>25. ExpireLease \/ Tick \/ UNCHANGED vars => UNCHANGED <<defn, defnRead, reconciled, pc>>
    BY DEF ExpireLease, Tick, vars
  <1> QED BY <1>1, <1>2, <1>3, <1>4, <1>5, <1>6, <1>7, <1>8, <1>9, <1>10, <1>11, <1>12, <1>13, <1>14, <1>15, <1>16, <1>17, <1>18, <1>19, <1>20, <1>21, <1>22, <1>23, <1>24, <1>25 DEF Next, Run

\* How a step may touch the slot while the definition stays as it is: drops
\* find it absent, a seed too, a claim moves it forward, and a script that
\* stops leaves it due.
SlotStep ==
    \/ UNCHANGED <<due, rev, fired, torn>>
    \/ due = 0 /\ due' = 0 /\ UNCHANGED <<fired, torn>>
    \/ /\ due = 0 /\ due' \in Nat
       /\ \A b \in Beats : Enabled(Declared[b]) /\ rev' = Declared[b].schedule
       /\ UNCHANGED <<fired, torn>>
    \/ /\ due \in 1 .. MaxTime /\ due' \in Nat /\ due' > due
       /\ (fired' = fired /\ TooLate(due')) \/ Publish(due)
       /\ UNCHANGED <<rev, torn>>
    \/ due \in 1 .. MaxTime /\ Publish(due) /\ torn' = torn + 1 /\ UNCHANGED <<due, rev>>

\* Every step is one of these.
LEMMA NextSlotStep ==
    ASSUME TypeOK, ReadInv, Fixed, DefnInv, SlotInv, [Next]_vars
    PROVE  SlotStep
  <1> USE DEF storeVars, readVars, roleVars
  <1>1. ASSUME NEW b \in Beats, SyncDeleteDue(b) \/ SyncDeleteRev(b) PROVE FALSE
    BY <1>1 DEF SyncDeleteDue, SyncDeleteRev, DefnInv
  <1>2. ASSUME NEW b \in Beats, DropSlot(b) \/ DropRev(b) PROVE SlotStep
    <2>1. ~Enabled(Declared[b])
      <3>1. pc[b] \in {"drop", "dropRev", "lateDrop", "lateDropRev"}
        BY <1>2 DEF DropSlot, DropRev
      <3> QED BY <3>1 DEF ReadInv, DefnInv
    <2>2. due = 0
      BY <2>1 DEF SlotInv
    <2> QED BY <1>2, <2>2 DEF DropSlot, DropRev, SlotStep
  <1>3. ASSUME NEW b \in Beats, Seed(b) PROVE SlotStep
    <2>1. Enabled(Declared[b]) /\ defnRead[b] = Declared[b]
      BY <1>3 DEF Seed, ReadInv, DefnInv
    <2>2. Declared[b].schedule \in Schedules
      BY <2>1, BeatAssumption DEF Enabled, Defs
    <2>3. nowRead[b] \in Nat
      BY BeatAssumption DEF TypeOK
    <2>4. NextAfter(Declared[b].schedule, nowRead[b]) \in Nat
      BY <2>2, <2>3, AdvanceFacts
    <2>5. CASE due # 0
      <3>1. rev = Declared[b].schedule
        BY <2>5 DEF SlotInv
      <3> QED BY <1>3, <2>1, <2>5, <3>1 DEF Seed, SlotStep
    <2>6. CASE due = 0
      <3>1. due' = NextAfter(Declared[b].schedule, nowRead[b]) /\ rev' = Declared[b].schedule
        BY <1>3, <2>1, <2>6 DEF Seed
      <3>2. \A a \in Beats : Declared[a] = Declared[b]
        BY DEF Fixed, OneRelease
      <3> QED BY <1>3, <2>1, <2>4, <2>6, <3>1, <3>2 DEF Seed, SlotStep
    <2> QED BY <2>5, <2>6
  <1>4. ASSUME NEW b \in Beats, Claim(b) PROVE SlotStep
    <2> DEFINE s == defnRead[b].schedule
    <2>1. /\ s \in Schedules /\ dueRead[b] \in Nat /\ nowRead[b] \in Nat
          /\ dueRead[b] \in 1 .. MaxTime
      BY <1>4, FireRead DEF Claim
    <2>2. AdvancePast(s, dueRead[b], nowRead[b]) \in Nat
          /\ AdvancePast(s, dueRead[b], nowRead[b]) > dueRead[b]
      <3> HIDE DEF s
      <3> QED BY <2>1, AdvanceFacts
    <2>3. CASE due = dueRead[b]
      <3>1. due' \in Nat /\ due' > due /\ due \in 1 .. MaxTime
        BY <1>4, <2>1, <2>2, <2>3 DEF Claim
      <3>2. ASSUME Suppressed(s, due, nowRead[b]) PROVE fired' = fired /\ TooLate(due')
        <4>1. /\ fired' = fired /\ SkipMissed
              /\ due' = AdvancePast(s, due, nowRead[b])
          BY <1>4, <2>3, <3>2 DEF Claim, Suppressed
        <4>2. /\ defn.schedule = s /\ due \in Nat /\ due <= nowRead[b]
              /\ now \in Nat /\ nowRead[b] <= now
          <5>1. pc[b] = "fire" /\ now \in Nat
            BY <1>4, BeatAssumption DEF Claim, TypeOK
          <5>2. defn = Declared[b] /\ defnRead[b] = Declared[b]
            BY <5>1 DEF DefnInv
          <5> QED BY <2>1, <2>3, <5>1, <5>2 DEF ReadInv
        <4> HIDE DEF s
        <4>3. \A x \in Coalesced(s, due, now) : x < due' => now - x > MaxLateness
          BY <2>1, <3>2, <4>1, <4>2, LateStays
        <4> QED BY <4>1, <4>2, <4>3 DEF TooLate
      <3>3. ASSUME ~Suppressed(s, due, nowRead[b]) PROVE Publish(due)
        BY <1>4, <2>3, <3>3 DEF Claim
      <3>4. (fired' = fired /\ TooLate(due')) \/ Publish(due)
        BY <3>2, <3>3
      <3> QED BY <1>4, <3>1, <3>4 DEF Claim, SlotStep
    <2>4. CASE due # dueRead[b]
      BY <1>4, <2>4 DEF Claim, SlotStep
    <2> QED BY <2>3, <2>4
  <1>5. ASSUME NEW b \in Beats, ClaimTorn(b) PROVE SlotStep
    <2>1. dueRead[b] \in 1 .. MaxTime
      BY <1>5, FireRead DEF ClaimTorn
    <2> QED BY <1>5, <2>1 DEF ClaimTorn, SlotStep
  <1>6. (\A b \in Beats : ~(\/ SyncDeleteDue(b) \/ SyncDeleteRev(b) \/ DropSlot(b) \/ DropRev(b)
                           \/ Seed(b) \/ Claim(b) \/ ClaimTorn(b)))
        => UNCHANGED <<due, rev, fired, torn>>
    BY DEF vars, Next, Run, StayLeader, RefreshLease, AcquireLease, SyncLoad, SyncApply,
           TickTime, TickLoad, TickSlots, TickRevs, TickDue, ClaimFailed, RedisError,
           Stop, Crash, Start, Edit, ExpireLease, Tick
  <1> QED BY <1>1, <1>2, <1>3, <1>4, <1>5, <1>6 DEF SlotStep

\* A slot that exists keeps its fingerprint.
LEMMA NextSlot ==
    ASSUME SlotInv, SlotStep
    PROVE  SlotInv'
  BY DEF SlotInv, SlotStep, Enabled

\* A slot is published when it is left behind, or by a script that stops.
LEMMA NextFired ==
    ASSUME TypeOK, FiredInv, SlotStep
    PROVE  FiredInv'
  <1>0. due \in Nat /\ torn \in Nat /\ fired \in [1 .. MaxTime -> Nat] /\ MaxTime \in Nat
    BY BeatAssumption DEF TypeOK
  <1>1. CASE UNCHANGED <<due, fired, torn>>
    BY <1>1 DEF FiredInv
  <1>2. CASE due = 0 /\ due' \in Nat /\ UNCHANGED <<fired, torn>>
    BY <1>0, <1>2 DEF FiredInv
  <1>3. CASE /\ due \in 1 .. MaxTime /\ due' \in Nat /\ due' > due
             /\ fired' = fired \/ Publish(due)
             /\ UNCHANGED torn
    BY <1>0, <1>3 DEF FiredInv, Publish
  <1>4. CASE due \in 1 .. MaxTime /\ Publish(due) /\ torn' = torn + 1 /\ UNCHANGED due
    BY <1>0, <1>4 DEF FiredInv, Publish
  <1> QED BY <1>1, <1>2, <1>3, <1>4 DEF SlotStep

-----------------------------------------------------------------------------
(* Theorems *)

\* The inductive invariant holds.
THEOREM InvariantHolds == Spec => []IInv
  <1>1. Init => IInv
    <2> SUFFICES ASSUME Init PROVE IInv
      OBVIOUS
    <2> USE BeatAssumption DEF Init
    <2>1. NoVerdict \in [schedule : Schedules \cup {None}, slot : Nat, at : Nat, skipped : BOOLEAN]
      BY DEF NoVerdict
    <2>2. TypeOK
      BY <2>1 DEF TypeOK, Steps
    <2>3. ReadInv
      BY DEF ReadInv
    <2>4. LatenessJudged
      BY DEF LatenessJudged, NoVerdict
    <2>5. DefnInv
      BY DEF DefnInv
    <2>6. SlotInv /\ FiredInv
      BY DEF SlotInv, FiredInv
    <2> QED BY <2>2, <2>3, <2>4, <2>5, <2>6 DEF IInv
  <1>2. IInv /\ [Next]_vars => IInv'
    <2> SUFFICES ASSUME IInv, [Next]_vars PROVE IInv'
      OBVIOUS
    <2>1. TypeOK /\ ReadInv /\ LatenessJudged
      BY DEF IInv
    <2>2. TypeOK' /\ ReadInv' /\ LatenessJudged'
      BY <2>1, NextTypes, NextReads, NextJudged
    <2>3. ASSUME Fixed' PROVE DefnInv' /\ SlotInv' /\ FiredInv'
      <3>1. Fixed
        BY <2>1, <2>3, FixedBefore
      <3>2. DefnInv /\ SlotInv /\ FiredInv
        BY <3>1 DEF IInv
      <3>3. SlotStep
        BY <2>1, <3>1, <3>2, NextSlotStep
      <3>4. DefnInv'
        BY <2>1, <2>3, <3>1, <3>2, NextDefn
      <3> QED BY <2>1, <3>2, <3>3, <3>4, NextSlot, NextFired
    <2> QED BY <2>2, <2>3 DEF IInv
  <1> QED BY <1>1, <1>2, PTL DEF Spec

\* Every variable keeps its type, whatever the definitions and periods.
THEOREM TypesHold == Spec => []TypeOK
  <1>1. IInv => TypeOK
    BY DEF IInv
  <1> QED BY <1>1, InvariantHolds, PTL

\* max_lateness is judged on the newest slot a claim swallows (_fire), for every
\* period, interval or crontab, and whatever the replicas read, edit or lose.
THEOREM LatenessHolds == Spec => []LatenessJudged
  <1>1. IInv => LatenessJudged
    BY DEF IInv
  <1> QED BY <1>1, InvariantHolds, PTL

\* However many replicas believe they lead, and however stale their reads, a
\* slot is published once, and once more for each script that stopped after its
\* publish (_CLAIM_LUA).
THEOREM FiredOnce == Spec => []FiredOncePerSlot
  <1>1. IInv => FiredOncePerSlot
    <2> SUFFICES ASSUME IInv, Fixed, NEW x \in 1 .. MaxTime PROVE fired[x] <= 1 + torn
      BY DEF FiredOncePerSlot, Fixed
    <2>1. /\ due \in Nat /\ torn \in Nat /\ fired[x] \in Nat /\ FiredInv
          /\ x \in Int
      BY BeatAssumption DEF IInv, TypeOK
    <2>2. x > due \/ x = due \/ x < due
      BY <2>1
    <2> QED BY <2>1, <2>2 DEF FiredInv
  <1> QED BY <1>1, InvariantHolds, PTL

\* No stale seed or drop of another replica takes a slot back (_SEED_LUA).
THEOREM SlotsAdvance == Spec => SlotAdvances
  <1>1. IInv /\ [Next]_vars => [edits = 0 /\ OneRelease /\ due # 0 => due' >= due]_vars
    <2> SUFFICES ASSUME IInv, [Next]_vars, Fixed, due # 0 PROVE due' >= due
      BY DEF Fixed
    <2>1. SlotStep
      BY NextSlotStep DEF IInv
    <2>2. due \in Nat
      BY DEF IInv, TypeOK
    <2> QED BY <2>1, <2>2 DEF SlotStep
  <1> QED BY <1>1, InvariantHolds, PTL DEF Spec, SlotAdvances

\* A slot is passed only if it was published, or is too late with all that were coalesced
\* with it (_CLAIM_LUA, _fire), for every schedule and any replicas, reads and faults.
THEOREM FiringsKept == Spec => NoFiringLost
  <1>1. IInv /\ [Next]_vars =>
          [edits = 0 /\ OneRelease /\ due # 0 /\ due' > due =>
              fired'[due] > 0 \/ TooLate(due')]_vars
    <2> SUFFICES ASSUME IInv, [Next]_vars, Fixed, due # 0, due' > due
                 PROVE  fired'[due] > 0 \/ TooLate(due')
      BY DEF Fixed
    <2>1. SlotStep
      BY NextSlotStep DEF IInv
    <2>2. due \in Nat /\ fired \in [1 .. MaxTime -> Nat]
      BY DEF IInv, TypeOK
    <2>3. \/ TooLate(due')
          \/ due \in 1 .. MaxTime /\ Publish(due)
      BY <2>1, <2>2 DEF SlotStep
    <2>4. due \in 1 .. MaxTime /\ Publish(due) => fired'[due] > 0
      BY <2>2 DEF Publish
    <2> QED BY <2>3, <2>4
  <1> QED BY <1>1, InvariantHolds, PTL DEF Spec, NoFiringLost
=============================================================================
