-------------------------------- MODULE Beat --------------------------------
(***************************************************************************)
(* The periodic scheduler: replicas of cauli-beat that share the lease     *)
(* cauli:beat:lock and the schedule of one entry (py/cauli/beat.py).       *)
(*                                                                         *)
(* Entries do not interact (a tick handles them one by one), so one entry  *)
(* is modelled.  Every Redis command or script is one step; the reads of a *)
(* tick are separate steps, so a replica may act on values that are stale. *)
(* The lease may expire at any time: that is a holder stalled for its TTL. *)
(* Safety must rest on the compare and set of the slot alone.              *)
(***************************************************************************)
EXTENDS Integers

CONSTANTS
    Beats,        \* replicas
    Schedules,    \* schedules an entry may have; rev(), computed for enabled entries
                  \* only, tells them apart and nothing else
    Every,        \* Every[s]: the period of s
    Aligned,      \* schedules that fire at fixed instants (crontab), not by interval
    Declared,     \* Declared[b]: the definition in the code of replica b, or NoDef
    UserDefs,     \* definitions a user may store
    MaxLateness,  \* max_lateness of the entry
    SkipMissed,   \* on_missed = "skip"
    NoDef,        \* no definition stored
    None,         \* no lease holder, no fingerprint stored
    MaxTime,      \* bound: Redis TIME
    MaxEdits,     \* bound: definitions stored by users
    MaxFaults     \* bound: stops, crashes, Redis errors and torn scripts

Defs == [schedule : Schedules, enabled : BOOLEAN, source : {"code", "user"}]

ASSUME BeatAssumption ==
    /\ Every \in [Schedules -> Nat \ {0}]
    /\ Aligned \subseteq Schedules
    /\ NoDef \notin Defs
    /\ Declared \in [Beats -> Defs \cup {NoDef}]
    /\ UserDefs \subseteq Defs
    /\ MaxLateness \in Nat
    /\ SkipMissed \in BOOLEAN
    /\ None \notin Beats \cup Schedules
    /\ {MaxTime, MaxEdits, MaxFaults} \subseteq Nat

VARIABLES
    now,         \* Redis TIME
    defn,        \* the entry in cauli:beat:schedule
    due,         \* its score in cauli:beat:due, or 0
    rev,         \* its fingerprint in cauli:beat:rev
    lock,        \* the holder of cauli:beat:lock
    fired,       \* history: fired[s] counts the envelopes published for slot s
    judged,      \* history: the last claim won, as a record
    up,          \* live replicas
    leader,      \* leader[b]: _is_leader
    forced,      \* forced[b]: _next_refresh is in the past for sure
    reconciled,  \* reconciled[b]: _reconciled
    pc,          \* pc[b]: the next Redis command of replica b
    nowRead,     \* nowRead[b]: TIME as read by the tick
    defnRead,    \* defnRead[b]: the definition as read
    dueRead,     \* dueRead[b]: the slot as read
    torn,        \* history: claim scripts that stopped after their publish
    edits, faults

storeVars == <<defn, due, rev>>
readVars  == <<nowRead, defnRead, dueRead>>
roleVars  == <<leader, forced, reconciled>>
vars      == <<now, defn, due, rev, lock, fired, judged, up, leader, forced, reconciled,
               pc, nowRead, defnRead, dueRead, edits, torn, faults>>

Steps == {"lead", "sync", "apply", "delDue", "delRev", "time", "load", "slots", "revs",
          "drop", "dropRev", "seed", "due", "lateDrop", "lateDropRev", "fire"}

-----------------------------------------------------------------------------
(* Schedules *)

\* Schedule.next_after: the first slot strictly after t.
NextAfter(s, t) == IF s \in Aligned THEN (t \div Every[s] + 1) * Every[s] ELSE t + Every[s]

\* Schedule.advance_past: the first slot of the sequence from t strictly after
\* both t and n. Intervals keep the phase of t.
AdvancePast(s, t, n) ==
    IF n < t THEN NextAfter(s, t)
    ELSE IF s \in Aligned THEN NextAfter(s, n)
    ELSE t + ((n - t) \div Every[s] + 1) * Every[s]

\* Mutant of Suppressed: the lateness of the oldest slot decides.
SuppressedByOldest(s, t, n) == SkipMissed /\ n - t > MaxLateness

\* _fire: the slot is skipped when even the newest coalesced slot is too late.
Suppressed(s, t, n) ==
    /\ SkipMissed
    /\ n - t > MaxLateness
    /\ AdvancePast(s, t, n - MaxLateness - 1) > n

Enabled(d) == d # NoDef /\ d.enabled

Goto(b, p) == pc' = [pc EXCEPT ![b] = p]

\* The tick returns, or raises: what it read is forgotten.
EndTick(b) ==
    /\ Goto(b, "lead")
    /\ nowRead' = [nowRead EXCEPT ![b] = 0]
    /\ defnRead' = [defnRead EXCEPT ![b] = NoDef]
    /\ dueRead' = [dueRead EXCEPT ![b] = 0]

Fault == faults < MaxFaults /\ faults' = faults + 1

-----------------------------------------------------------------------------
(* The lease *)

\* Where a leader goes from _hold_leadership.
Proceed(b) == Goto(b, IF reconciled[b] THEN "time" ELSE "sync")

\* _hold_leadership without a round trip: the last refresh is recent.
StayLeader(b) ==
    /\ pc[b] = "lead" /\ leader[b] /\ ~forced[b]
    /\ Proceed(b)
    /\ UNCHANGED <<now, storeVars, lock, fired, judged, up, roleVars, readVars, edits, torn, faults>>

\* refresh_lock: PEXPIRE if still ours, else step down.
RefreshLease(b) ==
    /\ pc[b] = "lead" /\ leader[b]
    /\ IF lock = b
       THEN /\ forced' = [forced EXCEPT ![b] = FALSE]
            /\ Proceed(b)
            /\ UNCHANGED <<leader, reconciled>>
       ELSE /\ leader' = [leader EXCEPT ![b] = FALSE]
            /\ reconciled' = [reconciled EXCEPT ![b] = FALSE]
            /\ UNCHANGED <<forced, pc>>
    /\ UNCHANGED <<now, storeVars, lock, fired, judged, up, readVars, edits, torn, faults>>

\* acquire_lock: SET NX.
AcquireLease(b) ==
    /\ pc[b] = "lead" /\ ~leader[b] /\ b \in up
    /\ lock = None
    /\ lock' = b
    /\ leader' = [leader EXCEPT ![b] = TRUE]
    /\ forced' = [forced EXCEPT ![b] = FALSE]
    /\ Proceed(b)
    /\ UNCHANGED <<now, storeVars, fired, judged, up, reconciled, readVars, edits, torn, faults>>

\* The lease was not refreshed for its TTL.
ExpireLease ==
    /\ lock # None
    /\ lock' = None
    /\ UNCHANGED <<now, storeVars, fired, judged, up, roleVars, pc, readVars, edits, torn, faults>>

-----------------------------------------------------------------------------
(* Reconciliation with the code: sync_code_entries *)

SyncLoad(b) ==
    /\ pc[b] = "sync"
    /\ defnRead' = [defnRead EXCEPT ![b] = defn]
    /\ Goto(b, "apply")
    /\ UNCHANGED <<now, storeVars, lock, fired, judged, up, roleVars, nowRead, dueRead,
                   edits, torn, faults>>

\* upsert when the declared entry differs, or the first command of delete when a
\* "code" entry is no longer declared.
SyncApply(b) ==
    /\ pc[b] = "apply"
    /\ IF /\ Declared[b] = NoDef
          /\ defnRead[b] # NoDef
          /\ defnRead[b].source = "code"
       THEN defn' = NoDef /\ Goto(b, "delDue")
       ELSE /\ defn' = IF Declared[b] = NoDef \/ defnRead[b] = Declared[b]
                       THEN defn ELSE Declared[b]
            /\ Goto(b, "time")
    /\ UNCHANGED <<now, due, rev, lock, fired, judged, up, roleVars, readVars, edits, torn, faults>>

SyncDeleteDue(b) ==
    /\ pc[b] = "delDue"
    /\ due' = 0
    /\ Goto(b, "delRev")
    /\ UNCHANGED <<now, defn, rev, lock, fired, judged, up, roleVars, readVars, edits, torn, faults>>

SyncDeleteRev(b) ==
    /\ pc[b] = "delRev"
    /\ rev' = None
    /\ Goto(b, "time")
    /\ UNCHANGED <<now, defn, due, lock, fired, judged, up, roleVars, readVars, edits, torn, faults>>

-----------------------------------------------------------------------------
(* One tick *)

\* run() has set _reconciled; the tick reads TIME.
TickTime(b) ==
    /\ pc[b] = "time"
    /\ reconciled' = [reconciled EXCEPT ![b] = TRUE]
    /\ nowRead' = [nowRead EXCEPT ![b] = now]
    /\ Goto(b, "load")
    /\ UNCHANGED <<now, storeVars, lock, fired, judged, up, leader, forced, defnRead, dueRead,
                   edits, torn, faults>>

TickLoad(b) ==
    /\ pc[b] = "load"
    /\ defnRead' = [defnRead EXCEPT ![b] = defn]
    /\ Goto(b, "slots")
    /\ UNCHANGED <<now, storeVars, lock, fired, judged, up, roleVars, nowRead, dueRead,
                   edits, torn, faults>>

\* slots_and_revs, first command.
TickSlots(b) ==
    /\ pc[b] = "slots"
    /\ dueRead' = [dueRead EXCEPT ![b] = due]
    /\ Goto(b, "revs")
    /\ UNCHANGED <<now, storeVars, lock, fired, judged, up, roleVars, nowRead, defnRead,
                   edits, torn, faults>>

\* Mutant of TickRevs: an entry that has a slot is not seeded again.
TickRevsSlotOnly(b) ==
    /\ pc[b] = "revs"
    /\ Goto(b, IF ~Enabled(defnRead[b])
               THEN IF dueRead[b] # 0 THEN "drop" ELSE "due"
               ELSE IF dueRead[b] # 0 THEN "due" ELSE "seed")
    /\ UNCHANGED <<now, storeVars, lock, fired, judged, up, roleVars, readVars, edits, torn, faults>>

\* slots_and_revs, second command, and the choice made on all that was read: an
\* entry without a slot or with another fingerprint is seeded, the slot of a
\* disabled or missing entry is dropped.
TickRevs(b) ==
    /\ pc[b] = "revs"
    /\ Goto(b, IF ~Enabled(defnRead[b])
               THEN IF dueRead[b] # 0 THEN "drop" ELSE "due"
               ELSE IF dueRead[b] # 0 /\ rev = defnRead[b].schedule THEN "due" ELSE "seed")
    /\ UNCHANGED <<now, storeVars, lock, fired, judged, up, roleVars, readVars, edits, torn, faults>>

\* drop_slot, first command; from "lateDrop" it is the drop of a due slot whose
\* definition was not enabled when it was read.
DropSlot(b) ==
    /\ pc[b] \in {"drop", "lateDrop"}
    /\ due' = 0
    /\ Goto(b, IF pc[b] = "drop" THEN "dropRev" ELSE "lateDropRev")
    /\ UNCHANGED <<now, defn, rev, lock, fired, judged, up, roleVars, readVars, edits, torn, faults>>

DropRev(b) ==
    /\ pc[b] \in {"dropRev", "lateDropRev"}
    /\ rev' = None
    /\ IF pc[b] = "dropRev" THEN Goto(b, "due") /\ UNCHANGED readVars ELSE EndTick(b)
    /\ UNCHANGED <<now, defn, due, lock, fired, judged, up, roleVars, edits, torn, faults>>

\* Mutant of Seed: the script does not check the fingerprint.
SeedAlways(b) ==
    /\ pc[b] = "seed"
    /\ due' = NextAfter(defnRead[b].schedule, nowRead[b])
    /\ rev' = defnRead[b].schedule
    /\ Goto(b, "due")
    /\ UNCHANGED <<now, defn, lock, fired, judged, up, roleVars, readVars, edits, torn, faults>>

\* _SEED_LUA.
Seed(b) ==
    /\ pc[b] = "seed"
    /\ LET s == defnRead[b].schedule IN
       IF rev = s /\ due # 0
       THEN UNCHANGED <<due, rev>>
       ELSE due' = NextAfter(s, nowRead[b]) /\ rev' = s
    /\ Goto(b, "due")
    /\ UNCHANGED <<now, defn, lock, fired, judged, up, roleVars, readVars, edits, torn, faults>>

\* due(now): what is due is fired, or dropped when the definition read is not
\* enabled.
TickDue(b) ==
    /\ pc[b] = "due"
    /\ IF due # 0 /\ due <= nowRead[b]
       THEN /\ dueRead' = [dueRead EXCEPT ![b] = due]
            /\ Goto(b, IF Enabled(defnRead[b]) THEN "fire" ELSE "lateDrop")
            /\ UNCHANGED <<nowRead, defnRead>>
       ELSE EndTick(b)
    /\ UNCHANGED <<now, storeVars, lock, fired, judged, up, roleVars, edits, torn, faults>>

Publish(s) == fired' = [fired EXCEPT ![s] = @ + 1]

\* Mutant of Claim: the slot is not compared.
ClaimUnchecked(b) ==
    /\ pc[b] = "fire"
    /\ LET s == defnRead[b].schedule
           skip == Suppressed(s, dueRead[b], nowRead[b])
       IN  /\ due' = AdvancePast(s, dueRead[b], nowRead[b])
           /\ IF skip THEN UNCHANGED fired ELSE Publish(dueRead[b])
           /\ judged' = [schedule |-> s, slot |-> dueRead[b], at |-> nowRead[b], skipped |-> skip]
    /\ EndTick(b)
    /\ UNCHANGED <<now, defn, rev, lock, up, roleVars, edits, torn, faults>>

\* Mutant of Claim: a skipped slot is not advanced.
ClaimSkipStays(b) ==
    /\ pc[b] = "fire"
    /\ LET s == defnRead[b].schedule
           skip == Suppressed(s, dueRead[b], nowRead[b])
       IN  IF due = dueRead[b] /\ ~skip
           THEN due' = AdvancePast(s, dueRead[b], nowRead[b]) /\ Publish(dueRead[b])
           ELSE UNCHANGED <<due, fired>>
    /\ EndTick(b)
    /\ UNCHANGED <<now, defn, rev, lock, judged, up, roleVars, edits, torn, faults>>

\* _fire and _CLAIM_LUA: publish and advance if the slot is still the one read.
Claim(b) ==
    /\ pc[b] = "fire"
    /\ LET s == defnRead[b].schedule
           skip == Suppressed(s, dueRead[b], nowRead[b])
       IN  IF due = dueRead[b]
           THEN /\ due' = AdvancePast(s, dueRead[b], nowRead[b])
                /\ IF skip THEN UNCHANGED fired ELSE Publish(dueRead[b])
                /\ judged' = [schedule |-> s, slot |-> dueRead[b], at |-> nowRead[b],
                              skipped |-> skip]
           ELSE UNCHANGED <<due, fired, judged>>
    /\ EndTick(b)
    /\ UNCHANGED <<now, defn, rev, lock, up, roleVars, edits, torn, faults>>

\* Mutant of ClaimTorn: the advance stands above the publish.
ClaimTornAdvanced(b) ==
    /\ pc[b] = "fire"
    /\ Fault
    /\ torn' = torn + 1
    /\ due = dueRead[b]
    /\ ~Suppressed(defnRead[b].schedule, dueRead[b], nowRead[b])
    /\ due' = AdvancePast(defnRead[b].schedule, dueRead[b], nowRead[b])
    /\ EndTick(b)
    /\ UNCHANGED <<now, defn, rev, fired, lock, judged, up, roleVars, edits>>

\* The script stops after the publish; nothing is rolled back and the slot
\* stays due.
ClaimTorn(b) ==
    /\ pc[b] = "fire"
    /\ Fault
    /\ torn' = torn + 1
    /\ due = dueRead[b]
    /\ ~Suppressed(defnRead[b].schedule, dueRead[b], nowRead[b])
    /\ Publish(dueRead[b])
    /\ EndTick(b)
    /\ UNCHANGED <<now, storeVars, lock, judged, up, roleVars, edits>>

\* claim_and_publish raises and Redis did nothing: _fire keeps the slot due.
ClaimFailed(b) ==
    /\ pc[b] = "fire"
    /\ Fault
    /\ EndTick(b)
    /\ UNCHANGED <<now, storeVars, lock, fired, judged, up, roleVars, edits, torn>>

-----------------------------------------------------------------------------
(* Faults and the environment *)

\* run(): a Redis call of the loop raises; the leader keeps its role and must
\* refresh first. A SET NX whose reply was lost may have taken the lease; at "time"
\* the call that failed is the TIME or the last one of sync_code_entries.
RedisError(b) ==
    /\ b \in up
    /\ pc[b] # "fire"
    /\ Fault
    /\ EndTick(b)
    /\ forced' = [forced EXCEPT ![b] = TRUE]
    /\ lock' \in {lock} \cup IF pc[b] = "lead" /\ ~leader[b] /\ lock = None THEN {b} ELSE {}
    /\ reconciled' \in {reconciled} \cup
                       IF pc[b] = "time" THEN {[reconciled EXCEPT ![b] = TRUE]} ELSE {}
    /\ UNCHANGED <<now, storeVars, fired, judged, up, leader, edits, torn>>

\* run() ends: the lease is released if this replica holds it.
Stop(b) ==
    /\ b \in up /\ pc[b] = "lead"
    /\ Fault
    /\ lock' = IF leader[b] /\ lock = b THEN None ELSE lock
    /\ up' = up \ {b}
    /\ leader' = [leader EXCEPT ![b] = FALSE]
    /\ forced' = [forced EXCEPT ![b] = FALSE]
    /\ reconciled' = [reconciled EXCEPT ![b] = FALSE]
    /\ UNCHANGED <<now, storeVars, fired, judged, pc, readVars, edits, torn>>

\* The process dies; its lease stays until it expires.
Crash(b) ==
    /\ b \in up
    /\ Fault
    /\ up' = up \ {b}
    /\ leader' = [leader EXCEPT ![b] = FALSE]
    /\ forced' = [forced EXCEPT ![b] = FALSE]
    /\ reconciled' = [reconciled EXCEPT ![b] = FALSE]
    /\ EndTick(b)
    /\ UNCHANGED <<now, storeVars, lock, fired, judged, edits, torn>>

Start(b) ==
    /\ b \notin up
    /\ up' = up \cup {b}
    /\ UNCHANGED <<now, storeVars, lock, fired, judged, roleVars, pc, readVars, edits, torn, faults>>

\* A user stores a definition (ScheduleStore.upsert).
Edit(d) ==
    /\ edits < MaxEdits
    /\ edits' = edits + 1
    /\ defn' = d
    /\ UNCHANGED <<now, due, rev, lock, fired, judged, up, roleVars, pc, readVars, torn, faults>>

Tick ==
    /\ now < MaxTime
    /\ now' = now + 1
    /\ UNCHANGED <<storeVars, lock, fired, judged, up, roleVars, pc, readVars, edits, torn, faults>>

-----------------------------------------------------------------------------
NoVerdict == [schedule |-> None, slot |-> 0, at |-> 0, skipped |-> FALSE]

Init ==
    /\ now = 0 /\ defn = NoDef /\ due = 0 /\ rev = None /\ lock = None
    /\ fired = [s \in 1 .. MaxTime |-> 0] /\ judged = NoVerdict
    /\ up = Beats
    /\ leader = [b \in Beats |-> FALSE]
    /\ forced = [b \in Beats |-> FALSE]
    /\ reconciled = [b \in Beats |-> FALSE]
    /\ pc = [b \in Beats |-> "lead"]
    /\ nowRead = [b \in Beats |-> 0]
    /\ defnRead = [b \in Beats |-> NoDef]
    /\ dueRead = [b \in Beats |-> 0]
    /\ edits = 0 /\ torn = 0 /\ faults = 0

\* What run() does in a live process.
Run(b) ==
    \/ StayLeader(b) \/ RefreshLease(b) \/ AcquireLease(b)
    \/ SyncLoad(b) \/ SyncApply(b) \/ SyncDeleteDue(b) \/ SyncDeleteRev(b)
    \/ TickTime(b) \/ TickLoad(b) \/ TickSlots(b) \/ TickRevs(b)
    \/ DropSlot(b) \/ DropRev(b) \/ Seed(b) \/ TickDue(b) \/ Claim(b)

Next ==
    \/ \E b \in Beats : Run(b) \/ ClaimTorn(b) \/ ClaimFailed(b) \/ RedisError(b)
                       \/ Stop(b) \/ Crash(b) \/ Start(b)
    \/ \E d \in UserDefs : Edit(d)
    \/ ExpireLease
    \/ Tick

Spec == Init /\ [][Next]_vars

\* A live replica keeps looping, Redis time advances, and a lease whose holder
\* no longer refreshes it expires.
Fairness ==
    /\ \A b \in Beats : WF_vars(Run(b))
    /\ WF_vars(Tick)
    /\ WF_vars(lock \in Beats /\ ~leader[lock] /\ ExpireLease)

FairSpec == Spec /\ Fairness

-----------------------------------------------------------------------------
(* Properties *)

\* Every variable has its type.
TypeOK ==
    /\ now \in 0 .. MaxTime
    /\ defn \in Defs \cup {NoDef}
    /\ due \in Nat
    /\ rev \in Schedules \cup {None}
    /\ lock \in Beats \cup {None}
    /\ fired \in [1 .. MaxTime -> Nat]
    /\ judged \in [schedule : Schedules \cup {None}, slot : Nat, at : Nat, skipped : BOOLEAN]
    /\ up \subseteq Beats
    /\ leader \in [Beats -> BOOLEAN]
    /\ forced \in [Beats -> BOOLEAN]
    /\ reconciled \in [Beats -> BOOLEAN]
    /\ pc \in [Beats -> Steps]
    /\ nowRead \in [Beats -> 0 .. MaxTime]
    /\ defnRead \in [Beats -> Defs \cup {NoDef}]
    /\ dueRead \in [Beats -> Nat]
    /\ edits \in 0 .. MaxEdits /\ torn \in 0 .. MaxFaults /\ faults \in 0 .. MaxFaults

\* Every replica runs a release that declares the same definition.
OneRelease == \A a, b \in Beats : Declared[a] = Declared[b]

\* A slot is published once across replicas, even when several of them lead at
\* once with stale reads (_CLAIM_LUA, _SEED_LUA), and again only for a script
\* that stopped after its publish; this is while the definition stays as it is.
FiredOncePerSlot == edits = 0 /\ OneRelease => \A s \in 1 .. MaxTime : fired[s] <= 1 + torn

\* While the definition stays as it is the slot only moves forward: no stale
\* seed or drop of another replica ever takes it back (_SEED_LUA's check).
SlotAdvances == [][edits = 0 /\ OneRelease /\ due # 0 => due' >= due]_vars

\* The slots an outage coalesced into the claim of slot t at time n.
Coalesced(s, t, n) == {x \in t .. n : x = t \/ \E y \in t .. n : x = AdvancePast(s, t, y)}

\* max_lateness is judged on the newest coalesced slot (_fire): a claim skips
\* exactly when every slot it swallows is more than max_lateness late.
LatenessJudged ==
    judged.schedule # None =>
        (judged.skipped <=> /\ SkipMissed
                            /\ \A x \in Coalesced(judged.schedule, judged.slot, judged.at) :
                                   judged.at - x > MaxLateness)

\* The slot that is due and all that are coalesced with it before next are too late.
TooLate(next) ==
    /\ SkipMissed
    /\ \A x \in Coalesced(defn.schedule, due, now) : x < next => now - x > MaxLateness

\* No firing is lost (_CLAIM_LUA publishes above the advance): a slot is passed only if it
\* was published, or if it and all that were coalesced with it are too late for max_lateness,
\* whichever replicas stop, fail or lose a race in between.
NoFiringLost ==
    [][edits = 0 /\ OneRelease /\ due # 0 /\ due' > due => fired'[due] > 0 \/ TooLate(due')]_vars

\* No slot stays due for good (run, _hold_leadership, _fire): it is fired, skipped
\* or dropped at last, whoever stopped, crashed holding the lease, lost a refresh
\* or failed a claim.
DueSettled == []<>(due = 0 \/ due > now)

\* The slot converges to the definition that remains: seeded by its schedule if
\* it is enabled, gone otherwise, whatever stale replicas wrote in between.
SlotFollowsDefinition ==
    \A d \in Defs \cup {NoDef} :
        <>[](defn = d) => <>[](IF Enabled(d) THEN due # 0 /\ rev = d.schedule ELSE due = 0)
=============================================================================
