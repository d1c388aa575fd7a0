--------------------------- MODULE SyncPoolProofs ---------------------------
(***************************************************************************)
(* The wakeups of the sync pool, proved for any set of jobs, any finite    *)
(* set of threads and any capacity: the standby flag always has a thread   *)
(* behind it, and no queued job is stranded while a thread is parked.      *)
(***************************************************************************)
EXTENDS SyncPool, FiniteSetTheorems, TLAPS

\* Threads the counter "parked" stands for: waiting, or notified and not yet back.
Sleepers(th) == {t \in Threads : th[t] \in {"parked", "woken"}}

\* QueueState.parked counts them exactly.
ParkedExact == parked = Cardinality(Sleepers(thread))

\* A thread that took a job has it.
JobHeld == \A t \in Threads : thread[t] \in {"taken", "start", "run", "off"} => job[t] \in Jobs

\* The types that the counters' bounds do not depend on.
Types ==
    /\ queue \in Seq(Jobs) /\ Len(queue) <= Capacity
    /\ parked \in Nat
    /\ standby \in BOOLEAN
    /\ gil \in Threads \cup {None}
    /\ thread \in [Threads -> Places]
    /\ job \in [Threads -> Jobs \cup {None}]
    /\ waiter \in [Jobs -> Waits]
    /\ started \subseteq Jobs /\ replied \subseteq Jobs
    /\ live \in Nat

IInv == Types /\ JobHeld /\ ParkedExact /\ StandbyComing /\ NoStrandedJob

-----------------------------------------------------------------------------
\* The sleeping threads are finitely many.
LEMMA SleepersFinite ==
    ASSUME NEW th
    PROVE  IsFiniteSet(Sleepers(th)) /\ Cardinality(Sleepers(th)) \in 0 .. Cardinality(Threads)
  <1>1. Sleepers(th) \subseteq Threads /\ IsFiniteSet(Threads)
    BY SyncPoolAssumption DEF Sleepers
  <1>2. /\ IsFiniteSet(Sleepers(th))
        /\ Cardinality(Sleepers(th)) <= Cardinality(Threads)
    BY <1>1, FS_Subset
  <1>3. Cardinality(Sleepers(th)) \in Nat /\ Cardinality(Threads) \in Nat
    BY <1>1, <1>2, FS_CardinalityType
  <1> QED BY <1>2, <1>3

\* wake_standby (JobQueue): at most one parked thread is notified, the counter stays
\* exact, and if any thread is parked one is on its way afterwards, provided one
\* was while the flag was set before.
LEMMA WakeStandbyWakes ==
    ASSUME NEW th \in [Threads -> Places], NEW sb \in BOOLEAN,
           WakeStandby(th, sb), parked = Cardinality(Sleepers(th)),
           sb => \E t \in Threads : th[t] \in {"woken", "gil", "first"}
    PROVE  /\ thread' \in [Threads -> Places]
           /\ standby' \in BOOLEAN
           /\ Sleepers(thread') = Sleepers(th)
           /\ \A t \in Threads : th[t] # "parked" => thread'[t] = th[t]
           /\ \A t \in Threads : thread'[t] \in {th[t], "woken"}
           /\ standby' => \E t \in Threads : thread'[t] \in {"woken", "gil", "first"}
           /\ (\E t \in Threads : th[t] = "parked")
                => \E t \in Threads : thread'[t] \in {"woken", "gil", "first"}
  <1>1. parked \in Nat /\ IsFiniteSet(Sleepers(th))
    BY SleepersFinite
  <1>2. parked > 0 <=> \E t \in Threads : th[t] \in {"parked", "woken"}
    <2>1. parked = 0 <=> Sleepers(th) = {}
      BY <1>1, FS_EmptySet
    <2> QED BY <1>1, <2>1 DEF Sleepers
  <1>3. CASE sb \/ parked = 0
    <2>1. standby' = sb /\ thread' = th
      BY <1>3, <1>1 DEF WakeStandby
    <2> QED BY <2>1, <1>1, <1>2, <1>3
  <1>4. CASE ~sb /\ parked > 0 /\ ~\E u \in Threads : th[u] = "parked"
    <2>1. standby' = TRUE /\ thread' = th
      BY <1>4 DEF WakeStandby
    <2> QED BY <2>1, <1>2, <1>4
  <1>5. CASE ~sb /\ parked > 0 /\ \E u \in Threads : th[u] = "parked"
    <2>1. PICK u \in Threads : th[u] = "parked" /\ thread' = [th EXCEPT ![u] = "woken"]
      BY <1>5 DEF WakeStandby
    <2>2. standby' = TRUE
      BY <1>5 DEF WakeStandby
    <2>3. thread' \in [Threads -> Places] /\ thread'[u] = "woken"
          /\ \A t \in Threads : t # u => thread'[t] = th[t]
      BY <2>1 DEF Places
    <2> QED BY <2>1, <2>2, <2>3 DEF Sleepers
  <1> QED BY <1>1, <1>3, <1>4, <1>5

-----------------------------------------------------------------------------
LEMMA InitIInv == Init => IInv
  <1> SUFFICES ASSUME Init PROVE IInv
    OBVIOUS
  <1>1. Cardinality(Initial) \in Nat
    BY SyncPoolAssumption, FS_Subset, FS_CardinalityType
  <1>2. Types
    <2>1. queue \in Seq(Jobs) /\ Len(queue) = 0 /\ Capacity \in Nat
      BY SyncPoolAssumption DEF Init
    <2>2. thread \in [Threads -> Places] /\ waiter \in [Jobs -> Waits]
      BY DEF Init, Places, Waits
    <2>3. /\ parked \in Nat /\ standby \in BOOLEAN /\ gil \in Threads \cup {None}
          /\ job \in [Threads -> Jobs \cup {None}]
          /\ started \subseteq Jobs /\ replied \subseteq Jobs
      BY DEF Init
    <2>4. live \in Nat
      BY <1>1 DEF Init
    <2> QED BY <2>1, <2>2, <2>3, <2>4 DEF Types
  <1>3. \A t \in Threads : thread[t] \in {"idle", "none"}
    BY DEF Init
  <1>4. Sleepers(thread) = {}
    BY <1>3 DEF Sleepers
  <1>5. ParkedExact
    BY <1>4, FS_EmptySet DEF ParkedExact, Init
  <1> QED
    BY <1>2, <1>3, <1>5 DEF IInv, JobHeld, StandbyComing, NoStrandedJob, Init

-----------------------------------------------------------------------------
\* Facts the preservation proofs share.

\* A thread that moves between two places outside the condition variable leaves
\* the sleeping threads as they are.
LEMMA MovedAwake ==
    ASSUME IInv, NEW t \in Threads, NEW p \in Places \ {"parked", "woken"},
           thread[t] \notin {"parked", "woken"}, thread' = Moved(t, p)
    PROVE  /\ thread' \in [Threads -> Places] /\ thread'[t] = p
           /\ \A u \in Threads : u # t => thread'[u] = thread[u]
           /\ Sleepers(thread') = Sleepers(thread)
  <1>1. /\ thread' \in [Threads -> Places] /\ thread'[t] = p
        /\ \A u \in Threads : u # t => thread'[u] = thread[u]
    BY DEF IInv, Types, Moved
  <1> QED BY <1>1 DEF Sleepers

\* A step that leaves the threads and the queue alone keeps the invariant, given types.
LEMMA WaiterKeepsIInv ==
    ASSUME IInv, UNCHANGED <<queueVars, gil, thread, job>>,
           waiter' \in [Jobs -> Waits], started' \subseteq Jobs, replied' \subseteq Jobs,
           live' \in Nat
    PROVE  IInv'
  <1>1. Types' /\ JobHeld'
    BY DEF IInv, Types, JobHeld, queueVars
  <1>2. ParkedExact'
    BY DEF IInv, ParkedExact, Sleepers, queueVars
  <1>3. StandbyComing' /\ NoStrandedJob'
    BY DEF IInv, StandbyComing, NoStrandedJob, Coming, queueVars
  <1> QED BY <1>1, <1>2, <1>3 DEF IInv

\* A thread that leaves neither the condition variable nor the way to a job, with
\* the queue untouched and the standby flag not raised, keeps the wakeups sound.
LEMMA ThreadKeepsIInv ==
    ASSUME IInv, NEW t \in Threads, NEW p \in Places \ {"parked", "woken"},
           thread[t] \notin {"parked", "woken"}, thread' = Moved(t, p),
           thread[t] \in {"gil", "first"} => p \in {"gil", "first"},
           UNCHANGED <<queueVars, waiter, live>>,
           gil' \in Threads \cup {None}, started' \subseteq Jobs, replied' \subseteq Jobs,
           job' \in [Threads -> Jobs \cup {None}],
           \A u \in Threads : u # t => job'[u] = job[u],
           p \in {"taken", "start", "run", "off"} => job'[t] \in Jobs
    PROVE  IInv'
  <1>1. /\ thread' \in [Threads -> Places] /\ thread'[t] = p
        /\ \A u \in Threads : u # t => thread'[u] = thread[u]
        /\ Sleepers(thread') = Sleepers(thread)
    BY MovedAwake
  <1>2. Types'
    BY <1>1 DEF IInv, Types, queueVars
  <1>3. JobHeld'
    BY <1>1 DEF IInv, JobHeld
  <1>4. ParkedExact'
    BY <1>1 DEF IInv, ParkedExact, queueVars
  <1>5. StandbyComing' /\ NoStrandedJob'
    BY <1>1 DEF IInv, StandbyComing, NoStrandedJob, Coming, queueVars
  <1> QED BY <1>2, <1>3, <1>4, <1>5 DEF IInv

-----------------------------------------------------------------------------
\* submit (JobQueue): the appended job has a standby if anyone is parked.
LEMMA SubmitIInv ==
    ASSUME IInv, NEW j \in Jobs, Submit(j) PROVE IInv'
  <1>1. waiter' \in [Jobs -> Waits]
    BY DEF IInv, Types, Submit, Waits
  <1>2. CASE Len(queue) >= Capacity
    <2>1. UNCHANGED <<queueVars, gil, thread, job, started, replied, live>>
      BY <1>2 DEF Submit, queueVars
    <2> QED BY <1>1, <2>1, WaiterKeepsIInv DEF IInv, Types
  <1>3. CASE ~(Len(queue) >= Capacity)
    <2>1. /\ queue' = Append(queue, j) /\ WakeStandby(thread, standby)
          /\ UNCHANGED <<parked, gil, job, started, replied, live>>
      BY <1>3 DEF Submit
    <2>2. queue' \in Seq(Jobs) /\ Len(queue') <= Capacity
      BY <1>3, <2>1, SyncPoolAssumption DEF IInv, Types
    <2>3. /\ thread \in [Threads -> Places] /\ standby \in BOOLEAN
          /\ parked = Cardinality(Sleepers(thread))
          /\ standby => \E t \in Threads : thread[t] \in {"woken", "gil", "first"}
      BY DEF IInv, Types, ParkedExact, StandbyComing, Coming
    <2>4. /\ thread' \in [Threads -> Places] /\ standby' \in BOOLEAN
          /\ Sleepers(thread') = Sleepers(thread)
          /\ \A t \in Threads : thread[t] # "parked" => thread'[t] = thread[t]
          /\ \A t \in Threads : thread'[t] \in {thread[t], "woken"}
          /\ standby' => \E t \in Threads : thread'[t] \in {"woken", "gil", "first"}
          /\ (\E t \in Threads : thread[t] = "parked")
               => \E t \in Threads : thread'[t] \in {"woken", "gil", "first"}
      BY <2>1, <2>3, WakeStandbyWakes
    <2>5. Types'
      BY <1>1, <2>1, <2>2, <2>4 DEF IInv, Types
    <2>6. JobHeld'
      BY <2>1, <2>4 DEF IInv, JobHeld
    <2>7. ParkedExact'
      BY <2>1, <2>4 DEF IInv, ParkedExact
    <2>8. StandbyComing'
      BY <2>4 DEF StandbyComing, Coming
    <2>9. NoStrandedJob'
      BY <2>4 DEF NoStrandedJob, Coming
    <2> QED BY <2>5, <2>6, <2>7, <2>8, <2>9 DEF IInv
  <1> QED BY <1>2, <1>3

\* wait_for_job on entry: a thread parks only when the queue is empty.
LEMMA EnterWaitIInv ==
    ASSUME IInv, NEW t \in Threads, EnterWait(t) PROVE IInv'
  <1>1. CASE queue = <<>>
    <2>1. /\ parked' = parked + 1 /\ thread' = Moved(t, "parked") /\ thread[t] = "idle"
          /\ UNCHANGED <<queue, standby, gil, job, waiter, started, replied, live>>
      BY <1>1 DEF EnterWait
    <2>2. /\ thread' \in [Threads -> Places] /\ thread'[t] = "parked"
          /\ \A u \in Threads : u # t => thread'[u] = thread[u]
      BY <2>1 DEF IInv, Types, Moved, Places
    <2>3. Sleepers(thread') = Sleepers(thread) \cup {t} /\ t \notin Sleepers(thread)
      BY <2>1, <2>2 DEF Sleepers
    <2>4. Cardinality(Sleepers(thread')) = Cardinality(Sleepers(thread)) + 1
      BY <2>3, SleepersFinite, FS_AddElement
    <2>5. ParkedExact'
      BY <2>1, <2>4 DEF IInv, ParkedExact
    <2>6. Types' /\ JobHeld'
      BY <2>1, <2>2 DEF IInv, Types, JobHeld
    <2>7. StandbyComing' /\ NoStrandedJob'
      BY <1>1, <2>1, <2>2 DEF IInv, StandbyComing, NoStrandedJob, Coming
    <2> QED BY <2>5, <2>6, <2>7 DEF IInv
  <1>2. CASE queue # <<>>
    <2>1. thread[t] = "idle" /\ thread' = Moved(t, "gil")
          /\ UNCHANGED <<queueVars, waiter, live, gil, started, replied, job>>
      BY <1>2 DEF EnterWait, queueVars
    <2> QED BY <2>1, ThreadKeepsIInv DEF IInv, Types, Places
  <1> QED BY <1>1, <1>2

\* wait_for_job once woken: standing down clears the flag, going on keeps it true.
LEMMA AwakeIInv ==
    ASSUME IInv, NEW t \in Threads, Awake(t) PROVE IInv'
  <1>1. CASE queue = <<>>
    <2>1. /\ standby' = FALSE /\ thread' = Moved(t, "parked") /\ thread[t] = "woken"
          /\ UNCHANGED <<queue, parked, gil, job, waiter, started, replied, live>>
      BY <1>1 DEF Awake
    <2>2. /\ thread' \in [Threads -> Places] /\ thread'[t] = "parked"
          /\ \A u \in Threads : u # t => thread'[u] = thread[u]
      BY <2>1 DEF IInv, Types, Moved, Places
    <2>3. Sleepers(thread') = Sleepers(thread)
      BY <2>1, <2>2 DEF Sleepers
    <2>4. ParkedExact'
      BY <2>1, <2>3 DEF IInv, ParkedExact
    <2>5. Types' /\ JobHeld'
      BY <2>1, <2>2 DEF IInv, Types, JobHeld
    <2>6. StandbyComing' /\ NoStrandedJob'
      BY <1>1, <2>1 DEF StandbyComing, NoStrandedJob
    <2> QED BY <2>4, <2>5, <2>6 DEF IInv
  <1>2. CASE queue # <<>>
    <2>1. /\ parked' = parked - 1 /\ thread' = Moved(t, "gil") /\ thread[t] = "woken"
          /\ UNCHANGED <<queue, standby, gil, job, waiter, started, replied, live>>
      BY <1>2 DEF Awake
    <2>2. /\ thread' \in [Threads -> Places] /\ thread'[t] = "gil"
          /\ \A u \in Threads : u # t => thread'[u] = thread[u]
      BY <2>1 DEF IInv, Types, Moved, Places
    <2>3. Sleepers(thread') = Sleepers(thread) \ {t} /\ t \in Sleepers(thread)
      BY <2>1, <2>2 DEF Sleepers
    <2>4. Cardinality(Sleepers(thread')) = Cardinality(Sleepers(thread)) - 1
      BY <2>3, SleepersFinite, FS_RemoveElement
    <2>5. ParkedExact' /\ parked' \in Nat
      BY <2>1, <2>4, SleepersFinite DEF IInv, ParkedExact
    <2>6. Types' /\ JobHeld'
      BY <2>1, <2>2, <2>5 DEF IInv, Types, JobHeld
    <2>7. StandbyComing' /\ NoStrandedJob'
      BY <2>1, <2>2 DEF IInv, StandbyComing, NoStrandedJob, Coming
    <2> QED BY <2>5, <2>6, <2>7 DEF IInv
  <1> QED BY <1>1, <1>2

\* A spurious wakeup keeps the thread among those the counter stands for.
LEMMA SpuriousWakeIInv ==
    ASSUME IInv, NEW t \in Threads, SpuriousWake(t) PROVE IInv'
  <1>1. /\ thread' \in [Threads -> Places] /\ thread'[t] = "woken" /\ thread[t] = "parked"
        /\ \A u \in Threads : u # t => thread'[u] = thread[u]
    BY DEF IInv, Types, SpuriousWake, Moved, Places
  <1>2. Sleepers(thread') = Sleepers(thread)
    BY <1>1 DEF Sleepers
  <1>3. ParkedExact'
    BY <1>2 DEF IInv, ParkedExact, SpuriousWake, queueVars
  <1>4. Types' /\ JobHeld'
    BY <1>1 DEF IInv, Types, JobHeld, SpuriousWake, queueVars
  <1>5. StandbyComing' /\ NoStrandedJob'
    BY <1>1 DEF StandbyComing, NoStrandedJob, Coming
  <1> QED BY <1>3, <1>4, <1>5 DEF IInv

\* take (JobQueue): a thread that leaves work in the queue leaves a standby
\* behind; only the thread that raced for the GIL clears the flag.
LEMMA TakeIInv ==
    ASSUME IInv, NEW t \in Threads, Take(t) PROVE IInv'
  <1> DEFINE sb == standby /\ thread[t] = "next"
             th == Moved(t, "taken")
  <1>1. /\ thread[t] \in {"first", "next"} /\ sb \in BOOLEAN
        /\ sb => \E u \in Threads : u # t /\ thread[u] \in {"woken", "gil", "first"}
        /\ UNCHANGED <<parked, waiter, started, replied, live>>
    BY DEF Take, IInv, Types, StandbyComing, Coming
  <1>2. CASE queue = <<>>
    <2>1. /\ standby' = sb /\ gil' = None /\ thread' = Moved(t, "idle")
          /\ UNCHANGED <<queue, job>>
      BY <1>2 DEF Take
    <2>2. /\ thread' \in [Threads -> Places] /\ thread'[t] = "idle"
          /\ \A u \in Threads : u # t => thread'[u] = thread[u]
          /\ Sleepers(thread') = Sleepers(thread)
      BY <1>1, <2>1, MovedAwake DEF Places
    <2>3. Types' /\ JobHeld'
      BY <1>1, <2>1, <2>2 DEF IInv, Types, JobHeld
    <2>4. ParkedExact'
      BY <1>1, <2>2 DEF IInv, ParkedExact
    <2>5. StandbyComing' /\ NoStrandedJob'
      BY <1>1, <1>2, <2>1, <2>2 DEF StandbyComing, NoStrandedJob, Coming
    <2> QED BY <2>3, <2>4, <2>5 DEF IInv
  <1>3. CASE queue # <<>>
    <2>1. /\ queue' = Tail(queue) /\ job' = [job EXCEPT ![t] = Head(queue)] /\ gil' = gil
          /\ IF Tail(queue) # <<>> THEN WakeStandby(th, sb) ELSE standby' = sb /\ thread' = th
      BY <1>3 DEF Take
    <2>2. queue' \in Seq(Jobs) /\ Len(queue') <= Capacity /\ Head(queue) \in Jobs
      BY <1>3, <2>1, SyncPoolAssumption DEF IInv, Types
    <2>3. /\ th \in [Threads -> Places] /\ th[t] = "taken"
          /\ \A u \in Threads : u # t => th[u] = thread[u]
      BY DEF IInv, Types, Moved, Places
    <2>4. Sleepers(th) = Sleepers(thread)
      BY <1>1, <2>3 DEF Sleepers
    <2>5. parked = Cardinality(Sleepers(th))
      BY <2>4 DEF IInv, ParkedExact
    <2>6. sb => \E u \in Threads : th[u] \in {"woken", "gil", "first"}
      BY <1>1, <2>3
    <2>7. /\ thread' \in [Threads -> Places] /\ standby' \in BOOLEAN
          /\ Sleepers(thread') = Sleepers(th)
          /\ \A u \in Threads : th[u] # "parked" => thread'[u] = th[u]
          /\ \A u \in Threads : thread'[u] \in {th[u], "woken"}
          /\ standby' => \E u \in Threads : thread'[u] \in {"woken", "gil", "first"}
          /\ queue' # <<>> /\ (\E u \in Threads : th[u] = "parked")
               => \E u \in Threads : thread'[u] \in {"woken", "gil", "first"}
      <3> HIDE DEF sb, th
      <3>1. CASE Tail(queue) # <<>>
        <4>1. WakeStandby(th, sb)
          BY <2>1, <3>1
        <4> QED BY <4>1, <1>1, <2>3, <2>5, <2>6, WakeStandbyWakes
      <3>2. CASE Tail(queue) = <<>>
        BY <1>1, <2>1, <2>3, <2>6, <3>2
      <3> QED BY <3>1, <3>2
    <2> HIDE DEF sb, th
    <2>8. Types'
      BY <1>1, <2>1, <2>2, <2>7 DEF IInv, Types
    <2>9. JobHeld'
      BY <2>1, <2>2, <2>3, <2>7 DEF IInv, JobHeld, Types
    <2>10. ParkedExact'
      BY <1>1, <2>5, <2>7 DEF ParkedExact
    <2>11. StandbyComing' /\ NoStrandedJob'
      BY <2>7 DEF StandbyComing, NoStrandedJob, Coming
    <2> QED BY <2>8, <2>9, <2>10, <2>11 DEF IInv
  <1> QED BY <1>2, <1>3

\* The steps of a thread that holds or waits for the GIL with no look at the queue.
LEMMA RunIInv ==
    ASSUME IInv, NEW t \in Threads,
           AcquireGil(t) \/ Look(t) \/ StartJob(t) \/ ReleaseGil(t) \/ Resume(t) \/ Return(t)
    PROVE  IInv'
  <1> USE DEF Places
  <1>1. CASE AcquireGil(t)
    <2>1. gil' \in Threads \cup {None}
      BY <1>1 DEF AcquireGil
    <2> QED BY <1>1, <2>1, ThreadKeepsIInv DEF AcquireGil, IInv, Types
  <1>2. CASE Look(t)
    <2>1. job[t] \in Jobs /\ thread[t] = "taken"
      BY <1>2 DEF Look, IInv, JobHeld
    <2>2. CASE waiter[job[t]] = "lost"
      <3>1. thread' = Moved(t, "next") /\ job' = [job EXCEPT ![t] = None]
        BY <1>2, <2>2 DEF Look
      <3> QED BY <1>2, <2>1, <3>1, ThreadKeepsIInv DEF Look, IInv, Types
    <2>3. CASE waiter[job[t]] # "lost"
      <3>1. thread' = Moved(t, "start") /\ job' = job
        BY <1>2, <2>3 DEF Look
      <3> QED BY <1>2, <2>1, <3>1, ThreadKeepsIInv DEF Look, IInv, Types
    <2> QED BY <2>2, <2>3
  <1>3. CASE StartJob(t)
    <2>1. job[t] \in Jobs /\ thread[t] = "start"
      BY <1>3 DEF StartJob, IInv, JobHeld
    <2>2. CASE waiter[job[t]] = "lost"
      <3>1. /\ thread' = Moved(t, "next") /\ job' = [job EXCEPT ![t] = None]
            /\ started' = started
        BY <1>3, <2>2 DEF StartJob
      <3> QED BY <1>3, <2>1, <3>1, ThreadKeepsIInv DEF StartJob, IInv, Types
    <2>3. CASE waiter[job[t]] # "lost"
      <3>1. /\ thread' = Moved(t, "run") /\ job' = job
            /\ started' \subseteq Jobs
        BY <1>3, <2>1, <2>3 DEF StartJob, IInv, Types
      <3> QED BY <1>3, <2>1, <3>1, ThreadKeepsIInv DEF StartJob, IInv, Types
    <2> QED BY <2>2, <2>3
  <1>4. CASE ReleaseGil(t)
    <2>1. job[t] \in Jobs
      BY <1>4 DEF ReleaseGil, IInv, JobHeld
    <2> QED BY <1>4, <2>1, ThreadKeepsIInv DEF ReleaseGil, IInv, Types
  <1>5. CASE Resume(t)
    <2>1. job[t] \in Jobs
      BY <1>5 DEF Resume, IInv, JobHeld
    <2> QED BY <1>5, <2>1, ThreadKeepsIInv DEF Resume, IInv, Types
  <1>6. CASE Return(t)
    <2>1. job[t] \in Jobs
      BY <1>6 DEF Return, IInv, JobHeld
    <2>2. replied' \subseteq Jobs
      BY <1>6, <2>1 DEF Return, IInv, Types
    <2> QED BY <1>6, <2>2, ThreadKeepsIInv DEF Return, IInv, Types
  <1> QED BY <1>1, <1>2, <1>3, <1>4, <1>5, <1>6

\* spawn_worker: the replacement starts outside the condition variable.
LEMMA SpawnThreadIInv ==
    ASSUME IInv, NEW j \in Jobs, SpawnThread(j) PROVE IInv'
  <1>1. PICK t \in Threads : thread[t] = "none" /\ thread' = Moved(t, "idle")
    BY DEF SpawnThread
  <1>2. /\ thread' \in [Threads -> Places] /\ thread'[t] = "idle"
        /\ \A u \in Threads : u # t => thread'[u] = thread[u]
        /\ Sleepers(thread') = Sleepers(thread)
    BY <1>1, MovedAwake DEF Places
  <1>3. waiter' \in [Jobs -> Waits] /\ live' \in Nat
    BY DEF SpawnThread, Waits1, Waits, IInv, Types
  <1>4. Types' /\ JobHeld'
    BY <1>2, <1>3 DEF SpawnThread, IInv, Types, JobHeld, queueVars
  <1>5. ParkedExact'
    BY <1>2 DEF SpawnThread, IInv, ParkedExact, queueVars
  <1>6. StandbyComing' /\ NoStrandedJob'
    BY <1>1, <1>2 DEF SpawnThread, IInv, StandbyComing, NoStrandedJob, Coming, queueVars
  <1> QED BY <1>4, <1>5, <1>6 DEF IInv

\* The other steps of run_sync_task touch no thread and no queue.
LEMMA WaiterIInv ==
    ASSUME IInv, NEW j \in Jobs,
           HearStarted(j) \/ GiveUp(j) \/ HearOutcome(j) \/ HardTimeout(j) \/ SpawnCheck(j)
    PROVE  IInv'
  <1>1. UNCHANGED <<queueVars, gil, thread, job, started, replied, live>>
    BY DEF HearStarted, GiveUp, HearOutcome, HardTimeout, SpawnCheck
  <1>2. waiter' \in [Jobs -> Waits]
    BY DEF HearStarted, GiveUp, HearOutcome, HardTimeout, SpawnCheck, Waits1, Waits, IInv, Types
  <1> QED BY <1>1, <1>2, WaiterKeepsIInv DEF IInv, Types

\* IInv is inductive.
LEMMA NextIInv == IInv /\ [Next]_vars => IInv'
  <1> SUFFICES ASSUME IInv, [Next]_vars PROVE IInv'
    OBVIOUS
  <1>1. ASSUME NEW t \in Threads, ThreadStep(t) PROVE IInv'
    BY <1>1, EnterWaitIInv, AwakeIInv, TakeIInv, RunIInv DEF ThreadStep
  <1>2. ASSUME NEW t \in Threads,
               AcquireGil(t) \/ ReleaseGil(t) \/ Resume(t) \/ Return(t)
        PROVE  IInv'
    BY <1>2, RunIInv
  <1>3. ASSUME NEW t \in Threads, SpuriousWake(t) PROVE IInv'
    BY <1>3, SpuriousWakeIInv
  <1>4. ASSUME NEW j \in Jobs, Submit(j) \/ WaiterStep(j) \/ GiveUp(j) PROVE IInv'
    BY <1>4, SubmitIInv, WaiterIInv, SpawnThreadIInv DEF WaiterStep
  <1>5. CASE UNCHANGED vars
    <2>1. UNCHANGED <<queueVars, gil, thread, job, waiter, started, replied, live>>
      BY <1>5 DEF vars, queueVars
    <2> QED BY <2>1, WaiterKeepsIInv DEF IInv, Types
  <1> QED BY <1>1, <1>2, <1>3, <1>4, <1>5 DEF Next

-----------------------------------------------------------------------------
\* The inductive invariant holds in every reachable state of the pool.
THEOREM InvariantHolds == Spec => []IInv
  BY InitIInv, NextIInv, PTL DEF Spec

\* The queue never outgrows its capacity and "parked" never leaves its range
\* (JobQueue::submit, wait_for_job), for any number of threads and jobs.
THEOREM TypeCorrect == Spec => []TypeOK
  <1>1. IInv => TypeOK
    BY SleepersFinite DEF IInv, Types, ParkedExact, TypeOK
  <1> QED BY <1>1, InvariantHolds, PTL

\* No job waits in the queue while a thread is parked and none is on its way
\* (JobQueue::take, wake_standby): the single-standby wakeup loses no job.
THEOREM JobsNotStranded == Spec => []NoStrandedJob
  <1>1. IInv => NoStrandedJob
    BY DEF IInv
  <1> QED BY <1>1, InvariantHolds, PTL

\* The standby flag always has a thread behind it (wait_for_job, take): it can never
\* stay set and silence every later wake_standby.
THEOREM StandbyNeverStale == Spec => []StandbyComing
  <1>1. IInv => StandbyComing
    BY DEF IInv
  <1> QED BY <1>1, InvariantHolds, PTL
=============================================================================
