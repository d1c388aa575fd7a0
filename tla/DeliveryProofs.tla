--------------------------- MODULE DeliveryProofs ---------------------------
(***************************************************************************)
(* Proofs about Delivery, for any number of tasks, workers, entries and    *)
(* faults.  The argument: an entry leaves the pending list only by XACK,   *)
(* and XACK is reached only after the writes that settle the task or carry *)
(* it in a later attempt; retries order the attempts, so that two entries  *)
(* of one task can never vouch for each other.                             *)
(* From the same invariant: each step is a step of TaskLedger or none, one *)
(* process never holds two copies of an entry, and stale delivery counts   *)
(* cost at most one execution per process.                                 *)
(***************************************************************************)
EXTENDS Delivery, WellFoundedInduction, FiniteSetTheorems, TLAPS

\* The task is settled, or an attempt of it later than r is still owed.
Safe(t, r) == Settled(t) \/ CarriedAbove(t, r)

-----------------------------------------------------------------------------
(* The inductive invariant, in named parts *)

\* Delivery is in id order and nothing undelivered is ever removed.
PendingDelivered == \A i \in pel : i <= delivered
UndeliveredPresent == \A i \in (delivered + 1) .. Len(log) : i \in stream

\* Workers only hold and recover entries that were delivered.
HeldDelivered ==
    \A w \in Workers, i \in Ids :
        stage[w][i] # "none" \/ page[w][i] > 0 => i <= delivered

\* XDEL is sent only for entries that are no longer pending.
DeletedAcked == \A w \in Workers, i \in Ids : stage[w][i] = "del" => i \notin pel

\* A trim boundary stays below everything pending or undelivered, even though
\* deliveries go on between the probe and the XTRIM.
TrimBelow ==
    \A w \in Workers :
        /\ trimAt[w] = "info" => trimVal[w] <= delivered
        /\ trimAt[w] = "bound" => /\ trimVal[w] <= delivered + 1
                                  /\ \A j \in pel : trimVal[w] <= j

\* What a buffered completion may rely on when its own writes are sent.
KindBacked ==
    \A w \in Workers, i \in Ids :
        /\ stage[w][i] \in {"success", "duplicate"} => log[i].task \in returned
        /\ stage[w][i] = "retry" => log[i].retries < MaxRetries

\* Every entry that is no longer pending was acked under cover.
AckedCovered == \A i \in 1 .. delivered : i \notin pel => Safe(log[i].task, log[i].retries)

StreamInv ==
    /\ PendingInStream
    /\ PendingDelivered
    /\ UndeliveredPresent
    /\ HeldDelivered
    /\ DeletedAcked
    /\ TrimBelow

IInv ==
    /\ TypeOK
    /\ StreamInv
    /\ KindBacked
    /\ AckCovered
    /\ AckedCovered
    /\ NoTaskLost

-----------------------------------------------------------------------------
(* Type correctness *)

\* A set of pending ids has a least element: the boundary the trim reads.
LEMMA OldestPending ==
  ASSUME NEW S \in SUBSET Nat, S # {}
  PROVE  LET m == CHOOSE m \in S : \A j \in S : m <= j
         IN  m \in S /\ \A j \in S : m <= j
  <1> DEFINE R == {ss \in Nat \X Nat : ss[1] < ss[2]}
  <1>1. IsWellFoundedOn(R, Nat)
    BY NatLessThanWellFounded DEF OpToRel
  <1> HIDE DEF R
  <1>2. PICK k \in S : \A j \in S : ~(<<j, k>> \in R)
    BY <1>1, WFMin
  <1>3. ASSUME NEW j \in S PROVE k <= j
    <2>1. j \in Nat /\ k \in Nat
      OBVIOUS
    <2>2. j < k => <<j, k>> \in R
      BY <2>1 DEF R
    <2> QED
      BY <1>2, <2>1, <2>2
  <1> QED
    BY <1>2, <1>3

\* The names of the stages, so that Stages need not be expanded.
LEMMA StageNames ==
  /\ {"none", "held", "run", "ack", "del"} \subseteq Stages
  /\ {"success", "duplicate", "retry", "deadletter", "terminal"} \subseteq Stages
  BY DEF Stages, Kinds

\* XADD appends one envelope under the next id and leaves the others alone.
LEMMA XAddAppends ==
  ASSUME TypeOK, NEW e \in Envelope, XAdd(e)
  PROVE  /\ log' \in Seq(Envelope)
         /\ Len(log') = Len(log) + 1
         /\ Len(log') <= MaxId
         /\ \A i \in 1 .. Len(log) : log'[i] = log[i]
         /\ log'[Len(log) + 1] = e
         /\ stream' = stream \cup {Len(log) + 1}
         /\ stream' \subseteq 1 .. Len(log')
  <1>1. log \in Seq(Envelope) /\ Len(log) \in Nat /\ stream \subseteq 1 .. Len(log)
    BY DEF TypeOK
  <1>2. log' = Append(log, e) /\ Len(log) < MaxId /\ stream' = stream \cup {Len(log) + 1}
    BY DEF XAdd
  <1>3. /\ log' \in Seq(Envelope)
        /\ Len(log') = Len(log) + 1
        /\ \A i \in 1 .. Len(log) : log'[i] = log[i]
        /\ log'[Len(log) + 1] = e
    BY <1>1, <1>2
  <1>4. ASSUME NEW i \in stream' PROVE i \in 1 .. Len(log')
    <2>1. CASE i = Len(log) + 1
      BY <1>1, <1>3, <2>1
    <2>2. CASE i \in stream
      <3>1. i \in 1 .. Len(log)
        BY <1>1, <2>2
      <3> QED
        BY <1>1, <1>3, <3>1
    <2> QED
      BY <1>2, <2>1, <2>2
  <1>5. Len(log') <= MaxId
    BY <1>1, <1>2, <1>3, DeliveryAssumption
  <1> QED
    BY <1>2, <1>3, <1>4, <1>5

\* A delivered entry is in the log, and its envelope is well formed.
LEMMA EntryLogged ==
  ASSUME TypeOK, NEW i \in Ids, i <= delivered
  PROVE  /\ i \in 1 .. Len(log)
         /\ log[i] \in Envelope
         /\ log[i].task \in Tasks
         /\ log[i].retries \in 0 .. MaxRetries
  <1>1. i \in 1 .. Len(log)
    BY DeliveryAssumption DEF TypeOK, Ids
  <1>2. log[i] \in Envelope
    BY <1>1 DEF TypeOK
  <1> QED
    BY <1>1, <1>2 DEF Envelope

\* A worker's copy of an entry moves to another stage.
LEMMA BecomeTypes ==
  ASSUME TypeOK, NEW w \in Workers, NEW i \in Ids, NEW s \in Stages, Become(w, i, s)
  PROVE  stage' \in [Workers -> [Ids -> Stages]]
  BY DEF TypeOK, Become

\* XCLAIM keeps the types of the delivery counts and idle levels.
LEMMA XClaimTypes ==
  ASSUME TypeOK, NEW S, XClaim(S)
  PROVE  count' \in [Ids -> Nat] /\ idle' \in [Ids -> 0 .. 2]
  BY DEF TypeOK, XClaim

\* The trim boundary is an id, or 0 when there is none.
LEMMA AckedBelowType ==
  ASSUME TypeOK, NEW last \in Nat
  PROVE  AckedBelow(last) \in Nat /\ (pel # {} => \A j \in pel : AckedBelow(last) <= j)
  <1>1. pel \in SUBSET Nat
    BY DEF TypeOK, Ids
  <1>2. CASE pel = {}
    BY <1>2 DEF AckedBelow
  <1>3. CASE pel # {}
    <2>1. AckedBelow(last) = CHOOSE m \in pel : \A j \in pel : m <= j
      BY <1>3 DEF AckedBelow
    <2>2. AckedBelow(last) \in pel /\ \A j \in pel : AckedBelow(last) <= j
      BY <1>1, <1>3, <2>1, OldestPending
    <2> QED
      BY <1>1, <2>2
  <1> QED
    BY <1>2, <1>3

\* Own writes land within the types.
LEMMA LandTypes ==
  ASSUME TypeOK, NEW e \in Envelope, NEW W,
         "delayed" \in W => e.retries < MaxRetries, Land(W, e)
  PROVE  results' \subseteq Tasks /\ dlq' \subseteq Tasks /\ delayed' \subseteq Envelope
  <1>1. e.task \in Tasks /\ e.retries \in 0 .. MaxRetries
    BY DEF Envelope
  <1>2. "delayed" \in W => [task |-> e.task, retries |-> e.retries + 1] \in Envelope
    BY <1>1, DeliveryAssumption DEF Envelope
  <1> QED
    BY <1>1, <1>2 DEF Land, TypeOK

\* Initially every variable has its type.
LEMMA InitTypeOK == Init => TypeOK
  BY DeliveryAssumption DEF Init, TypeOK, Ids, Stages, Envelope

\* Every step of the broker and of its workers keeps the types and bounds; a
\* retry is buffered only within the budget, so retries keep their bound too.
LEMMA NextTypeOK ==
  ASSUME TypeOK, KindBacked, HeldDelivered, [Next]_vars PROVE TypeOK'
  <1> USE DeliveryAssumption, StageNames DEF TypeOK, trimVars, redisVars
  <1>1. ASSUME NEW t \in Tasks, Enqueue(t) PROVE TypeOK'
    <2>1. [task |-> t, retries |-> 0] \in Envelope
      BY DEF Envelope
    <2> QED
      BY <1>1, <2>1, XAddAppends DEF Enqueue
  <1>2. ASSUME NEW t \in Tasks, EnqueueLater(t) PROVE TypeOK'
    BY <1>2 DEF EnqueueLater, Envelope
  <1>3. ASSUME NEW i \in Ids, GrowIdle(i) PROVE TypeOK'
    BY <1>3 DEF GrowIdle, RequiredIdle
  <1>4. ASSUME NEW w \in Workers, NEW i \in Ids, Fetch(w, i) PROVE TypeOK'
    BY <1>4, SMTT(40) DEF Fetch, Deliver, Become
  <1>5. ASSUME NEW w \in Workers, NEW i \in Ids, FetchLost(w, i) PROVE TypeOK'
    BY <1>5, SMTT(40) DEF FetchLost, Deliver, Fault
  <1>6. ASSUME NEW w \in Workers, NEW i \in Ids, HoldsEntry(w, i)
        PROVE  i \in 1 .. Len(log) /\ log[i] \in Envelope /\ log[i].task \in Tasks
    BY <1>6, EntryLogged DEF HoldsEntry, HeldDelivered
  <1>7. ASSUME NEW w \in Workers, NEW i \in Ids, Dispatch(w, i) PROVE TypeOK'
    <2>1. stage[w][i] = "held"
      BY <1>7 DEF Dispatch
    <2>2. HoldsEntry(w, i)
      BY <2>1 DEF HoldsEntry
    <2>3. log[i].task \in Tasks
      BY <1>6, <2>2
    <2>4. returned' \subseteq Tasks /\ runs' \in [Ids -> Nat]
      <3>1. UNCHANGED returned \/ returned' = returned \cup {log[i].task}
        BY <1>7 DEF Dispatch
      <3>2. UNCHANGED runs \/ runs' = [runs EXCEPT ![i] = @ + 1]
        BY <1>7 DEF Dispatch
      <3> QED
        BY <2>3, <3>1, <3>2
    <2>5. PICK s \in {"terminal", "deadletter", "duplicate", "run"} : Become(w, i, s)
      BY <1>7 DEF Dispatch
    <2>6. stage' \in [Workers -> [Ids -> Stages]]
      BY <2>5, BecomeTypes
    <2> QED
      BY <1>7, <2>4, <2>6 DEF Dispatch
  <1>8. ASSUME NEW w \in Workers, NEW i \in Ids, Finish(w, i) PROVE TypeOK'
    <2>1. stage[w][i] = "run"
      BY <1>8 DEF Finish
    <2>2. HoldsEntry(w, i)
      BY <2>1 DEF HoldsEntry
    <2>3. log[i].task \in Tasks
      BY <1>6, <2>2
    <2>4. returned' \subseteq Tasks
      BY <1>8, <2>3 DEF Finish
    <2>5. PICK s \in {"success", "retry", "deadletter"} : Become(w, i, s)
      BY <1>8 DEF Finish
    <2>6. stage' \in [Workers -> [Ids -> Stages]]
      BY <2>5, BecomeTypes
    <2> QED
      BY <1>8, <2>4, <2>6 DEF Finish
  <1>9. ASSUME NEW w \in Workers, NEW i \in Ids, stage[w][i] \in Kinds,
               NEW W \in SUBSET Writes(stage[w][i], log[i].task), Land(W, log[i])
        PROVE  results' \subseteq Tasks /\ dlq' \subseteq Tasks /\ delayed' \subseteq Envelope
    <2>1. log[i] \in Envelope
      BY <1>9, <1>6 DEF HoldsEntry, Kinds
    <2>2. "delayed" \in W => log[i].retries < MaxRetries
      <3>1. "delayed" \in W => stage[w][i] = "retry"
        BY <1>9 DEF Writes, TerminalWrites, Kinds
      <3> QED
        BY <3>1 DEF KindBacked
    <2> QED
      BY <1>9, <2>1, <2>2, LandTypes
  <1>10. ASSUME NEW w \in Workers, NEW i \in Ids, FlushWrites(w, i) PROVE TypeOK'
    BY <1>10, <1>9 DEF FlushWrites, Become
  <1>11. ASSUME NEW w \in Workers, NEW i \in Ids, FlushRefused(w, i) PROVE TypeOK'
    <2>1. results' \subseteq Tasks /\ dlq' \subseteq Tasks /\ delayed' \subseteq Envelope
      BY <1>11, <1>9 DEF FlushRefused
    <2> QED
      BY <1>11, <2>1 DEF FlushRefused, Become, Fault
  <1>12. ASSUME NEW w \in Workers, NEW i \in Ids, FlushAck(w, i) PROVE TypeOK'
    BY <1>12 DEF FlushAck, Become
  <1>13. ASSUME NEW w \in Workers, NEW i \in Ids, FlushDelete(w, i) PROVE TypeOK'
    BY <1>13 DEF FlushDelete, Become
  <1>14. ASSUME NEW w \in Workers, NEW i \in Ids, FlushTorn(w, i) PROVE TypeOK'
    BY <1>14 DEF FlushTorn, Become, Fault
  <1>15. ASSUME NEW w \in Workers, NEW i \in Ids, RecoverClaim(w, i) PROVE TypeOK'
    <2>1. count' \in [Ids -> Nat] /\ idle' \in [Ids -> 0 .. 2]
      BY <1>15, XClaimTypes DEF RecoverClaim
    <2>2. UNCHANGED stage \/ \E s \in {"terminal", "held"} : Become(w, i, s)
      BY <1>15 DEF RecoverClaim
    <2>3. stage' \in [Workers -> [Ids -> Stages]]
      BY <2>2, BecomeTypes
    <2>4. page' \in [Workers -> [Ids -> Nat]]
      BY <1>15 DEF RecoverClaim
    <2> QED
      BY <1>15, <2>1, <2>3, <2>4 DEF RecoverClaim
  <1>16. ASSUME NEW w \in Workers, NEW i \in Ids, RecoverLost(w, i) PROVE TypeOK'
    <2>1. count' \in [Ids -> Nat] /\ idle' \in [Ids -> 0 .. 2]
      BY <1>16, XClaimTypes DEF RecoverLost
    <2>2. page' \in [Workers -> [Ids -> Nat]]
      BY <1>16 DEF RecoverLost
    <2> QED
      BY <1>16, <2>1, <2>2 DEF RecoverLost, Fault
  <1>17. ASSUME NEW w \in Workers, NEW e \in delayed, Move(w, e) PROVE TypeOK'
    BY <1>17, XAddAppends DEF Move
  <1>18. ASSUME NEW w \in Workers, NEW e \in delayed, MoveTorn(w, e) PROVE TypeOK'
    BY <1>18, XAddAppends DEF MoveTorn, Fault
  <1>19. ASSUME NEW w \in Workers, RecoverScan(w) PROVE TypeOK'
    BY <1>19 DEF RecoverScan
  <1>20. ASSUME NEW w \in Workers, TrimInfo(w) PROVE TypeOK'
    BY <1>20 DEF TrimInfo
  <1>21. ASSUME NEW w \in Workers, TrimPending(w) PROVE TypeOK'
    <2>1. AckedBelow(trimVal[w]) \in Nat
      BY AckedBelowType
    <2>2. PICK b \in Nat, a \in {"idle", "bound"} :
            trimAt' = [trimAt EXCEPT ![w] = a] /\ trimVal' = [trimVal EXCEPT ![w] = b]
      BY <1>21, <2>1 DEF TrimPending
    <2> QED
      BY <1>21, <2>2 DEF TrimPending
  <1>22. ASSUME NEW w \in Workers, Trim(w) PROVE TypeOK'
    BY <1>22 DEF Trim
  <1>23. ASSUME NEW w \in Workers, TrimFailed(w) PROVE TypeOK'
    BY <1>23 DEF TrimFailed, Fault
  <1>24. ASSUME NEW w \in Workers, Crash(w) PROVE TypeOK'
    BY <1>24 DEF Crash, Fault
  <1>25. ASSUME NEW w \in Workers, Start(w) PROVE TypeOK'
    BY <1>25 DEF Start
  <1>26. CASE UNCHANGED vars
    BY <1>26 DEF vars
  <1> QED
    BY <1>1, <1>2, <1>3, <1>4, <1>5, <1>7, <1>8, <1>10, <1>11, <1>12, <1>13, <1>14, <1>15,
       <1>16, <1>17, <1>18, <1>19, <1>20, <1>21, <1>22, <1>23, <1>24, <1>25, <1>26
       DEF Next, Client, EntryStep, EntryFault, TrimStep

-----------------------------------------------------------------------------
(* The stream, its pending entries and the trim boundary *)

\* The numbers behind the types.
LEMMA Numbers ==
  ASSUME TypeOK
  PROVE  /\ Len(log) \in Nat /\ delivered \in Nat /\ delivered <= Len(log)
         /\ \A i \in Ids : i \in Nat /\ i >= 1
         /\ \A i \in pel : i \in Ids
         /\ \A i \in stream : i \in Nat /\ i >= 1 /\ i <= Len(log)
         /\ \A w \in Workers : trimVal[w] \in Nat
  <1>1. log \in Seq(Envelope) /\ delivered \in 0 .. Len(log) /\ stream \subseteq 1 .. Len(log)
    BY DEF TypeOK
  <1>2. Len(log) \in Nat
    BY <1>1
  <1>3. pel \subseteq Ids /\ trimVal \in [Workers -> Nat]
    BY DEF TypeOK
  <1> QED
    BY <1>1, <1>2, <1>3, DeliveryAssumption DEF Ids

\* Reading or writing one stage of one worker leaves the others alone.
LEMMA BecomeOne ==
  ASSUME TypeOK, NEW w \in Workers, NEW i \in Ids, NEW s, Become(w, i, s)
  PROVE  /\ stage'[w][i] = s
         /\ \A v \in Workers, j \in Ids : <<v, j>> # <<w, i>> => stage'[v][j] = stage[v][j]
  BY DEF TypeOK, Become

\* Delivery in order, XACK before XDEL and the trim's order of reads keep what
\* is pending or undelivered in the stream.
LEMMA NextStream ==
  ASSUME TypeOK, StreamInv, [Next]_vars PROVE StreamInv'
  <1> USE Numbers
  <1>1. ASSUME UNCHANGED <<log, stream, delivered, pel, stage, page, trimAt, trimVal>>
        PROVE  StreamInv'
    BY <1>1 DEF StreamInv, PendingInStream, PendingDelivered, UndeliveredPresent,
                HeldDelivered, DeletedAcked, TrimBelow
  <1>2. ASSUME NEW e \in Envelope, XAdd(e),
               UNCHANGED <<delivered, pel, stage, page, trimAt, trimVal>>
        PROVE  StreamInv'
    <2>1. UndeliveredPresent'
      BY <1>2, XAddAppends DEF StreamInv, UndeliveredPresent
    <2>2. PendingInStream'
      BY <1>2 DEF XAdd, StreamInv, PendingInStream
    <2>3. (PendingDelivered /\ HeldDelivered /\ DeletedAcked /\ TrimBelow)'
      BY <1>2 DEF StreamInv, PendingDelivered, HeldDelivered, DeletedAcked, TrimBelow
    <2> QED
      BY <2>1, <2>2, <2>3 DEF StreamInv
  <1>3. ASSUME NEW t \in Tasks, Enqueue(t) PROVE StreamInv'
    <2>1. [task |-> t, retries |-> 0] \in Envelope
      BY DeliveryAssumption DEF Envelope
    <2> QED
      BY <1>2, <1>3, <2>1 DEF Enqueue, trimVars
  <1>4. ASSUME NEW t \in Tasks, EnqueueLater(t) PROVE StreamInv'
    BY <1>1, <1>4 DEF EnqueueLater, trimVars
  <1>5. ASSUME NEW i \in Ids, GrowIdle(i) PROVE StreamInv'
    BY <1>1, <1>5 DEF GrowIdle, trimVars
  <1>6. ASSUME NEW w \in Workers, NEW i \in Ids, Deliver(w, i),
               UNCHANGED stage \/ Become(w, i, "held")
        PROVE  StreamInv'
    <2>1. /\ i \in stream /\ i > delivered /\ delivered' = i /\ pel' = pel \cup {i}
          /\ \A j \in stream : j > delivered => i <= j
          /\ UNCHANGED <<log, stream, page, trimAt, trimVal>>
      BY <1>6 DEF Deliver, trimVars
    <2>2. (PendingInStream /\ PendingDelivered /\ UndeliveredPresent)'
      BY <2>1 DEF StreamInv, PendingInStream, PendingDelivered, UndeliveredPresent
    <2>3. ASSUME NEW v \in Workers, NEW j \in Ids, <<v, j>> # <<w, i>> \/ UNCHANGED stage
          PROVE  stage'[v][j] = stage[v][j]
      BY <1>6, <2>3, BecomeOne
    <2>4. HeldDelivered'
      BY <2>1, <2>3 DEF StreamInv, HeldDelivered
    <2>5. DeletedAcked'
      BY <1>6, <2>1, <2>3, BecomeOne DEF StreamInv, DeletedAcked, HeldDelivered
    <2>6. TrimBelow'
      BY <2>1 DEF StreamInv, TrimBelow
    <2> QED
      BY <2>2, <2>4, <2>5, <2>6 DEF StreamInv
  <1>7. ASSUME NEW w \in Workers, NEW i \in Ids, NEW s \in Stages \ {"del"},
               i <= delivered, Become(w, i, s),
               UNCHANGED <<log, stream, delivered, pel, trimAt, trimVal>>,
               \A v \in Workers, j \in Ids : page'[v][j] > 0 => page[v][j] > 0
        PROVE  StreamInv'
    <2>1. (PendingInStream /\ PendingDelivered /\ UndeliveredPresent /\ TrimBelow)'
      BY <1>7 DEF StreamInv, PendingInStream, PendingDelivered, UndeliveredPresent, TrimBelow
    <2>2. HeldDelivered'
      BY <1>7, BecomeOne DEF StreamInv, HeldDelivered
    <2>3. DeletedAcked'
      BY <1>7, BecomeOne DEF StreamInv, DeletedAcked
    <2> QED
      BY <2>1, <2>2, <2>3 DEF StreamInv
  <1>8. ASSUME NEW w \in Workers, NEW i \in Ids, stage[w][i] # "none" \/ page[w][i] > 0
        PROVE  i <= delivered
    BY <1>8 DEF StreamInv, HeldDelivered
  <1>9. ASSUME NEW w \in Workers, NEW i \in Ids, Dispatch(w, i) PROVE StreamInv'
    <2>1. PICK s \in {"terminal", "deadletter", "duplicate", "run"} : Become(w, i, s)
      BY <1>9 DEF Dispatch
    <2>2. s \in Stages \ {"del"}
      BY <2>1, StageNames
    <2>3. i <= delivered
      BY <1>8, <1>9 DEF Dispatch
    <2> QED
      BY <1>7, <1>9, <2>1, <2>2, <2>3 DEF Dispatch, redisVars, trimVars
  <1>10. ASSUME NEW w \in Workers, NEW i \in Ids, Finish(w, i) PROVE StreamInv'
    <2>1. PICK s \in {"success", "retry", "deadletter"} : Become(w, i, s)
      BY <1>10 DEF Finish
    <2>2. s \in Stages \ {"del"}
      BY <2>1, StageNames
    <2>3. i <= delivered
      BY <1>8, <1>10 DEF Finish
    <2> QED
      BY <1>7, <1>10, <2>1, <2>2, <2>3 DEF Finish, redisVars, trimVars
  <1>11. ASSUME NEW w \in Workers, NEW i \in Ids, FlushWrites(w, i) \/ FlushRefused(w, i)
         PROVE  StreamInv'
    <2>1. stage[w][i] # "none" /\ {"ack", "none"} \subseteq Stages \ {"del"}
      BY <1>11, StageNames DEF FlushWrites, FlushRefused, Kinds
    <2>2. PICK s \in {"ack", "none"} : Become(w, i, s)
      BY <1>11 DEF FlushWrites, FlushRefused
    <2> QED
      BY <1>7, <1>8, <1>11, <2>1, <2>2 DEF FlushWrites, FlushRefused, trimVars
  <1>12. ASSUME NEW w \in Workers, NEW i \in Ids, FlushAck(w, i) PROVE StreamInv'
    <2>1. /\ stage[w][i] = "ack" /\ pel' = pel \ {i} /\ Become(w, i, "del")
          /\ UNCHANGED <<log, stream, delivered, page, trimAt, trimVal>>
      BY <1>12 DEF FlushAck, trimVars
    <2>2. (PendingInStream /\ PendingDelivered /\ UndeliveredPresent /\ TrimBelow)'
      BY <2>1 DEF StreamInv, PendingInStream, PendingDelivered, UndeliveredPresent, TrimBelow
    <2>3. HeldDelivered'
      BY <1>8, <2>1, BecomeOne DEF StreamInv, HeldDelivered
    <2>4. DeletedAcked'
      BY <2>1, BecomeOne DEF StreamInv, DeletedAcked
    <2> QED
      BY <2>2, <2>3, <2>4 DEF StreamInv
  <1>13. ASSUME NEW w \in Workers, NEW i \in Ids, FlushDelete(w, i) PROVE StreamInv'
    <2>1. /\ stage[w][i] = "del" /\ stream' = stream \ {i} /\ Become(w, i, "none")
          /\ UNCHANGED <<log, pel, delivered, page, trimAt, trimVal>>
      BY <1>13 DEF FlushDelete, trimVars
    <2>2. i \notin pel /\ i <= delivered
      BY <1>8, <2>1 DEF StreamInv, DeletedAcked
    <2>3. (PendingInStream /\ PendingDelivered /\ UndeliveredPresent /\ TrimBelow)'
      BY <2>1, <2>2
         DEF StreamInv, PendingInStream, PendingDelivered, UndeliveredPresent, TrimBelow
    <2>4. (HeldDelivered /\ DeletedAcked)'
      BY <2>1, <2>2, BecomeOne DEF StreamInv, HeldDelivered, DeletedAcked
    <2> QED
      BY <2>3, <2>4 DEF StreamInv
  <1>14. ASSUME NEW w \in Workers, NEW i \in Ids, FlushTorn(w, i) PROVE StreamInv'
    <2>1. stage[w][i] # "none" /\ "none" \in Stages \ {"del"}
      BY <1>14, StageNames DEF FlushTorn
    <2> QED
      BY <1>7, <1>8, <1>14, <2>1 DEF FlushTorn, redisVars, trimVars
  <1>15. ASSUME NEW w \in Workers, NEW i \in Ids, RecoverClaim(w, i) PROVE StreamInv'
    <2>1. /\ page[w][i] > 0 /\ page' = [page EXCEPT ![w][i] = 0]
          /\ UNCHANGED <<log, stream, delivered, pel, trimAt, trimVal>>
      BY <1>15 DEF RecoverClaim, trimVars
    <2>2. \A v \in Workers, j \in Ids : page'[v][j] > 0 => page[v][j] > 0
      BY <2>1 DEF TypeOK
    <2>3. CASE \E s \in {"terminal", "held"} : Become(w, i, s)
      BY <1>7, <1>8, <2>1, <2>2, <2>3, StageNames
    <2>4. CASE UNCHANGED stage
      BY <2>1, <2>2, <2>4 DEF StreamInv, PendingInStream, PendingDelivered,
           UndeliveredPresent, TrimBelow, HeldDelivered, DeletedAcked
    <2> QED
      BY <1>15, <2>3, <2>4 DEF RecoverClaim
  <1>16. ASSUME NEW w \in Workers, NEW i \in Ids, RecoverLost(w, i) PROVE StreamInv'
    <2>1. /\ page' = [page EXCEPT ![w] = [j \in Ids |-> 0]]
          /\ UNCHANGED <<log, stream, delivered, pel, stage, trimAt, trimVal>>
      BY <1>16 DEF RecoverLost, trimVars
    <2>2. \A v \in Workers, j \in Ids : page'[v][j] > 0 => page[v][j] > 0
      BY <2>1 DEF TypeOK
    <2> QED
      BY <2>1, <2>2 DEF StreamInv, PendingInStream, PendingDelivered,
           UndeliveredPresent, TrimBelow, HeldDelivered, DeletedAcked
  <1>17. ASSUME NEW w \in Workers, NEW e \in delayed, Move(w, e) \/ MoveTorn(w, e)
         PROVE  StreamInv'
    <2>1. e \in Envelope
      BY DEF TypeOK
    <2> QED
      BY <1>2, <1>17, <2>1 DEF Move, MoveTorn, trimVars
  <1>18. ASSUME NEW w \in Workers, RecoverScan(w) PROVE StreamInv'
    <2>1. /\ page' = [page EXCEPT ![w] =
                          [i \in Ids |-> IF i \in Eligible(w) THEN count[i] ELSE 0]]
          /\ UNCHANGED <<log, stream, delivered, pel, stage, trimAt, trimVal>>
      BY <1>18 DEF RecoverScan, redisVars, trimVars
    <2>2. \A v \in Workers, j \in Ids : page'[v][j] > 0 => page[v][j] > 0 \/ j \in pel
      BY <2>1 DEF TypeOK, Eligible
    <2>3. HeldDelivered'
      BY <2>1, <2>2 DEF StreamInv, HeldDelivered, PendingDelivered
    <2> QED
      BY <2>1, <2>3 DEF StreamInv, PendingInStream, PendingDelivered,
           UndeliveredPresent, TrimBelow, DeletedAcked
  <1>19. ASSUME UNCHANGED <<log, stream, delivered, pel, stage, page>>, TrimBelow'
         PROVE  StreamInv'
    BY <1>19 DEF StreamInv, PendingInStream, PendingDelivered, UndeliveredPresent,
         HeldDelivered, DeletedAcked
  <1>20. ASSUME NEW w \in Workers, TrimInfo(w) PROVE StreamInv'
    <2>1. /\ trimAt' = [trimAt EXCEPT ![w] = "info"]
          /\ trimVal' = [trimVal EXCEPT ![w] = delivered]
          /\ UNCHANGED <<log, stream, delivered, pel, stage, page>>
      BY <1>20 DEF TrimInfo, redisVars
    <2>2. TrimBelow'
      BY <2>1 DEF StreamInv, TrimBelow, TypeOK
    <2> QED
      BY <1>19, <2>1, <2>2
  <1>21. ASSUME NEW w \in Workers, TrimPending(w) PROVE StreamInv'
    <2> DEFINE b == AckedBelow(trimVal[w])
    <2>1. /\ b \in Nat
          /\ \A j \in pel : b <= j
          /\ pel = {} => b \in {0, trimVal[w] + 1}
      BY AckedBelowType DEF AckedBelow
    <2>2. /\ trimAt[w] = "info"
          /\ UNCHANGED <<log, stream, delivered, pel, stage, page>>
          /\ \/ /\ trimAt' = [trimAt EXCEPT ![w] = "idle"]
                /\ trimVal' = [trimVal EXCEPT ![w] = 0]
             \/ /\ trimAt' = [trimAt EXCEPT ![w] = "bound"]
                /\ trimVal' = [trimVal EXCEPT ![w] = b]
      BY <1>21 DEF TrimPending, redisVars
    <2> HIDE DEF b
    <2>3. trimVal[w] <= delivered
      BY <2>2 DEF StreamInv, TrimBelow
    <2>4. b <= delivered + 1
      <3>1. CASE pel = {}
        BY <2>1, <2>3, <3>1
      <3>2. CASE pel # {}
        BY <2>1, <3>2 DEF StreamInv, PendingDelivered
      <3> QED
        BY <3>1, <3>2
    <2>5. TrimBelow'
      BY <2>1, <2>2, <2>4 DEF StreamInv, TrimBelow, TypeOK
    <2> QED
      BY <1>19, <2>2, <2>5
  <1>22. ASSUME NEW w \in Workers, Trim(w) PROVE StreamInv'
    <2>1. /\ trimAt[w] = "bound"
          /\ stream' = {i \in stream : i >= trimVal[w]}
          /\ trimAt' = [trimAt EXCEPT ![w] = "idle"]
          /\ trimVal' = [trimVal EXCEPT ![w] = 0]
          /\ UNCHANGED <<log, delivered, pel, stage, page>>
      BY <1>22 DEF Trim
    <2>2. trimVal[w] <= delivered + 1 /\ \A j \in pel : trimVal[w] <= j
      BY <2>1 DEF StreamInv, TrimBelow
    <2>3. PendingInStream'
      BY <2>1, <2>2 DEF StreamInv, PendingInStream
    <2>4. UndeliveredPresent'
      BY <2>1, <2>2 DEF StreamInv, UndeliveredPresent
    <2>5. TrimBelow'
      BY <2>1 DEF StreamInv, TrimBelow, TypeOK
    <2> QED
      BY <2>1, <2>3, <2>4, <2>5 DEF StreamInv, PendingDelivered, HeldDelivered, DeletedAcked
  <1>23. ASSUME NEW w \in Workers, TrimFailed(w) PROVE StreamInv'
    <2>1. /\ trimAt' = [trimAt EXCEPT ![w] = "idle"]
          /\ trimVal' = [trimVal EXCEPT ![w] = 0]
          /\ UNCHANGED <<log, stream, delivered, pel, stage, page>>
      BY <1>23 DEF TrimFailed, redisVars
    <2>2. TrimBelow'
      BY <2>1 DEF StreamInv, TrimBelow, TypeOK
    <2> QED
      BY <1>19, <2>1, <2>2
  <1>24. ASSUME NEW w \in Workers, Crash(w) PROVE StreamInv'
    <2>1. /\ stage' = [stage EXCEPT ![w] = [i \in Ids |-> "none"]]
          /\ page' = [page EXCEPT ![w] = [i \in Ids |-> 0]]
          /\ trimAt' = [trimAt EXCEPT ![w] = "idle"]
          /\ trimVal' = [trimVal EXCEPT ![w] = 0]
          /\ UNCHANGED <<log, stream, delivered, pel>>
      BY <1>24 DEF Crash, redisVars
    <2>2. TrimBelow'
      BY <2>1 DEF StreamInv, TrimBelow, TypeOK
    <2>3. \A v \in Workers, i \in Ids :
            /\ stage'[v][i] = stage[v][i] \/ stage'[v][i] = "none"
            /\ page'[v][i] = page[v][i] \/ page'[v][i] = 0
      BY <2>1 DEF TypeOK
    <2>4. (HeldDelivered /\ DeletedAcked)'
      BY <2>1, <2>3 DEF StreamInv, HeldDelivered, DeletedAcked
    <2> QED
      BY <2>1, <2>2, <2>4 DEF StreamInv, PendingInStream, PendingDelivered, UndeliveredPresent
  <1>25. ASSUME NEW w \in Workers, Start(w) PROVE StreamInv'
    BY <1>1, <1>25 DEF Start, redisVars, trimVars
  <1>26. CASE UNCHANGED vars
    BY <1>1, <1>26 DEF vars
  <1>27. ASSUME NEW w \in Workers, NEW i \in Ids, Fetch(w, i) \/ FetchLost(w, i)
         PROVE  StreamInv'
    BY <1>6, <1>27 DEF Fetch, FetchLost
  <1> QED
    BY <1>3, <1>4, <1>5, <1>9, <1>10, <1>11, <1>12, <1>13, <1>14, <1>15, <1>16, <1>17,
       <1>18, <1>20, <1>21, <1>22, <1>23, <1>24, <1>25, <1>26, <1>27
       DEF Next, Client, EntryStep, EntryFault, TrimStep

-----------------------------------------------------------------------------
(* What any step does to the obligations of the broker *)

\* Records and envelopes are never taken back.
RecordsGrow == results \subseteq results' /\ dlq \subseteq dlq' /\ returned \subseteq returned'
LogKept == \A i \in 1 .. Len(log) : i \in 1 .. Len(log') /\ log'[i] = log[i]

\* An entry stops being owed only by the one XACK of the step.
OwedKept == \A i \in stream : Owed(i) => Owed(i)'
OneAcked ==
    \E w \in Workers, i \in Ids :
        stage[w][i] = "ack" /\ \A j \in stream \ {i} : Owed(j) => Owed(j)'

\* A delayed envelope leaves the set only for the stream.
DelayedKept == \A e \in delayed : e \in delayed' \/ \E j \in stream' : Owed(j)' /\ log'[j] = e

\* What a copy of an entry may turn into.
StageMoves ==
    \A w \in Workers, i \in Ids :
        \/ stage'[w][i] = stage[w][i]
        \/ stage'[w][i] \in {"none", "held", "run", "terminal", "deadletter"}
        \/ stage'[w][i] \in {"success", "duplicate"} /\ log'[i].task \in returned'
        \/ stage'[w][i] = "retry" /\ log'[i].retries < MaxRetries
        \/ stage'[w][i] = "ack" /\ Safe(log[i].task, log[i].retries)'
        \/ stage'[w][i] = "del" /\ stage[w][i] = "ack"

\* Only an acked entry leaves the pending list, only a carried task is accepted.
PendingMoves ==
    \A i \in 1 .. delivered' :
        i \notin pel' => \/ i <= delivered /\ i \notin pel
                         \/ \E w \in Workers : i \in Ids /\ stage[w][i] = "ack"
Accepts == \A t \in accepted' : t \in accepted \/ CarriedAbove(t, -1)'

Effect ==
    /\ RecordsGrow
    /\ LogKept
    /\ OwedKept \/ OneAcked
    /\ DelayedKept
    /\ StageMoves
    /\ PendingMoves
    /\ Accepts

\* The own writes of a completion settle its task or schedule its next attempt.
LEMMA WritesCover ==
  ASSUME TypeOK, KindBacked, NEW w \in Workers, NEW i \in Ids, i <= delivered,
         stage[w][i] \in Kinds, Land(Writes(stage[w][i], log[i].task), log[i]),
         UNCHANGED <<log, returned>>
  PROVE  Safe(log[i].task, log[i].retries)'
  <1> DEFINE t == log[i].task
             r == log[i].retries
  <1>1. t \in Tasks /\ r \in 0 .. MaxRetries
    BY EntryLogged
  <1>2. CASE stage[w][i] \in {"success", "duplicate"}
    <2>1. t \in returned
      BY <1>2 DEF KindBacked
    <2>2. t \in StoreResult => t \in results'
      BY <1>2 DEF Land, Writes, TerminalWrites
    <2> QED
      BY <2>1, <2>2 DEF Safe, Settled
  <1>3. CASE stage[w][i] = "retry"
    <2>1. [task |-> t, retries |-> r + 1] \in delayed'
      BY <1>3 DEF Land, Writes, TerminalWrites
    <2>2. CarriedAbove(log[i].task, log[i].retries)'
      BY <1>1, <2>1 DEF CarriedAbove
    <2> QED
      BY <2>2 DEF Safe
  <1>4. CASE stage[w][i] = "deadletter"
    <2>1. t \in dlq' /\ (t \in StoreResult => t \in results')
      BY <1>4 DEF Land, Writes, TerminalWrites
    <2> QED
      BY <2>1 DEF Safe, Settled
  <1>5. CASE stage[w][i] = "terminal"
    <2>1. t \in dlq' /\ (t \notin Unreadable => t \in results')
      BY <1>5 DEF Land, Writes, TerminalWrites
    <2> QED
      BY <2>1 DEF Safe, Settled
  <1> QED
    BY <1>2, <1>3, <1>4, <1>5 DEF Kinds

\* Every step has the effect above; only XACK takes an obligation away.
LEMMA NextEffect ==
  ASSUME TypeOK, StreamInv, KindBacked, [Next]_vars PROVE Effect
  <1> USE Numbers
  <1>1. ASSUME UNCHANGED <<accepted, log, stream, delivered, pel, delayed, results, dlq>>,
               returned \subseteq returned', StageMoves
        PROVE  Effect
    <2>1. RecordsGrow /\ LogKept /\ DelayedKept /\ PendingMoves /\ Accepts
      BY <1>1 DEF RecordsGrow, LogKept, DelayedKept, PendingMoves, Accepts
    <2>2. OwedKept
      BY <1>1 DEF OwedKept, Owed
    <2> QED
      BY <1>1, <2>1, <2>2 DEF Effect
  <1>2. ASSUME UNCHANGED stage PROVE StageMoves
    BY <1>2 DEF StageMoves
  <1>3. ASSUME NEW w \in Workers, NEW i \in Ids,
               NEW s \in {"none", "held", "run", "terminal", "deadletter"}, Become(w, i, s)
        PROVE  StageMoves
    BY <1>3, BecomeOne DEF StageMoves
  <1>4. ASSUME NEW e \in Envelope, XAdd(e), UNCHANGED <<delivered, pel>>
        PROVE  /\ LogKept /\ OwedKept
               /\ \E j \in stream' : Owed(j)' /\ log'[j] = e
    <2>1. /\ Len(log') = Len(log) + 1 /\ log'[Len(log) + 1] = e
          /\ \A i \in 1 .. Len(log) : log'[i] = log[i]
          /\ stream' = stream \cup {Len(log) + 1}
      BY <1>4, XAddAppends
    <2>2. LogKept
      BY <2>1 DEF LogKept
    <2>3. OwedKept
      BY <1>4, <2>1 DEF OwedKept, Owed
    <2>4. PICK n \in Nat : n = Len(log) + 1
      OBVIOUS
    <2>5. n \in stream' /\ Owed(n)' /\ log'[n] = e
      BY <1>4, <2>1, <2>4 DEF Owed
    <2> QED
      BY <2>2, <2>3, <2>5
  <1>5. ASSUME NEW t \in Tasks, Enqueue(t) PROVE Effect
    <2> DEFINE e == [task |-> t, retries |-> 0]
    <2>1. e \in Envelope /\ e.task = t /\ e.retries > -1
      BY DeliveryAssumption DEF Envelope
    <2> HIDE DEF e
    <2>2. /\ XAdd(e) /\ accepted' = accepted \cup {t}
          /\ UNCHANGED <<delivered, pel, delayed, results, dlq, returned, stage>>
      BY <1>5 DEF Enqueue, e
    <2>3. /\ LogKept /\ OwedKept
          /\ \E j \in stream' : Owed(j)' /\ log'[j] = e
      BY <1>4, <2>1, <2>2
    <2>4. Accepts
      BY <2>1, <2>2, <2>3 DEF Accepts, CarriedAbove
    <2>5. RecordsGrow /\ DelayedKept /\ PendingMoves
      BY <2>2 DEF RecordsGrow, DelayedKept, PendingMoves
    <2> QED
      BY <1>2, <2>2, <2>3, <2>4, <2>5 DEF Effect
  <1>6. ASSUME NEW t \in Tasks, EnqueueLater(t) PROVE Effect
    <2> DEFINE e == [task |-> t, retries |-> 0]
    <2>1. e.task = t /\ e.retries > -1
      OBVIOUS
    <2> HIDE DEF e
    <2>2. /\ delayed' = delayed \cup {e} /\ accepted' = accepted \cup {t}
          /\ UNCHANGED <<log, stream, delivered, pel, results, dlq, returned, stage>>
      BY <1>6 DEF EnqueueLater, e
    <2>3. Accepts
      BY <2>1, <2>2 DEF Accepts, CarriedAbove
    <2>4. RecordsGrow /\ LogKept /\ DelayedKept /\ PendingMoves
      BY <2>2 DEF RecordsGrow, LogKept, DelayedKept, PendingMoves
    <2>5. OwedKept
      BY <2>2 DEF OwedKept, Owed
    <2> QED
      BY <1>2, <2>2, <2>3, <2>4, <2>5 DEF Effect
  <1>7. ASSUME NEW i \in Ids, GrowIdle(i) PROVE Effect
    BY <1>1, <1>2, <1>7 DEF GrowIdle
  <1>8. ASSUME NEW w \in Workers, NEW i \in Ids, Fetch(w, i) \/ FetchLost(w, i) PROVE Effect
    <2>1. /\ i \in stream /\ i > delivered /\ delivered' = i /\ pel' = pel \cup {i}
          /\ \A j \in stream : j > delivered => i <= j
          /\ UNCHANGED <<accepted, log, stream, delayed, results, dlq, returned>>
      BY <1>8 DEF Fetch, FetchLost, Deliver
    <2>2. StageMoves
      BY <1>2, <1>3, <1>8 DEF Fetch, FetchLost
    <2>3. OwedKept
      BY <2>1 DEF OwedKept, Owed
    <2>4. PendingMoves
      BY <2>1 DEF StreamInv, UndeliveredPresent, PendingMoves
    <2>5. RecordsGrow /\ LogKept /\ DelayedKept /\ Accepts
      BY <2>1 DEF RecordsGrow, LogKept, DelayedKept, Accepts
    <2> QED
      BY <2>2, <2>3, <2>4, <2>5 DEF Effect
  <1>9. ASSUME NEW w \in Workers, NEW i \in Ids, Dispatch(w, i) PROVE Effect
    <2>1. returned \subseteq returned'
      BY <1>9 DEF Dispatch
    <2>2. CASE \E s \in {"terminal", "deadletter", "run"} : Become(w, i, s)
      BY <1>1, <1>3, <1>9, <2>1, <2>2 DEF Dispatch, redisVars
    <2>3. CASE Become(w, i, "duplicate") /\ log[i].task \in returned' /\ UNCHANGED log
      <3>1. StageMoves
        BY <2>3, BecomeOne DEF StageMoves
      <3> QED
        BY <1>1, <1>9, <2>1, <3>1 DEF Dispatch, redisVars
    <2> QED
      BY <1>9, <2>2, <2>3 DEF Dispatch, redisVars
  <1>10. ASSUME NEW w \in Workers, NEW i \in Ids, Finish(w, i) PROVE Effect
    <2>1. returned \subseteq returned' /\ UNCHANGED log
      BY <1>10 DEF Finish, redisVars
    <2>2. StageMoves
      <3>1. CASE Become(w, i, "success") /\ log[i].task \in returned'
        BY <2>1, <3>1, BecomeOne DEF StageMoves
      <3>2. CASE Become(w, i, "retry") /\ log[i].retries < MaxRetries
        BY <2>1, <3>2, BecomeOne DEF StageMoves
      <3>3. CASE Become(w, i, "deadletter")
        BY <1>3, <3>3
      <3> QED
        BY <1>10, <3>1, <3>2, <3>3 DEF Finish
    <2> QED
      BY <1>1, <1>10, <2>1, <2>2 DEF Finish, redisVars
  <1>11. ASSUME NEW w \in Workers, NEW i \in Ids, NEW W, Land(W, log[i]), StageMoves,
                UNCHANGED <<accepted, log, stream, delivered, pel, returned>>
         PROVE  Effect
    <2>1. RecordsGrow /\ DelayedKept
      BY <1>11 DEF Land, RecordsGrow, DelayedKept
    <2>2. OwedKept
      BY <1>11 DEF OwedKept, Owed
    <2>3. LogKept /\ PendingMoves /\ Accepts
      BY <1>11 DEF LogKept, PendingMoves, Accepts
    <2> QED
      BY <1>11, <2>1, <2>2, <2>3 DEF Effect
  <1>12. ASSUME NEW w \in Workers, NEW i \in Ids, FlushWrites(w, i) PROVE Effect
    <2>1. /\ stage[w][i] \in Kinds /\ Land(Writes(stage[w][i], log[i].task), log[i])
          /\ Become(w, i, "ack")
          /\ UNCHANGED <<accepted, log, stream, delivered, pel, returned>>
      BY <1>12 DEF FlushWrites
    <2>2. i <= delivered
      BY <2>1 DEF StreamInv, HeldDelivered, Kinds
    <2>3. Safe(log[i].task, log[i].retries)'
      BY <2>1, <2>2, WritesCover
    <2>4. StageMoves
      BY <2>1, <2>3, BecomeOne DEF StageMoves
    <2> QED
      BY <1>11, <2>1, <2>4
  <1>13. ASSUME NEW w \in Workers, NEW i \in Ids, FlushRefused(w, i) PROVE Effect
    <2>1. StageMoves
      BY <1>3, <1>13 DEF FlushRefused
    <2>2. PICK W : Land(W, log[i])
      BY <1>13 DEF FlushRefused
    <2> QED
      BY <1>11, <1>13, <2>1, <2>2 DEF FlushRefused
  <1>14. ASSUME NEW w \in Workers, NEW i \in Ids, FlushAck(w, i) PROVE Effect
    <2>1. /\ stage[w][i] = "ack" /\ pel' = pel \ {i} /\ Become(w, i, "del")
          /\ UNCHANGED <<accepted, log, stream, delivered, delayed, results, dlq, returned>>
      BY <1>14 DEF FlushAck
    <2>2. StageMoves
      BY <2>1, BecomeOne DEF StageMoves
    <2>3. OneAcked
      BY <2>1 DEF OneAcked, Owed
    <2>4. PendingMoves
      BY <2>1 DEF PendingMoves
    <2>5. RecordsGrow /\ LogKept /\ DelayedKept /\ Accepts
      BY <2>1 DEF RecordsGrow, LogKept, DelayedKept, Accepts
    <2> QED
      BY <2>2, <2>3, <2>4, <2>5 DEF Effect
  <1>15. ASSUME NEW w \in Workers, NEW i \in Ids, FlushDelete(w, i) PROVE Effect
    <2>1. /\ stage[w][i] = "del" /\ stream' = stream \ {i} /\ Become(w, i, "none")
          /\ UNCHANGED <<accepted, log, delivered, pel, delayed, results, dlq, returned>>
      BY <1>15 DEF FlushDelete
    <2>2. i \notin pel /\ i <= delivered
      BY <2>1 DEF StreamInv, DeletedAcked, HeldDelivered
    <2>3. StageMoves
      BY <1>3, <2>1
    <2>4. OwedKept
      BY <2>1, <2>2 DEF OwedKept, Owed
    <2>5. RecordsGrow /\ LogKept /\ DelayedKept /\ PendingMoves /\ Accepts
      BY <2>1 DEF RecordsGrow, LogKept, DelayedKept, PendingMoves, Accepts
    <2> QED
      BY <2>3, <2>4, <2>5 DEF Effect
  <1>16. ASSUME NEW w \in Workers, NEW i \in Ids, FlushTorn(w, i) PROVE Effect
    BY <1>1, <1>3, <1>16 DEF FlushTorn, redisVars
  <1>17. ASSUME NEW w \in Workers, NEW i \in Ids, RecoverClaim(w, i) PROVE Effect
    <2>1. StageMoves
      BY <1>2, <1>3, <1>17 DEF RecoverClaim
    <2> QED
      BY <1>1, <1>17, <2>1 DEF RecoverClaim
  <1>18. ASSUME NEW w \in Workers, NEW i \in Ids, RecoverLost(w, i) PROVE Effect
    BY <1>1, <1>2, <1>18 DEF RecoverLost
  <1>19. ASSUME NEW w \in Workers, NEW e \in delayed, Move(w, e) \/ MoveTorn(w, e)
         PROVE  Effect
    <2>1. /\ e \in Envelope /\ XAdd(e) /\ delayed \ {e} \subseteq delayed'
          /\ UNCHANGED <<accepted, delivered, pel, results, dlq, returned, stage>>
      BY <1>19 DEF Move, MoveTorn, TypeOK
    <2>2. /\ LogKept /\ OwedKept
          /\ \E j \in stream' : Owed(j)' /\ log'[j] = e
      BY <1>4, <2>1
    <2>3. DelayedKept
      BY <2>1, <2>2 DEF DelayedKept
    <2>4. RecordsGrow /\ PendingMoves /\ Accepts
      BY <2>1 DEF RecordsGrow, PendingMoves, Accepts
    <2> QED
      BY <1>2, <2>1, <2>2, <2>3, <2>4 DEF Effect
  <1>20. ASSUME NEW w \in Workers,
                \/ RecoverScan(w) \/ TrimInfo(w) \/ TrimPending(w) \/ TrimFailed(w) \/ Start(w)
         PROVE  Effect
    BY <1>1, <1>2, <1>20
       DEF RecoverScan, TrimInfo, TrimPending, TrimFailed, Start, redisVars
  <1>21. ASSUME NEW w \in Workers, Trim(w) PROVE Effect
    <2>1. /\ trimAt[w] = "bound"
          /\ stream' = {i \in stream : i >= trimVal[w]}
          /\ UNCHANGED <<accepted, log, delivered, pel, delayed, results, dlq, returned, stage>>
      BY <1>21 DEF Trim
    <2>2. trimVal[w] <= delivered + 1 /\ \A j \in pel : trimVal[w] <= j
      BY <2>1 DEF StreamInv, TrimBelow
    <2>3. OwedKept
      BY <2>1, <2>2 DEF OwedKept, Owed
    <2>4. RecordsGrow /\ LogKept /\ DelayedKept /\ PendingMoves /\ Accepts
      BY <2>1 DEF RecordsGrow, LogKept, DelayedKept, PendingMoves, Accepts
    <2> QED
      BY <1>2, <2>1, <2>3, <2>4 DEF Effect
  <1>22. ASSUME NEW w \in Workers, Crash(w) PROVE Effect
    <2>1. StageMoves
      BY <1>22 DEF Crash, StageMoves, TypeOK
    <2> QED
      BY <1>1, <1>22, <2>1 DEF Crash, redisVars
  <1>23. CASE UNCHANGED vars
    BY <1>1, <1>2, <1>23 DEF vars
  <1> QED
    BY <1>5, <1>6, <1>7, <1>8, <1>9, <1>10, <1>12, <1>13, <1>14, <1>15, <1>16, <1>17,
       <1>18, <1>19, <1>20, <1>21, <1>22, <1>23
       DEF Next, Client, EntryStep, EntryFault, TrimStep

-----------------------------------------------------------------------------
(* No task is lost *)

\* A task that is settled or carried above r stays so. If the entry acked by the
\* step was its carrier, AckCovered names another one, of strictly more retries.
LEMMA SafeKept ==
  ASSUME TypeOK, AckCovered, Effect, NEW t, NEW r \in Int, Safe(t, r)
  PROVE  Safe(t, r)'
  <1> USE Numbers
  <1>1. \A i \in stream : i \in 1 .. Len(log) /\ log[i].retries \in Int
    <2>1. log \in Seq(Envelope)
      BY DEF TypeOK
    <2>2. \A i \in stream : log[i] \in Envelope
      BY <2>1
    <2> QED
      BY <2>2, DeliveryAssumption DEF Envelope
  <1>2. ASSUME NEW u, Settled(u) PROVE Settled(u)'
    BY <1>2 DEF Settled, Effect, RecordsGrow
  <1>3. ASSUME NEW u, NEW k \in Int, NEW j \in stream, Owed(j)', log[j].task = u,
               log[j].retries > k
        PROVE  CarriedAbove(u, k)'
    <2>1. log'[j] = log[j] /\ j \in stream'
      BY <1>1, <1>3 DEF Effect, LogKept, Owed
    <2> QED
      BY <1>3, <2>1 DEF CarriedAbove
  <1>4. ASSUME NEW u, NEW k \in Int, NEW e \in delayed, e.task = u, e.retries > k
        PROVE  CarriedAbove(u, k)'
    BY <1>4 DEF CarriedAbove, Effect, DelayedKept
  <1>5. CASE OwedKept
    BY <1>2, <1>3, <1>4, <1>5 DEF Safe, CarriedAbove, OwedKept
  <1>6. CASE OneAcked
    <2>1. PICK w \in Workers, i \in Ids :
            stage[w][i] = "ack" /\ \A j \in stream \ {i} : Owed(j) => Owed(j)'
      BY <1>6 DEF OneAcked
    <2>2. CASE ~(i \in stream /\ Owed(i) /\ log[i].task = t /\ log[i].retries > r)
      BY <1>2, <1>3, <1>4, <2>1, <2>2 DEF Safe, CarriedAbove
    <2>3. CASE i \in stream /\ Owed(i) /\ log[i].task = t /\ log[i].retries > r
      <3>1. Settled(t) \/ CarriedAbove(t, log[i].retries)
        BY <2>1, <2>3 DEF AckCovered
      <3>2. CASE \E j \in stream : Owed(j) /\ log[j].task = t /\ log[j].retries > log[i].retries
        <4>1. PICK j \in stream : /\ Owed(j) /\ log[j].task = t
                                  /\ log[j].retries > log[i].retries
          BY <3>2
        <4>2. log[j].retries \in Int /\ log[i].retries \in Int
          BY <1>1, <2>3
        <4>3. j # i /\ log[j].retries > r
          BY <2>3, <4>1, <4>2
        <4> QED
          BY <1>3, <2>1, <4>1, <4>3 DEF Safe
      <3>3. CASE \E e \in delayed : e.task = t /\ e.retries > log[i].retries
        <4>1. PICK e \in delayed : e.task = t /\ e.retries > log[i].retries
          BY <3>3
        <4>2. e.retries \in Int /\ log[i].retries \in Int
          BY <1>1, <2>3, DeliveryAssumption DEF TypeOK, Envelope
        <4>3. e.retries > r
          BY <2>3, <4>1, <4>2
        <4> QED
          BY <1>4, <4>1, <4>3 DEF Safe
      <3> QED
        BY <1>2, <3>1, <3>2, <3>3 DEF Safe, CarriedAbove
    <2> QED
      BY <2>2, <2>3
  <1> QED
    BY <1>5, <1>6 DEF Effect

\* The initial state satisfies the inductive invariant.
LEMMA InitIInv == Init => IInv
  <1> SUFFICES ASSUME Init PROVE IInv
    OBVIOUS
  <1>1. TypeOK
    BY InitTypeOK
  <1>2. Len(log) = 0 /\ delivered = 0 /\ pel = {} /\ accepted = {}
    BY DEF Init
  <1>3. StreamInv
    BY <1>2, DeliveryAssumption
       DEF Init, StreamInv, PendingInStream, PendingDelivered, UndeliveredPresent,
           HeldDelivered, DeletedAcked, TrimBelow
  <1>4. KindBacked /\ AckCovered
    BY DEF Init, KindBacked, AckCovered
  <1>5. AckedCovered /\ NoTaskLost
    BY <1>2 DEF AckedCovered, NoTaskLost
  <1> QED
    BY <1>1, <1>3, <1>4, <1>5 DEF IInv

\* Every step keeps the inductive invariant.
LEMMA NextIInv == IInv /\ [Next]_vars => IInv'
  <1> SUFFICES ASSUME IInv, [Next]_vars PROVE IInv'
    OBVIOUS
  <1> USE DEF IInv
  <1>1. TypeOK'
    BY NextTypeOK DEF StreamInv
  <1>2. StreamInv'
    BY NextStream
  <1>3. Effect
    BY NextEffect
  <1>4. \A i \in 1 .. Len(log) :
            /\ log'[i] = log[i]
            /\ log[i].retries \in Int
            /\ Safe(log[i].task, log[i].retries) => Safe(log[i].task, log[i].retries)'
    <2> SUFFICES ASSUME NEW i \in 1 .. Len(log)
                 PROVE  /\ log'[i] = log[i]
                        /\ log[i].retries \in Int
                        /\ Safe(log[i].task, log[i].retries) =>
                              Safe(log[i].task, log[i].retries)'
      OBVIOUS
    <2>1. log'[i] = log[i]
      BY <1>3 DEF Effect, LogKept
    <2>2. PICK t, r : t = log[i].task /\ r = log[i].retries
      OBVIOUS
    <2>3. r \in Int
      <3>1. log[i] \in Envelope
        BY DEF TypeOK
      <3> QED
        BY <2>2, <3>1, DeliveryAssumption DEF Envelope
    <2>4. Safe(t, r) => Safe(t, r)'
      BY <1>3, <2>3, SafeKept
    <2> QED
      BY <2>1, <2>2, <2>3, <2>4 DEF Safe, Settled, CarriedAbove
  <1>5. \A w \in Workers, i \in Ids : stage[w][i] # "none" => i \in 1 .. Len(log)
    BY EntryLogged DEF StreamInv, HeldDelivered
  <1>6. KindBacked'
    <2> SUFFICES ASSUME NEW w \in Workers, NEW i \in Ids
                 PROVE  /\ stage'[w][i] \in {"success", "duplicate"} =>
                              log'[i].task \in returned'
                        /\ stage'[w][i] = "retry" => log'[i].retries < MaxRetries
      BY DEF KindBacked
    <2> QED
      BY <1>3, <1>4, <1>5 DEF Effect, StageMoves, RecordsGrow, KindBacked
  <1>7. ASSUME NEW w \in Workers, NEW i \in Ids, stage[w][i] \in {"ack", "del"}
        PROVE  Safe(log[i].task, log[i].retries)'
    <2>1. Safe(log[i].task, log[i].retries)
      BY <1>7 DEF AckCovered, Safe
    <2> QED
      BY <1>4, <1>5, <1>7, <2>1
  <1>8. AckCovered'
    <2> SUFFICES ASSUME NEW w \in Workers, NEW i \in Ids, stage'[w][i] \in {"ack", "del"}
                 PROVE  Safe(log[i].task, log[i].retries)'
      BY DEF AckCovered, Safe
    <2> QED
      BY <1>3, <1>7 DEF Effect, StageMoves
  <1>9. AckedCovered'
    <2> SUFFICES ASSUME NEW i \in 1 .. delivered', i \notin pel'
                 PROVE  Safe(log[i].task, log[i].retries)'
      BY DEF AckedCovered
    <2>1. CASE i <= delivered /\ i \notin pel
      <3>1. i \in 1 .. delivered /\ i \in 1 .. Len(log)
        BY <1>1, <2>1, Numbers DEF TypeOK
      <3> QED
        BY <1>4, <2>1, <3>1 DEF AckedCovered
    <2>2. CASE \E w \in Workers : i \in Ids /\ stage[w][i] = "ack"
      BY <1>7, <2>2
    <2> QED
      BY <1>3, <2>1, <2>2 DEF Effect, PendingMoves
  <1>10. NoTaskLost'
    <2> SUFFICES ASSUME NEW t \in accepted' PROVE Safe(t, -1)'
      BY DEF NoTaskLost, Safe
    <2>1. t \in accepted => Safe(t, -1)
      BY DEF NoTaskLost, Safe
    <2>2. t \in accepted \/ CarriedAbove(t, -1)'
      BY <1>3 DEF Effect, Accepts
    <2> QED
      BY <1>3, <2>1, <2>2, SafeKept DEF Safe
  <1> QED
    BY <1>1, <1>2, <1>6, <1>8, <1>9, <1>10

-----------------------------------------------------------------------------
(* Executions of one entry *)

\* The copies of entry i that were dispatched and do not yet run, and the processes that
\* will still dispatch it on a delivery count read while it was within the limit.
Dispatched(i) == {w \in Workers : stage[w][i] = "held"}
Late(i) == {w \in Workers : page[w][i] > 0 /\ page[w][i] <= RedeliveryLimit(log[i].task)}

\* r executions at delivery count c: one per delivery up to the limit; past it every process
\* that has not used its page yet has one more to give, and the one whose claim passed the
\* limit has none.
Within(r, c, D, L, limit) ==
    /\ c <= limit => r + Cardinality(D) <= c
    /\ c > limit => r + Cardinality(D) + Cardinality(L) <= limit + Cardinality(Workers)

RunsCounted ==
    /\ \A i \in Ids : i > delivered => runs[i] = 0
    /\ \A i \in 1 .. delivered :
          Within(runs[i], count[i], Dispatched(i), Late(i), RedeliveryLimit(log[i].task))

\* redelivery_limit is at least one delivery.
LEMMA LimitPositive == \A t : RedeliveryLimit(t) \in Nat /\ RedeliveryLimit(t) >= 1
  BY DeliveryAssumption DEF RedeliveryLimit

\* Sets of workers and their sizes.
LEMMA WorkerSets ==
  ASSUME NEW S \in SUBSET Workers, NEW T \in SUBSET S, NEW w \in Workers
  PROVE  /\ Cardinality(Workers) \in Nat /\ Cardinality(S) \in Nat /\ Cardinality(T) \in Nat
         /\ Cardinality(T) <= Cardinality(S) /\ Cardinality(S) <= Cardinality(Workers)
         /\ w \in S => Cardinality(S \ {w}) = Cardinality(S) - 1
         /\ w \notin S => Cardinality(S) <= Cardinality(Workers) - 1
         /\ Cardinality(S \cup {w}) <= Cardinality(S) + 1
  <1>1. IsFiniteSet(Workers)
    BY DeliveryAssumption
  <1>2. IsFiniteSet(S) /\ IsFiniteSet(T)
    BY <1>1, FS_Subset
  <1>3. Cardinality(Workers) \in Nat /\ Cardinality(S) \in Nat /\ Cardinality(T) \in Nat
    BY <1>1, <1>2, FS_CardinalityType
  <1>4. Cardinality(T) <= Cardinality(S) /\ Cardinality(S) <= Cardinality(Workers)
    BY <1>1, <1>2, FS_Subset
  <1>5. w \in S => Cardinality(S \ {w}) = Cardinality(S) - 1
    BY <1>2, FS_RemoveElement
  <1>6. ASSUME w \notin S PROVE Cardinality(S) <= Cardinality(Workers) - 1
    <2>1. IsFiniteSet(Workers \ {w}) /\ Cardinality(Workers \ {w}) = Cardinality(Workers) - 1
      BY <1>1, FS_RemoveElement
    <2>2. S \in SUBSET (Workers \ {w})
      BY <1>6
    <2> QED
      BY <2>1, <2>2, FS_Subset
  <1>7. Cardinality(S \cup {w}) <= Cardinality(S) + 1
    <2>1. Cardinality(S \cup {w}) = IF w \in S THEN Cardinality(S) ELSE Cardinality(S) + 1
      BY <1>2, FS_AddElement, Zenon
    <2>2. CASE w \in S
      BY <1>3, <2>1, <2>2
    <2>3. CASE w \notin S
      BY <1>3, <2>1, <2>3
    <2> QED
      BY <2>2, <2>3
  <1> QED
    BY <1>3, <1>4, <1>5, <1>6, <1>7

\* Nothing is delivered or begun, copies may be dropped, pages used or read anew.
LEMMA WithinQuiet ==
  ASSUME NEW D \in SUBSET Workers, NEW D2 \in SUBSET D, NEW L \in SUBSET Workers,
         NEW L2 \in SUBSET Workers, NEW r \in Nat, NEW c \in Nat, NEW limit \in Nat,
         L2 \subseteq L \/ c <= limit, Within(r, c, D, L, limit)
  PROVE  Within(r, c, D2, L2, limit)
  <1>1. CASE Workers = {}
    <2>1. D = {} /\ D2 = {} /\ L = {} /\ L2 = {}
      BY <1>1
    <2> QED
      BY <2>1
  <1>2. CASE Workers # {}
    <2>1. PICK w \in Workers : TRUE
      BY <1>2
    <2>2. Cardinality(D) \in Nat /\ Cardinality(D2) \in Nat /\ Cardinality(D2) <= Cardinality(D)
      BY <2>1, WorkerSets
    <2>3. CASE c <= limit
      BY <2>2, <2>3 DEF Within
    <2>4. CASE L2 \subseteq L
      <3>1. /\ Cardinality(L) \in Nat /\ Cardinality(L2) \in Nat
            /\ Cardinality(L2) <= Cardinality(L) /\ Cardinality(Workers) \in Nat
        BY <2>1, <2>4, WorkerSets
      <3> QED
        BY <2>2, <3>1 DEF Within
    <2> QED
      BY <2>3, <2>4
  <1> QED
    BY <1>1, <1>2

\* A dispatched copy begins to run.
LEMMA WithinRun ==
  ASSUME NEW D \in SUBSET Workers, NEW L \in SUBSET Workers, NEW w \in D,
         NEW r \in Nat, NEW c \in Nat, NEW limit \in Nat, Within(r, c, D, L, limit)
  PROVE  Within(r + 1, c, D \ {w}, L, limit)
  <1>1. /\ Cardinality(D) \in Nat /\ Cardinality(L) \in Nat /\ Cardinality(Workers) \in Nat
        /\ Cardinality(D \ {w}) = Cardinality(D) - 1
    BY WorkerSets
  <1> QED
    BY <1>1 DEF Within

\* Process w claims the entry and uses up its page; it dispatches only on a page within
\* the limit.
LEMMA WithinClaim ==
  ASSUME NEW D \in SUBSET Workers, NEW D2 \in SUBSET Workers, NEW L \in SUBSET Workers,
         NEW w \in Workers, NEW r \in Nat, NEW c \in Nat, NEW limit \in Nat,
         D2 = D \/ (D2 = D \cup {w} /\ w \in L), Within(r, c, D, L, limit)
  PROVE  Within(r, c + 1, D2, L \ {w}, limit)
  <1>1. L \ {w} \in SUBSET L /\ w \notin L \ {w}
    OBVIOUS
  <1>2. /\ Cardinality(D) \in Nat /\ Cardinality(L) \in Nat /\ Cardinality(Workers) \in Nat
        /\ Cardinality(D2) \in Nat /\ Cardinality(D2) <= Cardinality(D) + 1
    <2>1. Cardinality(D) \in Nat /\ Cardinality(D \cup {w}) <= Cardinality(D) + 1
      BY WorkerSets
    <2>2. /\ Cardinality(D2) \in Nat /\ Cardinality(L) \in Nat
          /\ Cardinality(Workers) \in Nat
      BY WorkerSets
    <2> QED
      BY <2>1, <2>2
  <1>3. /\ Cardinality(L \ {w}) \in Nat /\ Cardinality(L \ {w}) <= Cardinality(Workers) - 1
        /\ Cardinality(L \ {w}) <= Cardinality(L)
        /\ w \in L => Cardinality(L \ {w}) = Cardinality(L) - 1
    BY <1>1, WorkerSets
  <1>4. D2 = D => Cardinality(D2) = Cardinality(D)
    OBVIOUS
  <1>5. CASE c <= limit
    BY <1>2, <1>3, <1>5 DEF Within
  <1>6. CASE c > limit /\ D2 = D
    BY <1>2, <1>3, <1>4, <1>6 DEF Within
  <1>7. CASE c > limit /\ w \in L
    BY <1>2, <1>3, <1>7 DEF Within
  <1> QED
    BY <1>5, <1>6, <1>7

\* The first delivery.
LEMMA WithinFirst ==
  ASSUME NEW D \in SUBSET Workers, NEW L, NEW w \in Workers, D \subseteq {w},
         NEW limit \in Nat, limit >= 1
  PROVE  Within(0, 1, D, L, limit)
  <1>1. D = {} \/ D = {w}
    OBVIOUS
  <1>2. Cardinality(D) \in {0, 1}
    BY <1>1, FS_EmptySet, FS_Singleton
  <1> QED
    BY <1>2 DEF Within

\* Every step keeps the count of executions.
LEMMA NextRuns ==
  ASSUME TypeOK, StreamInv, KindBacked, RunsCounted, [Next]_vars
  PROVE  RunsCounted'
  <1> DEFINE limit(i) == RedeliveryLimit(log[i].task)
  <1> USE Numbers
  <1>1. TypeOK' /\ Effect
    BY NextTypeOK, NextEffect DEF StreamInv
  <1>2. /\ runs \in [Ids -> Nat] /\ count \in [Ids -> Nat] /\ page \in [Workers -> [Ids -> Nat]]
        /\ stage \in [Workers -> [Ids -> Stages]]
        /\ page' \in [Workers -> [Ids -> Nat]] /\ stage' \in [Workers -> [Ids -> Stages]]
    BY <1>1 DEF TypeOK
  <1>3. \A i \in 1 .. delivered : i \in Ids /\ log'[i] = log[i] /\ i \in Nat
    <2>1. \A i \in 1 .. delivered : i \in 1 .. Len(log)
      OBVIOUS
    <2>2. Len(log) <= MaxId
      BY DEF TypeOK
    <2>3. \A i \in 1 .. delivered : i \in Ids
      BY <2>1, <2>2, DeliveryAssumption DEF Ids
    <2> QED
      BY <1>1, <2>1, <2>3 DEF Effect, LogKept
  <1>4. \A i : limit(i) \in Nat /\ limit(i) >= 1
    BY LimitPositive
  <1>5. \A i \in 1 .. delivered : limit(i)' = limit(i)
    BY <1>3
  <1>6. \A i : /\ Dispatched(i) \in SUBSET Workers /\ Late(i) \in SUBSET Workers
               /\ Dispatched(i)' \in SUBSET Workers /\ Late(i)' \in SUBSET Workers
    BY DEF Dispatched, Late
  <1>7. ASSUME UNCHANGED <<runs, count, delivered>>,
               \A w \in Workers, i \in Ids : stage'[w][i] = "held" => stage[w][i] = "held",
               \A w \in Workers, i \in Ids : page'[w][i] \in {0, page[w][i]}
        PROVE  RunsCounted'
    <2>1. ASSUME NEW i \in 1 .. delivered
          PROVE  Within(runs[i], count[i], Dispatched(i)', Late(i)', limit(i)')
      <3>1. Dispatched(i)' \in SUBSET Dispatched(i)
        BY <1>3, <1>7 DEF Dispatched
      <3>2. Late(i)' \subseteq Late(i)
        BY <1>3, <1>7 DEF Late
      <3>3. Within(runs[i], count[i], Dispatched(i), Late(i), limit(i))
        BY DEF RunsCounted
      <3>4. runs[i] \in Nat /\ count[i] \in Nat /\ limit(i) \in Nat /\ limit(i)' = limit(i)
        BY <1>2, <1>3, <1>4, <1>5
      <3> HIDE DEF limit
      <3> QED
        BY <1>6, <3>1, <3>2, <3>3, <3>4, WithinQuiet
    <2> QED
      BY <1>7, <2>1 DEF RunsCounted
  <1>8. ASSUME NEW w \in Workers, NEW i \in Ids, NEW s \in Stages \ {"held"}, Become(w, i, s),
               UNCHANGED <<runs, count, delivered, page>>
        PROVE  RunsCounted'
    <2>1. \A v \in Workers, j \in Ids : stage'[v][j] = "held" => stage[v][j] = "held"
      BY <1>8, BecomeOne
    <2> QED
      BY <1>7, <1>8, <2>1
  <1>9. ASSUME UNCHANGED <<runs, count, delivered, stage, page>> PROVE RunsCounted'
    BY <1>7, <1>9
  <1>10. CASE Client \/ \E i \in Ids : GrowIdle(i)
    BY <1>9, <1>10 DEF Client, Enqueue, EnqueueLater, GrowIdle
  <1>11. ASSUME NEW w \in Workers, NEW i \in Ids, Fetch(w, i) \/ FetchLost(w, i)
         PROVE  RunsCounted'
    <2>1. /\ i \in stream /\ i > delivered /\ delivered' = i
          /\ \A j \in stream : j > delivered => i <= j
          /\ count' = [count EXCEPT ![i] = 1]
          /\ UNCHANGED <<log, runs, page>>
      BY <1>11 DEF Fetch, FetchLost, Deliver
    <2>2. UNCHANGED stage \/ Become(w, i, "held")
      BY <1>11 DEF Fetch, FetchLost
    <2>3. i = delivered + 1
      BY <2>1 DEF StreamInv, UndeliveredPresent
    <2>4. \A v \in Workers, j \in Ids : <<v, j>> # <<w, i>> => stage'[v][j] = stage[v][j]
      BY <2>2, BecomeOne
    <2>5. Within(runs'[i], count'[i], Dispatched(i)', Late(i)', limit(i)')
      <3>1. \A v \in Workers : stage[v][i] = "none"
        BY <2>1 DEF StreamInv, HeldDelivered
      <3>2. Dispatched(i)' \subseteq {w}
        BY <2>4, <3>1 DEF Dispatched
      <3>3. runs'[i] = 0 /\ count'[i] = 1
        BY <1>2, <2>1 DEF RunsCounted
      <3>4. limit(i)' \in Nat /\ limit(i)' >= 1
        BY <2>1, <1>4
      <3> HIDE DEF limit
      <3> QED
        BY <1>6, <3>2, <3>3, <3>4, WithinFirst
    <2>6. ASSUME NEW j \in 1 .. delivered
          PROVE  Within(runs'[j], count'[j], Dispatched(j)', Late(j)', limit(j)')
      <3>1. j # i /\ j \in Ids
        BY <1>3, <2>1
      <3>2. Dispatched(j)' = Dispatched(j)
        BY <2>4, <3>1 DEF Dispatched
      <3>3. Late(j)' = Late(j) /\ limit(j)' = limit(j) /\ runs'[j] = runs[j] /\ count'[j] = count[j]
        BY <1>2, <2>1, <3>1 DEF Late
      <3>4. Within(runs[j], count[j], Dispatched(j), Late(j), limit(j))
        BY DEF RunsCounted
      <3> HIDE DEF limit
      <3> QED
        BY <3>2, <3>3, <3>4
    <2>7. \A j \in 1 .. delivered' : j = i \/ j \in 1 .. delivered
      BY <2>1, <2>3
    <2>8. \A j \in Ids : j > delivered' => runs'[j] = 0
      BY <2>1 DEF RunsCounted
    <2> QED
      BY <2>5, <2>6, <2>7, <2>8 DEF RunsCounted
  <1>12. ASSUME NEW w \in Workers, NEW i \in Ids, Dispatch(w, i) PROVE RunsCounted'
    <2>1. stage[w][i] = "held" /\ UNCHANGED <<log, count, delivered, page>>
      BY <1>12 DEF Dispatch, redisVars
    <2>2. CASE \E s \in {"terminal", "deadletter", "duplicate"} :
                  Become(w, i, s) /\ UNCHANGED runs
      <3>1. PICK s \in {"terminal", "deadletter", "duplicate"} :
                  Become(w, i, s) /\ UNCHANGED runs
        BY <2>2
      <3>2. s \in Stages \ {"held"}
        BY StageNames
      <3> QED
        BY <1>8, <2>1, <3>1, <3>2
    <2>3. CASE Become(w, i, "run") /\ runs' = [runs EXCEPT ![i] = @ + 1]
      <3>1. /\ stage'[w][i] = "run"
            /\ \A v \in Workers, j \in Ids : <<v, j>> # <<w, i>> => stage'[v][j] = stage[v][j]
        BY <2>3, BecomeOne
      <3>2. i <= delivered
        BY <2>1 DEF StreamInv, HeldDelivered
      <3>3. ASSUME NEW j \in 1 .. delivered
            PROVE  Within(runs'[j], count'[j], Dispatched(j)', Late(j)', limit(j)')
        <4>1. /\ j \in Ids /\ Late(j)' = Late(j) /\ limit(j)' = limit(j) /\ count'[j] = count[j]
          BY <1>3, <2>1 DEF Late
        <4>2. Within(runs[j], count[j], Dispatched(j), Late(j), limit(j))
          BY DEF RunsCounted
        <4>3. runs[j] \in Nat /\ count[j] \in Nat /\ limit(j) \in Nat
          BY <1>2, <1>4, <4>1
        <4>4. CASE j = i
          <5>1. Dispatched(j)' = Dispatched(j) \ {w} /\ w \in Dispatched(j)
            BY <2>1, <3>1, <4>4 DEF Dispatched
          <5>2. runs'[j] = runs[j] + 1
            BY <1>2, <2>3, <4>4
          <5> HIDE DEF limit
          <5> QED
            BY <1>6, <4>1, <4>2, <4>3, <5>1, <5>2, WithinRun
        <4>5. CASE j # i
          <5>1. Dispatched(j)' = Dispatched(j)
            BY <3>1, <4>1, <4>5 DEF Dispatched
          <5>2. runs'[j] = runs[j]
            BY <1>2, <2>3, <4>1, <4>5
          <5> HIDE DEF limit
          <5> QED
            BY <4>1, <4>2, <5>1, <5>2
        <4> QED
          BY <4>4, <4>5
      <3>4. \A j \in Ids : j > delivered' => runs'[j] = 0
        BY <1>2, <2>1, <2>3, <3>2 DEF RunsCounted
      <3> QED
        BY <2>1, <3>3, <3>4 DEF RunsCounted
    <2> QED
      BY <1>12, <2>2, <2>3 DEF Dispatch
  <1>13. ASSUME NEW w \in Workers, NEW i \in Ids, Finish(w, i) PROVE RunsCounted'
    <2>1. PICK s \in {"success", "retry", "deadletter"} : Become(w, i, s)
      BY <1>13 DEF Finish
    <2>2. s \in Stages \ {"held"}
      BY StageNames
    <2> QED
      BY <1>8, <1>13, <2>1, <2>2 DEF Finish, redisVars
  <1>14. ASSUME NEW w \in Workers, NEW i \in Ids,
                \/ FlushWrites(w, i) \/ FlushAck(w, i) \/ FlushDelete(w, i)
                \/ FlushRefused(w, i) \/ FlushTorn(w, i)
         PROVE  RunsCounted'
    <2>1. PICK s \in {"ack", "del", "none"} : Become(w, i, s)
      BY <1>14 DEF FlushWrites, FlushAck, FlushDelete, FlushRefused, FlushTorn
    <2>2. s \in Stages \ {"held"}
      BY StageNames
    <2>3. UNCHANGED <<runs, count, delivered, page>>
      BY <1>14 DEF FlushWrites, FlushAck, FlushDelete, FlushRefused, FlushTorn, redisVars
    <2> QED
      BY <1>8, <2>1, <2>2, <2>3
  <1>15. ASSUME NEW w \in Workers, NEW i \in Ids, page[w][i] > 0, XClaim({i}),
                UNCHANGED <<log, delivered, runs>>,
                page'[w][i] = 0,
                \A v \in Workers, j \in Ids : page'[v][j] \in {0, page[v][j]},
                \A v \in Workers : v # w => page'[v] = page[v],
                \/ \E s \in Stages \ {"held"} : Become(w, i, s)
                \/ UNCHANGED stage
                \/ /\ Claimable(i) /\ Become(w, i, "held")
                   /\ page[w][i] <= limit(i)
         PROVE  RunsCounted'
    <2>1. i \in 1 .. delivered
      BY <1>15 DEF StreamInv, HeldDelivered
    <2>2. \A v \in Workers, j \in Ids : <<v, j>> # <<w, i>> /\ stage'[v][j] = "held"
                                            => stage[v][j] = "held"
      BY <1>15, BecomeOne
    <2>3. ASSUME NEW j \in 1 .. delivered, j # i
          PROVE  Within(runs'[j], count'[j], Dispatched(j)', Late(j)', limit(j)')
      <3>1. j \in Ids /\ limit(j)' = limit(j) /\ runs'[j] = runs[j] /\ count'[j] = count[j]
        BY <1>2, <1>3, <1>15, <2>3 DEF XClaim
      <3>2. Dispatched(j)' \in SUBSET Dispatched(j)
        BY <2>2, <2>3, <3>1 DEF Dispatched
      <3>3. Late(j)' \subseteq Late(j)
        BY <1>15, <3>1 DEF Late
      <3>4. Within(runs[j], count[j], Dispatched(j), Late(j), limit(j))
        BY DEF RunsCounted
      <3>5. runs[j] \in Nat /\ count[j] \in Nat /\ limit(j) \in Nat
        BY <1>2, <1>4, <3>1
      <3> HIDE DEF limit
      <3> QED
        BY <1>6, <3>1, <3>2, <3>3, <3>4, <3>5, WithinQuiet
    <2>4. Within(runs'[i], count'[i], Dispatched(i)', Late(i)', limit(i)')
      <3>1. limit(i)' = limit(i) /\ runs'[i] = runs[i]
        BY <1>15
      <3>2. Late(i)' = Late(i) \ {w}
        BY <1>15 DEF Late
      <3>3. Within(runs[i], count[i], Dispatched(i), Late(i), limit(i))
        BY <2>1 DEF RunsCounted
      <3>4. runs[i] \in Nat /\ count[i] \in Nat /\ limit(i) \in Nat
        BY <1>2, <1>4
      <3>5. CASE Claimable(i)
        <4>1. count'[i] = count[i] + 1
          BY <1>2, <1>15, <3>5 DEF XClaim
        <4>2. CASE Become(w, i, "held") /\ page[w][i] <= limit(i)
          <5>1. Dispatched(i)' = Dispatched(i) \cup {w}
            BY <4>2, BecomeOne DEF Dispatched
          <5>2. w \in Late(i)
            BY <1>15, <4>2 DEF Late
          <5> HIDE DEF limit
          <5> QED
            BY <1>6, <3>1, <3>2, <3>3, <3>4, <4>1, <5>1, <5>2, WithinClaim
        <4>3. CASE UNCHANGED stage \/ \E s \in Stages \ {"held"} : Become(w, i, s)
          <5>1. Dispatched(i)' \in SUBSET Dispatched(i)
            BY <4>3, BecomeOne DEF Dispatched
          <5> HIDE DEF limit
          <5>2. Within(runs[i], count[i], Dispatched(i)', Late(i), limit(i))
            BY <1>6, <3>3, <3>4, <5>1, WithinQuiet
          <5> QED
            BY <1>6, <3>1, <3>2, <3>4, <4>1, <5>2, WithinClaim
        <4> QED
          BY <1>15, <4>2, <4>3
      <3>6. CASE ~(Claimable(i))
        <4>1. count'[i] = count[i]
          BY <1>15, <3>6 DEF XClaim
        <4>2. Dispatched(i)' \in SUBSET Dispatched(i) /\ Late(i)' \subseteq Late(i)
          BY <1>15, <3>2, <3>6, BecomeOne DEF Dispatched
        <4> HIDE DEF limit
        <4> QED
          BY <1>6, <3>1, <3>3, <3>4, <4>1, <4>2, WithinQuiet
      <3> QED
        BY <3>5, <3>6
    <2> QED
      BY <1>15, <2>3, <2>4 DEF RunsCounted
  <1>16. ASSUME NEW w \in Workers, NEW i \in Ids, RecoverClaim(w, i) PROVE RunsCounted'
    <2>1. /\ page[w][i] > 0 /\ XClaim({i}) /\ UNCHANGED <<log, delivered, runs>>
          /\ page' = [page EXCEPT ![w][i] = 0]
      BY <1>16 DEF RecoverClaim
    <2>2. /\ page'[w][i] = 0 /\ \A v \in Workers, j \in Ids : page'[v][j] \in {0, page[v][j]}
          /\ \A v \in Workers : v # w => page'[v] = page[v]
      BY <1>2, <2>1
    <2>3. \/ \E s \in Stages \ {"held"} : Become(w, i, s)
          \/ UNCHANGED stage
          \/ /\ Claimable(i) /\ Become(w, i, "held")
             /\ page[w][i] <= limit(i)
      <3>1. "terminal" \in Stages \ {"held"}
        BY StageNames
      <3>2. page[w][i] \in Nat
        BY <1>2
      <3> QED
        BY <1>4, <1>16, <3>1, <3>2 DEF RecoverClaim
    <2> QED
      BY <1>15, <2>1, <2>2, <2>3
  <1>17. ASSUME NEW w \in Workers, NEW i \in Ids, RecoverLost(w, i) PROVE RunsCounted'
    <2> DEFINE S == {j \in 1 .. i : page[w][j] > 0}
    <2>1. /\ XClaim(S) /\ UNCHANGED <<log, delivered, runs, stage>>
          /\ page' = [page EXCEPT ![w] = [j \in Ids |-> 0]]
      BY <1>17 DEF RecoverLost
    <2>2. ASSUME NEW j \in 1 .. delivered
          PROVE  Within(runs'[j], count'[j], Dispatched(j)', Late(j)', limit(j)')
      <3>1. j \in Ids /\ limit(j)' = limit(j) /\ runs'[j] = runs[j] /\ Dispatched(j)' = Dispatched(j)
        BY <1>3, <2>1 DEF Dispatched
      <3>2. Late(j)' = Late(j) \ {w}
        BY <1>2, <2>1, <3>1 DEF Late
      <3>3. Within(runs[j], count[j], Dispatched(j), Late(j), limit(j))
        BY DEF RunsCounted
      <3>4. runs[j] \in Nat /\ count[j] \in Nat /\ limit(j) \in Nat
        BY <1>2, <1>4, <3>1
      <3>5. count'[j] \in {count[j], count[j] + 1}
        BY <2>1, <3>1 DEF XClaim
      <3> HIDE DEF limit
      <3>6. CASE count'[j] = count[j]
        <4>1. Dispatched(j)' \in SUBSET Dispatched(j) /\ Late(j)' \subseteq Late(j)
          BY <3>1, <3>2
        <4> QED
          BY <1>6, <3>1, <3>3, <3>4, <3>6, <4>1, WithinQuiet
      <3>7. CASE count'[j] = count[j] + 1
        <4>1. Dispatched(j) \in SUBSET Workers /\ Late(j) \in SUBSET Workers
          BY <1>6
        <4>2. Within(runs[j], count[j] + 1, Dispatched(j), Late(j) \ {w}, limit(j))
          BY <3>3, <3>4, <4>1, WithinClaim
        <4> QED
          BY <3>1, <3>2, <3>7, <4>2
      <3> QED
        BY <3>5, <3>6, <3>7
    <2> QED
      BY <2>1, <2>2 DEF RunsCounted
  <1>18. ASSUME NEW w \in Workers, RecoverScan(w) PROVE RunsCounted'
    <2>1. /\ UNCHANGED <<log, delivered, runs, count, stage>>
          /\ page' = [page EXCEPT ![w] = [i \in Ids |-> IF i \in Eligible(w) THEN count[i] ELSE 0]]
      BY <1>18 DEF RecoverScan, redisVars
    <2>2. ASSUME NEW i \in 1 .. delivered
          PROVE  Within(runs[i], count[i], Dispatched(i)', Late(i)', limit(i)')
      <3>1. Dispatched(i)' \in SUBSET Dispatched(i) /\ limit(i)' = limit(i) /\ i \in Ids
        BY <1>3, <2>1 DEF Dispatched
      <3>2. runs[i] \in Nat /\ count[i] \in Nat /\ limit(i) \in Nat
        BY <1>2, <1>4, <3>1
      <3>3. Late(i)' \subseteq Late(i) \/ count[i] <= limit(i)
        <4>1. page'[w][i] \in {0, count[i]} /\ \A v \in Workers : v # w => page'[v] = page[v]
          BY <1>2, <2>1, <3>1
        <4> QED
          BY <2>1, <3>1, <3>2, <4>1 DEF Late
      <3>4. Within(runs[i], count[i], Dispatched(i), Late(i), limit(i))
        BY DEF RunsCounted
      <3> HIDE DEF limit
      <3> QED
        BY <1>6, <3>1, <3>2, <3>3, <3>4, WithinQuiet
    <2> QED
      BY <2>1, <2>2 DEF RunsCounted
  <1>19. ASSUME NEW w \in Workers,
                \/ \E e \in delayed : Move(w, e) \/ MoveTorn(w, e)
                \/ TrimStep(w) \/ TrimFailed(w) \/ Start(w)
         PROVE  RunsCounted'
    BY <1>9, <1>19
       DEF Move, MoveTorn, TrimStep, TrimInfo, TrimPending, Trim, TrimFailed, Start, redisVars
  <1>20. ASSUME NEW w \in Workers, Crash(w) PROVE RunsCounted'
    <2>1. UNCHANGED <<runs, count, delivered>>
      BY <1>20 DEF Crash, redisVars
    <2>2. \A v \in Workers, j \in Ids : stage'[v][j] = "held" => stage[v][j] = "held"
      BY <1>2, <1>20 DEF Crash
    <2>3. \A v \in Workers, j \in Ids : page'[v][j] \in {0, page[v][j]}
      BY <1>2, <1>20 DEF Crash
    <2> QED
      BY <1>7, <2>1, <2>2, <2>3
  <1>21. CASE UNCHANGED vars
    BY <1>9, <1>21 DEF vars
  <1> QED
    BY <1>10, <1>11, <1>12, <1>13, <1>14, <1>16, <1>17, <1>18, <1>19, <1>20, <1>21
       DEF Next, EntryStep, EntryFault

\* A process takes a copy of an entry only where its page has none: a fetch brings an
\* entry that was never delivered, and a claim uses up the page.
LEMMA NextOneCopy ==
  ASSUME TypeOK, StreamInv, KindBacked, OneCopyPerProcess, [Next]_vars
  PROVE  OneCopyPerProcess'
  <1>1. TypeOK'
    BY NextTypeOK DEF StreamInv
  <1>2. /\ page \in [Workers -> [Ids -> Nat]] /\ stage \in [Workers -> [Ids -> Stages]]
        /\ page' \in [Workers -> [Ids -> Nat]] /\ stage' \in [Workers -> [Ids -> Stages]]
    BY <1>1 DEF TypeOK
  <1>3. ASSUME \A w \in Workers, i \in Ids :
                  /\ page'[w][i] > 0 => page[w][i] > 0
                  /\ stage'[w][i] # "none" => stage[w][i] # "none" \/ page'[w][i] = 0
        PROVE  OneCopyPerProcess'
    BY <1>2, <1>3 DEF OneCopyPerProcess
  <1>4. ASSUME UNCHANGED <<stage, page>> PROVE OneCopyPerProcess'
    BY <1>3, <1>4
  <1>5. ASSUME NEW w \in Workers, NEW i \in Ids, NEW s, Become(w, i, s),
               stage[w][i] # "none", UNCHANGED page
        PROVE  OneCopyPerProcess'
    BY <1>3, <1>5, BecomeOne
  <1>6. CASE Client \/ \E i \in Ids : GrowIdle(i)
    BY <1>4, <1>6 DEF Client, Enqueue, EnqueueLater, GrowIdle
  <1>7. ASSUME NEW w \in Workers, NEW i \in Ids, Fetch(w, i) PROVE OneCopyPerProcess'
    <2>1. i > delivered /\ Become(w, i, "held") /\ UNCHANGED page
      BY <1>7 DEF Fetch, Deliver
    <2>2. page[w][i] = 0
      <3>1. page[w][i] \in Nat /\ i \in Nat /\ delivered \in Nat
        BY <1>2, Numbers
      <3>2. ~(page[w][i] > 0)
        BY <2>1, <3>1 DEF StreamInv, HeldDelivered
      <3> QED
        BY <3>1, <3>2
    <2> QED
      BY <1>3, <2>1, <2>2, BecomeOne
  <1>8. ASSUME NEW w \in Workers, NEW i \in Ids, FetchLost(w, i) PROVE OneCopyPerProcess'
    BY <1>4, <1>8 DEF FetchLost, Deliver
  <1>9. ASSUME NEW w \in Workers, NEW i \in Ids,
               \/ Dispatch(w, i) \/ Finish(w, i) \/ FlushWrites(w, i) \/ FlushAck(w, i)
               \/ FlushDelete(w, i) \/ FlushRefused(w, i) \/ FlushTorn(w, i)
        PROVE  OneCopyPerProcess'
    <2>1. (\E s : Become(w, i, s)) /\ UNCHANGED page
      BY <1>9 DEF Dispatch, Finish, FlushWrites, FlushAck, FlushDelete, FlushRefused, FlushTorn
    <2>2. stage[w][i] # "none"
      BY <1>9 DEF Dispatch, Finish, FlushWrites, FlushAck, FlushDelete, FlushRefused, FlushTorn,
                  Kinds
    <2> QED
      BY <1>5, <2>1, <2>2
  <1>10. ASSUME NEW w \in Workers, NEW i \in Ids, RecoverClaim(w, i) PROVE OneCopyPerProcess'
    <2>1. UNCHANGED stage \/ \E s : Become(w, i, s)
      BY <1>10 DEF RecoverClaim
    <2>2. page' = [page EXCEPT ![w][i] = 0]
      BY <1>10 DEF RecoverClaim
    <2> QED
      BY <1>2, <1>3, <2>1, <2>2, BecomeOne
  <1>11. ASSUME NEW w \in Workers, NEW i \in Ids, RecoverLost(w, i) PROVE OneCopyPerProcess'
    <2>1. UNCHANGED stage /\ page' = [page EXCEPT ![w] = [j \in Ids |-> 0]]
      BY <1>11 DEF RecoverLost
    <2> QED
      BY <1>2, <1>3, <2>1
  <1>12. ASSUME NEW w \in Workers, RecoverScan(w) PROVE OneCopyPerProcess'
    <2>1. /\ UNCHANGED stage
          /\ page' = [page EXCEPT ![w] = [i \in Ids |-> IF i \in Eligible(w) THEN count[i] ELSE 0]]
      BY <1>12 DEF RecoverScan
    <2>2. \A i \in Eligible(w) : stage[w][i] = "none"
      BY DEF Eligible, HoldsEntry
    <2> QED
      BY <1>2, <2>1, <2>2 DEF OneCopyPerProcess
  <1>13. ASSUME NEW w \in Workers,
                \/ \E e \in delayed : Move(w, e) \/ MoveTorn(w, e)
                \/ TrimStep(w) \/ TrimFailed(w) \/ Start(w)
         PROVE  OneCopyPerProcess'
    BY <1>4, <1>13
       DEF Move, MoveTorn, TrimStep, TrimInfo, TrimPending, Trim, TrimFailed, Start
  <1>14. ASSUME NEW w \in Workers, Crash(w) PROVE OneCopyPerProcess'
    <2>1. /\ stage' = [stage EXCEPT ![w] = [i \in Ids |-> "none"]]
          /\ page' = [page EXCEPT ![w] = [i \in Ids |-> 0]]
      BY <1>14 DEF Crash
    <2> QED
      BY <1>2, <1>3, <2>1
  <1>15. CASE UNCHANGED vars
    BY <1>4, <1>15 DEF vars
  <1> QED
    BY <1>6, <1>7, <1>8, <1>9, <1>10, <1>11, <1>12, <1>13, <1>14, <1>15
       DEF Next, EntryStep, EntryFault

-----------------------------------------------------------------------------
(* The refinement of the ledger *)

\* Nothing is known of a task before it is accepted.
Known ==
    /\ \A i \in 1 .. Len(log) : log[i].task \in accepted
    /\ \A e \in delayed : e.task \in accepted
    /\ results \subseteq accepted /\ dlq \subseteq accepted /\ returned \subseteq accepted

\* The envelopes the group still owes and those of the delayed set.
Carriers == delayed \cup {log[i] : i \in {j \in stream : Owed(j)}}

SameRecords == UNCHANGED <<results, dlq, returned>>

\* What a step may add: nothing, a new task with its first attempt, the outcome of one
\* task, or the next attempt after a delivered one.
Idles == accepted' = accepted /\ SameRecords /\ Carriers' \subseteq Carriers
Admits(t) ==
    /\ t \notin accepted /\ accepted' = accepted \cup {t} /\ SameRecords
    /\ Carriers' \subseteq Carriers \cup {[task |-> t, retries |-> 0]}
Records(t) ==
    /\ accepted' = accepted /\ Carriers' \subseteq Carriers
    /\ results' \subseteq results \cup {t} /\ dlq' \subseteq dlq \cup {t}
    /\ returned' \subseteq returned \cup {t}
Retries(i) ==
    /\ accepted' = accepted /\ SameRecords /\ log[i].retries < MaxRetries
    /\ Carriers' \subseteq Carriers \cup {[task |-> log[i].task, retries |-> log[i].retries + 1]}

Adds ==
    \/ Idles
    \/ \E t \in Tasks : Admits(t)
    \/ \E t \in accepted : Records(t)
    \/ \E i \in 1 .. delivered : Retries(i)

\* XADD adds the envelope to the carriers, and nothing else.
LEMMA XAddCarries ==
  ASSUME TypeOK, NEW e \in Envelope, XAdd(e), UNCHANGED <<delivered, pel>>
  PROVE  \A i \in stream' : Owed(i)' => log'[i] = e \/ (i \in stream /\ Owed(i) /\ log'[i] = log[i])
  <1> USE Numbers
  <1>1. /\ stream' = stream \cup {Len(log) + 1} /\ log'[Len(log) + 1] = e
        /\ \A i \in 1 .. Len(log) : log'[i] = log[i]
    BY XAddAppends
  <1>2. \A i \in stream : i \in 1 .. Len(log)
    BY DEF TypeOK
  <1> QED
    BY <1>1, <1>2 DEF Owed

\* Every step is of one of these kinds.
LEMMA NextAdds ==
  ASSUME TypeOK, StreamInv, KindBacked, Known, [Next]_vars
  PROVE  Adds
  <1> USE Numbers
  <1>1. ASSUME UNCHANGED <<log, delayed>>, \A i \in stream' : Owed(i)' => i \in stream /\ Owed(i)
        PROVE  Carriers' \subseteq Carriers
    BY <1>1 DEF Carriers
  <1>2. ASSUME UNCHANGED <<log, delayed, stream, delivered, pel>> PROVE Carriers' \subseteq Carriers
    BY <1>2 DEF Carriers, Owed
  <1>3. ASSUME UNCHANGED redisVars, UNCHANGED returned PROVE Adds
    <2>1. Carriers' \subseteq Carriers /\ accepted' = accepted /\ SameRecords
      BY <1>2, <1>3 DEF redisVars, SameRecords
    <2> QED
      BY <2>1 DEF Adds, Idles
  <1>4. ASSUME NEW t \in Tasks, Enqueue(t) PROVE Adds
    <2> DEFINE e == [task |-> t, retries |-> 0]
    <2>1. /\ e \in Envelope /\ XAdd(e) /\ t \notin accepted /\ accepted' = accepted \cup {t}
          /\ UNCHANGED <<delivered, pel, delayed>> /\ SameRecords
      BY <1>4, DeliveryAssumption DEF Enqueue, Envelope, SameRecords
    <2> HIDE DEF e
    <2>2. Carriers' \subseteq Carriers \cup {e}
      BY <2>1, XAddCarries DEF Carriers
    <2>3. Admits(t)
      BY <2>1, <2>2 DEF Admits, e
    <2> QED
      BY <2>3 DEF Adds
  <1>5. ASSUME NEW t \in Tasks, EnqueueLater(t) PROVE Adds
    <2> DEFINE e == [task |-> t, retries |-> 0]
    <2>1. /\ t \notin accepted /\ accepted' = accepted \cup {t} /\ delayed' = delayed \cup {e}
          /\ UNCHANGED <<log, stream, delivered, pel>> /\ SameRecords
      BY <1>5 DEF EnqueueLater, SameRecords
    <2> HIDE DEF e
    <2>2. Carriers' \subseteq Carriers \cup {e}
      BY <2>1 DEF Carriers, Owed
    <2>3. Admits(t)
      BY <2>1, <2>2 DEF Admits, e
    <2> QED
      BY <2>3 DEF Adds
  <1>6. ASSUME NEW i \in Ids, GrowIdle(i) PROVE Adds
    <2>1. UNCHANGED <<accepted, log, delayed, stream, delivered, pel>> /\ SameRecords
      BY <1>6 DEF GrowIdle, SameRecords
    <2> QED
      BY <1>2, <2>1 DEF Adds, Idles
  <1>7. ASSUME NEW w \in Workers, NEW i \in Ids, Fetch(w, i) \/ FetchLost(w, i) PROVE Adds
    <2>1. /\ i \in stream /\ i > delivered /\ delivered' = i /\ pel' = pel \cup {i}
          /\ UNCHANGED <<accepted, log, stream, delayed>> /\ SameRecords
      BY <1>7 DEF Fetch, FetchLost, Deliver, SameRecords
    <2>2. \A j \in stream' : Owed(j)' => j \in stream /\ Owed(j)
      BY <2>1 DEF Owed
    <2> QED
      BY <1>1, <2>1, <2>2 DEF Adds, Idles
  <1>8. ASSUME NEW w \in Workers, NEW i \in Ids, stage[w][i] # "none"
        PROVE  i \in 1 .. delivered /\ i \in 1 .. Len(log) /\ log[i].task \in accepted
               /\ log[i] \in Envelope
    <2>1. i <= delivered
      BY <1>8 DEF StreamInv, HeldDelivered
    <2>2. i \in 1 .. Len(log) /\ log[i] \in Envelope
      BY <2>1, EntryLogged
    <2> QED
      BY <2>1, <2>2 DEF Known
  <1>9. ASSUME NEW w \in Workers, NEW i \in Ids, Dispatch(w, i) \/ Finish(w, i) PROVE Adds
    <2>1. stage[w][i] # "none" /\ UNCHANGED redisVars
      BY <1>9 DEF Dispatch, Finish
    <2>2. log[i].task \in accepted
      BY <1>8, <2>1
    <2>3. returned' \subseteq returned \cup {log[i].task}
      BY <1>9 DEF Dispatch, Finish
    <2>4. Carriers' \subseteq Carriers /\ accepted' = accepted /\ results' = results /\ dlq' = dlq
      BY <1>2, <2>1 DEF redisVars
    <2>5. Records(log[i].task)
      BY <2>3, <2>4 DEF Records
    <2> QED
      BY <2>2, <2>5 DEF Adds
  <1>10. ASSUME NEW w \in Workers, NEW i \in Ids, stage[w][i] \in Kinds,
                NEW W \in SUBSET Writes(stage[w][i], log[i].task), Land(W, log[i]),
                UNCHANGED <<accepted, log, stream, delivered, pel, returned>>
         PROVE  Adds
    <2>1. /\ i \in 1 .. delivered /\ log[i].task \in accepted
      BY <1>8, <1>10 DEF Kinds
    <2>2. CASE "delayed" \in W
      <3>1. stage[w][i] = "retry"
        BY <1>10, <2>2 DEF Writes, TerminalWrites, Kinds
      <3>2. log[i].retries < MaxRetries
        BY <3>1 DEF KindBacked
      <3>3. "result" \notin W /\ "dlq" \notin W
        BY <1>10, <3>1 DEF Writes
      <3>4. SameRecords
        BY <1>10, <3>3 DEF Land, SameRecords
      <3>5. delayed' = delayed \cup {[task |-> log[i].task, retries |-> log[i].retries + 1]}
        BY <1>10, <2>2 DEF Land
      <3>6. Carriers' \subseteq Carriers \cup {[task |-> log[i].task, retries |-> log[i].retries + 1]}
        BY <1>10, <3>5 DEF Carriers, Owed
      <3>7. Retries(i)
        BY <1>10, <3>2, <3>4, <3>6 DEF Retries
      <3> QED
        BY <2>1, <3>7 DEF Adds
    <2>3. CASE "delayed" \notin W
      <3>1. UNCHANGED delayed
        BY <1>10, <2>3 DEF Land
      <3>2. Carriers' \subseteq Carriers
        BY <1>2, <1>10, <3>1
      <3>3. results' \subseteq results \cup {log[i].task} /\ dlq' \subseteq dlq \cup {log[i].task}
        BY <1>10 DEF Land
      <3>4. Records(log[i].task)
        BY <1>10, <3>2, <3>3 DEF Records
      <3> QED
        BY <2>1, <3>4 DEF Adds
    <2> QED
      BY <2>2, <2>3
  <1>11. ASSUME NEW w \in Workers, NEW i \in Ids, FlushWrites(w, i) \/ FlushRefused(w, i) PROVE Adds
    <2>1. /\ stage[w][i] \in Kinds
          /\ UNCHANGED <<accepted, log, stream, delivered, pel, returned>>
          /\ \E W \in SUBSET Writes(stage[w][i], log[i].task) : Land(W, log[i])
      BY <1>11 DEF FlushWrites, FlushRefused
    <2> QED
      BY <1>10, <2>1
  <1>12. ASSUME NEW w \in Workers, NEW i \in Ids, FlushAck(w, i) \/ FlushDelete(w, i) PROVE Adds
    <2>1. /\ pel' \subseteq pel /\ stream' \subseteq stream
          /\ UNCHANGED <<accepted, log, delivered, delayed>> /\ SameRecords
      BY <1>12 DEF FlushAck, FlushDelete, SameRecords
    <2>2. \A j \in stream' : Owed(j)' => j \in stream /\ Owed(j)
      BY <2>1 DEF Owed
    <2> QED
      BY <1>1, <2>1, <2>2 DEF Adds, Idles
  <1>13. ASSUME NEW w \in Workers, NEW i \in Ids, FlushTorn(w, i) PROVE Adds
    BY <1>3, <1>13 DEF FlushTorn
  <1>14. ASSUME NEW w \in Workers, NEW i \in Ids, RecoverClaim(w, i) \/ RecoverLost(w, i) PROVE Adds
    <2>1. UNCHANGED <<accepted, log, delayed, stream, delivered, pel>> /\ SameRecords
      BY <1>14 DEF RecoverClaim, RecoverLost, SameRecords
    <2> QED
      BY <1>2, <2>1 DEF Adds, Idles
  <1>15. ASSUME NEW w \in Workers, NEW e \in delayed, Move(w, e) \/ MoveTorn(w, e) PROVE Adds
    <2>1. /\ e \in Envelope /\ XAdd(e) /\ delayed' \subseteq delayed
          /\ UNCHANGED <<accepted, delivered, pel>> /\ SameRecords
      BY <1>15 DEF Move, MoveTorn, SameRecords, TypeOK
    <2>2. Carriers' \subseteq Carriers
      BY <2>1, XAddCarries DEF Carriers
    <2> QED
      BY <2>1, <2>2 DEF Adds, Idles
  <1>16. ASSUME NEW w \in Workers,
                \/ RecoverScan(w) \/ TrimInfo(w) \/ TrimPending(w) \/ TrimFailed(w)
                \/ Crash(w) \/ Start(w)
         PROVE  Adds
    BY <1>3, <1>16 DEF RecoverScan, TrimInfo, TrimPending, TrimFailed, Crash, Start
  <1>17. ASSUME NEW w \in Workers, Trim(w) PROVE Adds
    <2>1. /\ stream' \subseteq stream
          /\ UNCHANGED <<accepted, log, delivered, delayed, pel>> /\ SameRecords
      BY <1>17 DEF Trim, SameRecords
    <2>2. \A j \in stream' : Owed(j)' => j \in stream /\ Owed(j)
      BY <2>1 DEF Owed
    <2> QED
      BY <1>1, <2>1, <2>2 DEF Adds, Idles
  <1>18. CASE UNCHANGED vars
    BY <1>3, <1>18 DEF vars, redisVars
  <1> QED
    BY <1>4, <1>5, <1>6, <1>7, <1>9, <1>11, <1>12, <1>13, <1>14, <1>15, <1>16, <1>17, <1>18
       DEF Next, Client, EntryStep, EntryFault, TrimStep

-----------------------------------------------------------------------------
\* A step appends to the log or delivers, never both.
LEMMA LogOrDelivered ==
  ASSUME [Next]_vars PROVE UNCHANGED log \/ UNCHANGED delivered
  <1>1. CASE Client \/ \E i \in Ids : GrowIdle(i)
    BY <1>1 DEF Client, Enqueue, EnqueueLater, GrowIdle
  <1>2. CASE \E w \in Workers, i \in Ids : EntryStep(w, i)
    BY <1>2 DEF EntryStep, Fetch, Deliver, Dispatch, Finish, FlushWrites, FlushAck, FlushDelete,
                RecoverClaim, redisVars
  <1>3. CASE \E w \in Workers, i \in Ids : EntryFault(w, i)
    BY <1>3 DEF EntryFault, FetchLost, Deliver, FlushRefused, FlushTorn, RecoverLost, redisVars
  <1>4. CASE \E w \in Workers : \E e \in delayed : Move(w, e) \/ MoveTorn(w, e)
    BY <1>4 DEF Move, MoveTorn
  <1>5. CASE \E w \in Workers :
                RecoverScan(w) \/ TrimStep(w) \/ TrimFailed(w) \/ Crash(w) \/ Start(w)
    BY <1>5 DEF RecoverScan, TrimStep, TrimInfo, TrimPending, Trim, TrimFailed, Crash, Start,
                redisVars
  <1>6. CASE UNCHANGED vars
    BY <1>6 DEF vars
  <1> QED
    BY <1>1, <1>2, <1>3, <1>4, <1>5, <1>6 DEF Next

\* The carriers of known tasks.
LEMMA CarriersKnown ==
  ASSUME TypeOK, Known, NEW e \in Carriers
  PROVE  e.task \in accepted /\ e \in Envelope
  <1>1. CASE e \in delayed
    BY <1>1 DEF Known, TypeOK
  <1>2. CASE \E i \in stream : e = log[i]
    <2>1. PICK i \in stream : e = log[i]
      BY <1>2
    <2>2. i \in 1 .. Len(log) /\ log[i] \in Envelope
      BY DEF TypeOK
    <2> QED
      BY <2>1, <2>2 DEF Known
  <1> QED
    BY <1>1, <1>2 DEF Carriers

\* Every step keeps it.
LEMMA NextKnown ==
  ASSUME TypeOK, StreamInv, KindBacked, Known, [Next]_vars
  PROVE  Known'
  <1>1. Adds /\ TypeOK' /\ StreamInv' /\ Effect
    BY NextAdds, NextTypeOK, NextStream, NextEffect DEF StreamInv
  <1>2. accepted \subseteq accepted'
    BY <1>1 DEF Adds, Idles, Admits, Records, Retries
  <1>3. \A e \in Carriers' : e.task \in accepted'
    <2>1. \A e \in Carriers : e.task \in accepted'
      BY <1>2, CarriersKnown
    <2>2. ASSUME NEW t, Admits(t) PROVE \A e \in Carriers' : e.task \in accepted'
      BY <2>1, <2>2 DEF Admits
    <2>3. ASSUME NEW i \in 1 .. delivered, Retries(i)
          PROVE  \A e \in Carriers' : e.task \in accepted'
      <3>1. i \in 1 .. Len(log)
        BY Numbers
      <3>2. log[i].task \in accepted'
        BY <1>2, <3>1 DEF Known
      <3> QED
        BY <2>1, <2>3, <3>2 DEF Retries
    <2> QED
      BY <1>1, <2>1, <2>2, <2>3 DEF Adds, Idles, Records
  <1>4. \A e \in delayed' : e.task \in accepted'
    BY <1>3 DEF Carriers
  <1>5. results' \subseteq accepted' /\ dlq' \subseteq accepted' /\ returned' \subseteq accepted'
    BY <1>1, <1>2 DEF Known, Adds, Idles, Admits, Records, Retries, SameRecords
  <1>6. ASSUME NEW i \in 1 .. Len(log') PROVE log'[i].task \in accepted'
    <2>1. CASE i \in 1 .. Len(log)
      BY <1>1, <1>2, <2>1 DEF Effect, LogKept, Known
    <2>2. CASE i \notin 1 .. Len(log)
      <3>1. delivered' = delivered
        BY <2>2, LogOrDelivered
      <3>2. i > delivered' /\ i \in (delivered' + 1) .. Len(log')
        BY <2>2, <3>1, <1>1, Numbers
      <3>3. i \in stream' /\ Owed(i)'
        BY <1>1, <3>2 DEF StreamInv, UndeliveredPresent, Owed
      <3>4. log'[i] \in Carriers'
        BY <3>3 DEF Carriers
      <3> QED
        BY <1>3, <3>4
    <2> QED
      BY <2>1, <2>2
  <1> QED
    BY <1>4, <1>5, <1>6 DEF Known

-----------------------------------------------------------------------------
\* The tasks the ledger counts as settled.
Done == {t \in accepted : Settled(t)}

\* Each step of the broker is a step of the ledger, or none: an attempt can only follow one
\* that was delivered, which is owed still or was acked under cover of a later one.
LEMMA LedgerStep ==
  ASSUME IInv, IInv', Known, [Next]_vars
  PROVE  [Ledger!LedgerNext]_(Ledger!ledgerVars)
  <1>1. Adds /\ Effect /\ TypeOK /\ TypeOK' /\ AckCovered
    BY NextAdds, NextEffect DEF IInv
  <1>2. \A u : Settled(u) => Settled(u)'
    BY <1>1 DEF Effect, RecordsGrow, Settled
  <1>3. /\ Reached = [u \in Tasks |-> Reached[u]] /\ Reached' = [u \in Tasks |-> Reached'[u]]
        /\ \A u \in Tasks :
              /\ u \in accepted /\ ~Settled(u) =>
                    Reached[u] = {r \in 0 .. MaxRetries : CarriedAbove(u, r - 1)}
              /\ u \in accepted' /\ ~Settled(u)' =>
                    Reached'[u] = {r \in 0 .. MaxRetries : CarriedAbove(u, r - 1)'}
              /\ u \notin accepted \/ Settled(u) => Reached[u] = {}
              /\ u \notin accepted' \/ Settled(u)' => Reached'[u] = {}
    BY DEF Reached
  <1>4. ASSUME NEW u, NEW r \in Int, CarriedAbove(u, r), ~Settled(u)' PROVE CarriedAbove(u, r)'
    <2>1. Safe(u, r)
      BY <1>4 DEF Safe
    <2>2. Safe(u, r)'
      BY <1>1, <2>1, SafeKept
    <2> QED
      BY <1>4, <2>2 DEF Safe
  <1>5. MaxRetries \in Nat /\ \A r \in 0 .. MaxRetries : r - 1 \in Int
    BY DeliveryAssumption
  <1>6. ASSUME NEW u \in Tasks, u \in accepted' <=> u \in accepted, Settled(u)' => Settled(u),
               \A r \in Int : CarriedAbove(u, r)' => CarriedAbove(u, r)
        PROVE  Reached'[u] = Reached[u]
    <2>1. CASE u \notin accepted \/ Settled(u)
      BY <1>2, <1>3, <1>6, <2>1
    <2>2. CASE u \in accepted /\ ~Settled(u)
      <3>1. \A r \in 0 .. MaxRetries : CarriedAbove(u, r - 1)' <=> CarriedAbove(u, r - 1)
        BY <1>4, <1>5, <1>6, <2>2
      <3> QED
        BY <1>3, <1>6, <2>2, <3>1
    <2> QED
      BY <2>1, <2>2
  <1>7. \A u, r : /\ CarriedAbove(u, r) <=> \E e \in Carriers : e.task = u /\ e.retries > r
                  /\ CarriedAbove(u, r)' <=> \E e \in Carriers' : e.task = u /\ e.retries > r
    BY DEF CarriedAbove, Carriers
  <1>8. ASSUME Done' = Done, accepted' = accepted, \A u \in Tasks : Reached'[u] = Reached[u]
        PROVE  UNCHANGED Ledger!ledgerVars
    <2>1. Reached' = Reached
      BY <1>3, <1>8
    <2> QED
      BY <1>8, <2>1 DEF Ledger!ledgerVars, Done
  <1>9. CASE Idles
    <2>1. Done' = Done /\ accepted' = accepted /\ \A u : Settled(u)' <=> Settled(u)
      BY <1>9 DEF Idles, SameRecords, Settled, Done
    <2>2. \A u, r : CarriedAbove(u, r)' => CarriedAbove(u, r)
      BY <1>7, <1>9 DEF Idles
    <2>3. \A u \in Tasks : Reached'[u] = Reached[u]
      BY <1>6, <2>1, <2>2
    <2> QED
      BY <1>8, <2>1, <2>3
  <1>10. ASSUME NEW t \in Tasks, Admits(t) PROVE Ledger!Accept(t)
    <2>1. /\ t \notin accepted /\ accepted' = accepted \cup {t}
          /\ \A u : Settled(u)' <=> Settled(u)
      BY <1>10 DEF Admits, SameRecords, Settled
    <2>2. ~Settled(t)
      BY <2>1 DEF Known, Settled
    <2>3. Done' = Done
      BY <2>1, <2>2 DEF Done
    <2>4. ASSUME NEW u \in Tasks, u # t PROVE Reached'[u] = Reached[u]
      <3>1. \A r : CarriedAbove(u, r)' => CarriedAbove(u, r)
        BY <1>7, <1>10, <2>4 DEF Admits
      <3> QED
        BY <1>6, <2>1, <2>4, <3>1
    <2>5. Reached'[t] = {0}
      <3>1. \A e \in Carriers' : e.task = t => e.retries = 0
        BY <1>1, <1>10, <2>1, CarriersKnown DEF Admits
      <3>2. CarriedAbove(t, -1)'
        BY <2>1, <2>2 DEF IInv, NoTaskLost
      <3>3. \A r \in 0 .. MaxRetries : CarriedAbove(t, r - 1)' <=> r = 0
        <4>1. ASSUME NEW r \in 0 .. MaxRetries, CarriedAbove(t, r - 1)' PROVE r = 0
          <5>1. 0 > r - 1
            BY <1>7, <3>1, <4>1
          <5> QED
            BY <1>5, <5>1
        <4> QED
          BY <3>2, <4>1
      <3>4. Reached'[t] = {r \in 0 .. MaxRetries : CarriedAbove(t, r - 1)'}
        BY <1>3, <2>1, <2>2
      <3> QED
        BY <1>5, <3>3, <3>4
    <2>6. Reached' = [Reached EXCEPT ![t] = {0}]
      BY <1>3, <2>4, <2>5
    <2> QED
      BY <2>1, <2>3, <2>6 DEF Ledger!Accept, Done
  <1>11. ASSUME NEW t \in accepted, Records(t)
         PROVE  Ledger!Settle(t) \/ UNCHANGED Ledger!ledgerVars
    <2>1. accepted' = accepted /\ t \in Tasks /\ \A u, r : CarriedAbove(u, r)' => CarriedAbove(u, r)
      BY <1>1, <1>7, <1>11 DEF Records, TypeOK
    <2>2. \A u : u # t => (Settled(u)' => Settled(u))
      BY <1>11 DEF Records, Settled
    <2>3. \A u \in Tasks : u # t => Reached'[u] = Reached[u]
      BY <1>6, <2>1, <2>2
    <2>4. CASE Settled(t)' => Settled(t)
      <3>1. Reached'[t] = Reached[t]
        BY <1>6, <2>1, <2>4
      <3>2. Done' = Done
        BY <1>2, <2>1, <2>2, <2>4 DEF Done
      <3> QED
        BY <1>8, <2>1, <2>3, <3>1, <3>2
    <2>5. CASE Settled(t)' /\ ~Settled(t)
      <3>1. Reached'[t] = {}
        BY <1>3, <2>1, <2>5
      <3>2. Done' = Done \cup {t} /\ t \in accepted \ Done
        BY <1>2, <2>1, <2>2, <2>5 DEF Done
      <3>3. Reached' = [Reached EXCEPT ![t] = {}]
        BY <1>3, <2>3, <3>1
      <3> QED
        BY <2>1, <3>2, <3>3 DEF Ledger!Settle, Done
    <2> QED
      BY <2>4, <2>5
  <1>12. ASSUME NEW i \in 1 .. delivered, Retries(i)
         PROVE  Ledger!LedgerNext \/ UNCHANGED Ledger!ledgerVars
    <2>0. PICK t, r : t = log[i].task /\ r = log[i].retries
      OBVIOUS
    <2>1. i \in 1 .. Len(log) /\ t \in Tasks /\ r \in 0 .. MaxRetries /\ t \in accepted
      <3>1. i \in 1 .. Len(log)
        BY <1>1, Numbers
      <3>2. log[i] \in Envelope
        BY <1>1, <3>1 DEF TypeOK
      <3> QED
        BY <2>0, <3>1, <3>2 DEF Envelope, Known
    <2>2. /\ accepted' = accepted /\ r < MaxRetries /\ \A u : Settled(u)' <=> Settled(u)
      BY <1>12, <2>0 DEF Retries, SameRecords, Settled
    <2>3. Done' = Done
      BY <2>2 DEF Done
    <2>4. \A e \in Carriers' : e \in Carriers \/ (e.task = t /\ e.retries = r + 1)
      BY <1>12, <2>0 DEF Retries
    <2>5. ~Settled(t) => CarriedAbove(t, r - 1)
      <3>1. CASE i \in pel
        <4>1. i \in stream /\ Owed(i)
          BY <3>1 DEF IInv, StreamInv, PendingInStream, Owed
        <4>2. r > r - 1
          BY <1>5, <2>1
        <4> QED
          BY <2>0, <4>1, <4>2 DEF CarriedAbove
      <3>2. CASE i \notin pel
        <4>1. Safe(t, r)
          BY <2>0, <3>2 DEF IInv, AckedCovered
        <4>2. \A e \in Carriers : e.retries \in Int
          <5>1. \A e \in Carriers : e \in Envelope
            BY <1>1, CarriersKnown
          <5> QED
            BY <1>5, <5>1 DEF Envelope
        <4>3. \A e \in Carriers : e.retries > r => e.retries > r - 1
          BY <1>5, <2>1, <4>2
        <4> QED
          BY <1>7, <4>1, <4>3 DEF Safe
      <3> QED
        BY <3>1, <3>2
    <2>6. ASSUME NEW u \in Tasks, u # t \/ Settled(t) PROVE Reached'[u] = Reached[u]
      <3>1. CASE u # t
        <4>1. \A k : CarriedAbove(u, k)' => CarriedAbove(u, k)
          BY <1>7, <2>4, <3>1
        <4> QED
          BY <1>6, <2>2, <4>1
      <3>2. CASE u = t /\ Settled(t)
        BY <1>3, <2>1, <2>2, <3>2
      <3> QED
        BY <2>6, <3>1, <3>2
    <2>7. CASE Settled(t)
      BY <1>8, <2>2, <2>3, <2>6, <2>7
    <2>8. CASE ~Settled(t)
      <3>1. /\ Reached[t] = {k \in 0 .. MaxRetries : CarriedAbove(t, k - 1)}
            /\ Reached'[t] = {k \in 0 .. MaxRetries : CarriedAbove(t, k - 1)'}
        BY <1>3, <2>1, <2>2, <2>8
      <3>2. r \in Reached[t]
        BY <2>1, <2>5, <2>8, <3>1
      <3>3. Reached[t] \subseteq Reached'[t]
        BY <1>4, <1>5, <2>2, <2>8, <3>1
      <3>4. ASSUME NEW k \in Reached'[t], k # r + 1 PROVE k \in Reached[t]
        <4>1. k \in 0 .. MaxRetries /\ CarriedAbove(t, k - 1)'
          BY <3>1, <3>4
        <4>2. PICK e \in Carriers' : e.task = t /\ e.retries > k - 1
          BY <1>7, <4>1
        <4>3. CASE e \in Carriers
          BY <1>7, <3>1, <4>1, <4>2, <4>3
        <4>4. CASE e.retries = r + 1
          <5>1. k <= r
            BY <1>5, <2>1, <3>4, <4>1, <4>2, <4>4
          <5>2. PICK f \in Carriers : f.task = t /\ f.retries > r - 1
            BY <1>7, <2>5, <2>8
          <5>3. f.retries \in Int
            <6>1. f \in Envelope
              BY <1>1, CarriersKnown
            <6> QED
              BY <1>5, <6>1 DEF Envelope
          <5>4. f.retries > k - 1
            BY <1>5, <2>1, <4>1, <5>1, <5>2, <5>3
          <5> QED
            BY <1>7, <3>1, <4>1, <5>2, <5>4
        <4> QED
          BY <2>4, <4>2, <4>3, <4>4
      <3>5. CASE Reached'[t] = Reached[t]
        BY <1>8, <2>2, <2>3, <2>6, <3>5
      <3>6. CASE Reached'[t] # Reached[t]
        <4>1. r + 1 \in Reached'[t] \ Reached[t]
          BY <3>3, <3>4, <3>6
        <4>2. Reached'[t] = Reached[t] \cup {r + 1} /\ r + 1 \in (0 .. MaxRetries) \ Reached[t]
          BY <3>1, <3>3, <3>4, <4>1
        <4>3. Reached' = [Reached EXCEPT ![t] = @ \cup {r + 1}]
          BY <1>3, <2>1, <2>6, <4>2
        <4>4. Ledger!Retry(t, r)
          BY <2>1, <2>2, <2>3, <2>8, <3>2, <4>2, <4>3 DEF Ledger!Retry, Done
        <4> QED
          BY <2>1, <4>4 DEF Ledger!LedgerNext
      <3> QED
        BY <3>5, <3>6
    <2> QED
      BY <2>7, <2>8
  <1>13. CASE \E t \in Tasks : Admits(t)
    BY <1>10, <1>13 DEF Ledger!LedgerNext
  <1>14. CASE \E t \in accepted : Records(t)
    <2>1. accepted \subseteq Tasks
      BY <1>1 DEF TypeOK
    <2> QED
      BY <1>11, <1>14, <2>1 DEF Ledger!LedgerNext
  <1>15. CASE \E i \in 1 .. delivered : Retries(i)
    BY <1>12, <1>15
  <1> QED
    BY <1>1, <1>9, <1>13, <1>14, <1>15 DEF Adds

\* The broker starts as an empty ledger.
LEMMA LedgerStart == Init => Ledger!LedgerInit
  BY DEF Init, Ledger!LedgerInit, Reached, Settled

-----------------------------------------------------------------------------
\* The inductive invariant holds in every reachable state.
THEOREM InvariantHolds == Spec => []IInv
  BY InitIInv, NextIInv, PTL DEF Spec

\* Every variable keeps its type: retries stay within the budget of the envelope
\* (schedule_retry is reached only below max_retries) and ids within the log.
THEOREM TypeCorrect == Spec => []TypeOK
  <1>1. IInv => TypeOK
    BY DEF IInv
  <1> QED
    BY <1>1, InvariantHolds, PTL

\* No pending entry is ever deleted or trimmed (ack_pipeline, acked_below), for
\* any number of workers whose fetch, flush and trim loops interleave.
THEOREM PendingKept == Spec => []PendingInStream
  <1>1. IInv => PendingInStream
    BY DEF IInv, StreamInv
  <1> QED
    BY <1>1, InvariantHolds, PTL

\* An entry is acked only under cover of a settled task or a later attempt
\* (flush_batch), however many copies of it are executed.
THEOREM AcksCovered == Spec => []AckCovered
  <1>1. IInv => AckCovered
    BY DEF IInv
  <1> QED
    BY <1>1, InvariantHolds, PTL

\* An accepted task is never lost (PROTOCOL.md section 4), through any number of
\* crashes, refused writes, torn pipelines, reclaims and trims.
THEOREM TasksNeverLost == Spec => []NoTaskLost
  <1>1. IInv => NoTaskLost
    BY DEF IInv
  <1> QED
    BY <1>1, InvariantHolds, PTL

\* The broker implements the ledger of accepted tasks (TaskLedger), for any number of
\* tasks, workers, entries and faults: an unsettled task never falls back to an earlier
\* attempt and gains one retry at a time within its budget.
THEOREM LedgerImplemented == Spec => ImplementsLedgerSafety
  <1>1. Init => Known
    BY DEF Init, Known
  <1>2. IInv /\ Known /\ [Next]_vars => Known'
    BY NextKnown DEF IInv
  <1>3. IInv /\ IInv' /\ Known /\ [Next]_vars => [Ledger!LedgerNext]_(Ledger!ledgerVars)
    BY LedgerStep
  <1> QED
    BY <1>1, <1>2, <1>3, LedgerStart, InvariantHolds, PTL
       DEF Spec, ImplementsLedgerSafety, Ledger!LedgerSafety

\* One process never runs two copies of one entry (Ctx::holds_entry), although its page
\* was read a round trip before it claims.
THEOREM NoSecondCopy == Spec => []OneCopyPerProcess
  <1>1. Init => OneCopyPerProcess
    BY DEF Init, OneCopyPerProcess
  <1>2. IInv /\ OneCopyPerProcess /\ [Next]_vars => OneCopyPerProcess'
    BY NextOneCopy DEF IInv
  <1> QED
    BY <1>1, <1>2, InvariantHolds, PTL DEF Spec

\* Redelivery is bounded (recover_page, redelivery_limit): the delivery counts that
\* processes read before they claim are stale by at most one execution each.
THEOREM RedeliveryBounded == Spec => []RunsBounded
  <1>1. Init => RunsCounted
    BY DEF Init, RunsCounted
  <1>2. IInv /\ RunsCounted /\ [Next]_vars => RunsCounted'
    BY NextRuns DEF IInv
  <1>3. IInv /\ RunsCounted => RunsBounded
    <2> SUFFICES ASSUME IInv, RunsCounted, NEW i \in 1 .. Len(log)
                 PROVE  runs[i] <= RedeliveryLimit(log[i].task) + Cardinality(Workers)
      BY DEF RunsBounded
    <2> DEFINE limit == RedeliveryLimit(log[i].task)
    <2>1. /\ i \in Ids /\ Len(log) \in Nat /\ delivered \in Nat
          /\ runs[i] \in Nat /\ count[i] \in Nat
      BY Numbers, DeliveryAssumption DEF IInv, TypeOK, Ids
    <2>2. limit \in Nat
      BY LimitPositive
    <2>3. /\ Cardinality(Workers) \in Nat /\ Cardinality(Dispatched(i)) \in Nat
          /\ Cardinality(Late(i)) \in Nat
      <3>1. Dispatched(i) \subseteq Workers /\ Late(i) \subseteq Workers /\ IsFiniteSet(Workers)
        BY DeliveryAssumption DEF Dispatched, Late
      <3> QED
        BY <3>1, FS_Subset, FS_CardinalityType
    <2>4. CASE i > delivered
      BY <2>1, <2>2, <2>3, <2>4 DEF RunsCounted
    <2>5. CASE i <= delivered
      <3>1. Within(runs[i], count[i], Dispatched(i), Late(i), limit)
        BY <2>1, <2>5 DEF RunsCounted
      <3> HIDE DEF limit
      <3>2. runs[i] <= limit + Cardinality(Workers)
        BY <2>1, <2>2, <2>3, <3>1 DEF Within
      <3> QED
        BY <3>2 DEF limit
    <2> QED
      BY <2>1, <2>4, <2>5
  <1> QED
    BY <1>1, <1>2, <1>3, InvariantHolds, PTL DEF Spec
=============================================================================
