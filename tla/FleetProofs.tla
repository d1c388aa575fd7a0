---------------------------- MODULE FleetProofs -----------------------------
(***************************************************************************)
(* The fleet, proved for any set of slots, any io and cpu capacity and any *)
(* number of signals and faults: what a process holds is bounded, no       *)
(* process is left behind, exit 0 means that all have drained, and one     *)
(* stop request forces nobody out.                                         *)
(***************************************************************************)
EXTENDS Fleet, TLAPS

\* One process: its type, what its two loops may still bring in, and that nothing is
\* counted as overflow before the cpu pool is up.
Sound(p) ==
    /\ p \in Processes
    /\ p.ask <= Greater(Permits, Streams) /\ p.claim <= Permits
    /\ p.pool # "on" => p.over = 0 /\ p.early = 0
    /\ p.io + p.over + p.ask + p.claim <= Permits + Greater(Permits, Streams) + p.early

\* The supervisor has every living process as a child, and none when it is gone.
Tended ==
    /\ sup.at # "killed" => \A s \in Slots : Alive(s) => s \in sup.child
    /\ sup.at = "exit" => sup.child = {}

\* A process that ended badly in the stop is in the exit code, or still to be reaped.
DirtyKnown ==
    /\ sup.at = "abort" => sup.code = 1
    /\ dirty => sup.stopping
    /\ dirty /\ sup.at # "killed" =>
        sup.code = 1 \/ \E s \in sup.child : proc[s].at = "dead" /\ proc[s].code # 0

IInv == TypeOK /\ (\A s \in Slots : Sound(proc[s])) /\ Tended /\ DirtyKnown

\* A stop signal that the supervisor still forwards.
Pending == sup.at \in {"spawn", "loop"} /\ sup.sig

\* What a process has heard, after r requests: a signal takes one of them, and
\* a signal to a process whose gap is over takes a second one, on its way or arrived.
Told(p, pending, r) ==
    /\ p.sig \/ p.stop => r >= 1
    /\ p.late => p.stop
    /\ p.late /\ (p.sig \/ pending) => r >= 2
    /\ p.code = 130 => r >= 2

Asked ==
    /\ sup.at = "spawn" => sup.code = 0 /\ ~sup.stopping
    /\ sup.at = "loop" => ~GaveUp
    /\ sup.sig => Requests >= 1
    /\ \A s \in Slots : Told(proc[s], Pending, Requests)

\* Every step of one process s, as far as the others and the supervisor see it.
ProcStep(s) ==
    /\ Alive(s)
    /\ proc' = [proc EXCEPT ![s] = proc'[s]]
    /\ Sound(proc'[s])
    /\ sup' = sup /\ asks' = asks /\ faults' \in {faults, faults + 1}
    /\ faults' # faults => faults < MaxFaults
    /\ \/ dirty' = dirty
       \/ proc'[s].at = "dead" /\ dirty' = (dirty \/ (sup.stopping /\ proc'[s].code # 0))

-----------------------------------------------------------------------------
\* Whole pages of a read leave a rest.
LEMMA Division ==
    ASSUME NEW m \in Nat, NEW n \in Nat \ {0}
    PROVE  m \div n \in Nat /\ n * (m \div n) <= m
  OBVIOUS

\* What fetch_loop asks for behind its gate fits into the free slots, or it is one entry
\* from every stream while all slots are free.
LEMMA FetchedFits ==
    ASSUME NEW p, p.io \in Nat, Free(p) >= MinPermits
    PROVE  /\ Streams * PerStream(Free(p)) \in Nat
           /\ p.io + Streams * PerStream(Free(p)) <= Greater(Permits, Streams)
  <1> DEFINE f == Free(p)
             m == Lesser(Batch, f)
             k == m \div Streams
  <1>1. Permits \in Nat \ {0} /\ Streams \in Nat \ {0} /\ Batch \in Nat \ {0}
    BY FleetAssumption
  <1>2. f \in Nat /\ f = Permits - p.io
    BY <1>1 DEF Free, MinPermits, Lesser
  <1>3. m \in Nat /\ m <= f
    BY <1>1, <1>2 DEF Lesser
  <1>4. k \in Nat /\ Streams * k <= m
    <2> HIDE DEF m
    <2> QED BY <1>1, <1>3, Division
  <1>5. CASE k <= 1
    <2>1. PerStream(f) = 1 \/ (PerStream(f) = k /\ k = 1)
      BY <1>4, <1>5 DEF PerStream, Greater
    <2>2. Streams * PerStream(f) = Streams
      BY <1>1, <2>1
    <2> HIDE DEF f
    <2> QED BY <1>1, <1>2, <2>2 DEF MinPermits, Lesser, Greater, f
  <1>6. CASE k > 1
    <2>1. PerStream(f) = k
      BY <1>4, <1>6 DEF PerStream, Greater
    <2>2. Streams * k \in Nat
      BY <1>1, <1>4
    <2> HIDE DEF k, m, f
    <2> QED BY <1>1, <1>2, <1>3, <1>4, <2>1, <2>2 DEF Greater, f
  <1> QED BY <1>4, <1>5, <1>6

\* A process that has just been spawned, is gone, or has ended.
LEMMA FreshSound ==
    /\ Sound(NoProcess) /\ NoProcess.at = "none"
    /\ Sound(Booting) /\ Booting.at = "boot"
    /\ \A c \in {0, 1, 88, 130, 137, 143} : Sound(Ended(c)) /\ Ended(c).code = c /\ Ended(c).at = "dead"
  <1>1. Sound(NoProcess) /\ NoProcess.at = "none"
    BY FleetAssumption DEF Sound, Processes, NoProcess, Greater
  <1>2. Booting \in Processes
    BY <1>1 DEF Sound, Processes, Booting
  <1>3. Sound(Booting) /\ Booting.at = "boot"
    BY <1>1, <1>2 DEF Sound, Processes, Booting
  <1>4. ASSUME NEW c \in {0, 1, 88, 130, 137, 143}
        PROVE  Sound(Ended(c)) /\ Ended(c).code = c /\ Ended(c).at = "dead"
    <2>1. Ended(c) \in Processes
      BY <1>1 DEF Sound, Processes, Ended
    <2> QED BY <1>1, <2>1 DEF Sound, Processes, Ended
  <1> QED BY <1>1, <1>3, <1>4

\* kill(pid, SIGTERM) changes no count.
LEMMA SignalledSound ==
    ASSUME NEW p, Sound(p)
    PROVE  Sound(Signalled(p)) /\ Signalled(p).at = p.at /\ Signalled(p).code = p.code
  <1>1. CASE p.at \in {"none", "dead"}
    BY <1>1 DEF Signalled
  <1>2. CASE p.at \notin {"none", "dead"}
    <2>1. Signalled(p) = [p EXCEPT !.sig = TRUE]
      BY <1>2 DEF Signalled
    <2>2. Signalled(p) \in Processes
      BY <2>1 DEF Sound, Processes
    <2> QED BY <2>1, <2>2 DEF Sound, Processes
  <1> QED BY <1>1, <1>2

\* The end of a process.
LEMMA EndStep ==
    ASSUME NEW s \in Slots, IInv, Alive(s), NEW c \in {0, 1, 88, 130, 137, 143}, End(s, c),
           sup' = sup, asks' = asks,
           faults' = faults \/ (faults < MaxFaults /\ faults' = faults + 1)
    PROVE  ProcStep(s)
  <1>1. proc' = [proc EXCEPT ![s] = Ended(c)] /\ dirty' = (dirty \/ (sup.stopping /\ c # 0))
    BY DEF End
  <1>2. proc \in [Slots -> Processes] /\ faults \in Nat
    BY FleetAssumption DEF IInv, TypeOK
  <1>3. proc'[s] = Ended(c)
    BY <1>1, <1>2
  <1> QED BY <1>1, <1>2, <1>3, FreshSound DEF ProcStep

\* A step of a process that does not end it.
LEMMA UpdateStep ==
    ASSUME NEW s \in Slots, IInv, Alive(s), NEW r, Sound(r),
           proc' = [proc EXCEPT ![s] = r], UNCHANGED <<sup, asks, dirty, faults>>
    PROVE  ProcStep(s)
  <1>1. proc'[s] = r
    BY DEF IInv, TypeOK
  <1> QED BY <1>1 DEF ProcStep

\* A process acts alone and keeps its counts in bounds: both gates open only with an
\* empty overflow and ask for free io slots, and afterwards entries only move.
LEMMA ProcessActs ==
    ASSUME NEW s \in Slots, IInv,
           Lifecycle(s) \/ Work(s) \/ StartFails(s) \/ Crash(s)
    PROVE  ProcStep(s)
  <1> DEFINE p == proc[s]
  <1>1. proc \in [Slots -> Processes] /\ Sound(p)
    BY DEF IInv, TypeOK
  <1>2. /\ Permits \in Nat \ {0} /\ Admission \in Nat \ {0} /\ MaxCold \in Nat
        /\ Streams \in Nat \ {0} /\ Greater(Permits, Streams) \in Nat
    BY FleetAssumption DEF Greater
  <1>3. faults \in Nat
    BY FleetAssumption DEF IInv, TypeOK
  <1>4. CASE Start(s)
    <2> DEFINE r == [p EXCEPT !.at = "fetch", !.pool = IF EagerCpu THEN "on" ELSE "off"]
    <2>1. proc' = [proc EXCEPT ![s] = r] /\ UNCHANGED <<sup, asks, dirty, faults>>
      BY <1>1, <1>4 DEF Start
    <2>2. Alive(s)
      BY <1>4 DEF Start, Alive, Up
    <2>3. r \in Processes
      BY <1>1, <1>2 DEF Sound, Processes
    <2>4. Sound(r)
      BY <1>1, <1>2, <2>3, <1>4 DEF Start, Sound, Processes
    <2> HIDE DEF r
    <2> QED BY <2>1, <2>2, <2>4, UpdateStep
  <1>5. CASE StartKilled(s)
    BY <1>5, EndStep DEF StartKilled, Alive
  <1>6. CASE FirstSignal(s)
    <2> DEFINE r == [p EXCEPT !.sig = FALSE, !.stop = TRUE]
    <2>1. proc' = [proc EXCEPT ![s] = r] /\ UNCHANGED <<sup, asks, dirty, faults>>
      BY <1>1, <1>6 DEF FirstSignal
    <2>2. Alive(s)
      BY <1>6 DEF FirstSignal, Alive, Up
    <2>3. r \in Processes
      BY <1>1, <1>2 DEF Sound, Processes
    <2>4. Sound(r)
      BY <1>1, <1>2, <2>3, <1>6 DEF FirstSignal, Sound, Processes
    <2> HIDE DEF r
    <2> QED BY <2>1, <2>2, <2>4, UpdateStep
  <1>7. CASE RepeatSignal(s)
    <2> DEFINE r == [p EXCEPT !.sig = FALSE]
    <2>1. proc' = [proc EXCEPT ![s] = r] /\ UNCHANGED <<sup, asks, dirty, faults>>
      BY <1>1, <1>7 DEF RepeatSignal
    <2>2. Alive(s)
      BY <1>7 DEF RepeatSignal, Alive, Up
    <2>3. r \in Processes
      BY <1>1, <1>2 DEF Sound, Processes
    <2>4. Sound(r)
      BY <1>1, <1>2, <2>3, <1>7 DEF RepeatSignal, Sound, Processes
    <2> HIDE DEF r
    <2> QED BY <2>1, <2>2, <2>4, UpdateStep
  <1>8. CASE ForceExit(s)
    BY <1>8, EndStep DEF ForceExit, Alive, Up
  <1>9. CASE FetchReply(s)
    <2> PICK n \in 0 .. p.ask : proc' = [proc EXCEPT ![s].at = "fetch", ![s].ask = 0, ![s].io = @ + n]
      BY <1>9 DEF FetchReply
    <2>1. p.io + n \in Nat
      BY <1>1, <1>2, <1>9 DEF FetchReply, Sound, Processes
    <2> DEFINE r == [p EXCEPT !.at = "fetch", !.ask = 0, !.io = p.io + n]
    <2>2. proc' = [proc EXCEPT ![s] = r] /\ UNCHANGED <<sup, asks, dirty, faults>>
      BY <1>1, <1>9 DEF FetchReply
    <2>3. Alive(s)
      BY <1>9 DEF FetchReply, Alive, Up
    <2>4. r \in Processes
      BY <1>1, <2>1, <1>2 DEF Sound, Processes
    <2>5. Sound(r)
      BY <1>1, <1>2, <2>1, <2>4, <1>9 DEF FetchReply, Sound, Processes
    <2> HIDE DEF r
    <2> QED BY <2>2, <2>3, <2>5, UpdateStep
  <1>10. CASE FetchStop(s)
    <2> DEFINE r == [p EXCEPT !.at = "drain"]
    <2>1. proc' = [proc EXCEPT ![s] = r] /\ UNCHANGED <<sup, asks, dirty, faults>>
      BY <1>1, <1>10 DEF FetchStop
    <2>2. Alive(s)
      BY <1>10 DEF FetchStop, Alive, Up
    <2>3. r \in Processes
      BY <1>1, <1>2 DEF Sound, Processes
    <2>4. Sound(r)
      BY <1>1, <1>2, <2>3, <1>10 DEF FetchStop, Sound, Processes
    <2> HIDE DEF r
    <2> QED BY <2>1, <2>2, <2>4, UpdateStep
  <1>11. CASE DrainOver(s)
    <2> DEFINE r == [p EXCEPT !.at = "leave"]
    <2>1. proc' = [proc EXCEPT ![s] = r] /\ UNCHANGED <<sup, asks, dirty, faults>>
      BY <1>1, <1>11 DEF DrainOver
    <2>2. Alive(s)
      BY <1>11 DEF DrainOver, Alive, Up
    <2>3. r \in Processes
      BY <1>1, <1>2 DEF Sound, Processes
    <2>4. Sound(r)
      BY <1>1, <1>2, <2>3, <1>11 DEF DrainOver, Sound, Processes
    <2> HIDE DEF r
    <2> QED BY <2>1, <2>2, <2>4, UpdateStep
  <1>12. CASE Leave(s)
    <2>1. Alive(s) /\ (IF InFlight(p) > 0 THEN 88 ELSE 0) \in {0, 1, 88, 130, 137, 143}
      BY <1>12 DEF Leave, Alive
    <2> QED BY <1>12, <2>1, EndStep DEF Leave
  <1>13. CASE FetchGate(s)
    <2> DEFINE n == Streams * PerStream(Free(p))
    <2>1. n \in Nat /\ p.io + n <= Greater(Permits, Streams)
      BY <1>1, <1>13, FetchedFits DEF FetchGate, Sound, Processes, GateOpen
    <2> HIDE DEF n
    <2> DEFINE r == [p EXCEPT !.at = "read", !.ask = n]
    <2>2. proc' = [proc EXCEPT ![s] = r] /\ UNCHANGED <<sup, asks, dirty, faults>>
      BY <1>1, <1>13 DEF FetchGate, n
    <2>3. Alive(s)
      BY <1>13 DEF FetchGate, Alive, Up
    <2>4. r \in Processes
      BY <1>1, <2>1, <1>2 DEF Sound, Processes
    <2>5. Sound(r)
      BY <1>1, <1>2, <2>1, <2>4, <1>13 DEF FetchGate, Sound, Processes, GateOpen, Greater
    <2> HIDE DEF r
    <2> QED BY <2>2, <2>3, <2>5, UpdateStep
  <1>14. CASE RecoveryScan(s)
    <2>1. Permits - p.io \in Nat /\ Free(p) = Permits - p.io
      BY <1>1, <1>2, <1>14 DEF RecoveryScan, Sound, Processes, Up, GateOpen, Free
    <2> DEFINE r == [p EXCEPT !.page = "scan", !.claim = Permits - p.io]
    <2>2. proc' = [proc EXCEPT ![s] = r] /\ UNCHANGED <<sup, asks, dirty, faults>>
      BY <1>1, <1>14, <2>1 DEF RecoveryScan
    <2>3. Alive(s)
      BY <1>14 DEF RecoveryScan, Alive, Up
    <2>4. r \in Processes
      BY <1>1, <2>1, <1>2 DEF Sound, Processes
    <2>5. Sound(r)
      BY <1>1, <1>2, <2>1, <2>4, <1>14 DEF RecoveryScan, Sound, Processes, Up, GateOpen, Greater
    <2> HIDE DEF r
    <2> QED BY <2>2, <2>3, <2>5, UpdateStep
  <1>15. CASE RecoveryClaim(s)
    <2> PICK n \in 0 .. p.claim :
            proc' = [proc EXCEPT ![s].page = IF n = 0 THEN "idle" ELSE "claimed", ![s].claim = n]
      BY <1>15 DEF RecoveryClaim
    <2>1. n \in Nat
      BY <1>1, <1>2, <1>15 DEF RecoveryClaim, Sound, Processes
    <2> DEFINE r == [p EXCEPT !.page = IF n = 0 THEN "idle" ELSE "claimed", !.claim = n]
    <2>2. proc' = [proc EXCEPT ![s] = r] /\ UNCHANGED <<sup, asks, dirty, faults>>
      BY <1>1, <1>15 DEF RecoveryClaim
    <2>3. Alive(s)
      BY <1>15 DEF RecoveryClaim, Alive, Up
    <2>4. r \in Processes
      BY <1>1, <2>1, <1>2 DEF Sound, Processes
    <2>5. Sound(r)
      BY <1>1, <1>2, <2>1, <2>4, <1>15 DEF RecoveryClaim, Sound, Processes
    <2> HIDE DEF r
    <2> QED BY <2>2, <2>3, <2>5, UpdateStep
  <1>16. CASE RecoveryDispatch(s)
    <2>1. p.io + p.claim \in Nat
      BY <1>1, <1>2, <1>16 DEF RecoveryDispatch, Sound, Processes
    <2> DEFINE r == [p EXCEPT !.page = "idle", !.claim = 0, !.io = p.io + p.claim]
    <2>2. proc' = [proc EXCEPT ![s] = r] /\ UNCHANGED <<sup, asks, dirty, faults>>
      BY <1>1, <1>16 DEF RecoveryDispatch
    <2>3. Alive(s)
      BY <1>16 DEF RecoveryDispatch, Alive, Up
    <2>4. r \in Processes
      BY <1>1, <2>1, <1>2 DEF Sound, Processes
    <2>5. Sound(r)
      BY <1>1, <1>2, <2>1, <2>4, <1>16 DEF RecoveryDispatch, Sound, Processes
    <2> HIDE DEF r
    <2> QED BY <2>2, <2>3, <2>5, UpdateStep
  <1>17. CASE Finish(s)
    <2>1. p.io - 1 \in Nat
      BY <1>1, <1>2, <1>17 DEF Finish, Sound, Processes
    <2> DEFINE r == [p EXCEPT !.io = p.io - 1]
    <2>2. proc' = [proc EXCEPT ![s] = r] /\ UNCHANGED <<sup, asks, dirty, faults>>
      BY <1>1, <1>17 DEF Finish
    <2>3. Alive(s)
      BY <1>17 DEF Finish, Alive, Up
    <2>4. r \in Processes
      BY <1>1, <2>1, <1>2 DEF Sound, Processes
    <2>5. Sound(r)
      BY <1>1, <1>2, <2>1, <2>4, <1>17 DEF Finish, Sound, Processes
    <2> HIDE DEF r
    <2> QED BY <2>2, <2>3, <2>5, UpdateStep
  <1>18. CASE ToCpu(s)
    <2> DEFINE a == p.over = 0 /\ p.cpu < Admission
    <2>1. p.io - 1 \in Nat /\ (IF a THEN p.cpu + 1 ELSE p.cpu) \in 0 .. Admission
          /\ (IF a THEN p.over ELSE p.over + 1) \in Nat
      BY <1>1, <1>2, <1>18 DEF ToCpu, Sound, Processes
    <2> DEFINE r == [p EXCEPT !.io = p.io - 1, !.cpu = IF a THEN p.cpu + 1 ELSE p.cpu,
                           !.over = IF a THEN p.over ELSE p.over + 1]
    <2>2. proc' = [proc EXCEPT ![s] = r] /\ UNCHANGED <<sup, asks, dirty, faults>>
      BY <1>1, <1>18 DEF ToCpu
    <2>3. Alive(s)
      BY <1>18 DEF ToCpu, Alive, Up
    <2>4. r \in Processes
      BY <1>1, <2>1, <1>2 DEF Sound, Processes
    <2>5. Sound(r)
      BY <1>1, <1>2, <2>1, <2>4, <1>18 DEF ToCpu, Sound, Processes
    <2> HIDE DEF r
    <2> QED BY <2>2, <2>3, <2>5, UpdateStep
  <1>19. CASE ToColdCpu(s)
    <2>1. p.io - 1 \in Nat /\ p.cold + 1 \in 0 .. MaxCold
      BY <1>1, <1>2, <1>19 DEF ToColdCpu, Sound, Processes
    <2> DEFINE r == [p EXCEPT !.io = p.io - 1, !.pool = "starting", !.cold = p.cold + 1]
    <2>2. proc' = [proc EXCEPT ![s] = r] /\ UNCHANGED <<sup, asks, dirty, faults>>
      BY <1>1, <1>19 DEF ToColdCpu
    <2>3. Alive(s)
      BY <1>19 DEF ToColdCpu, Alive, Up
    <2>4. r \in Processes
      BY <1>1, <2>1, <1>2 DEF Sound, Processes
    <2>5. Sound(r)
      BY <1>1, <1>2, <2>1, <2>4, <1>19 DEF ToColdCpu, Sound, Processes
    <2> HIDE DEF r
    <2> QED BY <2>2, <2>3, <2>5, UpdateStep
  <1>20. CASE PoolStarted(s)
    <2> DEFINE a == IF p.cold < Admission THEN p.cold ELSE Admission
    <2>1. 0 \in 0 .. MaxCold /\ p.cold \in 0 .. MaxCold /\ a \in 0 .. Admission /\ p.cold - a \in Nat
      BY <1>1, <1>2, <1>20 DEF PoolStarted, Sound, Processes
    <2> DEFINE r == [p EXCEPT !.pool = "on", !.cold = 0, !.early = p.cold, !.cpu = a, !.over = p.cold - a]
    <2>2. proc' = [proc EXCEPT ![s] = r] /\ UNCHANGED <<sup, asks, dirty, faults>>
      BY <1>1, <1>20 DEF PoolStarted
    <2>3. Alive(s)
      BY <1>20 DEF PoolStarted, Alive, Up
    <2> HIDE DEF a
    <2>4. r \in Processes
      BY <1>1, <2>1, <1>2 DEF Sound, Processes
    <2> USE DEF a
    <2>5. Sound(r)
      BY <1>1, <1>2, <2>1, <2>4, <1>20 DEF PoolStarted, Sound, Processes
    <2> HIDE DEF r
    <2> QED BY <2>2, <2>3, <2>5, UpdateStep
  <1>21. CASE CpuAdmit(s)
    <2>1. p.over - 1 \in Nat /\ p.cpu + 1 \in 0 .. Admission
      BY <1>1, <1>2, <1>21 DEF CpuAdmit, Sound, Processes
    <2> DEFINE r == [p EXCEPT !.over = p.over - 1, !.cpu = p.cpu + 1]
    <2>2. proc' = [proc EXCEPT ![s] = r] /\ UNCHANGED <<sup, asks, dirty, faults>>
      BY <1>1, <1>21 DEF CpuAdmit
    <2>3. Alive(s)
      BY <1>21 DEF CpuAdmit, Alive, Up
    <2>4. r \in Processes
      BY <1>1, <2>1, <1>2 DEF Sound, Processes
    <2>5. Sound(r)
      BY <1>1, <1>2, <2>1, <2>4, <1>21 DEF CpuAdmit, Sound, Processes
    <2> HIDE DEF r
    <2> QED BY <2>2, <2>3, <2>5, UpdateStep
  <1>22. CASE CpuFinish(s)
    <2>1. p.cpu - 1 \in 0 .. Admission
      BY <1>1, <1>2, <1>22 DEF CpuFinish, Sound, Processes
    <2> DEFINE r == [p EXCEPT !.cpu = p.cpu - 1]
    <2>2. proc' = [proc EXCEPT ![s] = r] /\ UNCHANGED <<sup, asks, dirty, faults>>
      BY <1>1, <1>22 DEF CpuFinish
    <2>3. Alive(s)
      BY <1>22 DEF CpuFinish, Alive, Up
    <2>4. r \in Processes
      BY <1>1, <2>1, <1>2 DEF Sound, Processes
    <2>5. Sound(r)
      BY <1>1, <1>2, <2>1, <2>4, <1>22 DEF CpuFinish, Sound, Processes
    <2> HIDE DEF r
    <2> QED BY <2>2, <2>3, <2>5, UpdateStep
  <1>23. CASE GapOver(s)
    <2> DEFINE r == [p EXCEPT !.late = TRUE]
    <2>1. proc' = [proc EXCEPT ![s] = r] /\ UNCHANGED <<sup, asks, dirty, faults>>
      BY <1>1, <1>23 DEF GapOver
    <2>2. Alive(s)
      BY <1>23 DEF GapOver, Alive, Up
    <2>3. r \in Processes
      BY <1>1, <1>2 DEF Sound, Processes
    <2>4. Sound(r)
      BY <1>1, <1>2, <2>3, <1>23 DEF GapOver, Sound, Processes
    <2> HIDE DEF r
    <2> QED BY <2>1, <2>2, <2>4, UpdateStep
  <1>24. CASE StartFails(s)
    BY <1>24, EndStep DEF StartFails, Alive, Fault
  <1>25. CASE Crash(s)
    BY <1>25, EndStep DEF Crash, Alive, Fault
  <1> QED BY <1>4, <1>5, <1>6, <1>7, <1>8, <1>9, <1>10, <1>11, <1>12, <1>13,
             <1>14, <1>15, <1>16, <1>17, <1>18, <1>19, <1>20, <1>21, <1>22, <1>23, <1>24, <1>25
          DEF Lifecycle, Work

-----------------------------------------------------------------------------
\* It holds before the first spawn.
LEMMA InitHolds == Init => IInv
  <1> SUFFICES ASSUME Init PROVE IInv
    OBVIOUS
  <1>1. \A s \in Slots : proc[s] = NoProcess
    BY DEF Init
  <1>2. \A s \in Slots : Sound(proc[s]) /\ ~Alive(s)
    BY <1>1, FreshSound DEF Alive
  <1>3. proc \in [Slots -> Processes]
    BY FreshSound DEF Init, Sound
  <1>4. TypeOK
    <2>1. MaxAsks \in Nat /\ MaxFaults \in Nat
      BY FleetAssumption
    <2>2. sup = NewSupervisor /\ asks = 0 /\ dirty = FALSE /\ faults = 0
      BY DEF Init
    <2>3. sup \in [at : {"spawn", "loop", "abort", "exit", "killed"}, child : SUBSET Slots,
                   ready : SUBSET Slots, sig : BOOLEAN, stopping : BOOLEAN, code : {0, 1}]
      BY <2>2 DEF NewSupervisor
    <2>4. asks \in 0 .. MaxAsks /\ faults \in 0 .. MaxFaults
      BY <2>1, <2>2
    <2> QED BY <1>3, <2>2, <2>3, <2>4 DEF TypeOK
  <1> QED BY <1>2, <1>4 DEF IInv, Tended, DirtyKnown, Init, NewSupervisor

\* A step of a process: it was a child, and if it ended badly it is still to be reaped.
LEMMA ProcKeeps ==
    ASSUME IInv, NEW s \in Slots, ProcStep(s)
    PROVE  IInv'
  <1>1. /\ proc \in [Slots -> Processes] /\ proc' = [proc EXCEPT ![s] = proc'[s]]
        /\ Sound(proc'[s]) /\ proc'[s] \in Processes /\ sup' = sup
    BY DEF IInv, TypeOK, ProcStep, Sound
  <1>2. TypeOK'
    BY <1>1, FleetAssumption DEF IInv, TypeOK, ProcStep
  <1>3. \A t \in Slots : Sound(proc'[t])
    BY <1>1 DEF IInv
  <1>4. Tended'
    BY <1>1 DEF IInv, Tended, ProcStep, Alive
  <1>5. DirtyKnown'
    <2>1. CASE dirty' = dirty
      <3>1. proc[s].at # "dead"
        BY DEF ProcStep, Alive
      <3> QED BY <1>1, <2>1, <3>1 DEF IInv, DirtyKnown, TypeOK
    <2>2. CASE proc'[s].at = "dead" /\ dirty' = (dirty \/ (sup.stopping /\ proc'[s].code # 0))
      <3>1. proc[s].at # "dead"
        BY DEF ProcStep, Alive
      <3>2. sup.at # "killed" => s \in sup.child
        BY DEF ProcStep, IInv, Tended
      <3> QED BY <1>1, <2>2, <3>1, <3>2 DEF IInv, DirtyKnown, TypeOK
    <2> QED BY <2>1, <2>2 DEF ProcStep
  <1> QED BY <1>2, <1>3, <1>4, <1>5 DEF IInv

\* A signal to some of the processes leaves the life of each as it is.
SignalStep ==
    \A s \in Slots : proc'[s] \in {proc[s], Signalled(proc[s])}

\* Signals keep every count, and nobody lives or dies by the sending of one.
LEMMA SignalKeeps ==
    ASSUME IInv, SignalStep, proc' \in [Slots -> {proc'[s] : s \in Slots}]
    PROVE  /\ proc' \in [Slots -> Processes]
           /\ \A s \in Slots : /\ Sound(proc'[s])
                               /\ proc'[s].at = proc[s].at /\ proc'[s].code = proc[s].code
  <1>1. \A s \in Slots : /\ Sound(proc'[s])
                         /\ proc'[s].at = proc[s].at /\ proc'[s].code = proc[s].code
    BY SignalledSound DEF IInv, SignalStep
  <1> QED BY <1>1 DEF Sound

\* Spawn: the new process becomes a child with it.
LEMMA SpawnKeeps ==
    ASSUME IInv, NEW s \in Slots, Spawn(s)
    PROVE  IInv'
  <1>1. /\ proc \in [Slots -> Processes] /\ proc' = [proc EXCEPT ![s] = Booting]
        /\ sup.child \subseteq Slots /\ s \notin sup.child
        /\ sup' = [sup EXCEPT !.child = @ \cup {s},
                              !.at = IF sup.child \cup {s} = Slots THEN "loop" ELSE @]
        /\ UNCHANGED <<asks, dirty, faults>>
    BY DEF IInv, TypeOK, Spawn
  <1>2. Sound(Booting) /\ Booting.at = "boot" /\ Booting \in Processes
    BY FreshSound DEF Sound
  <1>3. sup'.child = sup.child \cup {s} /\ sup'.at \in {"spawn", "loop"} /\ sup.at = "spawn"
        /\ sup'.code = sup.code /\ sup'.stopping = sup.stopping
    BY <1>1 DEF IInv, TypeOK, Spawn
  <1>4. TypeOK'
    BY <1>1, <1>2 DEF IInv, TypeOK
  <1>5. \A t \in Slots : Sound(proc'[t])
    BY <1>1, <1>2 DEF IInv
  <1>6. Tended'
    BY <1>1, <1>3 DEF IInv, Tended, Alive
  <1>7. DirtyKnown'
    BY <1>1, <1>3 DEF IInv, DirtyKnown
  <1> QED BY <1>4, <1>5, <1>6, <1>7 DEF IInv

\* Steps of the supervisor that signal its children at most, and do not leave.
LEMMA SignallingKeeps ==
    ASSUME IInv,
           SpawnFails \/ Forward \/ (\E everyone \in BOOLEAN : Ask(everyone)) \/ KillSupervisor
                \/ \E s \in Slots : RestartDelay(s)
    PROVE  IInv'
  <1>1. proc \in [Slots -> Processes] /\ sup.child \subseteq Slots
    BY DEF IInv, TypeOK
  <1>2. SignalStep /\ proc' \in [Slots -> {proc'[s] : s \in Slots}]
    BY <1>1 DEF SpawnFails, Forward, Ask, KillSupervisor, RestartDelay, FanOut, SignalStep
  <1>3. /\ proc' \in [Slots -> Processes]
        /\ \A s \in Slots : /\ Sound(proc'[s])
                            /\ proc'[s].at = proc[s].at /\ proc'[s].code = proc[s].code
    BY <1>2, SignalKeeps
  <1>4. dirty' = dirty
    BY DEF SpawnFails, Forward, Ask, KillSupervisor, RestartDelay
  <1>5. /\ sup'.child = sup.child
        /\ sup'.at = sup.at \/ (sup.at = "spawn" /\ sup'.at = "abort" /\ sup'.code = 1) \/ sup'.at = "killed"
        /\ sup'.code = sup.code \/ sup'.code = 1
        /\ sup.stopping => sup'.stopping
    BY DEF IInv, TypeOK, SpawnFails, Forward, Ask, KillSupervisor, RestartDelay
  <1>6. TypeOK'
    <2>1. asks' \in 0 .. MaxAsks /\ faults' \in 0 .. MaxFaults
      BY FleetAssumption
      DEF IInv, TypeOK, SpawnFails, Forward, Ask, KillSupervisor, RestartDelay, Fault
    <2>2. CASE SpawnFails \/ Forward \/ KillSupervisor
      BY <1>3, <1>4, <2>1, <2>2 DEF IInv, TypeOK, SpawnFails, Forward, KillSupervisor
    <2>3. CASE \E everyone \in BOOLEAN : Ask(everyone)
      BY <1>3, <1>4, <2>1, <2>3 DEF IInv, TypeOK, Ask
    <2>4. CASE \E s \in Slots : RestartDelay(s)
      BY <1>3, <1>4, <2>1, <2>4 DEF IInv, TypeOK, RestartDelay
    <2> QED BY <2>2, <2>3, <2>4
  <1>7. Tended'
    BY <1>3, <1>5 DEF IInv, Tended, Alive
  <1>8. DirtyKnown'
    BY <1>1, <1>3, <1>4, <1>5 DEF IInv, DirtyKnown
  <1> QED BY <1>3, <1>6, <1>7, <1>8 DEF IInv

\* supervise gives up on its first spawns once none of them lives.
LEMMA AbortKeeps ==
    ASSUME IInv, Abort
    PROVE  IInv'
  <1>1. /\ proc' = proc /\ asks' = asks /\ dirty' = dirty /\ faults' = faults
        /\ sup' = [sup EXCEPT !.at = "exit", !.child = {}]
        /\ sup.at = "abort" /\ \A s \in sup.child : ~Alive(s)
    BY DEF Abort
  <1>2. sup'.at = "exit" /\ sup'.child = {} /\ sup'.code = sup.code /\ sup'.stopping = sup.stopping
    BY <1>1 DEF IInv, TypeOK
  <1>3. TypeOK'
    BY <1>1 DEF IInv, TypeOK
  <1>4. Tended'
    BY <1>1, <1>2 DEF IInv, Tended, Alive
  <1>5. DirtyKnown'
    BY <1>1, <1>2 DEF IInv, DirtyKnown
  <1> QED BY <1>1, <1>3, <1>4, <1>5 DEF IInv

\* One tick: those that are reaped are dead, those that are born are children, and a bad
\* end in the stop is in the code once it is reaped.
LEMMA TickKeeps ==
    ASSUME IInv, NEW failed, Tick(failed), faults' \in 0 .. MaxFaults
    PROVE  IInv'
  <1> DEFINE born == Due \ failed
             left == (sup.child \ Reaped) \cup born
  <1>1. /\ sup.at = "loop" /\ failed \subseteq Due
        /\ sup' = [sup EXCEPT !.child = left, !.code = TickCode,
                              !.ready = (@ \ Reaped) \ (failed \cup born),
                              !.at = IF TickExit(left) THEN "exit" ELSE @]
        /\ proc' = [s \in Slots |-> IF s \in born THEN Booting
                                    ELSE IF s \in Reaped THEN NoProcess ELSE proc[s]]
        /\ asks' = asks /\ dirty' = dirty
    BY DEF Tick
  <1>2. /\ sup.child \subseteq Slots /\ sup.ready \subseteq Slots /\ sup.code \in {0, 1}
        /\ proc \in [Slots -> Processes]
    BY DEF IInv, TypeOK
  <1>3. /\ born \subseteq Slots /\ left \subseteq Slots
        /\ Reaped \subseteq sup.child /\ \A s \in Reaped : proc[s].at = "dead"
        /\ sup.stopping => born = {}
    BY <1>2 DEF Due, Reaped
  <1>4. TickCode \in {0, 1} /\ (TickCode = sup.code \/ TickCode = 1)
    BY <1>2 DEF TickCode
  <1>5. /\ sup'.child = left /\ sup'.code = TickCode /\ sup'.stopping = sup.stopping
        /\ sup'.at = IF TickExit(left) THEN "exit" ELSE "loop"
    BY <1>1 DEF IInv, TypeOK
  <1>6. \A s \in Slots : Sound(proc'[s])
    BY <1>1, FreshSound DEF IInv
  <1>7. TypeOK'
    <2>1. proc' \in [Slots -> Processes]
      BY <1>1, <1>6 DEF Sound
    <2>2. sup' \in [at : {"spawn", "loop", "abort", "exit", "killed"}, child : SUBSET Slots,
                    ready : SUBSET Slots, sig : BOOLEAN, stopping : BOOLEAN, code : {0, 1}]
      <3> HIDE DEF born, left
      <3> QED BY <1>1, <1>2, <1>3, <1>4 DEF IInv, TypeOK
    <2> QED BY <1>1, <2>1, <2>2 DEF IInv, TypeOK
  <1>8. Tended'
    <2>1. \A s \in Slots : proc'[s].at \notin {"none", "dead"} => s \in left
      BY <1>1, <1>2, <1>3, FreshSound DEF IInv, Tended, Alive, Reaped
    <2>2. TickExit(left) => left = {}
      BY DEF TickExit
    <2> HIDE DEF left
    <2> QED BY <1>5, <2>1, <2>2 DEF Tended, Alive
  <1>9. DirtyKnown'
    <2>1. dirty => TickCode = 1
      BY <1>1, <1>2 DEF IInv, DirtyKnown, TickCode, Reaped
    <2> HIDE DEF left
    <2> QED BY <1>1, <1>5, <2>1 DEF IInv, DirtyKnown
  <1> QED BY <1>6, <1>7, <1>8, <1>9 DEF IInv

\* Every step of the fleet keeps it.
LEMMA NextHolds == IInv /\ [Next]_vars => IInv'
  <1> SUFFICES ASSUME IInv, [Next]_vars PROVE IInv'
    OBVIOUS
  <1>1. CASE \E s \in Slots : Lifecycle(s) \/ Work(s) \/ StartFails(s) \/ Crash(s)
    BY <1>1, ProcessActs, ProcKeeps
  <1>2. CASE \E s \in Slots : Spawn(s)
    BY <1>2, SpawnKeeps
  <1>3. CASE SpawnFails \/ Forward \/ (\E everyone \in BOOLEAN : Ask(everyone)) \/ KillSupervisor
                \/ \E s \in Slots : RestartDelay(s)
    BY <1>3, SignallingKeeps
  <1>4. CASE Abort
    BY <1>4, AbortKeeps
  <1>5. CASE TickRuns
    BY <1>5, TickKeeps DEF TickRuns, IInv, TypeOK
  <1>6. CASE TickSpawnFails
    <2>1. PICK s \in Due : Tick({s})
      BY <1>6 DEF TickSpawnFails
    <2>2. faults' \in 0 .. MaxFaults
      BY <1>6, FleetAssumption DEF TickSpawnFails, Fault, IInv, TypeOK
    <2> QED BY <2>1, <2>2, TickKeeps
  <1>7. CASE UNCHANGED vars
    <2>1. proc' = proc /\ sup' = sup /\ asks' = asks /\ dirty' = dirty /\ faults' = faults
      BY <1>7 DEF vars
    <2> QED BY <2>1 DEF IInv, TypeOK, Tended, DirtyKnown, Alive
  <1> QED BY <1>1, <1>2, <1>3, <1>4, <1>5, <1>6, <1>7 DEF Next, Supervise

-----------------------------------------------------------------------------
\* Requests are counted from 0.
LEMMA RequestsNat == IInv => Requests \in Nat
  BY FleetAssumption DEF IInv, TypeOK, Requests, GaveUp

\* Whether the supervisor gave up is known from its code.
LEMMA RequestsAre ==
    /\ Requests = asks + (IF sup.at = "killed" THEN 1 ELSE 0)
                       + (IF sup.code = 1 /\ ~sup.stopping THEN 1 ELSE 0)
    /\ Requests' = asks' + (IF sup'.at = "killed" THEN 1 ELSE 0)
                         + (IF sup'.code = 1 /\ ~sup'.stopping THEN 1 ELSE 0)
  BY DEF Requests, GaveUp

\* A process that has just been spawned, is gone, or has ended on its own has heard nothing.
LEMMA FreshTold ==
    ASSUME NEW b \in BOOLEAN, NEW r \in Nat
    PROVE  /\ Told(NoProcess, b, r) /\ Told(Booting, b, r)
           /\ \A c \in {0, 1, 88, 130, 137, 143} : (c = 130 => r >= 2) => Told(Ended(c), b, r)
  BY DEF Told, NoProcess, Booting, Ended

\* More requests explain no less.
LEMMA ToldMore ==
    ASSUME NEW p \in Processes, NEW a \in BOOLEAN, NEW b \in BOOLEAN, NEW r \in Nat, NEW q \in Nat,
           Told(p, a, r), (q >= r /\ (b => a)) \/ q = r + 1
    PROVE  Told(p, b, q)
  BY DEF Told, Processes

\* A signal that was pending, or that a new request sends.
LEMMA ToldSignalled ==
    ASSUME NEW p \in Processes, NEW a \in BOOLEAN, NEW b \in BOOLEAN, NEW r \in Nat, NEW q \in Nat,
           Told(p, a, r), (q = r /\ a /\ r >= 1) \/ q = r + 1
    PROVE  Told(Signalled(p), b, q)
  <1>1. CASE p.at \in {"none", "dead"}
    BY <1>1, ToldMore DEF Signalled
  <1>2. CASE p.at \notin {"none", "dead"}
    <2>1. Signalled(p) = [p EXCEPT !.sig = TRUE]
      BY <1>2 DEF Signalled
    <2>2. /\ Signalled(p).stop = p.stop /\ Signalled(p).late = p.late
          /\ Signalled(p).code = p.code
      BY <2>1 DEF Processes
    <2> QED BY <2>2 DEF Told, Processes
  <1> QED BY <1>1, <1>2

\* What the steps of a process do to what it has heard: most leave it alone, the signal
\* task takes a signal, and the gap ends only while no signal is on its way.
HeardStep(s) ==
    LET p == proc[s]
        r == proc'[s]
    IN  \/ r.sig = p.sig /\ r.stop = p.stop /\ r.late = p.late /\ r.code = p.code
        \/ FirstSignal(s) \/ RepeatSignal(s) \/ GapOver(s) \/ ForceExit(s)
        \/ \E c \in {0, 1, 88, 137, 143} : r = Ended(c)

LEMMA ProcessHears ==
    ASSUME NEW s \in Slots, IInv,
           Lifecycle(s) \/ Work(s) \/ StartFails(s) \/ Crash(s)
    PROVE  HeardStep(s)
  <1>1. proc \in [Slots -> Processes] /\ proc[s] \in Processes
    BY DEF IInv, TypeOK
  <1>2. CASE FirstSignal(s) \/ RepeatSignal(s) \/ GapOver(s) \/ ForceExit(s)
    BY <1>2 DEF HeardStep
  <1>3. CASE StartKilled(s)
    <2>1. proc'[s] = Ended(143)
      BY <1>1, <1>3 DEF StartKilled, End
    <2> QED BY <2>1 DEF HeardStep
  <1>4. CASE Leave(s)
    <2>1. proc'[s] = Ended(IF InFlight(proc[s]) > 0 THEN 88 ELSE 0)
      BY <1>1, <1>4 DEF Leave, End
    <2> QED BY <2>1 DEF HeardStep
  <1>5. CASE StartFails(s)
    <2>1. proc'[s] = Ended(1)
      BY <1>1, <1>5 DEF StartFails, End
    <2> QED BY <2>1 DEF HeardStep
  <1>6. CASE Crash(s)
    <2>1. proc'[s] = Ended(137)
      BY <1>1, <1>6 DEF Crash, End
    <2> QED BY <2>1 DEF HeardStep
  <1>7. CASE Start(s) \/ FetchStop(s) \/ DrainOver(s)
    BY <1>1, <1>7 DEF Start, FetchStop, DrainOver, HeardStep, Processes
  <1>8. CASE FetchReply(s)
    BY <1>1, <1>8 DEF FetchReply, HeardStep, Processes
  <1>9. CASE FetchGate(s) \/ RecoveryScan(s)
    BY <1>1, <1>9 DEF FetchGate, RecoveryScan, HeardStep, Processes
  <1>10. CASE RecoveryClaim(s)
    BY <1>1, <1>10 DEF RecoveryClaim, HeardStep, Processes
  <1>11. CASE RecoveryDispatch(s) \/ Finish(s)
    BY <1>1, <1>11 DEF RecoveryDispatch, Finish, HeardStep, Processes
  <1>12. CASE ToCpu(s)
    BY <1>1, <1>12 DEF ToCpu, HeardStep, Processes
  <1>13. CASE ToColdCpu(s) \/ CpuAdmit(s) \/ CpuFinish(s)
    BY <1>1, <1>13 DEF ToColdCpu, CpuAdmit, CpuFinish, HeardStep, Processes
  <1>14. CASE PoolStarted(s)
    BY <1>1, <1>14 DEF PoolStarted, HeardStep, Processes
  <1> QED BY <1>2, <1>3, <1>4, <1>5, <1>6, <1>7, <1>8, <1>9, <1>10, <1>11, <1>12, <1>13, <1>14
          DEF Lifecycle, Work

\* A step of a process.
LEMMA ProcAsked ==
    ASSUME IInv, Asked, NEW s \in Slots,
           Lifecycle(s) \/ Work(s) \/ StartFails(s) \/ Crash(s)
    PROVE  Asked'
  <1> DEFINE p == proc[s]
             r == Requests
             q == Requests'
  <1>1. ProcStep(s) /\ HeardStep(s)
    BY ProcessActs, ProcessHears
  <1>2. /\ proc \in [Slots -> Processes] /\ Requests \in Nat
        /\ p \in Processes /\ proc'[s] \in Processes /\ Pending \in BOOLEAN
    BY <1>1, RequestsNat DEF IInv, TypeOK, ProcStep, Sound, Pending
  <1>3. r \in Nat /\ q = r /\ sup' = sup /\ (Pending' <=> Pending) /\ (GaveUp' <=> GaveUp)
    <2>1. asks' = asks /\ sup' = sup
      BY <1>1 DEF ProcStep
    <2>2. r \in Nat /\ q = r /\ (GaveUp' <=> GaveUp)
      BY <1>2, <2>1 DEF Requests, GaveUp
    <2>3. Pending' <=> Pending
      BY <2>1 DEF Pending
    <2> QED BY <2>1, <2>2, <2>3
  <1>4. \A t \in Slots : Told(proc[t], Pending, r) /\ Told(proc[t], Pending, q)
    <2> TAKE t \in Slots
    <2>1. proc[t] \in Processes /\ Told(proc[t], Pending, r)
      BY <1>2 DEF Asked
    <2> HIDE DEF r, q
    <2> QED BY <1>2, <1>3, <2>1, ToldMore
  <1>5. Told(proc'[s], Pending, q)
    <2>1. CASE /\ proc'[s].sig = p.sig /\ proc'[s].stop = p.stop
               /\ proc'[s].late = p.late /\ proc'[s].code = p.code
      BY <1>4, <2>1 DEF Told
    <2>2. CASE FirstSignal(s)
      <3>1. /\ proc'[s].sig = FALSE /\ proc'[s].stop = TRUE /\ proc'[s].late = p.late
            /\ proc'[s].code = p.code /\ p.sig /\ ~p.stop
        BY <1>2, <2>2 DEF FirstSignal, Processes
      <3> QED BY <1>2, <1>4, <3>1 DEF Told, Processes
    <2>3. CASE RepeatSignal(s)
      <3>1. /\ proc'[s].sig = FALSE /\ proc'[s].stop = p.stop /\ proc'[s].late = p.late
            /\ proc'[s].code = p.code /\ ~p.late
        BY <1>2, <2>3 DEF RepeatSignal, Processes
      <3> QED BY <1>2, <1>4, <3>1 DEF Told, Processes
    <2>4. CASE GapOver(s)
      <3>1. /\ proc'[s].sig = p.sig /\ proc'[s].stop = p.stop /\ proc'[s].late = TRUE
            /\ proc'[s].code = p.code /\ p.stop /\ ~p.sig /\ ~Pending
        BY <1>2, <2>4 DEF GapOver, Processes, Pending
      <3> QED BY <1>2, <1>4, <3>1 DEF Told, Processes
    <2>5. CASE ForceExit(s)
      <3>1. proc'[s] = Ended(130) /\ p.late /\ p.sig
        BY <1>2, <2>5 DEF ForceExit, End
      <3>2. q >= 2
        BY <1>4, <3>1 DEF Told
      <3> HIDE DEF q
      <3> QED BY <1>2, <1>3, <3>1, <3>2, FreshTold
    <2>6. CASE \E c \in {0, 1, 88, 137, 143} : proc'[s] = Ended(c)
      <3> HIDE DEF q
      <3> QED BY <1>2, <1>3, <2>6, FreshTold
    <2> QED BY <1>1, <2>1, <2>2, <2>3, <2>4, <2>5, <2>6 DEF HeardStep
  <1>6. \A t \in Slots : Told(proc'[t], Pending, q)
    <2>1. \A t \in Slots : t # s => proc'[t] = proc[t]
      BY <1>1, <1>2 DEF ProcStep
    <2> QED BY <1>4, <1>5, <2>1
  <1>7. sup'.sig => q >= 1
    BY <1>2, <1>3 DEF Asked
  <1>8. \A t \in Slots : Told(proc'[t], Pending', q)
    BY <1>3, <1>6 DEF Told
  <1> QED BY <1>3, <1>7, <1>8 DEF Asked

\* The requests of a step of the supervisor or the operator.
Counted ==
    /\ \/ Requests' >= Requests /\ (Pending' => Pending)
       \/ Requests' = Requests + 1
    /\ sup'.sig => Requests' >= 1
    /\ sup'.at = "spawn" => sup'.code = 0 /\ ~sup'.stopping
    /\ sup'.at = "loop" => ~GaveUp'

Touched ==
    \A s \in Slots :
        \/ proc'[s] \in {proc[s], Booting, NoProcess}
        \/ /\ proc'[s] = Signalled(proc[s])
           /\ (Requests' = Requests /\ Pending) \/ Requests' = Requests + 1

\* A step of the supervisor or the operator: each process is as it was, new or gone, or
\* signalled for a pending or a new request.
LEMMA FleetAsked ==
    ASSUME IInv, IInv', Asked, Counted, Touched
    PROVE  Asked'
  <1> DEFINE r == Requests
             q == Requests'
  <1>1. /\ sup.sig \in BOOLEAN /\ Pending \in BOOLEAN /\ Pending' \in BOOLEAN
        /\ proc \in [Slots -> Processes]
    BY DEF IInv, TypeOK, Pending
  <1>3. r \in Nat /\ q \in Nat
    <2>1. asks' \in 0 .. MaxAsks
      BY DEF IInv, TypeOK
    <2>2. asks' \in Nat
      BY <2>1, FleetAssumption
    <2>3. Requests \in Nat
      BY RequestsNat
    <2>4. Requests' \in Nat
      <3>1. /\ (IF sup'.at = "killed" THEN 1 ELSE 0) \in Nat
            /\ (IF sup'.code = 1 /\ ~sup'.stopping THEN 1 ELSE 0) \in Nat
        OBVIOUS
      <3>2. \A x, y, z \in Nat : x + y + z \in Nat
        OBVIOUS
      <3> QED BY <2>2, <3>1, <3>2, RequestsAre
    <2> QED BY <2>3, <2>4
  <1>4. Pending => r >= 1
    BY DEF Pending, Asked
  <1>5. ((q >= r /\ (Pending' => Pending)) \/ q = r + 1) /\ (sup'.sig => q >= 1)
    BY DEF Counted
  <1>6. ASSUME NEW s \in Slots
        PROVE  Told(proc'[s], Pending', q)
    <2>1. proc[s] \in Processes /\ Told(proc[s], Pending, r)
      BY <1>1 DEF Asked
    <2>2. \/ proc'[s] \in {proc[s], Booting, NoProcess}
          \/ proc'[s] = Signalled(proc[s]) /\ ((q = r /\ Pending /\ r >= 1) \/ q = r + 1)
      BY <1>4 DEF Touched
    <2> HIDE DEF r, q
    <2>3. CASE proc'[s] = proc[s]
      BY <1>3, <1>5, <2>1, <2>3 DEF Told, Processes
    <2>4. CASE proc'[s] \in {Booting, NoProcess}
      BY <1>1, <1>3, <2>4, FreshTold
    <2>5. CASE proc'[s] = Signalled(proc[s]) /\ ((q = r /\ Pending /\ r >= 1) \/ q = r + 1)
      BY <1>1, <1>3, <2>1, <2>5, ToldSignalled
    <2> QED BY <2>2, <2>3, <2>4, <2>5
  <1> QED BY <1>5, <1>6 DEF Asked, Counted

\* Every step of the fleet keeps it.
LEMMA NextAsked == IInv /\ Asked /\ [Next]_vars => Asked'
  <1> SUFFICES ASSUME IInv, Asked, [Next]_vars PROVE Asked'
    OBVIOUS
  <1>1. IInv'
    BY NextHolds
  <1>2. /\ asks \in Nat /\ Requests \in Nat /\ proc \in [Slots -> Processes]
        /\ sup.child \subseteq Slots
    BY RequestsNat, FleetAssumption DEF IInv, TypeOK
  <1>3. \A n \in Nat : n + 1 >= 1 /\ n >= n
    OBVIOUS
  <1>4. /\ sup.sig => Requests >= 1
        /\ sup.at = "spawn" => sup.code = 0 /\ ~sup.stopping
        /\ sup.at = "loop" => ~(sup.code = 1 /\ ~sup.stopping)
    BY DEF Asked, GaveUp
  <1>5. CASE \E s \in Slots : Lifecycle(s) \/ Work(s) \/ StartFails(s) \/ Crash(s)
    BY <1>5, ProcAsked
  <1>6. CASE \E s \in Slots : Spawn(s)
    <2>1. Touched
      BY <1>2, <1>6 DEF Spawn, Touched
    <2>2. /\ asks' = asks /\ sup'.sig = sup.sig /\ sup.at = "spawn" /\ sup'.code = sup.code
          /\ sup'.stopping = sup.stopping /\ sup'.at \in {"spawn", "loop"}
      BY <1>6 DEF Spawn, IInv, TypeOK
    <2>3. Requests' = Requests
      BY <2>2, RequestsAre
    <2>4. Counted
      BY <1>2, <1>3, <1>4, <2>2, <2>3 DEF Counted, Pending, GaveUp
    <2> QED BY <1>1, <2>1, <2>4, FleetAsked
  <1>7. CASE SpawnFails
    <2>1. \A s \in Slots : proc'[s] = proc[s] \/ proc'[s] = Signalled(proc[s])
      BY <1>2, <1>7 DEF SpawnFails, FanOut
    <2>2. /\ asks' = asks /\ sup.at = "spawn" /\ sup'.at = "abort" /\ sup'.code = 1
          /\ sup'.stopping = sup.stopping
      BY <1>7 DEF SpawnFails, IInv, TypeOK
    <2>3. Requests' = Requests + 1
      BY <1>2, <1>4, <2>2, RequestsAre
    <2>4. Touched /\ Counted
      BY <1>2, <1>3, <2>1, <2>2, <2>3 DEF Touched, Counted
    <2> QED BY <1>1, <2>4, FleetAsked
  <1>8. CASE KillSupervisor
    <2>1. \A s \in Slots : proc'[s] = proc[s] \/ proc'[s] = Signalled(proc[s])
      BY <1>2, <1>8 DEF KillSupervisor
    <2>2. /\ asks' = asks /\ sup.at # "killed" /\ sup'.at = "killed" /\ sup'.code = sup.code
          /\ sup'.stopping = sup.stopping
      BY <1>8 DEF KillSupervisor, Supervising, IInv, TypeOK
    <2>3. Requests' = Requests + 1
      BY <1>2, <2>2, RequestsAre
    <2>4. Touched /\ Counted
      BY <1>2, <1>3, <2>1, <2>2, <2>3 DEF Touched, Counted
    <2> QED BY <1>1, <2>4, FleetAsked
  <1>9. CASE \E everyone \in BOOLEAN : Ask(everyone)
    <2>1. \A s \in Slots : proc'[s] = proc[s] \/ proc'[s] = Signalled(proc[s])
      BY <1>2, <1>9 DEF Ask
    <2>2. /\ asks' = asks + 1 /\ sup'.at = sup.at /\ sup'.code = sup.code
          /\ sup'.stopping = sup.stopping
      BY <1>9 DEF Ask, IInv, TypeOK
    <2>3. Requests' = Requests + 1
      BY <1>2, <2>2, RequestsAre
    <2>4. Touched /\ Counted
      BY <1>2, <1>3, <1>4, <2>1, <2>2, <2>3 DEF Touched, Counted, GaveUp
    <2> QED BY <1>1, <2>4, FleetAsked
  <1>10. CASE Forward
    <2>1. \A s \in Slots : proc'[s] = proc[s] \/ proc'[s] = Signalled(proc[s])
      BY <1>2, <1>10 DEF Forward, FanOut
    <2>2. /\ asks' = asks /\ sup'.sig = FALSE /\ Pending /\ sup.at = "loop" /\ sup'.at = "loop"
          /\ sup'.code = sup.code /\ sup'.stopping = TRUE
      BY <1>10 DEF Forward, Pending, IInv, TypeOK
    <2>3. ~Pending'
      BY <2>2 DEF Pending
    <2>4. Requests' = Requests /\ Requests' >= Requests
      BY <1>2, <1>4, <2>2, RequestsAre
    <2>5. Touched
      BY <2>1, <2>2, <2>4 DEF Touched
    <2>6. Counted
      BY <2>2, <2>3, <2>4 DEF Counted, GaveUp
    <2> QED BY <1>1, <2>5, <2>6, FleetAsked
  <1>11. CASE Abort \/ \E s \in Slots : RestartDelay(s)
    <2>1. proc' = proc /\ asks' = asks
      BY <1>11 DEF Abort, RestartDelay
    <2>2. /\ sup'.sig = sup.sig /\ sup'.code = sup.code /\ sup'.stopping = sup.stopping
          /\ sup'.at = sup.at \/ (sup.at = "abort" /\ sup'.at = "exit")
      BY <1>11 DEF Abort, RestartDelay, IInv, TypeOK
    <2>3. Touched
      BY <2>1 DEF Touched
    <2>4. Requests' = Requests
      BY <2>1, <2>2, RequestsAre
    <2>5. Counted
      BY <1>2, <1>3, <1>4, <2>2, <2>4 DEF Counted, Pending, GaveUp
    <2> QED BY <1>1, <2>3, <2>5, FleetAsked
  <1>12. CASE TickRuns \/ TickSpawnFails
    <2>1. PICK failed : Tick(failed)
      BY <1>12 DEF TickRuns, TickSpawnFails
    <2>2. Touched
      BY <2>1 DEF Tick, Touched
    <2>3. /\ asks' = asks /\ sup'.sig = sup.sig /\ sup.at = "loop" /\ sup'.at \in {"loop", "exit"}
          /\ sup'.stopping = sup.stopping /\ sup'.code = TickCode
      BY <2>1 DEF Tick, IInv, TypeOK
    <2>4. ~(sup'.code = 1 /\ ~sup'.stopping)
      BY <1>4, <2>3 DEF TickCode
    <2>5. Requests' = Requests
      BY <1>4, <2>3, <2>4, RequestsAre
    <2>6. Pending' => Pending
      BY <2>3 DEF Pending
    <2>7. Counted
      BY <1>2, <1>3, <1>4, <2>3, <2>4, <2>5, <2>6 DEF Counted, GaveUp
    <2> QED BY <1>1, <2>2, <2>7, FleetAsked
  <1>13. CASE UNCHANGED vars
    BY <1>13 DEF vars, Asked, Pending, Requests, GaveUp
  <1> QED BY <1>5, <1>6, <1>7, <1>8, <1>9, <1>10, <1>11, <1>12, <1>13 DEF Next, Supervise

\* Nobody has asked before the first spawn.
LEMMA InitAsked == Init => Asked
  <1> SUFFICES ASSUME Init PROVE Asked
    OBVIOUS
  <1>1. /\ Requests = 0 /\ ~sup.sig /\ \A s \in Slots : proc[s] = NoProcess
        /\ sup.at = "spawn" /\ sup.code = 0 /\ ~sup.stopping
    BY DEF Init, NewSupervisor, Requests, GaveUp
  <1>2. Told(NoProcess, Pending, 0)
    BY DEF Told, NoProcess
  <1> QED BY <1>1, <1>2 DEF Asked

-----------------------------------------------------------------------------
\* The inductive invariant of the fleet: types, what a process may hold, whose children the
\* processes are, and where a bad end in the stop is known.
THEOREM InvariantHolds == Spec => []IInv
  BY InitHolds, NextHolds, PTL DEF Spec

\* Every variable has its type (supervise, run_worker).
THEOREM TypeCorrect == Spec => []TypeOK
  <1>1. IInv => TypeOK
    BY DEF IInv
  <1> QED BY <1>1, InvariantHolds, PTL

\* fetch_loop and admission_open share the io slots without a lock: a process takes at
\* most its slots twice, or once and an entry of every stream when it has more streams than
\* slots, and what came in before its cpu pool was up.
THEOREM EntriesBounded == Spec => []AdmissionBounded
  <1>1. IInv => AdmissionBounded
    BY DEF IInv, AdmissionBounded, Sound
  <1> QED BY <1>1, InvariantHolds, PTL

\* With at least one io slot for every stream, a read of fetch_loop asks for no more than
\* the slots: the division of the batch and min_permits do what they are for.
THEOREM FetchesFit == ASSUME Streams <= Permits PROVE Spec => []FetchFits
  <1>1. IInv => FetchFits
    BY FleetAssumption DEF IInv, FetchFits, Sound, Greater, Processes
  <1> QED BY <1>1, InvariantHolds, PTL

\* supervise never leaves a process behind.
THEOREM NoneLeftBehind == Spec => []NoOrphan
  <1>1. IInv => NoOrphan
    BY DEF IInv, NoOrphan, Tended
  <1> QED BY <1>1, InvariantHolds, PTL

\* Exit 0 of supervise means that every process that ended in the stop had drained.
THEOREM ExitCodeHonest == Spec => []ExitHonest
  <1>1. IInv => ExitHonest
    BY DEF IInv, ExitHonest, Tended, DirtyKnown
  <1> QED BY <1>1, InvariantHolds, PTL

\* SECOND_SIGNAL_MIN_GAP keeps the copies of one request apart from a second one: exit 130
\* takes two of the operator's requests, the death of the supervisor and its giving up.
THEOREM ForcedTakesTwo == Spec => []ForcedOnlyIfAskedTwice
  <1>1. Asked => ForcedOnlyIfAskedTwice
    BY DEF Asked, Told, ForcedOnlyIfAskedTwice
  <1> QED BY <1>1, InvariantHolds, InitAsked, NextAsked, PTL DEF Spec
=============================================================================
