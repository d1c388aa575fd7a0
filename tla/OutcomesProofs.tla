--------------------------- MODULE OutcomesProofs ---------------------------
(* The lanes agree on every ending of a task, for every exception class.   *)
EXTENDS Outcomes, TLAPS

\* The cpu lane (parse_pyresp of the child's line) and the embedded lanes
\* (outcome_from_py of the shim's dict) settle a task alike: outcome_from_py's "keep
\* the two in step". Both replies are written out for each way a body can end;
\* an exception that is only named Retry takes another branch on the cpu lane, with
\* the same effect.
THEOREM Agreement == LanesAgree
<1> SUFFICES ASSUME NEW e \in Endings, NEW b \in BOOLEAN
             PROVE  Settle(OutcomeFromPy(ShimReply(e)), b) = Settle(CpuOutcome(e), b)
  BY DEF LanesAgree
<1> USE AbsentAssumption
    DEF Settle, OutcomeFromPy, ShimReply, CpuOutcome, ParsePyresp, ChildReply, Reply, Refused,
        Default, EncodeResult, Success, Failure, ForceRetry, UnknownError, NoError, Error
<1>1. CASE e.how \in {"value", "unjson"}
  BY <1>1, ZenonT(60)
<1>2. CASE e.how = "retry"
  BY <1>2, EndingsAssumption, ZenonT(60)
<1>3. CASE e.how = "raise"
  <2>1. /\ OutcomeFromPy(ShimReply(e)).is = "failure"
        /\ OutcomeFromPy(ShimReply(e)).retryable = TRUE
        /\ OutcomeFromPy(ShimReply(e)).err.type = e.type
    BY <1>3, EndingsAssumption
  <2>2. CASE e.type = "Retry"
    <3>1. /\ CpuOutcome(e).is = "retry"
          /\ CpuOutcome(e).countdown = Absent
          /\ CpuOutcome(e).err.type = e.type
      BY <1>3, <2>2, ZenonT(60)
    <3> QED BY <2>1, <3>1
  <2>3. CASE e.type # "Retry"
    <3>1. /\ CpuOutcome(e).is = "failure"
          /\ CpuOutcome(e).retryable = TRUE
          /\ CpuOutcome(e).err.type = e.type
      BY <1>3, <2>3, EndingsAssumption
    <3> QED BY <2>1, <3>1
  <2> QED BY <2>2, <2>3
<1>4. CASE e.how = "limit"
  BY <1>4, ZenonT(60)
<1>5. CASE e.how = "unregistered"
  BY <1>5, ZenonT(60)
<1> QED BY <1>1, <1>2, <1>3, <1>4, <1>5, EndingsAssumption
=============================================================================
