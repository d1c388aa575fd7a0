----------------------------- MODULE TaskLedger -----------------------------
(***************************************************************************)
(* What the broker promises about a task, without streams, pending lists,  *)
(* workers or failures (PROTOCOL.md section 4, "Delivery guarantee"):      *)
(* once accepted, a task is carried by some attempt until its outcome is   *)
(* recorded, its attempts only ever advance by one retry at a time up to   *)
(* MaxRetries, and it is eventually settled.                               *)
(***************************************************************************)
EXTENDS Integers

CONSTANTS Tasks,      \* the tasks clients may enqueue
          MaxRetries  \* the retry budget of every envelope

VARIABLES accepted,   \* tasks whose enqueue Redis accepted
          settled,    \* tasks whose outcome is recorded
          reached     \* reached[t]: the attempt numbers t has got to, while unsettled

ledgerVars == <<accepted, settled, reached>>

LedgerInit ==
    /\ accepted = {}
    /\ settled = {}
    /\ reached = [t \in Tasks |-> {}]

\* A client enqueues t: it is carried by its attempt 0 from now on.
Accept(t) ==
    /\ t \notin accepted
    /\ accepted' = accepted \cup {t}
    /\ reached' = [reached EXCEPT ![t] = {0}]
    /\ UNCHANGED settled

\* Attempt r failed retryably and attempt r + 1 is scheduled.
Retry(t, r) ==
    /\ t \in accepted \ settled
    /\ r \in reached[t]
    /\ r + 1 \in (0 .. MaxRetries) \ reached[t]
    /\ reached' = [reached EXCEPT ![t] = @ \cup {r + 1}]
    /\ UNCHANGED <<accepted, settled>>

\* The outcome of t is recorded: a result, a dead letter or a plain return.
Settle(t) ==
    /\ t \in accepted \ settled
    /\ settled' = settled \cup {t}
    /\ reached' = [reached EXCEPT ![t] = {}]
    /\ UNCHANGED accepted

LedgerNext ==
    \E t \in Tasks :
        \/ Accept(t)
        \/ \E r \in 0 .. MaxRetries : Retry(t, r)
        \/ Settle(t)

LedgerSafety == LedgerInit /\ [][LedgerNext]_ledgerVars

LedgerSpec == LedgerSafety /\ \A t \in Tasks : WF_ledgerVars(Settle(t))
=============================================================================
