---------------------------- MODULE MCDeadlines -----------------------------
(* Deadlines on a small instance.                                          *)
EXTENDS Deadlines

\* One of the envelopes has deadlines, from both sources.
Early == CHOOSE e \in Envelopes : TRUE
OneExpires == [e \in Envelopes |-> IF e = Early THEN 3 ELSE None]
OneTtl == [e \in Envelopes |-> IF e = Early THEN 2 ELSE None]

\* A body that asks for a retry later than MAX_RETRY_DELAY_MS.
Far == {12}
=============================================================================
