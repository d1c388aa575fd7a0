------------------------------- MODULE MCBeat -------------------------------
(* Beat on small instances; the .cfg files choose among the definitions.   *)
EXTENDS Beat

CodeDef(s) == [schedule |-> s, enabled |-> TRUE, source |-> "code"]
UserDef(s, e) == [schedule |-> s, enabled |-> e, source |-> "user"]

OneSchedule == {"s1"}
TwoSchedules == {"s1", "s2"}
EveryTwo == [s \in OneSchedule |-> 2]
EveryMixed == [s \in TwoSchedules |-> IF s = "s1" THEN 1 ELSE 2]
Crontabs == {"s2"}
AllDeclare == [b \in Beats |-> CodeDef("s1")]

\* A rolling deploy: one replica still declares the entry, the others do not.
OldRelease == CHOOSE b \in Beats : TRUE
RollingDeploy == [b \in Beats |-> IF b = OldRelease THEN CodeDef("s1") ELSE NoDef]

\* A user pauses the entry, or moves it to a crontab.
PauseOrMove == {UserDef("s1", FALSE), UserDef("s2", TRUE)}
=============================================================================
