---------------------------- MODULE MCAsyncLane ----------------------------
(* AsyncLane on a small instance.                                          *)
EXTENDS AsyncLane

SomeEndings == {[how |-> "value", type |-> "none", countdown |-> Absent]}
=============================================================================
