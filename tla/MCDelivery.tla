----------------------------- MODULE MCDelivery -----------------------------
(* Delivery on small instances; the .cfg files give the constants.         *)
EXTENDS Delivery, TLC

\* Processes are interchangeable.
WorkerSymmetry == Permutations(Workers)
=============================================================================
