---------------------------- MODULE MCMicrothread ----------------------------
(* Microthread with small constants for TLC. *)
EXTENDS Microthread, TLC

CONSTANTS w1, w2, i1, s1, s2, s3

OneWorker == {w1}
TwoWorkers == {w1, w2}
OneImpersonator == {i1}
TwoStacks == {s1, s2}
ThreeStacks == {s1, s2, s3}
AllWaits == {"locked", "unlocked"}

(* Workers are interchangeable, and so are stacks. *)
Symmetry == Permutations(Worker) \cup Permutations(StackId)
=============================================================================
