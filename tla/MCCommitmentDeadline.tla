----------------------- MODULE MCCommitmentDeadline -----------------------
(* Instances of CommitmentDeadline for TLC. *)
EXTENDS CommitmentDeadline, TLC

(* Extractions, workers and watchers are interchangeable. *)
DeadlineSymmetry ==
    Permutations(Ops) \union Permutations(Workers) \union Permutations(Watchers)
=============================================================================
