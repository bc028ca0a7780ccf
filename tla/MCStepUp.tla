------------------------------ MODULE MCStepUp ------------------------------
(* Finite instances of StepUp. *)
EXTENDS StepUp, TLC

\* Operations, requests, tasks and contents are interchangeable in safety runs.
Symmetry ==
    Permutations(Ops) \cup Permutations(Reqs) \cup Permutations(Initiators)
        \cup Permutations(Approvers) \cup Permutations(Pollers) \cup Permutations(Executors)
        \cup Permutations(Seen) \cup Permutations(Hidden)

=============================================================================
