----------------------------- MODULE MCStorage -----------------------------
(* Instances of Storage for TLC. *)
EXTENDS Storage, TLC

\* Accounts are alike, and so are requests.
Alike == {f @@ g : f \in Permutations(Accounts), g \in Permutations(Handlers)}

=============================================================================
