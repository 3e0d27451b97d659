------------------------------ MODULE MCAccess ------------------------------
(* Instances of Access for TLC. *)
EXTENDS Access, TLC

\* Tokens are alike, and so are requests.
Alike == {f @@ g : f \in Permutations(Links), g \in Permutations(Handlers)}

\* The window of every command is the shorter one.
LimitOf == Outer :> 2 @@ Inner :> 2
WindowOf == Outer :> 2 @@ Inner :> 3
=============================================================================
