---------------------------- MODULE MCOnboarding ----------------------------
(* Instances of Onboarding for TLC, and the statements of the repository   *)
(* that its runs refute.                                                   *)
EXTENDS Onboarding, TLC

\* Requests are alike, and so are connection ids.
Symmetry == {f @@ g : f \in Permutations(Handlers), g \in Permutations(Logins)}

\* telegram_onboarding.py:61, "atomically promotes valid sessions": a user who
\* counts as connected has the session of the connection.
FlaggedHasSession == \A u \in flagged : session[u] = u

=============================================================================
