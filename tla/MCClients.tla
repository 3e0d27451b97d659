----------------------------- MODULE MCClients -----------------------------
(* Instances of Clients for TLC, and the statement of the repository that  *)
(* one of its runs refutes.                                                *)
EXTENDS Clients, TLC

\* README.md:70, "restarts transiently unavailable user sessions": a flagged
\* user with a valid session whose client was lost does not stay without a
\* connected one.
LostIsRestarted ==
  \A u \in Users :
    []<>~(u \in flagged /\ session[u] = "valid" /\ client[u] = "lost")

=============================================================================
