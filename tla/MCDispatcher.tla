---------------------------- MODULE MCDispatcher ----------------------------
(* Instances of Dispatcher for TLC, and the statements of the repository's *)
(* documentation that its runs refute.                                     *)
EXTENDS Dispatcher, TLC

CONSTANTS u1, u2

OwnerABA == 1 :> u1 @@ 2 :> u2 @@ 3 :> u1
OwnerAB == 1 :> u1 @@ 2 :> u2

-----------------------------------------------------------------------------
\* README.md:214, "/cancel: Cancel the specified owned job": once the row is
\* CANCELLED no worker starts on it.
CancelledIsNotDispatched ==
  [][\A j \in Jobs : status[j] = "CANCELLED" => status'[j] # "DOWNLOADING"]_vars
=============================================================================
