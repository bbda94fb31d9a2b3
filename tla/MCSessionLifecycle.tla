-------------------------- MODULE MCSessionLifecycle --------------------------
(* Values for the constants of SessionLifecycle, and its symmetry.           *)
EXTENDS SessionLifecycle, TLC

\* Requests are interchangeable, and so are primary keys.
Symmetry == Permutations(Clients) \cup Permutations(ApprovalId)
===============================================================================
