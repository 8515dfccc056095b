------------------------------ MODULE MCDriver ------------------------------
(***************************************************************************)
(* TLC instance of the driver against the producers' promise.  Subscribers *)
(* are interchangeable, and so are threads.                                *)
(***************************************************************************)
EXTENDS Driver

Symmetry == Permutations(Threads) \cup Permutations(Subscribers)

=============================================================================
