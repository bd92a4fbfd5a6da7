-------------------------- MODULE MCThreadRequests --------------------------
(***************************************************************************)
(* Instances of ThreadRequests for TLC.                                     *)
(***************************************************************************)
EXTENDS ThreadRequests, TLC

CONSTANTS t1, t2, main, worker

\* Threads are interchangeable: Init and every action treat them alike.
Symmetry == Permutations(Threads)

\* Bound: two requests to the one node of Main, or one request while another node
\* is created and removed.
Small == lastNode = 1 \/ lastId <= 1
=============================================================================
