----------------------------- MODULE MCThreadTree -----------------------------
(***************************************************************************)
(* Instances of the two halves of wl2::ThreadTree for TLC: ThreadRequests,    *)
(* and ScriptThreads with a parent path and a path below it.  The modules     *)
(* have no variable in common; one run checks both, each behaviour in one of  *)
(* them.                                                                     *)
(***************************************************************************)
EXTENDS ThreadRequests, ScriptThreads

CONSTANTS parent, child

MCUnder == {<<child, parent>>}

VARIABLE part   \* the module that runs: "requests" or "threads"

MCInit == part \in {"requests", "threads"} /\ Init /\ ThreadsInit

MCNext ==
  \/ part = "requests" /\ Next /\ UNCHANGED <<part, threadVars>>
  \/ part = "threads" /\ ThreadsNext /\ UNCHANGED <<part, vars>>

MCSpec ==
  /\ MCInit /\ [][MCNext]_<<part, vars, threadVars>>
  /\ Fairness /\ ThreadsFairness
=============================================================================
