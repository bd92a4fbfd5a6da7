---------------------------- MODULE OneShotReply ----------------------------
(***************************************************************************)
(* What ThreadTree promises about each request, without locks, mailboxes or *)
(* threads: it is open until exactly one of its possible ends is decided,   *)
(* the decision is never revised, and it is an end that really happened.    *)
(* ThreadRequests implements this specification: see ImplementsPromise there. *)
(***************************************************************************)
CONSTANT Ids

VARIABLES
  fate,     \* id -> "unissued", "open", or the outcome decided for it
  offered,  \* id -> the answer its responder gave, or "Unset"
  late      \* ids whose deadline has passed

vars == <<fate, offered, late>>

Init ==
  /\ fate = [i \in Ids |-> "unissued"]
  /\ offered = [i \in Ids |-> "Unset"]
  /\ late = {}

\* request(): a destination that does not exist decides the request at once.
Issue(i) ==
  /\ fate[i] = "unissued"
  /\ \E f \in {"open", "Unreachable"} : fate' = [fate EXCEPT ![i] = f]
  /\ UNCHANGED <<offered, late>>

\* The responder answers, once; an answer to a decided request is dropped.
Answer(i) ==
  /\ fate[i] # "unissued" /\ offered[i] = "Unset"
  /\ \E a \in {"Ok", "Rejected"} :
       /\ offered' = [offered EXCEPT ![i] = a]
       /\ fate' = IF fate[i] = "open" THEN [fate EXCEPT ![i] = a] ELSE fate
  /\ UNCHANGED late

Lapse(i) ==
  /\ fate[i] # "unissued"
  /\ late' = late \cup {i}
  /\ UNCHANGED <<fate, offered>>

TimeOut(i) ==
  /\ fate[i] = "open" /\ i \in late
  /\ fate' = [fate EXCEPT ![i] = "Timeout"]
  /\ UNCHANGED <<offered, late>>

Cancel(i) ==
  /\ fate[i] = "open"
  /\ fate' = [fate EXCEPT ![i] = "Cancelled"]
  /\ UNCHANGED <<offered, late>>

\* The destination exits, or the tree shuts down: any number of open requests
\* end together.
Abandon(S) ==
  /\ \A i \in S : fate[i] = "open"
  /\ fate' = [i \in Ids |-> IF i \in S THEN "Unreachable" ELSE fate[i]]
  /\ UNCHANGED <<offered, late>>

Next ==
  \/ \E i \in Ids : Issue(i) \/ Answer(i) \/ Lapse(i) \/ TimeOut(i) \/ Cancel(i)
  \/ \E S \in SUBSET Ids : Abandon(S)

Spec == Init /\ [][Next]_vars
=============================================================================
