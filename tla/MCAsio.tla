-------------------------------- MODULE MCAsio --------------------------------
(***************************************************************************)
(* Instances of the two halves of wl2:asio for TLC: EventLoop, and           *)
(* AsioSockets with its operations on one handle.  The modules have no       *)
(* variable in common; one run checks both, each behaviour in one of them.   *)
(***************************************************************************)
EXTENDS EventLoop, AsioSockets

CONSTANT handle

MCOn == [o \in SocketOps |-> handle]

VARIABLE part   \* the module that runs: "loop" or "sockets"

MCInit == part \in {"loop", "sockets"} /\ Init /\ SocketsInit

MCNext ==
  \/ part = "loop" /\ Next /\ UNCHANGED <<part, socketVars>>
  \/ part = "sockets" /\ SocketsNext /\ UNCHANGED <<part, vars>>

MCSpec ==
  /\ MCInit /\ [][MCNext]_<<part, vars, socketVars>>
  /\ Fairness /\ SocketsFairness
=============================================================================
