----------------------------- MODULE AsioSockets -----------------------------
(***************************************************************************)
(* The sockets and servers of wl2:asio (wl2_asio.cpp): the JavaScript thread *)
(* that starts operations, closes handles and settles promises, and the one  *)
(* worker thread that runs the operations, each racing an optional deadline. *)
(*                                                                          *)
(* A handle is a TcpSocket or a TcpServer.  read() stands for accept() too:  *)
(* what it takes is a chunk of the stream of a socket, or a connection from  *)
(* the backlog of a server.  A handle is opened by connect(), or is ready    *)
(* from the start: a server, or an accepted socket.                         *)
(*                                                                          *)
(* Asio itself is outside the repository: functions posted to the worker run *)
(* in order; the handlers of operations and timers run in the order in which *)
(* they become ready, which is any order; cancelling a socket ends every     *)
(* operation that is pending on it, and a timer's cancel() does not call     *)
(* back a handler that is ready.                                            *)
(***************************************************************************)
EXTENDS Naturals, Sequences, FiniteSets

CONSTANTS
  Handles,    \* TcpSocketHandle and TcpServerHandle objects
  Connects,   \* calls of connect(), each for a handle of its own
  Reads,      \* calls of read() and accept()
  Writes,     \* calls of write()
  On,         \* operation -> its handle
  MayLapse    \* bound: operations that may be called with timeoutMs > 0

SocketOps == Connects \cup Reads \cup Writes

ASSUME AsioSocketsAssumption ==
  /\ Connects \cap Reads = {} /\ Connects \cap Writes = {}
  /\ Reads \cap Writes = {} /\ SocketOps \cap Handles = {}
  /\ IsFiniteSet(SocketOps)
  /\ On \in [SocketOps -> Handles] /\ MayLapse \subseteq SocketOps
  /\ \A c, d \in Connects : On[c] = On[d] => c = d

Start == "start"
Close == "close"
Tasks == ({Start} \X SocketOps) \cup ({Close} \X Handles)

\* How a promise is settled: "failed" is asio_resolve_failed and the *_failed
\* code of the operation.
Outcomes == {"ok", "timeout", "closed", "failed", "denied"}

VARIABLES
  closed,       \* handles whose closed flag is set
  busy,         \* handle -> subset of {"reading", "writing"}, its flags
  tasks,        \* functions posted to the worker, not yet run
  sockets,      \* handles whose socket was not closed by the worker
  io,           \* operation -> its state at the worker
  result,       \* operation -> the error code its handler is called with
  deadline,     \* operations called with timeoutMs > 0
  timer,        \* operation -> "off", "armed", or "ready" to call its handler
  done,         \* operations whose done flag is set
  completions,  \* <<operation, outcome>>: queued on the AsyncHost
  settlement,   \* operation -> how its promise was settled, or "none"
  arrived,      \* history: handle -> chunks taken from its stream
  taken,        \* history: read -> the chunk it took, or 0
  got           \* history: handle -> the chunks its reads resolved with

scriptVars == <<closed, busy, settlement, got>>
ioVars == <<io, result, arrived, taken>>
claimVars == <<timer, done, completions>>
socketVars == <<scriptVars, tasks, sockets, ioVars, deadline, claimVars>>

SocketsInit ==
  /\ closed = {} /\ busy = [h \in Handles |-> {}]
  /\ tasks = <<>> /\ sockets = Handles
  /\ io = [o \in SocketOps |-> "new"]
  /\ result = [o \in SocketOps |-> "none"]
  /\ deadline = {} /\ timer = [o \in SocketOps |-> "off"]
  /\ done = {} /\ completions = <<>>
  /\ settlement = [o \in SocketOps |-> "none"]
  /\ arrived = [h \in Handles |-> 0]
  /\ taken = [o \in Reads |-> 0]
  /\ got = [h \in Handles |-> <<>>]

-----------------------------------------------------------------------------
(* The JavaScript thread. *)

\* The script has the object of handle h once connect() has resolved with it.
Visible(h) == \A c \in Connects : On[c] = h => settlement[c] = "ok"

\* Mutant of Flags: the flag is neither tested nor set.
NoFlags(o) == {}

\* The in-flight flag of the handle that o sets, if any.
Flags(o) ==
  IF o \in Reads THEN {"reading"} ELSE IF o \in Writes THEN {"writing"} ELSE {}

\* A call of connect(), read() or write(), with a deadline or without.  A call
\* on a closed handle, or while the flag is set, returns a rejected promise and
\* changes nothing.
Call(o) ==
  /\ io[o] = "new"
  /\ o \notin Connects =>
       /\ Visible(On[o]) /\ On[o] \notin closed
       /\ Flags(o) \cap busy[On[o]] = {}
  /\ busy' = [busy EXCEPT ![On[o]] = @ \cup Flags(o)]
  /\ deadline' \in {deadline, deadline \cup ({o} \cap MayLapse)}
  /\ io' = [io EXCEPT ![o] = "posted"]
  /\ tasks' = Append(tasks, <<Start, o>>)
  /\ UNCHANGED <<closed, settlement, got, sockets, result, arrived, taken, claimVars>>

\* Mutant of CloseHandle: the worker is not told.
CloseQuietly(h) ==
  /\ Visible(h) /\ h \notin closed
  /\ closed' = closed \cup {h}
  /\ UNCHANGED <<busy, settlement, got, tasks, sockets, ioVars, deadline, claimVars>>

\* tcp_socket_close and tcp_server_close.
CloseHandle(h) ==
  /\ Visible(h) /\ h \notin closed
  /\ closed' = closed \cup {h}
  /\ tasks' = Append(tasks, <<Close, h>>)
  /\ UNCHANGED <<busy, settlement, got, sockets, ioVars, deadline, claimVars>>

\* The event loop runs the next completion: the flag is cleared and the promise
\* is settled.
Settle ==
  /\ completions # <<>>
  /\ completions' = Tail(completions)
  /\ LET o == Head(completions)[1]
         how == Head(completions)[2]
     IN  /\ settlement' = [settlement EXCEPT ![o] = how]
         /\ busy' = [busy EXCEPT ![On[o]] = @ \ Flags(o)]
         /\ got' = IF o \in Reads /\ how = "ok"
                   THEN [got EXCEPT ![On[o]] = Append(@, taken[o])] ELSE got
  /\ UNCHANGED <<closed, tasks, sockets, ioVars, deadline, timer, done>>

-----------------------------------------------------------------------------
(* The worker: what is posted to it. *)

\* The function posted by an operation: it begins, and its timer is armed.
RunStart(o) ==
  /\ tasks # <<>> /\ Head(tasks) = <<Start, o>>
  /\ tasks' = Tail(tasks)
  /\ io' = [io EXCEPT ![o] = IF o \in Connects THEN "resolving" ELSE "pending"]
  /\ timer' = [timer EXCEPT ![o] = IF o \in deadline THEN "armed" ELSE "off"]
  /\ UNCHANGED <<scriptVars, sockets, result, arrived, taken, deadline, done,
                 completions>>

\* The pending operations of h, but those of W, are cancelled, and those of F
\* fail: their handlers become ready.
Cancel(h, W, F) ==
  LET ended == {o \in SocketOps \ W : On[o] = h /\ io[o] = "pending"} IN
  /\ io' = [o \in SocketOps |-> IF o \in ended THEN "ready" ELSE io[o]]
  /\ result' = [o \in SocketOps |-> IF o \notin ended THEN result[o]
                              ELSE IF o \in F THEN "error" ELSE "aborted"]
  /\ UNCHANGED <<arrived, taken>>

\* The function posted by close().  A write that is between two parts of its
\* data is not pending in the socket when it is cancelled, and finds it closed.
RunClose(h) ==
  /\ tasks # <<>> /\ Head(tasks) = <<Close, h>>
  /\ tasks' = Tail(tasks)
  /\ sockets' = sockets \ {h}
  /\ \E F \in SUBSET Writes : Cancel(h, {}, F)
  /\ UNCHANGED <<scriptVars, deadline, claimVars>>

-----------------------------------------------------------------------------
(* The worker: the handlers of an operation and of its timer. *)

\* The network answers: a read takes the next chunk.
Answer(o) ==
  /\ io[o] = "pending"
  /\ io' = [io EXCEPT ![o] = "ready"]
  /\ \/ /\ result' = [result EXCEPT ![o] = "ok"]
        /\ IF o \in Reads
           THEN /\ arrived' = [arrived EXCEPT ![On[o]] = @ + 1]
                /\ taken' = [taken EXCEPT ![o] = arrived[On[o]] + 1]
           ELSE UNCHANGED <<arrived, taken>>
     \/ /\ result' = [result EXCEPT ![o] = "error"]
        /\ UNCHANGED <<arrived, taken>>
  /\ UNCHANGED <<scriptVars, tasks, sockets, deadline, claimVars>>

\* The resolver answers.
Resolved(c) ==
  /\ io[c] = "resolving"
  /\ io' = [io EXCEPT ![c] = "resolved"]
  /\ \E r \in {"ok", "error"} : result' = [result EXCEPT ![c] = r]
  /\ UNCHANGED <<scriptVars, tasks, sockets, arrived, taken, deadline, claimVars>>

\* op->done = true, the timer is cancelled, and the completion is posted.
Claim(o, how) ==
  /\ done' = done \cup {o}
  /\ timer' = IF timer[o] = "armed" THEN [timer EXCEPT ![o] = "off"] ELSE timer
  /\ completions' = Append(completions, <<o, how>>)

\* The handler of async_resolve: an error or a denied endpoint ends the
\* operation, otherwise async_connect begins.
HandleResolved(c) ==
  /\ io[c] = "resolved"
  /\ \/ /\ c \in done
        /\ io' = [io EXCEPT ![c] = "handled"]
        /\ UNCHANGED claimVars
     \/ /\ c \notin done
        /\ Claim(c, IF result[c] = "ok" THEN "denied" ELSE "failed")
        /\ io' = [io EXCEPT ![c] = "handled"]
     \/ /\ c \notin done /\ result[c] = "ok"
        /\ io' = [io EXCEPT ![c] = "pending"]
        /\ UNCHANGED claimVars
  /\ UNCHANGED <<scriptVars, tasks, sockets, result, arrived, taken, deadline>>

\* Mutant of Decided: the handler does not test op->done.
NeverDecided(o) == o \in {}

\* op->done is set already: the handler does nothing.
Decided(o) == o \in done

\* What the handler of o reports for the error code it is called with.
Verdict(o) ==
  IF result[o] = "ok" THEN "ok"
  ELSE IF result[o] = "error" \/ o \in Connects THEN "failed"
  ELSE IF On[o] \in closed THEN "closed" ELSE "timeout"

\* The handler of async_read_some, async_accept, async_write or async_connect.
HandleIo(o) ==
  /\ io[o] = "ready"
  /\ io' = [io EXCEPT ![o] = "handled"]
  /\ IF Decided(o) THEN UNCHANGED claimVars ELSE Claim(o, Verdict(o))
  /\ UNCHANGED <<scriptVars, tasks, sockets, result, arrived, taken, deadline>>

DeadlinePasses(o) ==
  /\ timer[o] = "armed"
  /\ timer' = [timer EXCEPT ![o] = "ready"]
  /\ UNCHANGED <<scriptVars, tasks, sockets, ioVars, deadline, done, completions>>

\* Mutant of GiveUp: the operation goes on in the socket.
GiveUpOnly(o) == UNCHANGED <<ioVars, sockets>>

\* The deadline of connect() cancels the resolver and closes the socket; the
\* deadline of a read or a write cancels every operation of the handle, but for
\* a write that is between two parts of its data.
GiveUp(o) ==
  \/ /\ o \in Connects /\ io[o] \in {"resolving", "resolved"}
     /\ io' = [io EXCEPT ![o] = "resolved"]
     /\ sockets' = sockets \ {On[o]}
     /\ UNCHANGED <<result, arrived, taken>>
  \/ /\ o \in Connects /\ io[o] \in {"pending", "ready"}
     /\ Cancel(On[o], {}, {})
     /\ sockets' = sockets \ {On[o]}
  \/ /\ o \notin Connects
     /\ \E W \in SUBSET Writes : Cancel(On[o], W, {})
     /\ UNCHANGED sockets

\* The handler of the timer of o.
HandleTimer(o) ==
  /\ timer[o] = "ready"
  /\ timer' = [timer EXCEPT ![o] = "off"]
  /\ IF o \in done
     THEN UNCHANGED <<done, completions, ioVars, sockets>>
     ELSE /\ done' = done \cup {o}
          /\ GiveUp(o)
          /\ completions' = Append(completions, <<o, "timeout">>)
  /\ UNCHANGED <<scriptVars, tasks, deadline>>

-----------------------------------------------------------------------------
Worker ==
  \/ \E o \in SocketOps : RunStart(o) \/ HandleIo(o) \/ HandleTimer(o)
  \/ \E h \in Handles : RunClose(h)
  \/ \E c \in Connects : HandleResolved(c)

SocketsNext ==
  \/ \E o \in SocketOps : Call(o) \/ Answer(o) \/ DeadlinePasses(o)
  \/ \E h \in Handles : CloseHandle(h)
  \/ \E c \in Connects : Resolved(c)
  \/ Settle \/ Worker

SocketsSpec == SocketsInit /\ [][SocketsNext]_socketVars

\* Both threads run, deadlines pass; the network need not answer.
SocketsFairness ==
  /\ WF_socketVars(Settle) /\ WF_socketVars(Worker)
  /\ \A o \in SocketOps : WF_socketVars(DeadlinePasses(o))

SocketsFairSpec == SocketsSpec /\ SocketsFairness

-----------------------------------------------------------------------------
(* Properties *)

SocketsTypeOK ==
  /\ closed \subseteq Handles /\ sockets \subseteq Handles
  /\ busy \in [Handles -> SUBSET {"reading", "writing"}]
  /\ tasks \in Seq(Tasks)
  /\ io \in [SocketOps -> {"new", "posted", "resolving", "resolved", "pending",
                     "ready", "handled"}]
  /\ result \in [SocketOps -> {"none", "ok", "aborted", "error"}]
  /\ deadline \subseteq SocketOps
  /\ timer \in [SocketOps -> {"off", "armed", "ready"}]
  /\ \A o \in SocketOps : timer[o] # "off" => o \in deadline
  /\ done \subseteq SocketOps
  /\ completions \in Seq(SocketOps \X Outcomes)
  /\ settlement \in [SocketOps -> Outcomes \cup {"none"}]
  /\ arrived \in [Handles -> Nat] /\ taken \in [Reads -> Nat]
  /\ got \in [Handles -> Seq(Nat)]

\* The completions of o that are queued.
Queued(o) == {i \in DOMAIN completions : completions[i][1] = o}

\* The done flag lets the result, the deadline or the close of an operation post
\* one completion: its promise is settled once, its functions freed once, and
\* endOperation called once (settle_value and settle_error free them).
SettledOnce ==
  \A o \in SocketOps :
    Cardinality(Queued(o)) + (IF settlement[o] = "none" THEN 0 ELSE 1)
      = (IF o \in done THEN 1 ELSE 0)

\* Two operations of the set K are in the hands of Asio on one handle.
Overlap(K) ==
  \E o, p \in K : o # p /\ On[o] = On[p] /\ io[o] = "pending" /\ io[p] = "pending"

\* Two reads never wait on one socket at the same time, also when the first was
\* given up at its deadline: what arrives cannot be split between them.
ReadsDoNotOverlap == ~Overlap(Reads)

\* What the script is told of read o, now or soon.
Told(o, how) ==
  settlement[o] = how \/ \E i \in DOMAIN completions : completions[i] = <<o, how>>

\* The reads of a handle resolve with its chunks in order, and a chunk that was
\* taken is lost only with a read that had a deadline and is told "timeout": the
\* deadline's handler ran before the handler that held the data.
OnlyTimeoutsLose ==
  /\ \A h \in Handles : \A i, j \in DOMAIN got[h] : i < j => got[h][i] < got[h][j]
  /\ \A o \in Reads : taken[o] # 0 /\ io[o] = "handled" =>
       Told(o, "ok") \/ (o \in deadline /\ Told(o, "timeout"))

\* A socket that connect() resolves with was not closed by connect()'s deadline.
ConnectedIsOpen ==
  \A c \in Connects : Told(c, "ok") /\ On[c] \notin closed => On[c] \in sockets

\* A timeout is reported only to an operation that was given a deadline, as the docs of
\* wl2:asio say of read() and write(): "`0` disables the read deadline" (api.md:49), "`0`
\* disables the write deadline" (api.md:63).  The code violates it: the deadline of one
\* operation cancels the socket, and the other takes the abort for its own deadline.
OwnTimeoutsOnly == \A o \in SocketOps : Told(o, "timeout") => o \in deadline

\* An operation that has a deadline, or whose handle is closed, settles, although
\* the peer may never answer.
Settles ==
  \A o \in SocketOps :
    (o \in deadline \/ (On[o] \in closed /\ io[o] # "new")) ~> settlement[o] # "none"
=============================================================================
