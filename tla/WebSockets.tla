----------------------------- MODULE WebSockets -----------------------------
(***************************************************************************)
(* The WebSocket connections of a server of wl2:http (wl2_restinio.cpp), as  *)
(* actions that a module with the script's callbacks composes: see           *)
(* SignalingHub.  The io thread upgrades requests, receives frames, sends and *)
(* closes; the JavaScript thread runs the callbacks, and its send() and       *)
(* close() are posted to the io thread.                                       *)
(*                                                                          *)
(* RESTinio is outside the repository.  It hands the frames of a connection   *)
(* to the handler in order, ends with one close frame, whether the client     *)
(* sent it or was lost, and calls back for what it was given to send.         *)
(***************************************************************************)
EXTENDS Naturals, Sequences, FiniteSets

CONSTANTS
  Conns,        \* connections that clients upgrade
  Texts,        \* what a message may say
  MaxFrames,    \* frames a client sends, besides the one that ends its connection
  MaxBuffered   \* maxBufferedBytes, in messages

ASSUME WebSocketsAssumption ==
  IsFiniteSet(Conns) /\ MaxFrames \in Nat /\ MaxBuffered \in Nat

VARIABLES
  link,         \* conn -> "none", "up", "shut": shutdown() was called, or "down"
  websockets,   \* ServerHandle::websockets
  closed,       \* connections whose WsConnection::closed is set
  buffered,     \* conn -> WsConnection::bufferedBytes
  flying,       \* conn -> messages RESTinio was given and has not called back for
  frames,       \* conn -> frames its client has sent
  over,         \* ServerHandle::closed
  tasks,        \* functions posted to the io thread
  jobs,         \* callbacks posted to the AsyncHost; each holds one operation
  say,          \* calls that the callback in progress has yet to make
  parted,       \* history: conn -> whose close frames RESTinio was given (see Partings)
  told          \* history: conn -> the last callback

sockets == <<link, websockets, closed, buffered, flying, frames, over, parted>>
wsVars == <<sockets, tasks, jobs, say, told>>

WsInit ==
  /\ link = [c \in Conns |-> "none"] /\ websockets = {} /\ closed = {}
  /\ buffered = [c \in Conns |-> 0] /\ flying = [c \in Conns |-> 0]
  /\ frames = [c \in Conns |-> 0] /\ over = FALSE
  /\ tasks = <<>> /\ jobs = <<>> /\ say = <<>>
  /\ parted = [c \in Conns |-> {}] /\ told = [c \in Conns |-> "none"]

Post(what, x) == tasks' = Append(tasks, <<what, x>>)
Call(what, c, text) == jobs' = Append(jobs, <<what, c, text>>)
Shed(c) == buffered' = [buffered EXCEPT ![c] = @ - 1]

\* The opcode of a send() is that of a message or that of a close frame.
Sends == {"send", "sendClose"}

\* Close frames are sent by close(), and by a send() over the limit, "close"; by a
\* send() of that opcode; and as the reply to a message too big or to a close frame.
Partings == {"close", "sendClose", "reply"}
Part(c, whose) == parted' = [parted EXCEPT ![c] = @ \cup {whose}]

-----------------------------------------------------------------------------
(* The io thread: frames. *)

\* A request is upgraded; a server that was closed receives none.
Upgrade(c) ==
  /\ link[c] = "none" /\ ~over
  /\ link' = [link EXCEPT ![c] = "up"]
  /\ websockets' = websockets \cup {c}
  /\ Call("open", c, "")
  /\ UNCHANGED <<closed, buffered, flying, frames, over, tasks, say, parted, told>>

Receive(c) ==
  /\ link[c] \in {"up", "shut"} /\ frames[c] < MaxFrames
  /\ frames' = [frames EXCEPT ![c] = @ + 1]
  /\ UNCHANGED <<link, websockets, closed, buffered, flying, over, tasks, say, told>>

\* A message; pings are answered and leave no trace.
Message(c, text) == Receive(c) /\ Call("message", c, text) /\ UNCHANGED parted

\* A message that is too big: a close frame answers it, and the connection is not
\* marked closed, so that messages may go out behind it.
TooBig(c) == Receive(c) /\ Part(c, "reply") /\ UNCHANGED jobs

\* Mutant of CloseFrame: nobody is told of a connection that the script closed.
CloseFrameSilent(c) ==
  /\ link[c] \in {"up", "shut"}
  /\ link' = [link EXCEPT ![c] = "down"]
  /\ closed' = closed \cup {c} /\ websockets' = websockets \ {c}
  /\ IF c \in closed THEN UNCHANGED jobs ELSE Call("close", c, "")
  /\ Part(c, "reply")
  /\ UNCHANGED <<buffered, flying, frames, over, tasks, say, told>>

\* The close frame, which is echoed; messages posted before may follow the echo.
CloseFrame(c) ==
  /\ link[c] \in {"up", "shut"}
  /\ link' = [link EXCEPT ![c] = "down"]
  /\ closed' = closed \cup {c} /\ websockets' = websockets \ {c}
  /\ Call("close", c, "")
  /\ Part(c, "reply")
  /\ UNCHANGED <<buffered, flying, frames, over, tasks, say, told>>

-----------------------------------------------------------------------------
(* The io thread: what was posted to it. *)

Running(what, x) == tasks # <<>> /\ Head(tasks) = <<what, x>> /\ tasks' = Tail(tasks)

\* RESTinio takes a message, or throws.
RunSend(c, what) ==
  /\ Running(what, c)
  /\ IF what = "sendClose" THEN Part(c, what) ELSE UNCHANGED parted
  /\ \/ /\ flying' = [flying EXCEPT ![c] = @ + 1]
        /\ UNCHANGED <<closed, buffered>>
     \/ /\ Shed(c) /\ closed' = closed \cup {c}
        /\ UNCHANGED flying
  /\ UNCHANGED <<link, websockets, frames, over, jobs, say, told>>

\* The message is written, or has failed.
Flushed(c) ==
  /\ flying[c] > 0
  /\ flying' = [flying EXCEPT ![c] = @ - 1] /\ Shed(c)
  /\ UNCHANGED <<link, websockets, closed, frames, over, tasks, jobs, say, parted,
                 told>>

\* A close frame is sent; an exception is ignored.
RunBye(c) ==
  /\ Running("bye", c)
  /\ Part(c, "close")
  /\ UNCHANGED <<link, websockets, closed, buffered, flying, frames, over, jobs, say,
                 told>>

\* close_server() and the flag that follows it.  free_routes(), in the completion,
\* changes nothing more: the callbacks are no longer called.
RunCloseServer ==
  /\ Running("close", "server")
  /\ link' = [c \in Conns |-> IF c \in websockets THEN "shut" ELSE link[c]]
  /\ closed' = closed \cup websockets
  /\ websockets' = {} /\ over' = TRUE
  /\ UNCHANGED <<buffered, flying, frames, jobs, say, parted, told>>

-----------------------------------------------------------------------------
(* The JavaScript thread. *)

Saying(what, c) == say # <<>> /\ Head(say) = <<what, c>> /\ say' = Tail(say)

\* Mutant of Send: the connection stays open to more messages.
SendUnmarked(c, what) ==
  /\ Saying(what, c)
  /\ \/ /\ c \in closed
        /\ UNCHANGED <<buffered, tasks>>
     \/ /\ c \notin closed /\ buffered[c] = MaxBuffered
        /\ Post("bye", c) /\ UNCHANGED buffered
     \/ /\ c \notin closed /\ buffered[c] < MaxBuffered
        /\ buffered' = [buffered EXCEPT ![c] = @ + 1]
        /\ Post(what, c)
  /\ UNCHANGED <<link, websockets, closed, flying, frames, over, jobs, parted, told>>

\* conn.send() of a message or, by its opcode, of a close frame, which does not mark
\* the connection closed: throws on a closed connection, closes one that is over its
\* limit.
Send(c, what) ==
  /\ Saying(what, c)
  /\ \/ /\ c \in closed
        /\ UNCHANGED <<closed, buffered, tasks>>
     \/ /\ c \notin closed /\ buffered[c] = MaxBuffered
        /\ closed' = closed \cup {c}
        /\ Post("bye", c) /\ UNCHANGED buffered
     \/ /\ c \notin closed /\ buffered[c] < MaxBuffered
        /\ buffered' = [buffered EXCEPT ![c] = @ + 1]
        /\ Post(what, c) /\ UNCHANGED closed
  /\ UNCHANGED <<link, websockets, flying, frames, over, jobs, parted, told>>

\* conn.close()
Hangup(c) ==
  /\ Saying("close", c)
  /\ IF c \in closed THEN UNCHANGED <<closed, tasks>>
     ELSE closed' = closed \cup {c} /\ Post("bye", c)
  /\ UNCHANGED <<link, websockets, buffered, flying, frames, over, jobs, parted, told>>

\* server.close() of a listening server.  A second call finds nothing to close.
CloseServer ==
  /\ say = <<>> /\ ~over
  /\ \A i \in DOMAIN tasks : tasks[i] # <<"close", "server">>
  /\ Post("close", "server")
  /\ UNCHANGED <<sockets, jobs, say, told>>

\* The next callback: dispatch_ws_open, dispatch_ws_message, dispatch_ws_close.
\* The module that has the script says what it does.
Dispatch(what, c, text) ==
  /\ say = <<>> /\ jobs # <<>> /\ Head(jobs) = <<what, c, text>>
  /\ jobs' = Tail(jobs)
  /\ told' = IF over THEN told ELSE [told EXCEPT ![c] = what]
  /\ UNCHANGED <<sockets, tasks>>

-----------------------------------------------------------------------------
(* Properties. *)

Kinds == {"open", "message", "close"}

WsTypeOK ==
  /\ link \in [Conns -> {"none", "up", "shut", "down"}]
  /\ websockets \subseteq Conns /\ closed \subseteq Conns /\ over \in BOOLEAN
  /\ buffered \in [Conns -> 0..MaxBuffered] /\ flying \in [Conns -> 0..MaxBuffered]
  /\ frames \in [Conns -> 0..MaxFrames]
  /\ tasks \in Seq(((Sends \cup {"bye"}) \X Conns) \cup {<<"close", "server">>})
  /\ jobs \in Seq(Kinds \X Conns \X (Texts \cup {""}))
  /\ say \in Seq((Sends \cup {"close"}) \X Conns)
  /\ parted \in [Conns -> SUBSET Partings] /\ told \in [Conns -> Kinds \cup {"none"}]

\* Once the script has called close() on a connection, or has overrun it with send(),
\* and the client was sent the close frame of that, no message follows it, although
\* send(), close() and the frames run on two threads.  Messages may follow the other
\* close frames: those a script gives to send(), the reply to a message too big, and
\* the echo.  The script is called for onOpen first, and for nothing after onClose.
InOrder ==
  [][\A c \in Conns :
       /\ "close" \in parted[c] => flying'[c] <= flying[c]
       /\ told[c] = "none" => told'[c] \in {"none", "open"}
       /\ told[c] = "close" => told'[c] = "close"]_wsVars
=============================================================================
