------------------------------ MODULE HttpServer ------------------------------
(***************************************************************************)
(* A server of wl2:http (wl2_restinio.cpp): the JavaScript thread that calls *)
(* listen() and close(), runs the handlers of requests and drives streaming  *)
(* responses, and the one io thread that accepts, writes and closes.  They    *)
(* meet in the functions posted to the io thread, the completions posted to   *)
(* the AsyncHost, the flags of the handles, and the map of open streams.      *)
(*                                                                          *)
(* RESTinio and Asio are outside the repository: functions posted to the io   *)
(* thread run in order, a flush calls back with success or an error at any    *)
(* later time, and requests arrive while the server object is open.          *)
(***************************************************************************)
EXTENDS Naturals, Sequences, FiniteSets

CONSTANTS
  Listens,      \* calls of listen() that find the server neither closed nor listening
  Closes,       \* calls of server.close()
  Requests,     \* requests that clients send
  Streams,      \* those that may be for a streaming route, and their streams
  Writes,       \* calls of write()
  On,           \* write -> its stream
  MaxBuffered   \* maxBufferedBytes, in chunks

Responds == {"respond"} \X Streams
Ends == {"end"} \X Streams
Calls == Listens \cup Closes \cup Writes \cup Responds \cup Ends

ASSUME HttpServerAssumption ==
  /\ IsFiniteSet(Calls) /\ IsFiniteSet(Requests)
  /\ Streams \subseteq Requests
  /\ Listens \cap Closes = {} /\ (Listens \cup Closes) \cap Writes = {}
  /\ (Listens \cup Closes \cup Writes) \cap (Responds \cup Ends) = {}
  /\ On \in [Writes -> Streams] /\ MaxBuffered \in Nat
  /\ Streams \cap {"idle", "closing", "flags"} = {}
  /\ Writes \cap {"head", "end", "whole"} = {}

VARIABLES
  listening,    \* ServerHandle::listening
  closed,       \* ServerHandle::closed
  aliveHeld,    \* ServerHandle::aliveHeld
  routes,       \* FALSE once free_routes() has emptied them
  open,         \* the server object accepts requests
  streams,      \* ServerHandle::streams
  state,        \* request -> how far it is
  ended,        \* streams whose closed flag is set
  responded,    \* streams whose responded flag is set
  cleanup,      \* streams whose cleanupPosted flag is set
  alive,        \* streams that hold their keep-alive operation
  resp,         \* streams that have a response builder
  onClose,      \* stream -> "unset", "set" or "fired"
  buffered,     \* stream -> chunks given to write() and not yet settled
  call,         \* call -> "new", "pending", "done", or "ok": a listen() that resolved
  flushing,     \* responds and writes whose flush has not called back
  tasks,        \* functions posted to the io thread; the first one may be running
  step,         \* how far the io thread is in it
  batch,        \* streams that the close_server() in progress has yet to finish
  completions,  \* posted to the AsyncHost, not yet run
  ops,          \* the operations that the AsyncHost counts
  released,     \* history: closes that released the lifetime operation
  early,        \* history: listens that were in flight when close() was called
  late,         \* history: streams opened while close_server() was under way
  wire          \* history: stream -> what was sent to its client

server == <<listening, closed, aliveHeld, routes, open>>
flags == <<ended, responded, cleanup, alive>>
conns == <<streams, flags, resp, onClose, buffered, wire>>
io == <<step, batch>>
history == <<released, early, late>>
vars == <<server, conns, state, call, flushing, tasks, io, completions, ops, history>>

Init ==
  /\ listening = FALSE /\ closed = FALSE /\ aliveHeld = FALSE
  /\ routes = TRUE /\ open = FALSE /\ streams = {}
  /\ state = [r \in Requests |-> "new"]
  /\ ended = {} /\ responded = {} /\ cleanup = {} /\ alive = {}
  /\ resp = {} /\ onClose = [s \in Streams |-> "unset"]
  /\ buffered = [s \in Streams |-> 0]
  /\ call = [c \in Calls |-> "new"] /\ flushing = {}
  /\ tasks = <<>> /\ step = "idle" /\ batch = {}
  /\ completions = <<>> /\ ops = 0
  /\ released = {} /\ early = {} /\ late = {}
  /\ wire = [s \in Streams |-> <<>>]

Post(kind, x) == tasks' = Append(tasks, <<kind, x>>)
Notify(note, x) == completions' = Append(completions, <<note, x>>)
Settled(c, how) == call' = [call EXCEPT ![c] = how]

-----------------------------------------------------------------------------
(* The JavaScript thread: the server. *)

\* listen(): a call on a closed or a listening server rejects at once and
\* changes nothing.  The new server object is opened by the io thread.
Listen(l) ==
  /\ call[l] = "new" /\ ~closed /\ ~listening
  /\ Settled(l, "pending")
  /\ ops' = ops + 1
  /\ Post("open", l)
  /\ UNCHANGED <<server, conns, state, flushing, io, completions, history>>

Listening == {l \in Listens : call[l] = "pending"}

\* server.close() of a server that is closed, or not listening (yet).
CloseIdle(c) ==
  /\ call[c] = "new" /\ (closed \/ ~listening)
  /\ closed' = TRUE /\ routes' = FALSE
  /\ early' = early \cup Listening
  /\ Settled(c, "done")
  /\ UNCHANGED <<listening, aliveHeld, open, conns, state, flushing, tasks, io,
                 completions, ops, released, late>>

\* server.close() of a listening server.
CloseServer(c) ==
  /\ call[c] = "new" /\ ~closed /\ listening
  /\ early' = early \cup Listening
  /\ Settled(c, "pending")
  /\ ops' = ops + 1
  /\ Post("close", c)
  /\ UNCHANGED <<server, conns, state, flushing, io, completions, released, late>>

-----------------------------------------------------------------------------
(* The JavaScript thread: handlers and streams. *)

\* The handler's promise settles, or a static file is served: deliver().  What it
\* posts to the io thread only writes the response.
Answer(r) ==
  /\ state[r] = "waiting"
  /\ state' = [state EXCEPT ![r] = "answered"]
  /\ ops' = ops - 1
  /\ UNCHANGED <<server, conns, call, flushing, tasks, io, completions, history>>

\* The script has the stream object once its handler was called.
Visible(s) == state[s] \in {"handling", "settled"}

\* The promise of a streaming handler settles: stream_settlement_cb.
Settle(s) ==
  /\ state[s] = "handling"
  /\ state' = [state EXCEPT ![s] = "settled"]
  /\ ended' = ended \cup {s}
  /\ tasks' = IF s \in ended THEN tasks ELSE Append(tasks, <<"finish", s>>)
  /\ UNCHANGED <<server, streams, responded, cleanup, alive, resp, onClose,
                 buffered, call, flushing, io, completions, ops, history, wire>>

\* stream.respond(), the first one.
Respond(s) ==
  /\ Visible(s) /\ s \notin ended /\ s \notin responded
  /\ call[<<"respond", s>>] = "new"
  /\ responded' = responded \cup {s}
  /\ Settled(<<"respond", s>>, "pending")
  /\ ops' = ops + 1
  /\ Post("respond", s)
  /\ UNCHANGED <<server, streams, state, ended, cleanup, alive, resp, onClose,
                 buffered, flushing, io, completions, history, wire>>

\* stream_mark_closed and, after what it posts, the completions ns.
MarkClosed(s, ns) ==
  /\ ended' = ended \cup {s}
  /\ cleanup' = cleanup \cup {s}
  /\ completions' = completions
       \o (IF s \in cleanup THEN <<>> ELSE <<<<"cleanup", s>>>>) \o ns

\* stream.write() of a chunk on an open stream: it is posted, or there is no
\* room for it and the stream is closed.
Write(w) ==
  LET s == On[w] IN
  /\ call[w] = "new" /\ Visible(s) /\ s \in responded /\ s \notin ended
  /\ \/ /\ buffered[s] < MaxBuffered
        /\ buffered' = [buffered EXCEPT ![s] = @ + 1]
        /\ Settled(w, "pending")
        /\ ops' = ops + 1
        /\ Post("write", w)
        /\ UNCHANGED <<ended, cleanup, completions>>
     \/ /\ buffered[s] = MaxBuffered
        /\ MarkClosed(s, <<>>)
        /\ Settled(w, "done")
        /\ Post("finish", s)
        /\ UNCHANGED <<buffered, ops>>
  /\ UNCHANGED <<server, streams, state, responded, alive, resp, onClose,
                 flushing, io, history, wire>>

\* stream.close(); on a stream that is closed it resolves at once.
End(s) ==
  /\ Visible(s) /\ s \notin ended
  /\ ended' = ended \cup {s}
  /\ Settled(<<"end", s>>, "pending")
  /\ ops' = ops + 1
  /\ Post("end", s)
  /\ UNCHANGED <<server, streams, state, responded, cleanup, alive, resp, onClose,
                 buffered, flushing, io, completions, history, wire>>

\* Mutant of OnClose: a stream that has ended already is not looked at.
OnCloseOnly(s) ==
  /\ Visible(s) /\ onClose[s] = "unset"
  /\ onClose' = [onClose EXCEPT ![s] = "set"]
  /\ UNCHANGED <<server, streams, state, flags, resp, buffered, call, flushing,
                 tasks, io, completions, ops, history, wire>>

\* stream.onClose(cb), once per stream.
OnClose(s) ==
  /\ Visible(s) /\ onClose[s] = "unset"
  /\ onClose' = [onClose EXCEPT ![s] = "set"]
  /\ completions' = IF s \in ended /\ s \in cleanup
                    THEN Append(completions, <<"cleanup", s>>) ELSE completions
  /\ UNCHANGED <<server, streams, state, flags, resp, buffered, call, flushing,
                 tasks, io, ops, history, wire>>

-----------------------------------------------------------------------------
(* The JavaScript thread: completions. *)

\* dispatch_on_js: nothing, once the server is closed; the handler of a route, or
\* that of a stream, which may fail at once.
Dispatch(r) ==
  IF closed
  THEN /\ state' = [state EXCEPT ![r] = "dropped"]
       /\ ops' = ops - 1
       /\ UNCHANGED <<streams, ended, alive, tasks>>
  ELSE \/ /\ state' = [state EXCEPT ![r] = "waiting"]
          /\ UNCHANGED <<streams, ended, alive, tasks, ops>>
       \/ /\ r \in Streams
          /\ streams' = streams \cup {r} /\ alive' = alive \cup {r}
          /\ \/ /\ state' = [state EXCEPT ![r] = "handling"]
                /\ UNCHANGED <<ended, tasks>>
             \/ /\ state' = [state EXCEPT ![r] = "settled"]
                /\ ended' = ended \cup {r}
                /\ Post("finish", r)
          /\ UNCHANGED ops

\* Mutant of Cleanup: the keep-alive operation is ended each time.
CleanupAgain(s) ==
  /\ onClose' = [onClose EXCEPT ![s] = IF @ = "set" THEN "fired" ELSE @]
  /\ alive' = alive \ {s}
  /\ ops' = ops - 1

\* finish_stream_on_js
Cleanup(s) ==
  /\ onClose' = [onClose EXCEPT ![s] = IF @ = "set" THEN "fired" ELSE @]
  /\ alive' = alive \ {s}
  /\ ops' = IF s \in alive THEN ops - 1 ELSE ops

\* The event loop runs the completion at the head of the queue.
Take(note, x) ==
  /\ completions # <<>> /\ Head(completions) = <<note, x>>
  /\ completions' = Tail(completions)

\* The io thread is in close_server(), whose first step takes the open streams.
InCloseServer == step # "idle" /\ Head(tasks)[1] = "close"

RunDispatch(r) ==
  /\ Take("dispatch", r) /\ Dispatch(r)
  /\ late' = IF InCloseServer THEN late \cup (alive' \ alive) ELSE late
  /\ UNCHANGED <<server, responded, cleanup, resp, onClose, buffered, call,
                 flushing, io, released, early, wire>>

RunCleanup(s) ==
  /\ Take("cleanup", s) /\ Cleanup(s)
  /\ UNCHANGED <<server, streams, state, ended, responded, cleanup, resp,
                 buffered, call, flushing, tasks, io, history, wire>>

\* listen() resolves: an operation is begun for the lifetime of the server, and
\* that of the call is ended.
Opened(l) ==
  /\ Take("opened", l)
  /\ aliveHeld' = TRUE
  /\ Settled(l, "ok")
  /\ UNCHANGED <<listening, closed, routes, open, conns, state, flushing, tasks,
                 io, ops, history>>

\* Mutant of Closed: the flag is left set, and the operation of the lifetime held.
ClosedKeeps(c) ==
  /\ Take("closed", c)
  /\ routes' = FALSE
  /\ ops' = ops - 1
  /\ Settled(c, "done")
  /\ UNCHANGED <<listening, closed, aliveHeld, open, conns, state, flushing,
                 tasks, io, history>>

\* server.close() resolves: both operations are ended.
Closed(c) ==
  /\ Take("closed", c)
  /\ aliveHeld' = FALSE /\ routes' = FALSE
  /\ ops' = IF aliveHeld THEN ops - 2 ELSE ops - 1
  /\ released' = IF aliveHeld THEN released \cup {c} ELSE released
  /\ Settled(c, "done")
  /\ UNCHANGED <<listening, closed, open, conns, state, flushing, tasks, io,
                 early, late>>

\* Any other promise is settled, in one way or the other.
SettleCall(c) ==
  /\ Take("settle", c)
  /\ Settled(c, "done")
  /\ ops' = ops - 1
  /\ UNCHANGED <<server, conns, state, flushing, tasks, io, history>>

-----------------------------------------------------------------------------
(* The io thread: the server. *)

Running(kind, x) == tasks # <<>> /\ Head(tasks) = <<kind, x>>

\* open_sync() succeeds or throws.
RunOpen(l) ==
  /\ Running("open", l) /\ step = "idle"
  /\ tasks' = Tail(tasks)
  /\ \/ /\ open' = TRUE /\ listening' = TRUE
        /\ Notify("opened", l)
     \/ /\ Notify("settle", l)
        /\ UNCHANGED <<open, listening>>
  /\ UNCHANGED <<closed, aliveHeld, routes, conns, state, call, flushing, io, ops,
                 history>>

\* A request comes in, and its route is looked up: the routes are there.  An
\* oversize one is answered without the script.
Arrive(r) ==
  /\ open /\ routes /\ state[r] = "new" /\ step = "idle"
  /\ \/ /\ state' = [state EXCEPT ![r] = "queued"]
        /\ ops' = ops + 1
        /\ Notify("dispatch", r)
     \/ /\ state' = [state EXCEPT ![r] = "answered"]
        /\ UNCHANGED <<ops, completions>>
  /\ UNCHANGED <<server, conns, call, flushing, tasks, io, history>>

\* Mutant of RunClose: the map is emptied before it is copied.
RunCloseForgets(c) ==
  /\ Running("close", c) /\ step = "idle"
  /\ step' = "closing" /\ batch' = {} /\ streams' = {}
  /\ UNCHANGED <<server, state, flags, resp, onClose, buffered, call, flushing,
                 tasks, completions, ops, history, wire>>

\* close_server() takes the streams that are open,
RunClose(c) ==
  /\ Running("close", c) /\ step = "idle"
  /\ step' = "closing" /\ batch' = streams /\ streams' = {}
  /\ UNCHANGED <<server, state, flags, resp, onClose, buffered, call, flushing,
                 tasks, completions, ops, history, wire>>

\* ends each of them (see Conclude), closes the server object,
CloseListener ==
  /\ step = "closing" /\ batch = {}
  /\ open' = FALSE /\ listening' = FALSE
  /\ step' = "flags"
  /\ UNCHANGED <<closed, aliveHeld, routes, conns, state, call, flushing, tasks,
                 batch, completions, ops, history>>

\* and sets the last flag.
CloseDone ==
  /\ step = "flags"
  /\ closed' = TRUE
  /\ Notify("closed", Head(tasks)[2])
  /\ tasks' = Tail(tasks) /\ step' = "idle"
  /\ UNCHANGED <<listening, aliveHeld, routes, open, conns, state, call, flushing,
                 batch, ops, history>>

-----------------------------------------------------------------------------
(* The io thread: streams. *)

Send(s, what) == wire' = [wire EXCEPT ![s] = Append(@, what)]

\* Mutant of Conclude: a whole response is sent to whom has no builder.
ConcludeUnclaimed(s) ==
  /\ resp' = resp \ {s}
  /\ responded' = responded \cup {s}
  /\ Send(s, IF s \in resp THEN "end" ELSE "whole")

\* stream_finish_on_io: the chunked body is ended, or a whole response is sent
\* when there was no respond().
Conclude(s) ==
  /\ resp' = resp \ {s}
  /\ responded' = IF s \in resp THEN responded ELSE responded \cup {s}
  /\ IF s \in resp THEN Send(s, "end")
     ELSE IF s \notin responded THEN Send(s, "whole") ELSE UNCHANGED wire

\* The first half of a finish, also of one stream of a closing server.
Finish(s) ==
  /\ \/ /\ step = "idle" /\ (Running("finish", s) \/ Running("end", s))
        /\ batch' = {s}
     \/ /\ step = "closing" /\ s \in batch
        /\ UNCHANGED batch
  /\ step' = s
  /\ Conclude(s)
  /\ UNCHANGED <<server, streams, state, ended, cleanup, alive, onClose, buffered,
                 call, flushing, tasks, completions, ops, history>>

\* The second half: the stream leaves the map and is marked closed.
Finished(s) ==
  /\ step = s /\ batch' = batch \ {s} /\ streams' = streams \ {s}
  /\ MarkClosed(s, IF Head(tasks)[1] = "end"
                   THEN <<<<"settle", <<"end", s>>>>>> ELSE <<>>)
  /\ IF Head(tasks)[1] = "close"
     THEN step' = "closing" /\ UNCHANGED tasks
     ELSE step' = "idle" /\ tasks' = Tail(tasks)
  /\ UNCHANGED <<server, state, responded, alive, resp, onClose, buffered, call,
                 flushing, ops, history, wire>>

\* Mutant of Fail: the chunk is not given back.
FailKeeps(c, s) ==
  /\ streams' = streams \ {s}
  /\ MarkClosed(s, <<<<"settle", c>>>>)
  /\ UNCHANGED buffered

\* The client is gone, or the stream ended, before c was written.
Fail(c, s) ==
  /\ streams' = streams \ {s}
  /\ MarkClosed(s, <<<<"settle", c>>>>)
  /\ buffered' = IF c \in Writes THEN [buffered EXCEPT ![s] = @ - 1] ELSE buffered

\* The head is flushed, or cannot be.
RunRespond(s) ==
  LET c == <<"respond", s>> IN
  /\ Running("respond", s) /\ step = "idle"
  /\ tasks' = Tail(tasks)
  /\ \/ /\ resp' = resp \cup {s}
        /\ flushing' = flushing \cup {c}
        /\ Send(s, "head")
        /\ UNCHANGED <<streams, ended, cleanup, completions, buffered>>
     \/ /\ Fail(c, s)
        /\ UNCHANGED <<resp, flushing, wire>>
  /\ UNCHANGED <<server, state, responded, alive, onClose, call, io, ops,
                 history>>

\* Mutant of RunWrite: a write on a stream that has ended is not settled.
RunWriteDrops(w) ==
  LET s == On[w] IN
  /\ Running("write", w) /\ step = "idle"
  /\ tasks' = Tail(tasks)
  /\ IF s \notin ended /\ s \in resp
     THEN /\ flushing' = flushing \cup {w} /\ Send(s, w)
          /\ UNCHANGED buffered
     ELSE /\ buffered' = [buffered EXCEPT ![s] = @ - 1]
          /\ UNCHANGED <<flushing, wire>>
  /\ UNCHANGED <<server, streams, state, flags, resp, onClose, call, io,
                 completions, ops, history>>

\* The chunk is appended and flushed, unless the stream has ended since, or the
\* append fails.
RunWrite(w) ==
  LET s == On[w] IN
  /\ Running("write", w) /\ step = "idle"
  /\ tasks' = Tail(tasks)
  /\ \/ /\ s \notin ended /\ s \in resp
        /\ flushing' = flushing \cup {w}
        /\ Send(s, w)
        /\ UNCHANGED <<streams, ended, cleanup, completions, buffered>>
     \/ /\ Fail(w, s)
        /\ UNCHANGED <<flushing, wire>>
  /\ UNCHANGED <<server, state, responded, alive, resp, onClose, call, io, ops,
                 history>>

\* A flush of c on stream s calls back.
Flushed(c, s) ==
  /\ c \in flushing /\ step = "idle"
  /\ flushing' = flushing \ {c}
  /\ \/ /\ Notify("settle", c)
        /\ buffered' = IF c \in Writes THEN [buffered EXCEPT ![s] = @ - 1] ELSE buffered
        /\ UNCHANGED <<streams, ended, cleanup>>
     \/ Fail(c, s)
  /\ UNCHANGED <<server, state, responded, alive, resp, onClose, call, tasks, io,
                 ops, history, wire>>

-----------------------------------------------------------------------------
JsCalls ==
  \/ \E l \in Listens : Listen(l)
  \/ \E c \in Closes : CloseIdle(c) \/ CloseServer(c)
  \/ \E r \in Requests : Answer(r)
  \/ \E s \in Streams : Settle(s) \/ Respond(s) \/ End(s) \/ OnClose(s)
  \/ \E w \in Writes : Write(w)

\* The event loop runs what was posted to the AsyncHost.
Loop ==
  \/ \E r \in Requests : RunDispatch(r)
  \/ \E s \in Streams : RunCleanup(s)
  \/ \E l \in Listens : Opened(l)
  \/ \E c \in Closes : Closed(c)
  \/ \E c \in Calls : SettleCall(c)

\* The io thread runs what was posted to it.
Worker ==
  \/ \E l \in Listens : RunOpen(l)
  \/ \E c \in Closes : RunClose(c)
  \/ CloseListener \/ CloseDone
  \/ \E s \in Streams : Finish(s) \/ Finished(s) \/ RunRespond(s)
  \/ \E w \in Writes : RunWrite(w)

Flushes ==
  \/ \E s \in Streams : Flushed(<<"respond", s>>, s)
  \/ \E w \in Writes : Flushed(w, On[w])

Next ==
  \/ JsCalls \/ Loop \/ Worker \/ Flushes
  \/ \E r \in Requests : Arrive(r)

Spec == Init /\ [][Next]_vars

\* The two threads run, and a flush calls back: a connection has its timeouts.
\* Nothing is assumed of scripts and clients.
FairSpec ==
  Spec /\ WF_vars(Loop) /\ WF_vars(Worker)
       /\ \A s \in Streams : WF_vars(Flushed(<<"respond", s>>, s))
       /\ \A w \in Writes : WF_vars(Flushed(w, On[w]))

-----------------------------------------------------------------------------
(* Properties. *)

Tasks ==
  ({"open"} \X Listens) \cup ({"close"} \X Closes) \cup ({"write"} \X Writes)
    \cup ({"respond", "end", "finish"} \X Streams)

Notes ==
  ({"opened"} \X Listens) \cup ({"closed"} \X Closes)
    \cup ({"dispatch"} \X (Requests)) \cup ({"cleanup"} \X Streams)
    \cup ({"settle"} \X (Calls \ Closes))

\* The types of the variables; the io thread is between two steps of a task only
\* while that task is at the head of its queue.
TypeOK ==
  /\ listening \in BOOLEAN /\ closed \in BOOLEAN /\ aliveHeld \in BOOLEAN
  /\ routes \in BOOLEAN /\ open \in BOOLEAN /\ streams \subseteq Streams
  /\ state \in [Requests ->
                 {"new", "queued", "waiting", "handling", "settled", "answered",
                  "dropped"}]
  /\ ended \subseteq Streams /\ responded \subseteq Streams
  /\ cleanup \subseteq Streams /\ alive \subseteq Streams /\ resp \subseteq Streams
  /\ onClose \in [Streams -> {"unset", "set", "fired"}]
  /\ buffered \in [Streams -> 0..MaxBuffered]
  /\ call \in [Calls -> {"new", "pending", "ok", "done"}]
  /\ flushing \subseteq Writes \cup Responds
  /\ tasks \in Seq(Tasks) /\ completions \in Seq(Notes)
  /\ step \in {"idle", "closing", "flags"} \cup Streams /\ batch \subseteq Streams
  /\ ops \in Nat /\ released \subseteq Closes /\ early \subseteq Listens
  /\ late \subseteq Streams
  /\ wire \in [Streams -> Seq({"head", "end", "whole"} \cup Writes)]
  /\ step # "idle" => tasks # <<>>
  /\ step \in {"closing", "flags"} => Head(tasks)[1] = "close"

In(q, x) == \E i \in DOMAIN q : q[i] = x

\* The AsyncHost counts exactly what is in progress: a promise that is pending, a
\* request on its way to its handler or waiting for it, a stream that has not
\* been cleaned up, and one for each time listen() resolved and close() has not
\* released it.
KeepAliveExact ==
  ops = Cardinality({c \in Calls : call[c] = "pending"})
        + Cardinality({r \in Requests : state[r] \in {"queued", "waiting"}})
        + Cardinality(alive)
        + Cardinality({l \in Listens : call[l] = "ok"}) - Cardinality(released)

\* bufferedBytes of a stream is what was given to write() and is neither written
\* nor given up: no path out of a write forgets its share or returns it twice.
BufferMatches ==
  \A s \in Streams :
    buffered[s] = Cardinality({w \in Writes : /\ On[w] = s
                                              /\ w \in flushing \/ In(tasks, <<"write", w>>)})

\* What a client receives is the beginning of one response: one whole response, or a
\* head, then chunks, and nothing after the end, whoever ends the stream, and
\* whenever.  That the end comes is not said: the head of a respond() that runs behind
\* the finish of the stream is never ended.
WireWellFormed ==
  \A s \in Streams : LET sent == wire[s] IN
    /\ \A i \in DOMAIN sent : /\ sent[i] \in {"head", "whole"} <=> i = 1
                              /\ sent[i] \in {"whole", "end"} => i = Len(sent)

\* Once a stream is cleaned up, its onClose callback was called, also when it was
\* registered after the stream had ended, and its operation is released.
NoCallbackLost ==
  \A s \in cleanup : ~In(completions, <<"cleanup", s>>) =>
                       onClose[s] # "set" /\ s \notin alive

\* Closing the server ends every stream that was open as it began: of those that are
\* open on a closed server, each was opened by a request that the loop ran while
\* close_server() was under way, and so not in its copy of the map (wl2_restinio.cpp:498).
CloseFindsStreams == closed => (alive \ ended) \subseteq late

\* close() has resolved, and no listen() or close() is in progress.
Over ==
  /\ \E c \in Closes : call[c] = "done"
  /\ \A c \in Listens \cup Closes : call[c] # "pending"

\* Once close() has resolved the server accepts no more and its lifetime operation
\* is released: api.md says that it "Stops accepting and releases the server".
CloseReleases == Over => ~open /\ ~aliveHeld

\* It does when no listen() was in flight as close() was called, and listen()
\* resolved once.
PromptCloseReleases ==
  early = {} /\ Cardinality({l \in Listens : call[l] = "ok"}) < 2 => CloseReleases

\* "`cb` fires once, when the stream ends for any reason (client disconnect, overflow,
\* server close, or local close)" (modules/wl2_restinio/docs/api.md:115-116): once
\* close() has released the server, a callback that has not been called is that of a
\* stream that has ended, and is to be called.  The code violates it: see
\* CloseFindsStreams.
CloseEndsStreams ==
  Over /\ released # {} => \A s \in Streams : onClose[s] = "set" => s \in ended

\* Every promise of the module is settled, and a stream whose handler has settled
\* is ended and releases its operation.
EverythingEnds ==
  /\ \A c \in Calls : call[c] = "pending" ~> call[c] # "pending"
  /\ \A s \in Streams : state[s] = "settled" ~> s \in cleanup /\ s \notin alive
=============================================================================
