--------------------------- MODULE HttpServerProofs ---------------------------
(***************************************************************************)
(* Proofs about HttpServer: type correctness, the exact keep-alive count and  *)
(* the exact count of buffered chunks, the response that a client receives,   *)
(* callbacks that are never forgotten, and what close() ends and releases.    *)
(***************************************************************************)
EXTENDS HttpServer, TLAPS, FiniteSetTheorems

\* x occurs in q once at most.
Once(q, x) == \A i, j \in DOMAIN q : q[i] = x /\ q[j] = x => i = j

\* The function of call c that is posted to the io thread, and the completions that
\* settle its promise.
Task(c) ==
  IF c \in Listens THEN <<"open", c>>
  ELSE IF c \in Closes THEN <<"close", c>>
  ELSE IF c \in Writes THEN <<"write", c>> ELSE c

NotesOf(c) == {<<"opened", c>>, <<"closed", c>>, <<"settle", c>>}
Noted(c) == \E x \in NotesOf(c) : In(completions, x)

\* A call that is posted, flushed or about to be settled is pending, and it is so in
\* one place only.
CallOK(c) ==
  /\ In(tasks, Task(c)) => call[c] = "pending" /\ c \notin flushing /\ ~Noted(c)
  /\ c \in flushing => call[c] = "pending" /\ ~Noted(c)
  /\ Noted(c) => call[c] = "pending"
  /\ Once(tasks, Task(c))
  /\ \A x, y \in NotesOf(c) : In(completions, x) /\ In(completions, y) => x = y
  /\ \A x \in NotesOf(c) : Once(completions, x)

CallsOK == \A c \in Calls : CallOK(c)

\* A request is dispatched once.
DispatchOK ==
  \A r \in Requests :
    /\ In(completions, <<"dispatch", r>>) => state[r] = "queued"
    /\ Once(completions, <<"dispatch", r>>)

\* The io thread or JavaScript still has something to do for stream s.
About(s) ==
  \/ \E kind \in {"finish", "end", "respond"} : In(tasks, <<kind, s>>)
  \/ <<"respond", s>> \in flushing
  \/ \E w \in Writes : On[w] = s /\ (w \in flushing \/ In(tasks, <<"write", w>>))

\* Nothing happens to a stream before its handler was called.
SeenOK ==
  \A s \in Streams :
    s \in cleanup \/ s \in alive \/ s \in streams \/ s \in batch \/ About(s) => Visible(s)

\* The batch is that of the task which the io thread is in.
StepOK ==
  /\ step \in {"idle", "flags"} => batch = {}
  /\ step \in Streams => /\ step \in batch
                         /\ Head(tasks)[1] # "close" =>
                              /\ batch = {step}
                              /\ Head(tasks) \in {<<"finish", step>>, <<"end", step>>}

\* A stream that is cleaned up has ended, and so has one that was closed.
EndOK ==
  /\ cleanup \subseteq ended
  /\ \A s \in Streams : call[<<"end", s>>] # "new" => s \in ended

\* Who claims `responded` sends the beginning of the response, who has the builder
\* sends the rest.
WireOK ==
  \A s \in Streams :
    /\ s \in resp => wire[s] # <<>> /\ wire[s][Len(wire[s])] \notin {"whole", "end"}
    /\ wire[s] # <<>> => s \in responded
    /\ In(tasks, <<"respond", s>>) => wire[s] = <<>> /\ s \in responded

\* A listen() that has yet to open the server, one that has, and a close() that has
\* closed it and is about to resolve.
OpenTask(l) == In(tasks, <<"open", l>>)
OpenedNote(l) == In(completions, <<"opened", l>>)
ClosedNote(c) == In(completions, <<"closed", c>>)

\* The calls of listen() that have opened the server.
Opens == {l \in Listens : call[l] = "ok" \/ OpenedNote(l)}
Resolved == {l \in Listens : call[l] = "ok"}

\* close() releases no more than listen() has taken.
LifetimeOK ==
  Cardinality(released) + (IF aliveHeld THEN 1 ELSE 0) <= Cardinality(Resolved)

ServerOK ==
  /\ open = listening
  /\ open \/ aliveHeld \/ (\E c \in Closes : call[c] = "pending") => Opens # {}
  /\ step = "flags" => ~open
  /\ Opens # {} => open \/ \E c \in Closes : call[c] # "new"
  /\ \A c \in Closes : /\ call[c] # "ok" /\ (call[c] = "done" => closed)
                       /\ ClosedNote(c) => closed
                       /\ call[c] = "done" \/ c \notin released

\* When no listen() was in flight at a close(): a server that is closed opens again
\* only for a second listen(), and who closes it finds what listen() took.
PromptOK ==
  early = {} =>
    /\ closed /\ (\E l \in Listens : OpenTask(l)) => Opens # {}
    /\ (\A k, l \in Opens : k = l) =>
         /\ closed => ~open
         /\ (\E c \in Closes : call[c] # "new") =>
              \A l \in Listens : ~OpenedNote(l)
         /\ aliveHeld /\ ~open => \E c \in Closes : call[c] = "pending"

\* An open stream is in the map, or in the copy that close_server() works through.
NoForgottenStream == (alive \ ended) \subseteq (streams \cup batch)

\* There are streams, and requests for them, only from listen() to the end of
\* close_server(); what this has yet to end is in its copy of the map, or came late.
ClosingOK ==
  /\ alive # {} \/ (\E r \in Requests : state[r] = "queued") =>
       listening \/ step = "flags" \/ closed
  /\ InCloseServer => (alive \ ended) \subseteq late \cup batch

IInv ==
  /\ TypeOK /\ CallsOK /\ DispatchOK /\ SeenOK /\ StepOK /\ EndOK /\ WireOK
  /\ LifetimeOK /\ ServerOK /\ PromptOK
  /\ KeepAliveExact /\ BufferMatches /\ WireWellFormed /\ NoCallbackLost
  /\ NoForgottenStream /\ ClosingOK /\ CloseFindsStreams

-----------------------------------------------------------------------------
(* The two queues. *)

\* What is appended is in the queue, and nothing else is added.
LEMMA InAppend ==
  ASSUME NEW S, NEW q \in Seq(S), NEW y
  PROVE  /\ \A x : In(Append(q, y), x) <=> In(q, x) \/ x = y
         /\ \A x : Once(q, x) /\ (x = y => ~In(q, x)) => Once(Append(q, y), x)
<1>1. /\ DOMAIN Append(q, y) = DOMAIN q \cup {Len(q) + 1} /\ Len(q) + 1 \notin DOMAIN q
      /\ \A i \in DOMAIN q : Append(q, y)[i] = q[i]
      /\ Append(q, y)[Len(q) + 1] = y
  OBVIOUS
<1> DEFINE n == Len(q) + 1
           p == Append(q, y)
<1>2. /\ DOMAIN p = DOMAIN q \cup {n} /\ n \notin DOMAIN q
      /\ \A i \in DOMAIN q : p[i] = q[i]
      /\ p[n] = y
  BY <1>1
<1> HIDE DEF n, p
<1>3. \A x : In(p, x) <=> In(q, x) \/ x = y
  BY <1>2 DEF In
<1>4. \A x : Once(q, x) /\ (x = y => ~In(q, x)) => Once(p, x)
  BY <1>2 DEF In, Once
<1> QED
  BY <1>3, <1>4 DEF p

\* What is taken from the head was in the queue, and the rest stays.
LEMMA InTail ==
  ASSUME NEW S, NEW q \in Seq(S), q # <<>>
  PROVE  /\ Tail(q) \in Seq(S) /\ Head(q) \in S /\ In(q, Head(q))
         /\ \A x : In(Tail(q), x) => In(q, x)
         /\ \A x : x # Head(q) => (In(Tail(q), x) <=> In(q, x))
         /\ Once(q, Head(q)) => ~In(Tail(q), Head(q))
         /\ \A x : Once(q, x) => Once(Tail(q), x)
<1>1. /\ Tail(q) \in Seq(S) /\ Head(q) \in S /\ 1 \in DOMAIN q /\ Head(q) = q[1]
      /\ \A i \in DOMAIN Tail(q) : i + 1 \in DOMAIN q /\ i + 1 # 1 /\ Tail(q)[i] = q[i + 1]
                                   /\ i \in Int
  OBVIOUS
<1>2. \A j \in DOMAIN q : j # 1 => j - 1 \in DOMAIN Tail(q) /\ Tail(q)[j - 1] = q[j]
  OBVIOUS
<1> DEFINE p == Tail(q)
           h == Head(q)
<1>3. /\ 1 \in DOMAIN q /\ h = q[1]
      /\ \A i \in DOMAIN p : i + 1 \in DOMAIN q /\ i + 1 # 1 /\ p[i] = q[i + 1] /\ i \in Int
      /\ \A j \in DOMAIN q : j # 1 => j - 1 \in DOMAIN p /\ p[j - 1] = q[j]
  BY <1>1, <1>2
<1> HIDE DEF p, h
<1>4. In(q, h) /\ \A x : In(p, x) => In(q, x)
  BY <1>3 DEF In
<1>5. \A x : x # h => (In(p, x) <=> In(q, x))
  BY <1>3 DEF In
<1>6. ASSUME Once(q, h)
      PROVE  ~In(p, h)
  BY <1>3, <1>6 DEF In, Once
<1>7. ASSUME NEW x, Once(q, x)
      PROVE  Once(p, x)
  <2> SUFFICES ASSUME NEW i \in DOMAIN p, NEW j \in DOMAIN p, p[i] = x, p[j] = x
               PROVE  i = j
    BY DEF Once
  <2>1. i + 1 = j + 1 /\ i \in Int /\ j \in Int
    BY <1>3, <1>7 DEF Once
  <2> QED
    BY <2>1
<1> QED
  BY <1>1, <1>4, <1>5, <1>6, <1>7 DEF p, h

LEMMA Concats ==
  ASSUME NEW S, NEW q \in Seq(S), NEW x \in S, NEW y \in S
  PROVE  /\ q \o <<>> = q
         /\ q \o <<x>> = Append(q, x)
         /\ (q \o <<x>>) \o <<y>> = Append(Append(q, x), y)
         /\ Append(q, x) \in Seq(S)
OBVIOUS

\* Y is appended to q, or its head h is taken from it: p is what comes of it.
Grown(q, p, Y) ==
  /\ \A x : In(p, x) <=> In(q, x) \/ x \in Y
  /\ \A x : Once(q, x) /\ (x \in Y => ~In(q, x)) => Once(p, x)

Shrunk(q, p, h) ==
  /\ In(q, h) /\ (Once(q, h) => ~In(p, h))
  /\ \A x : In(p, x) => In(q, x)
  /\ \A x : x # h => (In(p, x) <=> In(q, x))
  /\ \A x : Once(q, x) => Once(p, x)

LEMMA Same == ASSUME NEW q PROVE Grown(q, q, {})
  BY DEF Grown

LEMMA Appended == ASSUME NEW S, NEW q \in Seq(S), NEW y PROVE Grown(q, Append(q, y), {y})
  BY InAppend DEF Grown

LEMMA Taken ==
  ASSUME NEW S, NEW q \in Seq(S), q # <<>>
  PROVE  Shrunk(q, Tail(q), Head(q)) /\ Tail(q) \in Seq(S) /\ Head(q) \in S
  BY InTail DEF Shrunk

\* TypeOK, but for the two counters.
Fields ==
  /\ listening \in BOOLEAN /\ closed \in BOOLEAN /\ aliveHeld \in BOOLEAN
  /\ routes \in BOOLEAN /\ open \in BOOLEAN /\ streams \subseteq Streams
  /\ state \in [Requests ->
                 {"new", "queued", "waiting", "handling", "settled", "answered",
                  "dropped"}]
  /\ ended \subseteq Streams /\ responded \subseteq Streams
  /\ cleanup \subseteq Streams /\ alive \subseteq Streams /\ resp \subseteq Streams
  /\ onClose \in [Streams -> {"unset", "set", "fired"}]
  /\ call \in [Calls -> {"new", "pending", "ok", "done"}]
  /\ flushing \subseteq Writes \cup Responds
  /\ tasks \in Seq(Tasks) /\ completions \in Seq(Notes)
  /\ step \in {"idle", "closing", "flags"} \cup Streams /\ batch \subseteq Streams
  /\ released \subseteq Closes /\ early \subseteq Listens /\ late \subseteq Streams
  /\ wire \in [Streams -> Seq({"head", "end", "whole"} \cup Writes)]
  /\ step # "idle" => tasks # <<>>
  /\ step \in {"closing", "flags"} => Head(tasks)[1] = "close"

Counters == buffered \in [Streams -> 0..MaxBuffered] /\ ops \in Nat

LEMMA TypeIs == TypeOK <=> Fields /\ Counters
  BY DEF TypeOK, Fields, Counters

LEMMA TypeIsNext == TypeOK' <=> Fields' /\ Counters'
  BY TypeIs, PTL

LEMMA Posted ==
  ASSUME Fields, NEW kind, NEW x, Post(kind, x)
  PROVE  Grown(tasks, tasks', {<<kind, x>>})
  BY Appended DEF Fields, Post

LEMMA Notified ==
  ASSUME Fields, NEW note, NEW x, Notify(note, x)
  PROVE  Grown(completions, completions', {<<note, x>>})
  BY Appended DEF Fields, Notify

LEMMA TookTask ==
  ASSUME Fields, tasks # <<>>
  PROVE  Shrunk(tasks, Tail(tasks), Head(tasks)) /\ Tail(tasks) \in Seq(Tasks)
         /\ Head(tasks) \in Tasks
  BY Taken DEF Fields

LEMMA TookNote ==
  ASSUME Fields, NEW note, NEW x, Take(note, x)
  PROVE  Shrunk(completions, completions', <<note, x>>) /\ completions' \in Seq(Notes)
         /\ <<note, x>> \in Notes
<1>1. completions # <<>> /\ Head(completions) = <<note, x>> /\ completions' = Tail(completions)
  BY DEF Take
<1>2. completions \in Seq(Notes)
  BY DEF Fields
<1> QED
  BY <1>1, <1>2, Taken

\* A stream is marked closed.
LEMMA Marked ==
  ASSUME Fields, NEW s \in Streams, NEW ns, MarkClosed(s, ns),
         ns = <<>> \/ \E n \in Notes : ns = <<n>>
  PROVE  /\ completions' \in Seq(Notes)
         /\ ended' = ended \cup {s} /\ cleanup' = cleanup \cup {s}
         /\ ns = <<>> =>
              Grown(completions, completions', {<<"cleanup", s>>} \ {<<"cleanup", d>> : d \in cleanup})
         /\ \A n \in Notes : ns = <<n>> /\ n[1] # "cleanup" =>
              Grown(completions, completions',
                    {n} \cup ({<<"cleanup", s>>} \ {<<"cleanup", d>> : d \in cleanup}))
<1> DEFINE m == <<"cleanup", s>>
           M == {m} \ {<<"cleanup", d>> : d \in cleanup}
<1>1. completions \in Seq(Notes) /\ m \in Notes
  BY DEF Fields, Notes
<1>2. /\ s \in cleanup => M = {}
      /\ s \notin cleanup => M = {m}
  OBVIOUS
<1>3. completions' = completions \o (IF s \in cleanup THEN <<>> ELSE <<m>>) \o ns
  BY DEF MarkClosed
<1> HIDE DEF m, M
<1>4. CASE ns = <<>>
  <2>1. completions' = IF s \in cleanup THEN completions ELSE Append(completions, m)
    BY <1>1, <1>3, <1>4, Concats
  <2>2. completions' \in Seq(Notes)
    BY <1>1, <2>1, Concats
  <2>3. Grown(completions, completions', M)
    BY <1>1, <1>2, <2>1, Same, Appended
  <2> QED
    BY <1>4, <2>2, <2>3 DEF MarkClosed, m, M
<1>5. ASSUME NEW n \in Notes, ns = <<n>>
      PROVE  /\ completions' \in Seq(Notes)
             /\ n[1] # "cleanup" => Grown(completions, completions', {n} \cup M)
  <2>1. CASE s \in cleanup
    <3>1. completions' = Append(completions, n)
      BY <1>1, <1>3, <1>5, <2>1, Concats
    <3>2. Grown(completions, completions', {n})
      BY <1>1, <3>1, Appended
    <3>3. {n} \cup M = {n}
      BY <1>2, <2>1
    <3> QED
      BY <1>1, <3>1, <3>2, <3>3, Concats
  <2>2. CASE s \notin cleanup
    <3> DEFINE c1 == Append(completions, m)
    <3>1. completions' = Append(c1, n) /\ c1 \in Seq(Notes)
      BY <1>1, <1>3, <1>5, <2>2, Concats
    <3>2. Grown(completions, c1, {m})
      BY <1>1, Appended
    <3>3. Grown(c1, completions', {n})
      BY <3>1, Appended
    <3> HIDE DEF c1
    <3>4. n[1] # "cleanup" => n # m
      BY DEF m
    <3>5. n # m => Grown(completions, completions', {n} \cup {m})
      BY <3>2, <3>3 DEF Grown
    <3> QED
      BY <1>2, <2>2, <3>1, <3>4, <3>5, Concats
  <2> QED
    BY <2>1, <2>2
<1> QED
  BY <1>4, <1>5 DEF MarkClosed, m, M

-----------------------------------------------------------------------------
(* Types. *)

LEMMA TaskTypes ==
  /\ \A l \in Listens : <<"open", l>> \in Tasks /\ <<"opened", l>> \in Notes
  /\ \A c \in Closes : <<"close", c>> \in Tasks /\ <<"closed", c>> \in Notes
  /\ \A w \in Writes : <<"write", w>> \in Tasks
  /\ \A s \in Streams : /\ {<<"respond", s>>, <<"end", s>>, <<"finish", s>>} \subseteq Tasks
                        /\ <<"cleanup", s>> \in Notes
  /\ \A r \in Requests : <<"dispatch", r>> \in Notes
  /\ \A c \in Calls \ Closes : <<"settle", c>> \in Notes
  BY DEF Tasks, Notes

LEMMA CallTypes ==
  /\ Listens \subseteq Calls \ Closes /\ Closes \subseteq Calls /\ Writes \subseteq Calls \ Closes
  /\ \A s \in Streams : {<<"respond", s>>, <<"end", s>>} \subseteq Calls \ Closes
  /\ \A s \in Streams : <<"respond", s>> \in Responds /\ <<"end", s>> \in Ends
  /\ \A w \in Writes : On[w] \in Streams
  /\ Streams \subseteq Requests
  /\ \A s \in Streams : s \notin {"idle", "closing", "flags"}
  /\ \A w \in Writes : w \notin {"head", "end", "whole"} /\ w \notin Responds
  BY HttpServerAssumption DEF Calls, Responds, Ends

\* A task that has been begun stays at the head while others are posted.
LEMMA HeadStays ==
  ASSUME Fields, tasks' = tasks \/ \E x \in Tasks : tasks' = Append(tasks, x)
  PROVE  /\ tasks' \in Seq(Tasks)
         /\ tasks # <<>> => tasks' # <<>> /\ Head(tasks') = Head(tasks)
<1>1. tasks \in Seq(Tasks)
  BY DEF Fields
<1> QED
  BY <1>1

\* The tasks and the step are as they were, or JavaScript has posted something.
Still ==
  /\ tasks' = tasks \/ \E x \in Tasks : tasks' = Append(tasks, x)
  /\ step' = step

LEMMA StillKeeps ==
  ASSUME Fields, Still
  PROVE  /\ tasks' \in Seq(Tasks) /\ step' \in {"idle", "closing", "flags"} \cup Streams
         /\ step' # "idle" => tasks' # <<>> /\ Head(tasks') = Head(tasks)
         /\ step' \in {"closing", "flags"} => Head(tasks')[1] = "close"
  BY HeadStays DEF Still, Fields

LEMMA NoteTypes ==
  ASSUME Fields, NEW n \in Notes, completions' = Append(completions, n)
  PROVE  completions' \in Seq(Notes)
<1>1. completions \in Seq(Notes)
  BY DEF Fields
<1> QED
  BY <1>1

LEMMA ListenFields == ASSUME Fields, NEW l \in Listens, Listen(l) PROVE Fields'
<1>1. Still
  BY TaskTypes DEF Listen, Post, Still, io
<1> QED
  BY <1>1, StillKeeps, CallTypes DEF Listen, Fields, server, conns, flags, io, history, Settled

LEMMA CloseIdleFields == ASSUME Fields, NEW c \in Closes, CloseIdle(c) PROVE Fields'
<1>1. Still
  BY TaskTypes DEF CloseIdle, Still, io
<1> QED
  BY <1>1, StillKeeps, CallTypes DEF CloseIdle, Fields, conns, flags, io, history, Settled, Listening

LEMMA SettleFields == ASSUME Fields, NEW s \in Streams, Settle(s) PROVE Fields'
<1>1. Still
  BY TaskTypes DEF Settle, Still, io
<1> QED
  BY <1>1, StillKeeps, CallTypes DEF Settle, Fields, conns, flags, io, history, server, Settled

LEMMA WriteFields == ASSUME Fields, NEW w \in Writes, Write(w) PROVE Fields'
<1>1. Still
  BY TaskTypes, CallTypes DEF Write, Still, io, Post
<1>2. UNCHANGED <<listening, closed, aliveHeld, routes, open, streams, state, responded, alive, resp,
                  onClose, flushing, step, batch, released, early, late, wire>>
  BY DEF Write, io, history, server
<1>3. call' \in [Calls -> {"new", "pending", "ok", "done"}]
  <2>1. Settled(w, "pending") \/ Settled(w, "done")
    BY DEF Write
  <2> QED
    BY <2>1 DEF Fields, Settled
<1>4. /\ completions' \in Seq(Notes) /\ ended' \subseteq Streams /\ cleanup' \subseteq Streams
  <2>1. CASE UNCHANGED <<ended, cleanup, completions>>
    BY <2>1 DEF Fields
  <2>2. CASE MarkClosed(On[w], <<>>)
    <3>1. /\ completions' \in Seq(Notes) /\ On[w] \in Streams
          /\ ended' = ended \cup {On[w]} /\ cleanup' = cleanup \cup {On[w]}
      BY <2>2, Marked, CallTypes
    <3> QED
      BY <3>1 DEF Fields
  <2> QED
    BY <2>1, <2>2 DEF Write
<1>5. /\ tasks' \in Seq(Tasks)
      /\ step' # "idle" => tasks' # <<>>
      /\ step' \in {"closing", "flags"} => Head(tasks')[1] = "close"
  BY <1>1, StillKeeps
<1> QED
  BY <1>2, <1>3, <1>4, <1>5 DEF Fields

LEMMA JsFields == ASSUME Fields, JsCalls PROVE Fields'
<1>1. ASSUME NEW c \in Closes, CloseServer(c)
      PROVE  Fields'
  <2>1. Still
    BY <1>1, TaskTypes DEF CloseServer, Post, Still, io
  <2> QED
    BY <1>1, <2>1, StillKeeps, CallTypes
       DEF CloseServer, Fields, server, conns, flags, io, history, Settled, Listening
<1>2. ASSUME NEW r \in Requests, Answer(r)
      PROVE  Fields'
  BY <1>2 DEF Answer, Fields, server, conns, flags, io, history
<1>3. ASSUME NEW s \in Streams, Respond(s)
      PROVE  Fields'
  <2>1. Still
    BY <1>3, TaskTypes DEF Respond, Post, Still, io
  <2> QED
    BY <1>3, <2>1, StillKeeps, CallTypes
       DEF Respond, Fields, server, conns, flags, io, history, Settled
<1>4. ASSUME NEW s \in Streams, End(s)
      PROVE  Fields'
  <2>1. Still
    BY <1>4, TaskTypes DEF End, Post, Still, io
  <2> QED
    BY <1>4, <2>1, StillKeeps, CallTypes
       DEF End, Fields, server, conns, flags, io, history, Settled
<1>5. ASSUME NEW s \in Streams, OnClose(s)
      PROVE  Fields'
  <2>1. completions' \in Seq(Notes)
    BY <1>5, NoteTypes, TaskTypes DEF OnClose, Fields
  <2> QED
    BY <1>5, <2>1 DEF OnClose, Fields, server, conns, flags, io, history, Settled
<1> QED
  BY <1>1, <1>2, <1>3, <1>4, <1>5, ListenFields, CloseIdleFields, SettleFields, WriteFields
     DEF JsCalls

LEMMA LoopFields == ASSUME Fields, Loop PROVE Fields'
<1>1. ASSUME NEW r \in Requests, RunDispatch(r)
      PROVE  Fields'
  <2>1. completions' \in Seq(Notes)
    BY <1>1, TookNote DEF RunDispatch
  <2>2. r \in Streams => <<"finish", r>> \in Tasks
    BY TaskTypes
  <2>3. Still
    BY <1>1, <2>2 DEF RunDispatch, Dispatch, Post, Still, io
  <2>4. alive' \subseteq Streams
    BY <1>1 DEF RunDispatch, Dispatch, Fields
  <2>5. late' \subseteq Streams
    BY <1>1, <2>4 DEF RunDispatch, Fields
  <2> QED
    BY <1>1, <2>1, <2>3, <2>5, StillKeeps
       DEF RunDispatch, Dispatch, Fields, server, conns, flags, io, history
<1>2. ASSUME NEW s \in Streams, RunCleanup(s)
      PROVE  Fields'
  <2>1. completions' \in Seq(Notes)
    BY <1>2, TookNote DEF RunCleanup
  <2> QED
    BY <1>2, <2>1 DEF RunCleanup, Cleanup, Fields, server, conns, flags, io, history
<1>3. ASSUME NEW l \in Listens, Opened(l)
      PROVE  Fields'
  <2>1. completions' \in Seq(Notes)
    BY <1>3, TookNote DEF Opened
  <2> QED
    BY <1>3, <2>1, CallTypes DEF Opened, Settled, Fields, server, conns, flags, io, history
<1>4. ASSUME NEW c \in Closes, Closed(c)
      PROVE  Fields'
  <2>1. completions' \in Seq(Notes)
    BY <1>4, TookNote DEF Closed
  <2> QED
    BY <1>4, <2>1, CallTypes DEF Closed, Settled, Fields, server, conns, flags, io, history
<1>5. ASSUME NEW c \in Calls, SettleCall(c)
      PROVE  Fields'
  <2>1. completions' \in Seq(Notes)
    BY <1>5, TookNote DEF SettleCall
  <2> QED
    BY <1>5, <2>1, CallTypes DEF SettleCall, Settled, Fields, server, conns, flags, io, history
<1> QED
  BY <1>1, <1>2, <1>3, <1>4, <1>5 DEF Loop

\* Of the tasks that are running those of streams are never close_server().
LEMMA Heads ==
  ASSUME Fields, NEW kind, NEW x, Running(kind, x)
  PROVE  /\ tasks # <<>> /\ Head(tasks) = <<kind, x>> /\ Head(tasks)[1] = kind
         /\ Tail(tasks) \in Seq(Tasks) /\ Shrunk(tasks, Tail(tasks), <<kind, x>>)
  BY TookTask DEF Running

LEMMA FailFields ==
  ASSUME Fields, NEW s \in Streams, NEW c \in Calls \ Closes, Fail(c, s)
  PROVE  /\ streams' \subseteq Streams /\ ended' \subseteq Streams /\ cleanup' \subseteq Streams
         /\ completions' \in Seq(Notes)
<1>1. <<"settle", c>> \in Notes
  BY TaskTypes
<1>2. /\ completions' \in Seq(Notes)
      /\ ended' = ended \cup {s} /\ cleanup' = cleanup \cup {s}
  BY <1>1, Marked DEF Fail
<1> QED
  BY <1>2 DEF Fail, Fields

LEMMA WorkerFields == ASSUME Fields, Worker PROVE Fields'
<1>1. ASSUME NEW l \in Listens, RunOpen(l)
      PROVE  Fields'
  <2>1. /\ tasks' \in Seq(Tasks) /\ step' = "idle"
    BY <1>1, Heads DEF RunOpen, io
  <2>2. completions' \in Seq(Notes)
    BY <1>1, NoteTypes, TaskTypes, CallTypes DEF RunOpen, Notify
  <2> QED
    BY <1>1, <2>1, <2>2 DEF RunOpen, Fields, server, conns, flags, io, history
<1>2. ASSUME NEW c \in Closes, RunClose(c)
      PROVE  Fields'
  BY <1>2, Heads DEF RunClose, Fields, server, conns, flags, io, history
<1>3. CASE CloseListener
  BY <1>3 DEF CloseListener, Fields, server, conns, flags, io, history
<1>4. CASE CloseDone
  <2>1. tasks # <<>> /\ Head(tasks)[1] = "close"
    BY <1>4 DEF CloseDone, Fields
  <2>2. tasks' \in Seq(Tasks) /\ Head(tasks) \in Tasks
    BY <1>4, <2>1, TookTask DEF CloseDone
  <2>3. Head(tasks)[2] \in Closes
    BY <2>1, <2>2 DEF Tasks
  <2>4. completions' \in Seq(Notes)
    BY <1>4, <2>3, NoteTypes, TaskTypes DEF CloseDone, Notify
  <2> QED
    BY <1>4, <2>2, <2>4 DEF CloseDone, Fields, server, conns, flags, io, history
<1>5. ASSUME NEW s \in Streams, Finish(s)
      PROVE  Fields'
  <2>1. tasks # <<>> /\ batch' \subseteq Streams
    BY <1>5, CallTypes DEF Finish, Fields, Running
  <2>2. wire' \in [Streams -> Seq({"head", "end", "whole"} \cup Writes)]
    <3> DEFINE Sent == {"head", "end", "whole"} \cup Writes
    <3>1. \A what \in Sent : Send(s, what) => wire' \in [Streams -> Seq(Sent)]
      BY DEF Send, Fields
    <3>2. {"end", "whole"} \subseteq Sent
      OBVIOUS
    <3>3. wire \in [Streams -> Seq(Sent)]
      BY DEF Fields
    <3> HIDE DEF Sent
    <3>4. wire' \in [Streams -> Seq(Sent)]
      BY <1>5, <3>1, <3>2, <3>3 DEF Finish, Conclude
    <3> QED
      BY <3>4 DEF Sent
  <2>3. step' = s /\ tasks' = tasks /\ s \notin {"idle", "closing", "flags"}
    BY <1>5, CallTypes DEF Finish
  <2> QED
    BY <1>5, <2>1, <2>2, <2>3 DEF Finish, Conclude, Fields, server, conns, flags, io, history
<1>6. ASSUME NEW s \in Streams, Finished(s)
      PROVE  Fields'
  <2>1. tasks # <<>>
    BY <1>6, CallTypes DEF Finished, Fields
  <2>2. tasks' \in Seq(Tasks) /\ (step' = "closing" => tasks' # <<>> /\ Head(tasks')[1] = "close")
        /\ step' \in {"idle", "closing"}
    BY <1>6, <2>1, TookTask DEF Finished, Fields
  <2>3. /\ completions' \in Seq(Notes)
        /\ ended' = ended \cup {s} /\ cleanup' = cleanup \cup {s}
    <3>1. <<"settle", <<"end", s>>>> \in Notes
      BY TaskTypes, CallTypes
    <3>2. CASE Head(tasks)[1] = "end"
      <4>1. MarkClosed(s, <<<<"settle", <<"end", s>>>>>>)
        BY <1>6, <3>2 DEF Finished
      <4> QED
        BY <3>1, <4>1, Marked
    <3>3. CASE Head(tasks)[1] # "end"
      <4>1. MarkClosed(s, <<>>)
        BY <1>6, <3>3 DEF Finished
      <4> QED
        BY <4>1, Marked
    <3> QED
      BY <3>2, <3>3
  <2> QED
    BY <1>6, <2>1, <2>2, <2>3 DEF Finished, Fields, server, conns, flags, io, history
<1>7. ASSUME NEW s \in Streams, RunRespond(s)
      PROVE  Fields'
  <2>1. tasks' \in Seq(Tasks) /\ step' = "idle"
    BY <1>7, Heads DEF RunRespond, io
  <2>2. <<"respond", s>> \in Calls \ Closes /\ <<"respond", s>> \in Responds
    BY CallTypes
  <2>3. CASE UNCHANGED <<streams, ended, cleanup, completions, buffered>>
    <3>1. wire' \in [Streams -> Seq({"head", "end", "whole"} \cup Writes)]
      <4> DEFINE Sent == {"head", "end", "whole"} \cup Writes
      <4>1. \A what \in Sent : Send(s, what) => wire' \in [Streams -> Seq(Sent)]
        BY DEF Send, Fields
      <4>2. "head" \in Sent
        OBVIOUS
      <4>3. wire \in [Streams -> Seq(Sent)]
        BY DEF Fields
      <4> HIDE DEF Sent
      <4>4. wire' \in [Streams -> Seq(Sent)]
        BY <1>7, <4>1, <4>2, <4>3 DEF RunRespond
      <4> QED
        BY <4>4 DEF Sent
    <3> QED
      BY <1>7, <2>1, <2>2, <2>3, <3>1 DEF RunRespond, Fields, server, conns, flags, io, history
  <2>4. CASE Fail(<<"respond", s>>, s) /\ UNCHANGED <<resp, flushing, wire>>
    BY <1>7, <2>1, <2>2, <2>4, FailFields DEF RunRespond, Fields, server, conns, flags, io, history
  <2> QED
    BY <1>7, <2>3, <2>4 DEF RunRespond
<1>8. ASSUME NEW w \in Writes, RunWrite(w)
      PROVE  Fields'
  <2>1. tasks' \in Seq(Tasks) /\ step' = "idle"
    BY <1>8, Heads DEF RunWrite, io
  <2>2. w \in Calls \ Closes /\ On[w] \in Streams
    BY CallTypes
  <2>3. CASE UNCHANGED <<streams, ended, cleanup, completions, buffered>> /\ Send(On[w], w)
             /\ flushing' = flushing \cup {w}
    <3>1. wire' \in [Streams -> Seq({"head", "end", "whole"} \cup Writes)]
      BY <2>2, <2>3 DEF Send, Fields
    <3> QED
      BY <1>8, <2>1, <2>2, <2>3, <3>1 DEF RunWrite, Fields, server, conns, flags, io, history
  <2>4. CASE Fail(w, On[w]) /\ UNCHANGED <<flushing, wire>>
    BY <1>8, <2>1, <2>2, <2>4, FailFields DEF RunWrite, Fields, server, conns, flags, io, history
  <2> QED
    BY <1>8, <2>3, <2>4 DEF RunWrite
<1> QED
  BY <1>1, <1>2, <1>3, <1>4, <1>5, <1>6, <1>7, <1>8 DEF Worker

\* What is flushed is a write or the response of its stream.
FlushOf(c, s) == (c \in Writes /\ On[c] = s) \/ c = <<"respond", s>>

LEMMA FlushIs ==
  ASSUME Flushes
  PROVE  \E s \in Streams, c \in Calls \ Closes : Flushed(c, s) /\ FlushOf(c, s)
<1>1. ASSUME NEW s \in Streams, Flushed(<<"respond", s>>, s)
      PROVE  <<"respond", s>> \in Calls \ Closes /\ FlushOf(<<"respond", s>>, s)
  BY CallTypes DEF FlushOf
<1>2. ASSUME NEW w \in Writes
      PROVE  w \in Calls \ Closes /\ On[w] \in Streams /\ FlushOf(w, On[w])
  BY CallTypes DEF FlushOf
<1> QED
  BY <1>1, <1>2 DEF Flushes

LEMMA FieldsStep == ASSUME Fields, [Next]_vars PROVE Fields'
<1>1. CASE Flushes
  <2>1. PICK s \in Streams, c \in Calls \ Closes : Flushed(c, s) /\ FlushOf(c, s)
    BY <1>1, FlushIs
  <2>2. CASE Fail(c, s)
    BY <2>1, <2>2, FailFields DEF Flushed, Fields, server, conns, flags, io, history
  <2>3. CASE Notify("settle", c) /\ UNCHANGED <<streams, ended, cleanup>>
    <3>1. completions' \in Seq(Notes)
      BY <2>3, NoteTypes, TaskTypes DEF Notify
    <3> QED
      BY <2>1, <2>3, <3>1 DEF Flushed, Fields, server, conns, flags, io, history
  <2> QED
    BY <2>1, <2>2, <2>3 DEF Flushed
<1>2. ASSUME NEW r \in Requests, Arrive(r)
      PROVE  Fields'
  <2>1. completions' \in Seq(Notes)
    BY <1>2, NoteTypes, TaskTypes DEF Arrive, Notify, Fields
  <2> QED
    BY <1>2, <2>1 DEF Arrive, Fields, server, conns, flags, io, history
<1>3. CASE UNCHANGED vars
  BY <1>3 DEF vars, Fields, server, conns, flags, io, history
<1> QED
  BY <1>1, <1>2, <1>3, JsFields, LoopFields, WorkerFields DEF Next

-----------------------------------------------------------------------------
(* The calls: each is in one place at a time. *)

LEMMA TaskIs ==
  /\ \A l \in Listens : Task(l) = <<"open", l>>
  /\ \A c \in Closes : Task(c) = <<"close", c>>
  /\ \A w \in Writes : Task(w) = <<"write", w>>
  /\ \A s \in Streams : /\ Task(<<"respond", s>>) = <<"respond", s>>
                        /\ Task(<<"end", s>>) = <<"end", s>>
  BY HttpServerAssumption DEF Task, Responds, Ends

\* Tasks and notes of different calls differ, and they are not those of streams and
\* requests.
LEMMA TaskKinds ==
  ASSUME NEW c \in Calls
  PROVE  \/ c \in Listens /\ Task(c) = <<"open", c>>
         \/ c \in Closes /\ Task(c) = <<"close", c>>
         \/ c \in Writes /\ Task(c) = <<"write", c>>
         \/ \E s \in Streams : c = <<"respond", s>> /\ Task(c) = c
         \/ \E s \in Streams : c = <<"end", s>> /\ Task(c) = c
<1>1. CASE c \in Responds
  <2>1. PICK s \in Streams : c = <<"respond", s>>
    BY <1>1 DEF Responds
  <2> QED
    BY <2>1, TaskIs
<1>2. CASE c \in Ends
  <2>1. PICK s \in Streams : c = <<"end", s>>
    BY <1>2 DEF Ends
  <2> QED
    BY <2>1, TaskIs
<1> QED
  BY <1>1, <1>2, TaskIs DEF Calls

LEMMA TasksDiffer ==
  ASSUME NEW c \in Calls, NEW d \in Calls, c # d
  PROVE  Task(c) # Task(d)
<1>1. \/ c \in Listens /\ Task(c) = <<"open", c>>
      \/ c \in Closes /\ Task(c) = <<"close", c>>
      \/ c \in Writes /\ Task(c) = <<"write", c>>
      \/ \E s \in Streams : c = <<"respond", s>> /\ Task(c) = c
      \/ \E s \in Streams : c = <<"end", s>> /\ Task(c) = c
  BY TaskKinds
<1>2. \/ d \in Listens /\ Task(d) = <<"open", d>>
      \/ d \in Closes /\ Task(d) = <<"close", d>>
      \/ d \in Writes /\ Task(d) = <<"write", d>>
      \/ \E s \in Streams : d = <<"respond", s>> /\ Task(d) = d
      \/ \E s \in Streams : d = <<"end", s>> /\ Task(d) = d
  BY TaskKinds
<1> QED
  BY <1>1, <1>2

LEMMA NotFinish ==
  ASSUME NEW c \in Calls
  PROVE  \A s : Task(c) # <<"finish", s>>
  BY TaskKinds

LEMMA NotesDiffer ==
  /\ \A c, d : c # d => NotesOf(c) \cap NotesOf(d) = {}
  /\ \A c, d : <<"cleanup", d>> \notin NotesOf(c) /\ <<"dispatch", d>> \notin NotesOf(c)
  BY DEF NotesOf

\* What concerns call c stays as it is.
Aside(c) ==
  /\ call'[c] = call[c] /\ (c \in flushing' <=> c \in flushing)
  /\ In(tasks', Task(c)) <=> In(tasks, Task(c))
  /\ Once(tasks, Task(c)) => Once(tasks', Task(c))
  /\ \A x \in NotesOf(c) : /\ In(completions', x) <=> In(completions, x)
                           /\ Once(completions, x) => Once(completions', x)

LEMMA AsideKeeps ==
  ASSUME NEW c \in Calls, CallOK(c), Aside(c)
  PROVE  CallOK(c)'
<1>1. Noted(c)' <=> Noted(c)
  BY DEF Aside, Noted
<1> QED
  BY <1>1 DEF Aside, CallOK

\* The queues change by tasks and notes that are not those of call c.
TasksBy(X) == \/ tasks' = tasks
              \/ \E Y \in SUBSET X : Grown(tasks, tasks', Y)
              \/ \E x \in X : Shrunk(tasks, tasks', x)
NotesBy(X) == \/ completions' = completions
              \/ \E Y \in SUBSET X : Grown(completions, completions', Y)
              \/ \E x \in X : Shrunk(completions, completions', x)

LEMMA IsAside ==
  ASSUME NEW c \in Calls, call'[c] = call[c], c \in flushing' <=> c \in flushing,
         NEW X, Task(c) \notin X, TasksBy(X),
         NEW Z, NotesOf(c) \cap Z = {}, NotesBy(Z)
  PROVE  Aside(c)
<1>1. /\ In(tasks', Task(c)) <=> In(tasks, Task(c))
      /\ Once(tasks, Task(c)) => Once(tasks', Task(c))
  BY DEF TasksBy, Grown, Shrunk
<1>2. ASSUME NEW x \in NotesOf(c)
      PROVE  /\ In(completions', x) <=> In(completions, x)
             /\ Once(completions, x) => Once(completions', x)
  BY <1>2 DEF NotesBy, Grown, Shrunk
<1> QED
  BY <1>1, <1>2 DEF Aside

\* A step for the calls of C only, none or one.
StreamTasks == {<<"finish", s>> : s \in Streams}
OtherNotes == {<<"cleanup", s>> : s \in Streams} \cup {<<"dispatch", r>> : r \in Requests}

LEMMA OthersAside ==
  ASSUME CallsOK, NEW C \in SUBSET Calls,
         TasksBy(StreamTasks \cup {Task(c) : c \in C}),
         NotesBy(OtherNotes \cup UNION {NotesOf(c) : c \in C}),
         \A d \in Calls \ C : call'[d] = call[d] /\ (d \in flushing' <=> d \in flushing)
  PROVE  \A d \in Calls \ C : CallOK(d)'
<1> SUFFICES ASSUME NEW d \in Calls \ C PROVE CallOK(d)'
  OBVIOUS
<1>1. Task(d) \notin StreamTasks \cup {Task(c) : c \in C}
  BY TasksDiffer, NotFinish DEF StreamTasks
<1>2. NotesOf(d) \cap (OtherNotes \cup UNION {NotesOf(c) : c \in C}) = {}
  BY NotesDiffer DEF OtherNotes
<1>3. Aside(d)
  BY <1>1, <1>2, IsAside
<1> QED
  BY <1>3, AsideKeeps DEF CallsOK

\* The step concerns no call.
LEMMA NoCall ==
  ASSUME CallsOK, UNCHANGED <<call, flushing>>, TasksBy(StreamTasks), NotesBy(OtherNotes)
  PROVE  CallsOK'
<1>1. StreamTasks \cup {Task(c) : c \in {}} = StreamTasks
      /\ OtherNotes \cup UNION {NotesOf(c) : c \in {}} = OtherNotes
  OBVIOUS
<1>2. \A d \in Calls \ {} : CallOK(d)'
  BY <1>1, OthersAside
<1> QED
  BY <1>2 DEF CallsOK

\* It concerns one.
LEMMA OneCall ==
  ASSUME CallsOK, NEW c \in Calls, CallOK(c)', TasksBy(StreamTasks \cup {Task(c)}),
         NotesBy(OtherNotes \cup NotesOf(c)),
         \A d \in Calls \ {c} : call'[d] = call[d] /\ (d \in flushing' <=> d \in flushing)
  PROVE  CallsOK'
<1>1. StreamTasks \cup {Task(d) : d \in {c}} = StreamTasks \cup {Task(c)}
      /\ OtherNotes \cup UNION {NotesOf(d) : d \in {c}} = OtherNotes \cup NotesOf(c)
  OBVIOUS
<1>2. \A d \in Calls \ {c} : CallOK(d)'
  BY <1>1, OthersAside
<1> QED
  BY <1>2 DEF CallsOK

\* A call is made: it is posted, or it settles at once.
LEMMA CallMade ==
  ASSUME CallsOK, NEW c \in Calls, call[c] = "new", call' \in [Calls -> {"new", "pending", "ok", "done"}],
         flushing' = flushing, NotesBy(OtherNotes),
         \A d \in Calls \ {c} : call'[d] = call[d],
         \/ call'[c] = "pending" /\ Grown(tasks, tasks', {Task(c)})
         \/ TasksBy(StreamTasks)
  PROVE  CallsOK'
<1>1. CallOK(c) /\ ~In(tasks, Task(c)) /\ c \notin flushing /\ ~Noted(c)
  BY DEF CallsOK, CallOK
<1>2. \A x \in NotesOf(c) : /\ In(completions', x) <=> In(completions, x)
                            /\ Once(completions, x) => Once(completions', x)
  <2>1. \A x \in NotesOf(c) : x \notin OtherNotes
    BY NotesDiffer DEF OtherNotes
  <2> QED
    BY <2>1 DEF NotesBy, Grown, Shrunk
<1>3. ~Noted(c)' /\ c \notin flushing'
  BY <1>1, <1>2 DEF Noted
<1>4. /\ In(tasks', Task(c)) => call'[c] = "pending"
      /\ Once(tasks', Task(c)) /\ TasksBy(StreamTasks \cup {Task(c)})
  <2>1. Task(c) \notin StreamTasks
    BY NotFinish DEF StreamTasks
  <2>2. Once(tasks, Task(c))
    BY <1>1 DEF CallOK
  <2>3. CASE Grown(tasks, tasks', {Task(c)}) /\ call'[c] = "pending"
    BY <1>1, <2>2, <2>3 DEF Grown, TasksBy
  <2>4. CASE TasksBy(StreamTasks)
    <3>1. ~In(tasks', Task(c)) /\ Once(tasks', Task(c))
      BY <1>1, <2>1, <2>2, <2>4 DEF TasksBy, Grown, Shrunk
    <3> QED
      BY <2>4, <3>1 DEF TasksBy
  <2> QED
    BY <2>3, <2>4
<1>5. CallOK(c)'
  BY <1>1, <1>2, <1>3, <1>4 DEF CallOK, Noted
<1>6. NotesBy(OtherNotes \cup NotesOf(c))
  BY DEF NotesBy
<1> QED
  BY <1>4, <1>5, <1>6, OneCall

\* A call leaves the io thread: for the flush, or for the completion that settles it.
LEMMA CallServed ==
  ASSUME CallsOK, NEW c \in Calls, call' = call, In(tasks, Task(c)) \/ c \in flushing,
         \/ Shrunk(tasks, tasks', Task(c)) /\ flushing' = flushing
         \/ tasks' = tasks /\ c \in flushing /\ flushing' = flushing \ {c},
         NEW n \in NotesOf(c), NEW Z \in SUBSET OtherNotes,
         Grown(completions, completions', {n} \cup Z)
  PROVE  CallsOK'
<1>1. /\ CallOK(c) /\ call[c] = "pending" /\ ~Noted(c)
  BY DEF CallsOK, CallOK
<1>2. ~In(tasks', Task(c)) /\ c \notin flushing' /\ Once(tasks', Task(c))
  BY <1>1 DEF CallOK, Shrunk
<1>3. \A x \in NotesOf(c) : /\ In(completions', x) => x = n
                            /\ Once(completions', x)
  <2> SUFFICES ASSUME NEW x \in NotesOf(c)
               PROVE  (In(completions', x) => x = n) /\ Once(completions', x)
    OBVIOUS
  <2>1. x \notin Z
    BY NotesDiffer DEF OtherNotes
  <2>2. ~In(completions, x) /\ Once(completions, x)
    BY <1>1 DEF CallOK, Noted
  <2> QED
    BY <2>1, <2>2 DEF Grown
<1>4. CallOK(c)'
  BY <1>1, <1>2, <1>3 DEF CallOK, Noted
<1>5. TasksBy(StreamTasks \cup {Task(c)})
  BY DEF TasksBy
<1>6. NotesBy(OtherNotes \cup NotesOf(c))
  <2>1. {n} \cup Z \in SUBSET (OtherNotes \cup NotesOf(c))
    OBVIOUS
  <2> QED
    BY <2>1 DEF NotesBy
<1> QED
  BY <1>4, <1>5, <1>6, OneCall

LEMMA CallFlushed ==
  ASSUME CallsOK, NEW c \in Calls, call' = call, Shrunk(tasks, tasks', Task(c)),
         flushing' = flushing \cup {c}, completions' = completions
  PROVE  CallsOK'
<1>1. CallOK(c) /\ call[c] = "pending" /\ ~Noted(c)
  BY DEF CallsOK, CallOK, Shrunk
<1>2. ~In(tasks', Task(c)) /\ Once(tasks', Task(c))
  BY <1>1 DEF CallOK, Shrunk
<1>3. CallOK(c)'
  BY <1>1, <1>2 DEF CallOK, Noted
<1>4. TasksBy(StreamTasks \cup {Task(c)}) /\ NotesBy(OtherNotes \cup NotesOf(c))
  BY DEF TasksBy, NotesBy
<1> QED
  BY <1>3, <1>4, OneCall

\* A promise is settled.
LEMMA CallSettled ==
  ASSUME CallsOK, NEW c \in Calls, NEW n \in NotesOf(c), Shrunk(completions, completions', n),
         \A d \in Calls \ {c} : call'[d] = call[d], UNCHANGED <<tasks, flushing>>
  PROVE  CallsOK' /\ call[c] = "pending"
<1>1. CallOK(c) /\ Noted(c) /\ call[c] = "pending"
  BY DEF CallsOK, CallOK, Noted, Shrunk
<1>2. ~In(tasks, Task(c)) /\ c \notin flushing /\ Once(tasks, Task(c))
  BY <1>1 DEF CallOK
<1>3. \A x \in NotesOf(c) : ~In(completions', x) /\ Once(completions', x)
  BY <1>1 DEF CallOK, Shrunk
<1>4. CallOK(c)'
  BY <1>2, <1>3 DEF CallOK, Noted
<1>5. TasksBy(StreamTasks \cup {Task(c)}) /\ NotesBy(OtherNotes \cup NotesOf(c))
  BY DEF TasksBy, NotesBy
<1> QED
  BY <1>1, <1>4, <1>5, OneCall

LEMMA MarkedOnly ==
  ASSUME Fields, NEW s \in Streams, MarkClosed(s, <<>>)
  PROVE  NotesBy(OtherNotes)
<1> DEFINE Z == {<<"cleanup", s>>} \ {<<"cleanup", d>> : d \in cleanup}
<1>1. Grown(completions, completions', Z)
  BY Marked
<1>2. Z \in SUBSET OtherNotes
  BY DEF OtherNotes
<1> QED
  BY <1>1, <1>2 DEF NotesBy

LEMMA MarkedWith ==
  ASSUME Fields, NEW s \in Streams, NEW c \in Calls \ Closes, MarkClosed(s, <<<<"settle", c>>>>)
  PROVE  /\ <<"settle", c>> \in NotesOf(c)
         /\ \E Z \in SUBSET OtherNotes : Grown(completions, completions', {<<"settle", c>>} \cup Z)
<1> DEFINE n == <<"settle", c>>
           Z == {<<"cleanup", s>>} \ {<<"cleanup", d>> : d \in cleanup}
<1>1. n \in Notes /\ n[1] # "cleanup"
  BY TaskTypes
<1>2. MarkClosed(s, <<n>>)
  OBVIOUS
<1> HIDE DEF n
<1>3. Grown(completions, completions', {n} \cup Z)
  BY <1>1, <1>2, Marked
<1>4. Z \in SUBSET OtherNotes
  BY DEF OtherNotes
<1> HIDE DEF Z
<1>5. \E Y \in SUBSET OtherNotes : Grown(completions, completions', {n} \cup Y)
  BY <1>3, <1>4
<1> QED
  BY <1>5 DEF n, NotesOf

LEMMA JsCallsOK == ASSUME Fields, Fields', CallsOK, EndOK, JsCalls PROVE CallsOK'
<1> USE CallTypes
<1>0. call' \in [Calls -> {"new", "pending", "ok", "done"}]
  BY DEF Fields
<1>1. ASSUME NEW l \in Listens, Listen(l)
      PROVE  CallsOK'
  <2>1. Grown(tasks, tasks', {Task(l)})
    BY <1>1, Posted, TaskIs DEF Listen
  <2>2. call'[l] = "pending" /\ \A d \in Calls \ {l} : call'[d] = call[d]
    BY <1>1 DEF Listen, Settled, Fields
  <2> QED
    BY <1>0, <1>1, <2>1, <2>2, CallMade DEF Listen, NotesBy
<1>2. ASSUME NEW c \in Closes, CloseIdle(c)
      PROVE  CallsOK'
  <2>1. \A d \in Calls \ {c} : call'[d] = call[d]
    BY <1>2 DEF CloseIdle, Settled, Fields
  <2> QED
    BY <1>0, <1>2, <2>1, CallMade DEF CloseIdle, NotesBy, TasksBy
<1>3. ASSUME NEW c \in Closes, CloseServer(c)
      PROVE  CallsOK'
  <2>1. Grown(tasks, tasks', {Task(c)})
    BY <1>3, Posted, TaskIs DEF CloseServer
  <2>2. call'[c] = "pending" /\ \A d \in Calls \ {c} : call'[d] = call[d]
    BY <1>3 DEF CloseServer, Settled, Fields
  <2> QED
    BY <1>0, <1>3, <2>1, <2>2, CallMade DEF CloseServer, NotesBy
<1>4. ASSUME NEW r \in Requests, Answer(r)
      PROVE  CallsOK'
  BY <1>4, NoCall DEF Answer, NotesBy, TasksBy
<1>5. ASSUME NEW s \in Streams, Settle(s)
      PROVE  CallsOK'
  <2>1. tasks' = tasks \/ Post("finish", s)
    BY <1>5 DEF Settle, Post
  <2>2. tasks' = tasks \/ Grown(tasks, tasks', {<<"finish", s>>})
    BY <2>1, Posted
  <2>3. {<<"finish", s>>} \in SUBSET StreamTasks
    BY DEF StreamTasks
  <2> QED
    BY <1>5, <2>2, <2>3, NoCall DEF Settle, NotesBy, TasksBy
<1>6. ASSUME NEW s \in Streams, Respond(s)
      PROVE  CallsOK'
  <2> DEFINE c == <<"respond", s>>
  <2>1. Grown(tasks, tasks', {Task(c)}) /\ c \in Calls
    BY <1>6, Posted, TaskIs DEF Respond
  <2>2. call[c] = "new" /\ call'[c] = "pending" /\ \A d \in Calls \ {c} : call'[d] = call[d]
    BY <1>6, <2>1 DEF Respond, Settled, Fields
  <2>3. UNCHANGED <<flushing, completions>>
    BY <1>6 DEF Respond
  <2> HIDE DEF c
  <2> QED
    BY <1>0, <2>1, <2>2, <2>3, CallMade DEF NotesBy
<1>7. ASSUME NEW s \in Streams, End(s)
      PROVE  CallsOK'
  <2> DEFINE c == <<"end", s>>
  <2>1. Grown(tasks, tasks', {Task(c)}) /\ c \in Calls
    BY <1>7, Posted, TaskIs DEF End
  <2>2. call[c] = "new"
    BY <1>7 DEF End, EndOK
  <2>3. call'[c] = "pending" /\ \A d \in Calls \ {c} : call'[d] = call[d]
    BY <1>7, <2>1 DEF End, Settled, Fields
  <2>4. UNCHANGED <<flushing, completions>>
    BY <1>7 DEF End
  <2> HIDE DEF c
  <2> QED
    BY <1>0, <2>1, <2>2, <2>3, <2>4, CallMade DEF NotesBy
<1>8. ASSUME NEW s \in Streams, OnClose(s)
      PROVE  CallsOK'
  <2>1. completions' = completions \/ Notify("cleanup", s)
    BY <1>8 DEF OnClose, Notify
  <2>2. completions' = completions \/ Grown(completions, completions', {<<"cleanup", s>>})
    BY <2>1, Notified
  <2>3. {<<"cleanup", s>>} \in SUBSET OtherNotes
    BY DEF OtherNotes
  <2> QED
    BY <1>8, <2>2, <2>3, NoCall DEF OnClose, NotesBy, TasksBy
<1>9. ASSUME NEW w \in Writes, Write(w)
      PROVE  CallsOK'
  <2>1. \A d \in Calls \ {w} : call'[d] = call[d]
    BY <1>9 DEF Write, Settled, Fields
  <2>2. CASE Settled(w, "pending") /\ Post("write", w) /\ UNCHANGED <<ended, cleanup, completions>>
    <3>1. call'[w] = "pending"
      BY <2>2 DEF Settled, Fields
    <3>2. Grown(tasks, tasks', {Task(w)})
      BY <2>2, Posted, TaskIs
    <3> QED
      BY <1>0, <1>9, <2>1, <2>2, <3>1, <3>2, CallMade DEF Write, NotesBy
  <2>3. CASE MarkClosed(On[w], <<>>) /\ Post("finish", On[w])
    <3>1. Grown(tasks, tasks', {<<"finish", On[w]>>})
      BY <2>3, Posted
    <3>2. {<<"finish", On[w]>>} \in SUBSET StreamTasks
      BY DEF StreamTasks
    <3>3. TasksBy(StreamTasks)
      BY <3>1, <3>2 DEF TasksBy
    <3>4. NotesBy(OtherNotes)
      BY <2>3, MarkedOnly
    <3> QED
      BY <1>0, <1>9, <2>1, <3>3, <3>4, CallMade DEF Write
  <2> QED
    BY <1>9, <2>2, <2>3 DEF Write
<1> QED
  BY <1>1, <1>2, <1>3, <1>4, <1>5, <1>6, <1>7, <1>8, <1>9 DEF JsCalls

LEMMA LoopCallsOK == ASSUME Fields, Fields', CallsOK, Loop PROVE CallsOK'
<1> USE CallTypes
<1>1. ASSUME NEW r \in Requests, RunDispatch(r)
      PROVE  CallsOK'
  <2>1. Shrunk(completions, completions', <<"dispatch", r>>)
    BY <1>1, TookNote DEF RunDispatch
  <2>2. NotesBy(OtherNotes)
    BY <2>1 DEF NotesBy, OtherNotes
  <2>3. tasks' = tasks \/ (r \in Streams /\ Post("finish", r))
    BY <1>1 DEF RunDispatch, Dispatch
  <2>4. TasksBy(StreamTasks)
    <3>1. CASE r \in Streams /\ Post("finish", r)
      <4>1. Grown(tasks, tasks', {<<"finish", r>>}) /\ {<<"finish", r>>} \in SUBSET StreamTasks
        BY <3>1, Posted DEF StreamTasks
      <4> QED
        BY <4>1 DEF TasksBy
    <3> QED
      BY <2>3, <3>1 DEF TasksBy
  <2> QED
    BY <1>1, <2>2, <2>4, NoCall DEF RunDispatch
<1>2. ASSUME NEW s \in Streams, RunCleanup(s)
      PROVE  CallsOK'
  <2>1. Shrunk(completions, completions', <<"cleanup", s>>)
    BY <1>2, TookNote DEF RunCleanup
  <2>2. NotesBy(OtherNotes) /\ TasksBy(StreamTasks)
    BY <1>2, <2>1 DEF NotesBy, OtherNotes, TasksBy, RunCleanup
  <2> QED
    BY <1>2, <2>2, NoCall DEF RunCleanup
<1>3. ASSUME NEW l \in Listens, Opened(l)
      PROVE  CallsOK'
  <2>1. Shrunk(completions, completions', <<"opened", l>>) /\ <<"opened", l>> \in NotesOf(l)
    BY <1>3, TookNote DEF Opened, NotesOf
  <2>2. \A d \in Calls \ {l} : call'[d] = call[d]
    BY <1>3 DEF Opened, Settled, Fields
  <2> QED
    BY <1>3, <2>1, <2>2, CallSettled DEF Opened
<1>4. ASSUME NEW c \in Closes, Closed(c)
      PROVE  CallsOK'
  <2>1. Shrunk(completions, completions', <<"closed", c>>) /\ <<"closed", c>> \in NotesOf(c)
    BY <1>4, TookNote DEF Closed, NotesOf
  <2>2. \A d \in Calls \ {c} : call'[d] = call[d]
    BY <1>4 DEF Closed, Settled, Fields
  <2> QED
    BY <1>4, <2>1, <2>2, CallSettled DEF Closed
<1>5. ASSUME NEW c \in Calls, SettleCall(c)
      PROVE  CallsOK'
  <2>1. Shrunk(completions, completions', <<"settle", c>>) /\ <<"settle", c>> \in NotesOf(c)
    BY <1>5, TookNote DEF SettleCall, NotesOf
  <2>2. \A d \in Calls \ {c} : call'[d] = call[d]
    BY <1>5 DEF SettleCall, Settled, Fields
  <2> QED
    BY <1>5, <2>1, <2>2, CallSettled DEF SettleCall
<1> QED
  BY <1>1, <1>2, <1>3, <1>4, <1>5 DEF Loop

\* A call leaves the io thread with Fail.
LEMMA CallFailed ==
  ASSUME Fields, CallsOK, NEW s \in Streams, NEW c \in Calls \ Closes, Fail(c, s), call' = call,
         \/ Shrunk(tasks, tasks', Task(c)) /\ flushing' = flushing
         \/ tasks' = tasks /\ c \in flushing /\ flushing' = flushing \ {c}
  PROVE  CallsOK'
<1>1. MarkClosed(s, <<<<"settle", c>>>>)
  BY DEF Fail
<1>2. PICK Z \in SUBSET OtherNotes : Grown(completions, completions', {<<"settle", c>>} \cup Z)
  BY <1>1, MarkedWith
<1>3. <<"settle", c>> \in NotesOf(c) /\ (In(tasks, Task(c)) \/ c \in flushing)
  BY DEF NotesOf, Shrunk
<1> QED
  BY <1>2, <1>3, CallServed

\* or with a completion of its own.
LEMMA CallNotified ==
  ASSUME Fields, CallsOK, NEW c \in Calls, NEW note \in {"opened", "closed", "settle"},
         Notify(note, c), call' = call,
         \/ Shrunk(tasks, tasks', Task(c)) /\ flushing' = flushing
         \/ tasks' = tasks /\ c \in flushing /\ flushing' = flushing \ {c}
  PROVE  CallsOK'
<1> DEFINE n == <<note, c>>
<1>1. Grown(completions, completions', {n} \cup {})
  <2>1. {n} \cup {} = {n}
    OBVIOUS
  <2>2. Grown(completions, completions', {n})
    BY Notified
  <2> QED
    BY <2>1, <2>2
<1>2. n \in NotesOf(c) /\ (In(tasks, Task(c)) \/ c \in flushing) /\ {} \in SUBSET OtherNotes
  BY DEF NotesOf, Shrunk
<1> HIDE DEF n
<1> QED
  BY <1>1, <1>2, CallServed

LEMMA WorkerCallsOK == ASSUME Fields, Fields', CallsOK, StepOK, Worker PROVE CallsOK'
<1> USE CallTypes
<1>1. ASSUME NEW l \in Listens, RunOpen(l)
      PROVE  CallsOK'
  <2>1. Shrunk(tasks, tasks', Task(l))
    BY <1>1, Heads, TaskIs DEF RunOpen
  <2> QED
    BY <1>1, <2>1, CallNotified DEF RunOpen
<1>2. ASSUME NEW c \in Closes, RunClose(c)
      PROVE  CallsOK'
  BY <1>2, NoCall DEF RunClose, NotesBy, TasksBy
<1>3. CASE CloseListener
  BY <1>3, NoCall DEF CloseListener, NotesBy, TasksBy
<1>4. CASE CloseDone
  <2>1. tasks # <<>> /\ Head(tasks)[1] = "close"
    BY <1>4 DEF CloseDone, Fields
  <2>2. Head(tasks) \in Tasks /\ Shrunk(tasks, tasks', Head(tasks))
    BY <1>4, <2>1, TookTask DEF CloseDone
  <2>3. PICK c \in Closes : Head(tasks) = <<"close", c>>
    BY <2>1, <2>2 DEF Tasks
  <2>4. Notify("closed", c) /\ UNCHANGED <<call, flushing>>
    BY <1>4, <2>3 DEF CloseDone
  <2>5. Shrunk(tasks, tasks', Task(c))
    BY <2>2, <2>3, TaskIs
  <2> QED
    BY <2>4, <2>5, CallNotified
<1>5. ASSUME NEW s \in Streams, Finish(s)
      PROVE  CallsOK'
  BY <1>5, NoCall DEF Finish, NotesBy, TasksBy
<1>6. ASSUME NEW s \in Streams, Finished(s)
      PROVE  CallsOK'
  <2>1. tasks # <<>> /\ step = s /\ UNCHANGED <<call, flushing>>
    BY <1>6 DEF Finished, Fields
  <2>2. Shrunk(tasks, Tail(tasks), Head(tasks))
    BY <2>1, TookTask
  <2>3. CASE Head(tasks)[1] = "end"
    <3>1. Head(tasks) = <<"end", s>>
      BY <2>1, <2>3 DEF StepOK
    <3> DEFINE c == <<"end", s>>
    <3>2. Shrunk(tasks, tasks', Task(c)) /\ c \in Calls
      <4>1. tasks' = Tail(tasks)
        BY <1>6, <2>3 DEF Finished
      <4>2. Task(c) = c /\ c \in Calls
        BY TaskIs
      <4> QED
        BY <2>2, <3>1, <4>1, <4>2
    <3>3. MarkClosed(s, <<<<"settle", c>>>>)
      BY <1>6, <2>3 DEF Finished
    <3>4. PICK Z \in SUBSET OtherNotes : Grown(completions, completions', {<<"settle", c>>} \cup Z)
      BY <3>3, MarkedWith
    <3>5. <<"settle", c>> \in NotesOf(c) /\ In(tasks, Task(c))
      BY <3>2 DEF NotesOf, Shrunk
    <3> HIDE DEF c
    <3> QED
      BY <2>1, <3>2, <3>4, <3>5, CallServed
  <2>4. CASE Head(tasks)[1] # "end"
    <3>1. MarkClosed(s, <<>>)
      BY <1>6, <2>4 DEF Finished
    <3>2. NotesBy(OtherNotes)
      BY <3>1, MarkedOnly
    <3>3. TasksBy(StreamTasks)
      <4>1. CASE Head(tasks)[1] = "close"
        BY <1>6, <4>1 DEF Finished, TasksBy
      <4>2. CASE Head(tasks)[1] # "close"
        <5>1. Head(tasks) = <<"finish", s>>
          BY <2>1, <2>4, <4>2 DEF StepOK
        <5>2. <<"finish", s>> \in StreamTasks
          BY DEF StreamTasks
        <5> QED
          BY <1>6, <2>2, <4>2, <5>1, <5>2 DEF Finished, TasksBy
      <4> QED
        BY <4>1, <4>2
    <3> QED
      BY <2>1, <3>2, <3>3, NoCall
  <2> QED
    BY <2>3, <2>4
<1>7. ASSUME NEW s \in Streams, RunRespond(s)
      PROVE  CallsOK'
  <2> DEFINE c == <<"respond", s>>
  <2>1. Shrunk(tasks, tasks', Task(c)) /\ c \in Calls \ Closes /\ call' = call
    <3>1. Running("respond", s) /\ tasks' = Tail(tasks) /\ call' = call
      BY <1>7 DEF RunRespond
    <3>2. Task(c) = c /\ c \in Calls \ Closes
      BY TaskIs
    <3> QED
      BY <3>1, <3>2, Heads
  <2>2. \/ flushing' = flushing \cup {c} /\ completions' = completions
        \/ Fail(c, s) /\ flushing' = flushing
    BY <1>7 DEF RunRespond
  <2> HIDE DEF c
  <2> QED
    BY <2>1, <2>2, CallFlushed, CallFailed
<1>8. ASSUME NEW w \in Writes, RunWrite(w)
      PROVE  CallsOK'
  <2>1. Shrunk(tasks, tasks', Task(w)) /\ w \in Calls \ Closes /\ call' = call
    BY <1>8, Heads, TaskIs DEF RunWrite
  <2>2. \/ flushing' = flushing \cup {w} /\ completions' = completions
        \/ Fail(w, On[w]) /\ flushing' = flushing
    BY <1>8 DEF RunWrite
  <2> QED
    BY <2>1, <2>2, CallFlushed, CallFailed
<1> QED
  BY <1>1, <1>2, <1>3, <1>4, <1>5, <1>6, <1>7, <1>8 DEF Worker

LEMMA CallsStep == ASSUME Fields, Fields', CallsOK, EndOK, StepOK, [Next]_vars PROVE CallsOK'
<1>1. CASE Flushes
  <2>1. PICK s \in Streams, c \in Calls \ Closes : Flushed(c, s) /\ FlushOf(c, s)
    BY <1>1, FlushIs
  <2>2. /\ call' = call /\ tasks' = tasks /\ c \in flushing /\ flushing' = flushing \ {c}
        /\ Notify("settle", c) \/ Fail(c, s)
    BY <2>1 DEF Flushed
  <2> QED
    BY <2>2, CallFailed, CallNotified
<1>2. ASSUME NEW r \in Requests, Arrive(r)
      PROVE  CallsOK'
  <2>1. NotesBy(OtherNotes)
    <3>1. CASE Notify("dispatch", r)
      <4>1. Grown(completions, completions', {<<"dispatch", r>>})
        BY <3>1, Notified
      <4>2. {<<"dispatch", r>>} \in SUBSET OtherNotes
        BY DEF OtherNotes
      <4> QED
        BY <4>1, <4>2 DEF NotesBy
    <3> QED
      BY <1>2, <3>1 DEF Arrive, NotesBy
  <2> QED
    BY <1>2, <2>1, NoCall DEF Arrive, TasksBy
<1>3. CASE UNCHANGED vars
  BY <1>3, NoCall DEF vars, TasksBy, NotesBy
<1> QED
  BY <1>1, <1>2, <1>3, JsCallsOK, LoopCallsOK, WorkerCallsOK DEF Next

-----------------------------------------------------------------------------
(* The task in progress; streams that have ended. *)

\* What JavaScript, and the completions it runs, do leaves the io thread where it is.
LEMMA JsStill == ASSUME Fields, JsCalls \/ Loop PROVE Still /\ UNCHANGED <<batch, open, listening>>
<1> USE TaskTypes, CallTypes
<1>1. ASSUME NEW l \in Listens, Listen(l)
      PROVE  Still /\ UNCHANGED <<batch, open, listening>>
  BY <1>1 DEF Listen, Post, Still, io, server
<1>2. ASSUME NEW c \in Closes, CloseIdle(c) \/ CloseServer(c)
      PROVE  Still /\ UNCHANGED <<batch, open, listening>>
  BY <1>2 DEF CloseIdle, CloseServer, Post, Still, io, server
<1>3. ASSUME NEW s \in Streams, Settle(s) \/ Respond(s) \/ End(s) \/ OnClose(s)
      PROVE  Still /\ UNCHANGED <<batch, open, listening>>
  BY <1>3 DEF Settle, Respond, End, OnClose, Post, Still, io, server
<1>4. ASSUME NEW w \in Writes, Write(w)
      PROVE  Still /\ UNCHANGED <<batch, open, listening>>
  BY <1>4 DEF Write, Post, Still, io, server
<1>5. ASSUME NEW r \in Requests, Answer(r)
      PROVE  Still /\ UNCHANGED <<batch, open, listening>>
  BY <1>5 DEF Answer, Still, io, server
<1>6. ASSUME NEW r \in Requests, RunDispatch(r)
      PROVE  Still /\ UNCHANGED <<batch, open, listening>>
  <2>1. UNCHANGED <<batch, open, listening, step>>
    BY <1>6 DEF RunDispatch, io, server
  <2>2. tasks' = tasks \/ (r \in Streams /\ tasks' = Append(tasks, <<"finish", r>>))
    BY <1>6 DEF RunDispatch, Dispatch, Post
  <2>3. r \in Streams => <<"finish", r>> \in Tasks
    OBVIOUS
  <2> QED
    BY <2>1, <2>2, <2>3 DEF Still
<1>7. CASE \/ \E s \in Streams : RunCleanup(s)
           \/ \E l \in Listens : Opened(l)
           \/ \E c \in Closes : Closed(c)
           \/ \E c \in Calls : SettleCall(c)
  BY <1>7 DEF RunCleanup, Opened, Closed, SettleCall, Still, io, server
<1> QED
  BY <1>1, <1>2, <1>3, <1>4, <1>5, <1>6, <1>7 DEF JsCalls, Loop

LEMMA StepStep == ASSUME Fields, StepOK, [Next]_vars PROVE StepOK'
<1> USE CallTypes
<1>1. CASE JsCalls \/ Loop
  <2>1. Still /\ batch' = batch
    BY <1>1, JsStill
  <2>2. step' = step /\ (step \in Streams => Head(tasks') = Head(tasks))
    BY <2>1, StillKeeps DEF Still
  <2> QED
    BY <2>1, <2>2 DEF StepOK
<1>2. CASE \/ \E l \in Listens : RunOpen(l)
           \/ \E s \in Streams : RunRespond(s)
           \/ \E w \in Writes : RunWrite(w)
  <2>1. step = "idle" /\ UNCHANGED <<step, batch>>
    BY <1>2 DEF RunOpen, RunRespond, RunWrite, io
  <2> QED
    BY <2>1 DEF StepOK
<1>3. CASE CloseListener \/ CloseDone \/ \E c \in Closes : RunClose(c)
  <2>1. /\ step' \notin Streams
        /\ step' \in {"idle", "flags"} => batch' = {}
    BY <1>3 DEF CloseListener, CloseDone, RunClose, StepOK
  <2> QED
    BY <2>1 DEF StepOK
<1>4. ASSUME NEW s \in Streams, Finish(s)
      PROVE  StepOK'
  <2>1. step' = s /\ tasks' = tasks
    BY <1>4 DEF Finish
  <2>2. CASE step = "idle" /\ (Running("finish", s) \/ Running("end", s)) /\ batch' = {s}
    BY <2>1, <2>2 DEF StepOK, Running
  <2>3. CASE step = "closing" /\ s \in batch /\ batch' = batch
    BY <2>1, <2>3 DEF StepOK, Fields
  <2> QED
    BY <1>4, <2>2, <2>3 DEF Finish
<1>5. ASSUME NEW s \in Streams, Finished(s)
      PROVE  StepOK'
  BY <1>5 DEF Finished, StepOK
<1>6. CASE Flushes \/ (\E r \in Requests : Arrive(r)) \/ UNCHANGED vars
  <2>1. UNCHANGED <<tasks, step, batch>>
    BY <1>6 DEF Flushes, Flushed, Arrive, vars, io
  <2> QED
    BY <2>1 DEF StepOK
<1> QED
  BY <1>1, <1>2, <1>3, <1>4, <1>5, <1>6 DEF Next, Worker

\* A stream that is marked closed stays so.
LEMMA EndStep == ASSUME Fields, Fields', CallsOK, EndOK, [Next]_vars PROVE EndOK'
<1> USE CallTypes
<1> DEFINE E(s) == <<"end", s>>
<1>1. ASSUME ended \subseteq ended', cleanup' \subseteq ended',
             \A s \in Streams : call'[E(s)] # "new" => call[E(s)] # "new" \/ s \in ended'
      PROVE  EndOK'
  BY <1>1 DEF EndOK
<1>2. ASSUME NEW c \in Calls, call'= [call EXCEPT ![c] = call'[c]], c \notin Ends \/ call[c] # "new"
      PROVE  \A s \in Streams : call'[E(s)] # "new" => call[E(s)] # "new"
  <2> SUFFICES ASSUME NEW s \in Streams, call'[E(s)] # "new" PROVE call[E(s)] # "new"
    OBVIOUS
  <2>1. E(s) \in Calls /\ E(s) \in Ends
    OBVIOUS
  <2> HIDE DEF E
  <2>2. E(s) # c => call'[E(s)] = call[E(s)]
    BY <1>2, <2>1 DEF Fields
  <2> QED
    BY <1>2, <2>1, <2>2
<1>3. cleanup \subseteq ended
  BY DEF EndOK
<1>4. ASSUME NEW s \in Streams, NEW ns, MarkClosed(s, ns)
      PROVE  ended \subseteq ended' /\ cleanup' \subseteq ended'
  BY <1>3, <1>4 DEF MarkClosed
<1> HIDE DEF E
<1>5. ASSUME UNCHANGED <<ended, cleanup>>
      PROVE  ended \subseteq ended' /\ cleanup' \subseteq ended'
  BY <1>3, <1>5
<1>6. ASSUME NEW c \in Calls, NEW n \in NotesOf(c), NEW note, Take(note, c), n = <<note, c>>
      PROVE  call[c] # "new"
  <2>1. In(completions, n)
    BY <1>6, TookNote DEF Shrunk
  <2> QED
    BY <2>1 DEF CallsOK, CallOK, Noted
<1>7. ASSUME NEW c \in Calls, NEW note \in {"opened", "closed", "settle"}, Take(note, c), NEW how,
             Settled(c, how),
             UNCHANGED <<ended, cleanup>>
      PROVE  EndOK'
  <2>1. call[c] # "new"
    BY <1>6, <1>7 DEF NotesOf
  <2>2. call' = [call EXCEPT ![c] = call'[c]]
    BY <1>7 DEF Settled, Fields
  <2> QED
    BY <1>1, <1>2, <1>5, <1>7, <2>1, <2>2
<1>8. CASE Loop
  <2>1. ASSUME NEW r \in Requests, RunDispatch(r)
        PROVE  EndOK'
    <3>1. ended \subseteq ended' /\ UNCHANGED <<cleanup, call>>
      BY <2>1 DEF RunDispatch, Dispatch
    <3> QED
      BY <1>1, <1>3, <3>1
  <2>2. ASSUME NEW s \in Streams, RunCleanup(s)
        PROVE  EndOK'
    BY <1>1, <1>5, <2>2 DEF RunCleanup
  <2>3. ASSUME NEW l \in Listens, Opened(l) PROVE EndOK'
    BY <1>7, <2>3 DEF Opened, conns, flags
  <2>4. ASSUME NEW c \in Closes, Closed(c) PROVE EndOK'
    BY <1>7, <2>4 DEF Closed, conns, flags
  <2>5. ASSUME NEW c \in Calls, SettleCall(c) PROVE EndOK'
    BY <1>7, <2>5 DEF SettleCall, conns, flags
  <2> QED
    BY <1>8, <2>1, <2>2, <2>3, <2>4, <2>5 DEF Loop
<1>9. ASSUME NEW c \in Calls \ Ends, NEW how, Settled(c, how),
             ended \subseteq ended' /\ cleanup' \subseteq ended'
      PROVE  EndOK'
  <2>1. call' = [call EXCEPT ![c] = call'[c]]
    BY <1>9 DEF Settled, Fields
  <2> QED
    BY <1>1, <1>2, <1>9, <2>1
<1>10. Listens \cap Ends = {} /\ Closes \cap Ends = {} /\ Writes \cap Ends = {} /\ Responds \cap Ends = {}
  BY HttpServerAssumption DEF Responds, Ends
<1>11. CASE JsCalls
  <2>1. ASSUME NEW l \in Listens, Listen(l)
        PROVE  EndOK'
    BY <1>5, <1>9, <1>10, <2>1 DEF Listen, conns, flags
  <2>2. ASSUME NEW c \in Closes, CloseIdle(c) \/ CloseServer(c)
        PROVE  EndOK'
    BY <1>5, <1>9, <1>10, <2>2 DEF CloseIdle, CloseServer, conns, flags
  <2>3. ASSUME NEW s \in Streams, Respond(s)
        PROVE  EndOK'
    BY <1>5, <1>9, <1>10, <2>3 DEF Respond
  <2>4. ASSUME NEW s \in Streams, End(s)
        PROVE  EndOK'
    <3>1. s \in ended' /\ ended \subseteq ended' /\ cleanup' \subseteq ended'
      BY <1>3, <2>4 DEF End
    <3>2. \A t \in Streams : t # s => call'[E(t)] = call[E(t)]
      BY <2>4 DEF End, Settled, E, Fields
    <3> QED
      BY <1>1, <3>1, <3>2
  <2>5. ASSUME NEW s \in Streams, Settle(s) \/ OnClose(s)
        PROVE  EndOK'
    <3>1. ended \subseteq ended' /\ UNCHANGED <<cleanup, call>>
      BY <2>5 DEF Settle, OnClose, flags
    <3> QED
      BY <1>1, <1>3, <3>1
  <2>6. ASSUME NEW w \in Writes, Write(w)
        PROVE  EndOK'
    <3>1. ended \subseteq ended' /\ cleanup' \subseteq ended'
      BY <1>4, <1>5, <2>6 DEF Write
    <3>2. \E how : Settled(w, how)
      BY <2>6 DEF Write
    <3> QED
      BY <1>9, <1>10, <3>1, <3>2
  <2>7. ASSUME NEW r \in Requests, Answer(r)
        PROVE  EndOK'
    BY <1>1, <1>5, <2>7 DEF Answer, conns, flags
  <2> QED
    BY <1>11, <2>1, <2>2, <2>3, <2>4, <2>5, <2>6, <2>7 DEF JsCalls
<1>12. ASSUME call' = call, UNCHANGED <<ended, cleanup>> \/ \E s \in Streams : \E ns : MarkClosed(s, ns)
       PROVE  EndOK'
  BY <1>1, <1>4, <1>5, <1>12
<1>13. CASE Worker
  <2>1. ASSUME NEW s \in Streams, Finish(s) \/ Finished(s) \/ RunRespond(s)
        PROVE  EndOK'
    BY <1>12, <2>1 DEF Finish, Finished, RunRespond, Fail
  <2>2. ASSUME NEW w \in Writes, RunWrite(w)
        PROVE  EndOK'
    BY <1>12, <2>2 DEF RunWrite, Fail
  <2>3. CASE CloseListener \/ CloseDone \/ (\E c \in Closes : RunClose(c)) \/ \E l \in Listens : RunOpen(l)
    BY <1>12, <2>3 DEF CloseListener, CloseDone, RunClose, RunOpen, conns, flags
  <2> QED
    BY <1>13, <2>1, <2>2, <2>3 DEF Worker
<1>14. CASE Flushes
  <2>1. PICK s \in Streams, c \in Calls \ Closes : Flushed(c, s) /\ FlushOf(c, s)
    BY <1>14, FlushIs
  <2> QED
    BY <1>12, <2>1 DEF Flushed, Fail
<1>15. CASE (\E r \in Requests : Arrive(r)) \/ UNCHANGED vars
  BY <1>12, <1>15 DEF Arrive, vars, conns, flags
<1> QED
  BY <1>8, <1>11, <1>13, <1>14, <1>15 DEF Next

-----------------------------------------------------------------------------
(* The requests. *)

\* Only the arrival of a request adds its dispatch, and only running it takes it.
PlainNotes == {<<"cleanup", s>> : s \in Streams} \cup UNION {NotesOf(c) : c \in Calls}

LEMMA PlainStill ==
  ASSUME NotesBy(PlainNotes)
  PROVE  \A r : /\ In(completions', <<"dispatch", r>>) <=> In(completions, <<"dispatch", r>>)
                /\ Once(completions, <<"dispatch", r>>) => Once(completions', <<"dispatch", r>>)
<1>1. \A r : <<"dispatch", r>> \notin PlainNotes
  BY NotesDiffer DEF PlainNotes
<1> QED
  BY <1>1 DEF NotesBy, Grown, Shrunk

\* The stream s is marked closed, with the completion of c or without any.
LEMMA MarkedPlain ==
  ASSUME Fields, NEW s \in Streams, NEW c \in Calls \ Closes,
         MarkClosed(s, <<>>) \/ MarkClosed(s, <<<<"settle", c>>>>)
  PROVE  NotesBy(PlainNotes)
<1> DEFINE n == <<"settle", c>>
           Z == {<<"cleanup", s>>} \ {<<"cleanup", d>> : d \in cleanup}
<1>1. n \in Notes /\ n[1] # "cleanup" /\ n \in PlainNotes /\ {n} \cup Z \in SUBSET PlainNotes
      /\ Z \in SUBSET PlainNotes
  BY TaskTypes DEF PlainNotes, NotesOf
<1>2. MarkClosed(s, <<>>) \/ MarkClosed(s, <<n>>)
  OBVIOUS
<1> HIDE DEF n
<1>3. Grown(completions, completions', Z) \/ Grown(completions, completions', {n} \cup Z)
  BY <1>1, <1>2, Marked
<1> HIDE DEF Z
<1> QED
  BY <1>1, <1>3 DEF NotesBy

LEMMA NotifiedPlain ==
  ASSUME Fields, NEW c \in Calls, NEW note \in {"opened", "closed", "settle"}, Notify(note, c)
  PROVE  NotesBy(PlainNotes)
<1>1. Grown(completions, completions', {<<note, c>>}) /\ {<<note, c>>} \in SUBSET PlainNotes
  BY Notified DEF PlainNotes, NotesOf
<1> QED
  BY <1>1 DEF NotesBy

LEMMA TookPlain ==
  ASSUME Fields, NEW c \in Calls, NEW note \in {"opened", "closed", "settle"}, Take(note, c)
  PROVE  NotesBy(PlainNotes)
<1>1. Shrunk(completions, completions', <<note, c>>) /\ <<note, c>> \in PlainNotes
  BY TookNote DEF PlainNotes, NotesOf
<1> QED
  BY <1>1 DEF NotesBy

Plain == NotesBy(PlainNotes) /\ \A r \in Requests : state[r] = "queued" => state'[r] = "queued"

LEMMA Plains ==
  ASSUME Fields, JsCalls \/ Loop \/ Worker \/ Flushes
  PROVE  Plain \/ \E r \in Requests : RunDispatch(r)
<1> USE CallTypes
<1>1. ASSUME completions' = completions,
             \/ state' = state
             \/ \E r \in Requests : \E x : state[r] # "queued" /\ state' = [state EXCEPT ![r] = x]
      PROVE  Plain
  BY <1>1 DEF Plain, NotesBy, Fields
<1>2. ASSUME NotesBy(PlainNotes), state' = state
      PROVE  Plain
  BY <1>2 DEF Plain
<1>3. CASE JsCalls
  <2>1. ASSUME NEW l \in Listens, Listen(l) PROVE Plain
    BY <1>1, <2>1 DEF Listen
  <2>2. ASSUME NEW c \in Closes, CloseIdle(c) \/ CloseServer(c) PROVE Plain
    BY <1>1, <2>2 DEF CloseIdle, CloseServer
  <2>3. ASSUME NEW r \in Requests, Answer(r) PROVE Plain
    BY <1>1, <2>3 DEF Answer
  <2>4. ASSUME NEW s \in Streams, Settle(s) PROVE Plain
    BY <1>1, <2>4 DEF Settle
  <2>5. ASSUME NEW s \in Streams, Respond(s) \/ End(s) PROVE Plain
    BY <1>1, <2>5 DEF Respond, End
  <2>6. ASSUME NEW s \in Streams, OnClose(s) PROVE Plain
    <3>1. completions' = completions \/ Notify("cleanup", s)
      BY <2>6 DEF OnClose, Notify
    <3>2. completions' = completions \/ Grown(completions, completions', {<<"cleanup", s>>})
      BY <3>1, Notified
    <3>3. {<<"cleanup", s>>} \in SUBSET PlainNotes
      BY DEF PlainNotes
    <3> QED
      BY <1>2, <2>6, <3>2, <3>3 DEF NotesBy, OnClose
  <2>7. ASSUME NEW w \in Writes, Write(w) PROVE Plain
    <3>1. state' = state /\ (completions' = completions \/ MarkClosed(On[w], <<>>))
      BY <2>7 DEF Write
    <3>2. On[w] \in Streams /\ w \in Calls \ Closes
      OBVIOUS
    <3> QED
      BY <1>1, <1>2, <3>1, <3>2, MarkedPlain
  <2> QED
    BY <1>3, <2>1, <2>2, <2>3, <2>4, <2>5, <2>6, <2>7 DEF JsCalls
<1>4. CASE Loop
  <2>1. ASSUME NEW s \in Streams, RunCleanup(s) PROVE Plain
    <3>1. Shrunk(completions, completions', <<"cleanup", s>>) /\ <<"cleanup", s>> \in PlainNotes
      BY <2>1, TookNote DEF RunCleanup, PlainNotes
    <3> QED
      BY <1>2, <2>1, <3>1 DEF NotesBy, RunCleanup
  <2>2. ASSUME NEW c \in Calls, SettleCall(c) \/ (c \in Closes /\ Closed(c)) \/ (c \in Listens /\ Opened(c))
        PROVE  Plain
    BY <1>2, <2>2, TookPlain DEF SettleCall, Closed, Opened
  <2> QED
    BY <1>4, <2>1, <2>2 DEF Loop
<1>5. CASE Worker
  <2>1. ASSUME NEW l \in Listens, RunOpen(l) PROVE Plain
    BY <1>2, <2>1, NotifiedPlain DEF RunOpen
  <2>2. CASE CloseListener \/ (\E c \in Closes : RunClose(c)) \/ \E s \in Streams : Finish(s)
    BY <1>1, <2>2 DEF CloseListener, RunClose, Finish
  <2>3. CASE CloseDone
    <3>1. tasks # <<>> /\ Head(tasks)[1] = "close"
      BY <2>3 DEF CloseDone, Fields
    <3>2. Head(tasks) \in Tasks
      BY <3>1, TookTask
    <3>3. Head(tasks)[2] \in Closes
      BY <3>1, <3>2 DEF Tasks
    <3> QED
      BY <1>2, <2>3, <3>3, NotifiedPlain DEF CloseDone
  <2>4. ASSUME NEW s \in Streams, Finished(s) PROVE Plain
    <3>1. state' = state /\ (MarkClosed(s, <<>>) \/ MarkClosed(s, <<<<"settle", <<"end", s>>>>>>))
      BY <2>4 DEF Finished
    <3>2. <<"end", s>> \in Calls \ Closes
      OBVIOUS
    <3> QED
      BY <1>2, <3>1, <3>2, MarkedPlain
  <2>5. ASSUME NEW s \in Streams, RunRespond(s) PROVE Plain
    <3>1. state' = state /\ (completions' = completions \/ MarkClosed(s, <<<<"settle", <<"respond", s>>>>>>))
      BY <2>5 DEF RunRespond, Fail
    <3>2. <<"respond", s>> \in Calls \ Closes
      OBVIOUS
    <3> QED
      BY <1>1, <1>2, <3>1, <3>2, MarkedPlain
  <2>6. ASSUME NEW w \in Writes, RunWrite(w) PROVE Plain
    <3>1. state' = state /\ (completions' = completions \/ MarkClosed(On[w], <<<<"settle", w>>>>))
      BY <2>6 DEF RunWrite, Fail
    <3>2. On[w] \in Streams /\ w \in Calls \ Closes
      OBVIOUS
    <3> QED
      BY <1>1, <1>2, <3>1, <3>2, MarkedPlain
  <2> QED
    BY <1>5, <2>1, <2>2, <2>3, <2>4, <2>5, <2>6 DEF Worker
<1>6. CASE Flushes
  <2>1. PICK s \in Streams, c \in Calls \ Closes : Flushed(c, s) /\ FlushOf(c, s)
    BY <1>6, FlushIs
  <2>2. state' = state /\ (Notify("settle", c) \/ MarkClosed(s, <<<<"settle", c>>>>))
    BY <2>1 DEF Flushed, Fail
  <2> QED
    BY <1>2, <2>2, NotifiedPlain, MarkedPlain
<1> QED
  BY <1>3, <1>4, <1>5, <1>6 DEF Loop

LEMMA DispatchStep == ASSUME Fields, DispatchOK, [Next]_vars PROVE DispatchOK'
<1>1. CASE Plain
  BY <1>1, PlainStill DEF Plain, DispatchOK
<1>2. ASSUME NEW r \in Requests, RunDispatch(r)
      PROVE  DispatchOK'
  <2>1. Shrunk(completions, completions', <<"dispatch", r>>)
    BY <1>2, TookNote DEF RunDispatch
  <2>2. \A x \in Requests : x # r => state'[x] = state[x]
    BY <1>2 DEF RunDispatch, Dispatch, Fields
  <2>3. ~In(completions', <<"dispatch", r>>)
    BY <2>1 DEF Shrunk, DispatchOK
  <2> QED
    BY <2>1, <2>2, <2>3 DEF Shrunk, DispatchOK
<1>3. ASSUME NEW r \in Requests, Arrive(r)
      PROVE  DispatchOK'
  <2>1. \A x \in Requests : x # r => state'[x] = state[x]
    BY <1>3 DEF Arrive, Fields
  <2>2. ~In(completions, <<"dispatch", r>>)
    BY <1>3 DEF DispatchOK, Arrive
  <2>3. CASE Notify("dispatch", r) /\ state' = [state EXCEPT ![r] = "queued"]
    <3>1. Grown(completions, completions', {<<"dispatch", r>>})
      BY <2>3, Notified
    <3>2. state'[r] = "queued"
      BY <2>3 DEF Fields
    <3> SUFFICES ASSUME NEW x \in Requests
                 PROVE  /\ In(completions', <<"dispatch", x>>) => state'[x] = "queued"
                        /\ Once(completions', <<"dispatch", x>>)
      BY DEF DispatchOK
    <3>3. /\ In(completions, <<"dispatch", x>>) => state[x] = "queued"
          /\ Once(completions, <<"dispatch", x>>)
      BY DEF DispatchOK
    <3>4. CASE x = r
      BY <2>2, <3>1, <3>2, <3>3, <3>4 DEF Grown
    <3>5. CASE x # r
      BY <2>1, <3>1, <3>3, <3>5 DEF Grown
    <3> QED
      BY <3>4, <3>5
  <2>4. CASE UNCHANGED completions
    BY <2>1, <2>2, <2>4 DEF DispatchOK
  <2> QED
    BY <1>3, <2>3, <2>4 DEF Arrive
<1>4. CASE UNCHANGED vars
  BY <1>4 DEF vars, DispatchOK
<1> QED
  BY <1>1, <1>2, <1>3, <1>4, Plains DEF Next

-----------------------------------------------------------------------------
(* The streams: nothing happens before the handler was called. *)

LEMMA VisibleStays ==
  ASSUME Fields, DispatchOK, [Next]_vars
  PROVE  \A s \in Streams : Visible(s) => Visible(s)'
<1> USE CallTypes
<1>1. CASE state' = state
  BY <1>1 DEF Visible
<1>2. ASSUME NEW r \in Requests, NEW x, state' = [state EXCEPT ![r] = x],
             state[r] \notin {"handling", "settled"} \/ x = "settled"
      PROVE  \A s \in Streams : Visible(s) => Visible(s)'
  BY <1>2 DEF Visible, Fields
<1>3. ASSUME NEW r \in Requests, RunDispatch(r)
      PROVE  \A s \in Streams : Visible(s) => Visible(s)'
  <2>1. state[r] = "queued"
    BY <1>3, TookNote DEF RunDispatch, DispatchOK, Shrunk
  <2>2. \E x : state' = [state EXCEPT ![r] = x]
    BY <1>3 DEF RunDispatch, Dispatch
  <2> QED
    BY <1>2, <2>1, <2>2
<1>4. ASSUME NEW r \in Requests, Answer(r) \/ Arrive(r)
      PROVE  \A s \in Streams : Visible(s) => Visible(s)'
  BY <1>2, <1>4 DEF Answer, Arrive
<1>5. ASSUME NEW s \in Streams, Settle(s)
      PROVE  \A d \in Streams : Visible(d) => Visible(d)'
  BY <1>2, <1>5 DEF Settle
<1>6. CASE JsCalls
  BY <1>1, <1>4, <1>5, <1>6 DEF JsCalls, Listen, CloseIdle, CloseServer, Respond, End, OnClose, Write
<1>7. CASE Loop
  BY <1>1, <1>3, <1>7 DEF Loop, RunCleanup, Opened, Closed, SettleCall
<1>8. CASE Worker
  BY <1>1, <1>8 DEF Worker, RunOpen, RunClose, CloseListener, CloseDone, Finish, Finished, RunRespond,
                    RunWrite
<1>9. CASE Flushes \/ UNCHANGED vars
  BY <1>1, <1>9 DEF Flushes, Flushed, vars
<1> QED
  BY <1>4, <1>6, <1>7, <1>8, <1>9 DEF Next

\* The task t is about stream s.
AboutTask(t, s) ==
  \/ t \in {<<"finish", s>>, <<"end", s>>, <<"respond", s>>}
  \/ \E w \in Writes : On[w] = s /\ t = <<"write", w>>

LEMMA AboutIs ==
  ASSUME NEW s
  PROVE  About(s) <=> \/ \E t : AboutTask(t, s) /\ In(tasks, t)
                      \/ <<"respond", s>> \in flushing
                      \/ \E w \in Writes : On[w] = s /\ w \in flushing
  BY DEF About, AboutTask

LEMMA AboutIsNext ==
  ASSUME NEW s
  PROVE  About(s)' <=> \/ \E t : AboutTask(t, s) /\ In(tasks', t)
                       \/ <<"respond", s>> \in flushing'
                       \/ \E w \in Writes : On[w] = s /\ w \in flushing'
  BY DEF About, AboutTask

LEMMA AboutPosted ==
  ASSUME Fields, NEW kind, NEW x, Post(kind, x), flushing' = flushing
  PROVE  \A s : About(s)' => About(s) \/ AboutTask(<<kind, x>>, s)
  BY Posted, AboutIs, AboutIsNext DEF Grown

LEMMA AboutLess ==
  ASSUME \A x : In(tasks', x) => In(tasks, x),
         \/ flushing' \subseteq flushing
         \/ \E w \in Writes : In(tasks, <<"write", w>>) /\ flushing' = flushing \cup {w}
         \/ \E s \in Streams : /\ In(tasks, <<"respond", s>>)
                               /\ flushing' = flushing \cup {<<"respond", s>>}
  PROVE  \A s \in Streams : About(s)' => About(s)
<1> SUFFICES ASSUME NEW s \in Streams, About(s)' PROVE About(s)
  OBVIOUS
<1>1. \/ \E t : AboutTask(t, s) /\ In(tasks', t)
      \/ <<"respond", s>> \in flushing'
      \/ \E w \in Writes : On[w] = s /\ w \in flushing'
  BY AboutIsNext
<1>2. CASE \E t : AboutTask(t, s) /\ In(tasks', t)
  BY <1>2, AboutIs
<1>3. CASE <<"respond", s>> \in flushing'
  <2>1. CASE <<"respond", s>> \in flushing
    BY <2>1, AboutIs
  <2>2. CASE <<"respond", s>> \notin flushing
    <3>1. <<"respond", s>> \notin Writes
      BY CallTypes
    <3>3. ASSUME NEW d \in Streams, In(tasks, <<"respond", d>>),
                 flushing' = flushing \cup {<<"respond", d>>}
          PROVE  In(tasks, <<"respond", s>>)
      <4>1. <<"respond", s>> = <<"respond", d>>
        BY <1>3, <2>2, <3>3
      <4> QED
        BY <3>3, <4>1
    <3> DEFINE c == <<"respond", s>>
    <3>4. c \in flushing' /\ c \notin flushing /\ c \notin Writes
      BY <1>3, <2>2, <3>1
    <3> HIDE DEF c
    <3>5. ~(flushing' \subseteq flushing) /\ \A w \in Writes : flushing' # flushing \cup {w}
      BY <3>4
    <3>6. \E d \in Streams : /\ In(tasks, <<"respond", d>>)
                             /\ flushing' = flushing \cup {<<"respond", d>>}
      BY <3>5
    <3>7. In(tasks, <<"respond", s>>)
      BY <3>3, <3>6
    <3> QED
      BY <3>7 DEF About
  <2> QED
    BY <2>1, <2>2
<1>4. ASSUME NEW w \in Writes, On[w] = s, w \in flushing'
      PROVE  About(s)
  <2>1. CASE w \in flushing
    BY <1>4, <2>1, AboutIs
  <2>2. CASE w \notin flushing
    <3>1. In(tasks, <<"write", w>>)
      BY <1>4, <2>2, CallTypes
    <3> QED
      BY <1>4, <3>1 DEF About
  <2> QED
    BY <2>1, <2>2
<1> QED
  BY <1>1, <1>2, <1>3, <1>4

Touched(s) == s \in cleanup \/ s \in alive \/ s \in streams \/ s \in batch \/ About(s)

Seen == \A s \in Streams : Touched(s)' => Touched(s) \/ Visible(s)'

LEMMA SeenIf ==
  ASSUME Fields, DispatchOK, SeenOK, [Next]_vars, Seen
  PROVE  SeenOK'
<1>1. \A s \in Streams : Touched(s) => Visible(s)
  BY DEF Touched, SeenOK
<1>2. \A s \in Streams : Touched(s)' => Visible(s)'
  BY <1>1, VisibleStays DEF Seen
<1> QED
  BY <1>2 DEF Touched, SeenOK

\* Nothing is posted about a stream, and none is marked; or s is.
LEMMA SeenNone ==
  ASSUME \A s \in Streams : About(s)' => About(s),
         cleanup' \subseteq cleanup, alive' \subseteq alive,
         streams' \subseteq streams, batch' \subseteq batch \cup streams
  PROVE  Seen
  BY DEF Seen, Touched

LEMMA SeenOne ==
  ASSUME NEW s \in Streams, Touched(s) \/ Visible(s)',
         \A d \in Streams : About(d)' => About(d) \/ d = s,
         cleanup' \subseteq cleanup \cup {s}, alive' \subseteq alive \cup {s},
         streams' \subseteq streams \cup {s}, batch' \subseteq batch \cup {s}
  PROVE  Seen
<1> SUFFICES ASSUME NEW d \in Streams, d # s, Touched(d)' PROVE Touched(d)
  BY DEF Seen
<1> QED
  BY DEF Touched

LEMMA SeenStep == ASSUME Fields, DispatchOK, SeenOK, StepOK, [Next]_vars PROVE SeenOK'
<1> SUFFICES Seen
  BY SeenIf
<1> USE CallTypes
<1>0. \A s \in Streams : Visible(s) => Visible(s)'
  BY VisibleStays
<1>2. ASSUME UNCHANGED <<tasks, flushing>>
      PROVE  \A s \in Streams : About(s)' => About(s)
  BY <1>2, AboutLess
<1>3. ASSUME NEW kind, NEW x, Post(kind, x), flushing' = flushing, NEW d,
             \A s \in Streams : AboutTask(<<kind, x>>, s) => s = d
      PROVE  \A s \in Streams : About(s)' => About(s) \/ s = d
  BY <1>3, AboutPosted
<1>4. CASE JsCalls
  <2>1. ASSUME NEW l \in Listens, Listen(l) PROVE Seen
    <3>1. \A s \in Streams : About(s)' => About(s)
      BY <2>1, AboutPosted DEF Listen, AboutTask
    <3> QED
      BY <1>0, SeenNone, SeenOne, <2>1, <3>1 DEF Listen, conns, flags, io
  <2>2. ASSUME NEW c \in Closes, CloseIdle(c) PROVE Seen
    BY <1>0, SeenNone, SeenOne, <1>2, <2>2 DEF CloseIdle, conns, flags, io
  <2>3. ASSUME NEW c \in Closes, CloseServer(c) PROVE Seen
    <3>1. \A s \in Streams : About(s)' => About(s)
      BY <2>3, AboutPosted DEF CloseServer, AboutTask
    <3> QED
      BY <1>0, SeenNone, SeenOne, <2>3, <3>1 DEF CloseServer, conns, flags, io
  <2>4. ASSUME NEW r \in Requests, Answer(r) PROVE Seen
    BY <1>0, SeenNone, SeenOne, <1>2, <2>4 DEF Answer, conns, flags, io
  <2>5. ASSUME NEW s \in Streams, Settle(s) \/ Respond(s) \/ End(s) PROVE Seen
    <3>1. Visible(s) /\ flushing' = flushing
          /\ (tasks' = tasks \/ \E kind \in {"finish", "respond", "end"} : Post(kind, s))
      BY <2>5 DEF Settle, Respond, End, Visible, Post
    <3>2. \A d \in Streams : About(d)' => About(d) \/ d = s
      <4>1. CASE tasks' = tasks
        BY <1>2, <3>1, <4>1
      <4>2. ASSUME NEW kind \in {"finish", "respond", "end"}, Post(kind, s)
            PROVE  \A d \in Streams : About(d)' => About(d) \/ d = s
        <5>1. \A d \in Streams : AboutTask(<<kind, s>>, d) => d = s
          BY <4>2 DEF AboutTask
        <5> QED
          BY <1>3, <3>1, <4>2, <5>1
      <4> QED
        BY <3>1, <4>1, <4>2
    <3>3. UNCHANGED <<cleanup, alive, streams, batch>>
      BY <2>5 DEF Settle, Respond, End, io
    <3> QED
      BY <1>0, SeenNone, SeenOne, <3>1, <3>2, <3>3
  <2>6. ASSUME NEW s \in Streams, OnClose(s) PROVE Seen
    BY <1>0, SeenNone, SeenOne, <1>2, <2>6 DEF OnClose, flags, io
  <2>7. ASSUME NEW w \in Writes, Write(w) PROVE Seen
    <3> DEFINE s == On[w]
    <3>1. Visible(s) /\ flushing' = flushing /\ (Post("write", w) \/ Post("finish", s)) /\ s \in Streams
      BY <2>7 DEF Write
    <3>2. \A d \in Streams : /\ AboutTask(<<"write", w>>, d) => d = s
                             /\ AboutTask(<<"finish", s>>, d) => d = s
      BY DEF AboutTask
    <3>3. \A d \in Streams : About(d)' => About(d) \/ d = s
      BY <1>3, <3>1, <3>2
    <3>4. cleanup' \subseteq cleanup \cup {s} /\ UNCHANGED <<alive, streams, batch>>
      BY <2>7 DEF Write, MarkClosed, io
    <3> HIDE DEF s
    <3> QED
      BY <1>0, SeenNone, SeenOne, <3>1, <3>3, <3>4
  <2> QED
    BY <1>4, <2>1, <2>2, <2>3, <2>4, <2>5, <2>6, <2>7 DEF JsCalls
<1>5. CASE Loop
  <2>1. ASSUME NEW r \in Requests, RunDispatch(r) PROVE Seen
    <3>1. CASE UNCHANGED <<streams, alive, tasks>>
      BY <1>0, SeenNone, SeenOne, <1>2, <2>1, <3>1 DEF RunDispatch, io
    <3>2. CASE r \in Streams /\ state' = [state EXCEPT ![r] = state'[r]]
               /\ state'[r] \in {"handling", "settled"}
               /\ streams' = streams \cup {r} /\ alive' = alive \cup {r}
               /\ (tasks' = tasks \/ Post("finish", r))
      <4>1. flushing' = flushing /\ UNCHANGED <<cleanup, batch>>
        BY <2>1 DEF RunDispatch, io
      <4>2. \A d \in Streams : AboutTask(<<"finish", r>>, d) => d = r
        BY DEF AboutTask
      <4>3. \A d \in Streams : About(d)' => About(d) \/ d = r
        BY <1>2, <1>3, <3>2, <4>1, <4>2
      <4>4. Visible(r)'
        BY <3>2 DEF Visible
      <4> QED
        BY <1>0, SeenNone, SeenOne, <3>2, <4>1, <4>3, <4>4
    <3> QED
      BY <2>1, <3>1, <3>2 DEF RunDispatch, Dispatch, Fields
  <2>2. ASSUME NEW s \in Streams, RunCleanup(s) PROVE Seen
    BY <1>0, SeenNone, SeenOne, <1>2, <2>2 DEF RunCleanup, Cleanup, io
  <2>3. CASE \/ \E l \in Listens : Opened(l)
             \/ \E c \in Closes : Closed(c)
             \/ \E c \in Calls : SettleCall(c)
    <3>1. UNCHANGED <<tasks, flushing, cleanup, alive, streams, batch>>
      BY <2>3 DEF Opened, Closed, SettleCall, conns, flags, io
    <3> QED
      BY <1>0, SeenNone, SeenOne, <1>2, <3>1
  <2> QED
    BY <1>5, <2>1, <2>2, <2>3 DEF Loop
<1>6. CASE Worker
  <2>0. \A x : tasks # <<>> /\ tasks' = Tail(tasks) /\ In(tasks', x) => In(tasks, x)
    BY TookTask DEF Shrunk
  <2>1. ASSUME NEW l \in Listens, RunOpen(l) PROVE Seen
    <3>1. \A x : In(tasks', x) => In(tasks, x)
      BY <2>0, <2>1 DEF RunOpen, Running
    <3> QED
      BY <1>0, SeenNone, SeenOne, <2>1, <3>1, AboutLess DEF RunOpen, conns, flags, io
  <2>2. ASSUME NEW c \in Closes, RunClose(c) PROVE Seen
    BY <1>0, SeenNone, SeenOne, <1>2, <2>2 DEF RunClose, flags
  <2>3. CASE CloseListener
    BY <1>0, SeenNone, SeenOne, <1>2, <2>3 DEF CloseListener, conns, flags
  <2>4. CASE CloseDone
    <3>1. \A x : In(tasks', x) => In(tasks, x)
      BY <2>0, <2>4 DEF CloseDone, Fields
    <3> QED
      BY <1>0, SeenNone, SeenOne, <2>4, <3>1, AboutLess DEF CloseDone, conns, flags, io
  <2>5. ASSUME NEW s \in Streams, Finish(s) PROVE Seen
    <3>1. Touched(s)
      BY <2>5, Heads DEF Finish, Touched, About, Shrunk
    <3>2. batch' \subseteq batch \cup {s} /\ UNCHANGED <<tasks, flushing, cleanup, alive, streams>>
      BY <2>5 DEF Finish
    <3> QED
      BY <1>0, SeenNone, SeenOne, <1>2, <3>1, <3>2
  <2>6. ASSUME NEW s \in Streams, Finished(s) PROVE Seen
    <3>1. Touched(s)
      BY <2>6 DEF Finished, StepOK, Touched
    <3>2. /\ flushing' = flushing /\ alive' = alive /\ streams' \subseteq streams
          /\ batch' \subseteq batch /\ cleanup' \subseteq cleanup \cup {s}
      BY <2>6 DEF Finished, MarkClosed
    <3>3. \A x : In(tasks', x) => In(tasks, x)
      BY <2>0, <2>6 DEF Finished, Fields
    <3> QED
      BY <1>0, SeenNone, SeenOne, <3>1, <3>2, <3>3, AboutLess
  <2>7. ASSUME NEW s \in Streams, RunRespond(s) PROVE Seen
    <3>1. In(tasks, <<"respond", s>>) /\ \A x : In(tasks', x) => In(tasks, x)
      BY <2>7, Heads DEF RunRespond, Shrunk
    <3>2. Touched(s)
      BY <3>1 DEF Touched, About
    <3>3. \A d \in Streams : About(d)' => About(d)
      BY <2>7, <3>1, AboutLess DEF RunRespond
    <3>4. /\ alive' = alive /\ streams' \subseteq streams
          /\ batch' \subseteq batch /\ cleanup' \subseteq cleanup \cup {s}
      BY <2>7 DEF RunRespond, Fail, MarkClosed, io
    <3> QED
      BY <1>0, SeenNone, SeenOne, <3>2, <3>3, <3>4
  <2>8. ASSUME NEW w \in Writes, RunWrite(w) PROVE Seen
    <3>1. In(tasks, <<"write", w>>) /\ \A x : In(tasks', x) => In(tasks, x)
      BY <2>8, Heads DEF RunWrite, Shrunk
    <3>2. Touched(On[w]) /\ On[w] \in Streams
      BY <3>1 DEF Touched, About
    <3>3. \A d \in Streams : About(d)' => About(d)
      BY <2>8, <3>1, AboutLess DEF RunWrite
    <3>4. /\ alive' = alive /\ streams' \subseteq streams
          /\ batch' \subseteq batch /\ cleanup' \subseteq cleanup \cup {On[w]}
      BY <2>8 DEF RunWrite, Fail, MarkClosed, io
    <3> QED
      BY <1>0, SeenNone, SeenOne, <3>2, <3>3, <3>4
  <2> QED
    BY <1>6, <2>1, <2>2, <2>3, <2>4, <2>5, <2>6, <2>7, <2>8 DEF Worker
<1>7. CASE Flushes
  <2>1. PICK s \in Streams, c \in Calls \ Closes : Flushed(c, s) /\ FlushOf(c, s)
    BY <1>7, FlushIs
  <2>2. c \in flushing /\ flushing' = flushing \ {c} /\ tasks' = tasks
    BY <2>1 DEF Flushed
  <2>3. Touched(s)
    BY <2>1, <2>2 DEF FlushOf, Touched, About
  <2>4. /\ alive' = alive /\ streams' \subseteq streams
        /\ batch' \subseteq batch /\ cleanup' \subseteq cleanup \cup {s}
    BY <2>1 DEF Flushed, Fail, MarkClosed, io
  <2>5. \A d \in Streams : About(d)' => About(d)
    BY <2>2, AboutLess
  <2> QED
    BY <1>0, SeenNone, SeenOne, <2>3, <2>4, <2>5
<1>8. CASE (\E r \in Requests : Arrive(r)) \/ UNCHANGED vars
  <2>1. UNCHANGED <<tasks, flushing, cleanup, alive, streams, batch>>
    BY <1>8 DEF Arrive, vars, conns, flags, io
  <2> QED
    BY <1>0, SeenNone, SeenOne, <1>2, <2>1
<1> QED
  BY <1>4, <1>5, <1>6, <1>7, <1>8 DEF Next

-----------------------------------------------------------------------------
(* The response that a client receives. *)

Formed(q) ==
  \A i \in DOMAIN q : /\ q[i] \in {"head", "whole"} <=> i = 1
                      /\ q[i] \in {"whole", "end"} => i = Len(q)

LEMMA FormedAppend ==
  ASSUME NEW S, NEW q \in Seq(S), Formed(q), NEW what,
         \/ q = <<>> /\ what \in {"head", "whole"}
         \/ q # <<>> /\ q[Len(q)] \notin {"whole", "end"} /\ what \notin {"head", "whole"}
  PROVE  /\ Formed(Append(q, what)) /\ Append(q, what) # <<>>
         /\ Append(q, what)[Len(Append(q, what))] = what
<1> DEFINE p == Append(q, what)
           n == Len(q) + 1
<1>1. /\ DOMAIN p = DOMAIN q \cup {n} /\ Len(p) = n /\ n \in Nat /\ p # <<>> /\ p[n] = what
      /\ \A i \in DOMAIN q : p[i] = q[i] /\ i # n /\ i \in Nat /\ (i = Len(q) <=> i + 1 = n)
      /\ q = <<>> => n = 1 /\ DOMAIN q = {}
      /\ q # <<>> => n # 1
  <2>1. Len(p) = n /\ n \in Nat /\ n # 0 /\ p[n] = what
    OBVIOUS
  <2>2. DOMAIN p = DOMAIN q \cup {n}
    OBVIOUS
  <2>3. \A i \in DOMAIN q : p[i] = q[i]
    OBVIOUS
  <2>4. \A i \in DOMAIN q : i # n /\ i \in Nat /\ (i = Len(q) <=> i + 1 = n)
    OBVIOUS
  <2>5. /\ q = <<>> => n = 1 /\ DOMAIN q = {}
        /\ q # <<>> => n # 1
    OBVIOUS
  <2>6. p # <<>>
    <3>1. p = <<>> => Len(p) = 0
      OBVIOUS
    <3> QED
      BY <2>1, <3>1
  <2> QED
    BY <2>1, <2>2, <2>3, <2>4, <2>5, <2>6
<1>2. \A i \in DOMAIN q : q[i] \in {"whole", "end"} => i = Len(q)
  BY DEF Formed
<1>3. \A i \in DOMAIN q : q[i] \notin {"whole", "end"}
  BY <1>1, <1>2
<1> HIDE DEF p, n
<1>4. Formed(p)
  BY <1>1, <1>3 DEF Formed
<1> QED
  BY <1>1, <1>4 DEF p

\* The response of stream s.
WireAt(s) ==
  /\ Formed(wire[s])
  /\ s \in resp => wire[s] # <<>> /\ wire[s][Len(wire[s])] \notin {"whole", "end"}
  /\ wire[s] # <<>> => s \in responded
  /\ In(tasks, <<"respond", s>>) => wire[s] = <<>> /\ s \in responded

LEMMA WireIs == WireOK /\ WireWellFormed <=> \A s \in Streams : WireAt(s)
  BY DEF WireOK, WireWellFormed, WireAt, Formed

LEMMA WireIsNext == (WireOK /\ WireWellFormed)' <=> \A s \in Streams : WireAt(s)'
  BY DEF WireOK, WireWellFormed, WireAt, Formed

\* Nothing is sent to the client of s.
LEMMA WireSilent ==
  ASSUME NEW s, WireAt(s), wire'[s] = wire[s], s \in resp' => s \in resp,
         s \in responded => s \in responded',
         In(tasks', <<"respond", s>>) => In(tasks, <<"respond", s>>)
  PROVE  WireAt(s)'
  BY DEF WireAt

LEMMA SentTo ==
  ASSUME Fields, NEW s \in Streams, NEW what, Send(s, what)
  PROVE  wire'[s] = Append(wire[s], what) /\ \A d \in Streams \ {s} : wire'[d] = wire[d]
  BY DEF Fields, Send

LEMMA WireTyped ==
  ASSUME Fields, NEW s \in Streams
  PROVE  wire[s] \in Seq({"head", "end", "whole"} \cup Writes)
  BY DEF Fields

\* Only respond() posts a response.
LEMMA RespondPosts ==
  ASSUME Fields, [Next]_vars, NEW s \in Streams, In(tasks', <<"respond", s>>)
  PROVE  In(tasks, <<"respond", s>>) \/ Respond(s)
<1> DEFINE t == <<"respond", s>>
<1>1. ASSUME NEW kind, NEW x, Post(kind, x), kind # "respond"
      PROVE  In(tasks, t)
  <2>1. <<kind, x>> # t
    BY <1>1
  <2> QED
    BY <1>1, <2>1, Posted DEF Grown
<1>2. ASSUME tasks # <<>>, tasks' = Tail(tasks)
      PROVE  In(tasks, t)
  BY <1>2, TookTask DEF Shrunk
<1>3. ASSUME NEW d, Post("respond", d), d # s
      PROVE  In(tasks, t)
  <2>1. <<"respond", d>> # t
    BY <1>3
  <2> QED
    BY <1>3, <2>1, Posted DEF Grown
<1> HIDE DEF t
<1>4. ASSUME tasks' = tasks PROVE In(tasks, t)
  BY <1>4 DEF t
<1>5. CASE JsCalls
  BY <1>1, <1>3, <1>4, <1>5 DEF JsCalls, Listen, CloseIdle, CloseServer, Answer, Settle, Respond, End,
                          OnClose, Write, Post, t
<1>6. CASE Loop
  BY <1>1, <1>4, <1>6 DEF Loop, RunDispatch, Dispatch, RunCleanup, Opened, Closed, SettleCall, t
<1>7. CASE Worker
  <2>1. tasks' = tasks \/ (tasks # <<>> /\ tasks' = Tail(tasks))
    <3>1. ASSUME NEW x \in Streams, Finished(x)
          PROVE  tasks' = tasks \/ (tasks # <<>> /\ tasks' = Tail(tasks))
      BY <3>1, CallTypes DEF Finished, Fields
    <3>2. CASE CloseDone
      BY <3>2 DEF CloseDone, Fields
    <3> QED
      BY <1>7, <3>1, <3>2 DEF Worker, RunOpen, RunClose, CloseListener, Finish, RunRespond, RunWrite,
                              Running
  <2> QED
    BY <1>2, <1>4, <2>1 DEF t
<1>8. CASE Flushes \/ (\E r \in Requests : Arrive(r)) \/ UNCHANGED vars
  BY <1>4, <1>8 DEF Flushes, Flushed, Arrive, vars, t
<1> QED
  BY <1>5, <1>6, <1>7, <1>8 DEF Next

LEMMA WireStep ==
  ASSUME Fields, CallsOK, WireOK, WireWellFormed, [Next]_vars
  PROVE  (WireOK /\ WireWellFormed)'
<1> USE CallTypes
<1> SUFFICES ASSUME NEW d \in Streams PROVE WireAt(d)'
  BY WireIsNext
<1>0. WireAt(d)
  BY WireIs
<1>1. In(tasks', <<"respond", d>>) => In(tasks, <<"respond", d>>) \/ Respond(d)
  BY RespondPosts
<1>2. CASE Respond(d)
  <2>1. /\ d \notin responded /\ responded' = responded \cup {d} /\ UNCHANGED <<wire, resp>>
    BY <1>2 DEF Respond
  <2> QED
    BY <1>0, <2>1 DEF WireAt
<1>3. ASSUME ~Respond(d), wire'[d] = wire[d], d \in resp' => d \in resp, responded \subseteq responded'
      PROVE  WireAt(d)'
  BY <1>0, <1>1, <1>3, WireSilent
<1>4. ASSUME NEW s \in Streams, Finish(s)
      PROVE  WireAt(d)'
  <2>1. resp' = resp \ {s} /\ responded \subseteq responded' /\ tasks' = tasks
    BY <1>4 DEF Finish, Conclude
  <2>2. CASE d # s
    <3>1. wire'[d] = wire[d]
      BY <1>4, <2>2, SentTo DEF Finish, Conclude
    <3> QED
      BY <1>0, <2>1, <3>1, WireSilent
  <2>3. CASE d = s /\ d \in resp
    <3>1. wire'[d] = Append(wire[d], "end") /\ d \in responded'
      BY <1>0, <1>4, <2>1, <2>3, SentTo DEF Finish, Conclude, WireAt
    <3>2. Formed(wire'[d])
      BY <1>0, <2>3, <3>1, FormedAppend, WireTyped DEF WireAt
    <3>3. ~In(tasks', <<"respond", d>>) /\ d \notin resp'
      BY <1>0, <2>1, <2>3 DEF WireAt
    <3> QED
      BY <3>1, <3>2, <3>3 DEF WireAt
  <2>4. CASE d = s /\ d \notin resp /\ d \notin responded
    <3>1. wire'[d] = Append(wire[d], "whole") /\ d \in responded'
      BY <1>4, <2>4, SentTo DEF Finish, Conclude
    <3>2. Formed(wire'[d])
      BY <1>0, <2>4, <3>1, FormedAppend, WireTyped DEF WireAt
    <3>3. ~In(tasks', <<"respond", d>>) /\ d \notin resp'
      BY <1>0, <2>1, <2>4 DEF WireAt
    <3> QED
      BY <3>1, <3>2, <3>3 DEF WireAt
  <2>5. CASE d = s /\ d \notin resp /\ d \in responded
    <3>1. wire' = wire
      BY <1>4, <2>5 DEF Finish, Conclude
    <3> QED
      BY <1>0, <2>1, <3>1, WireSilent
  <2> QED
    BY <2>2, <2>3, <2>4, <2>5
<1>5. ASSUME NEW s \in Streams, RunRespond(s)
      PROVE  WireAt(d)'
  <2>1. /\ In(tasks, <<"respond", s>>) /\ responded' = responded
        /\ In(tasks', <<"respond", d>>) => In(tasks, <<"respond", d>>)
    BY <1>5, Heads DEF RunRespond, Shrunk
  <2>2. CASE UNCHANGED <<resp, flushing, wire>>
    BY <1>0, <2>1, <2>2, WireSilent
  <2>3. CASE resp' = resp \cup {s} /\ Send(s, "head")
    <3>1. CASE d # s
      BY <1>0, <2>1, <2>3, <3>1, SentTo, WireSilent
    <3>2. CASE d = s
      <4>1. wire'[d] = Append(wire[d], "head") /\ wire[d] = <<>> /\ d \in responded
        BY <1>0, <2>1, <2>3, <3>2, SentTo DEF WireAt
      <4>2. Formed(wire'[d]) /\ wire'[d] # <<>> /\ wire'[d][Len(wire'[d])] = "head"
        <5> DEFINE q == wire[d]
        <5>1. q \in Seq({"head", "end", "whole"} \cup Writes) /\ Formed(q) /\ q = <<>>
          BY <1>0, <4>1, WireTyped DEF WireAt
        <5> HIDE DEF q
        <5>2. /\ Formed(Append(q, "head")) /\ Append(q, "head") # <<>>
              /\ Append(q, "head")[Len(Append(q, "head"))] = "head"
          BY <5>1, FormedAppend
        <5> QED
          BY <4>1, <5>2 DEF q
      <4>3. ~In(tasks', <<"respond", d>>)
        <5>1. Once(tasks, Task(<<"respond", d>>))
          BY DEF CallsOK, CallOK
        <5>2. Task(<<"respond", d>>) = <<"respond", d>>
          BY TaskIs
        <5> QED
          BY <1>5, <3>2, <5>1, <5>2, Heads DEF RunRespond, Shrunk
      <4> QED
        BY <2>1, <4>1, <4>2, <4>3 DEF WireAt
    <3> QED
      BY <3>1, <3>2
  <2> QED
    BY <1>5, <2>2, <2>3 DEF RunRespond
<1>6. ASSUME NEW w \in Writes, RunWrite(w)
      PROVE  WireAt(d)'
  <2>1. /\ UNCHANGED <<resp, responded>>
        /\ In(tasks', <<"respond", d>>) => In(tasks, <<"respond", d>>)
    BY <1>6, Heads DEF RunWrite, Shrunk
  <2>2. CASE wire'[d] = wire[d]
    BY <1>0, <2>1, <2>2, WireSilent
  <2>3. CASE wire'[d] # wire[d]
    <3>1. d = On[w] /\ d \in resp /\ wire'[d] = Append(wire[d], w)
      BY <1>6, <2>3, SentTo DEF RunWrite
    <3>2. Formed(wire'[d]) /\ wire'[d] # <<>> /\ wire'[d][Len(wire'[d])] = w
      <4> DEFINE q == wire[d]
      <4>1. /\ q \in Seq({"head", "end", "whole"} \cup Writes) /\ Formed(q)
            /\ q # <<>> /\ q[Len(q)] \notin {"whole", "end"} /\ w \notin {"head", "whole"}
        BY <1>0, <3>1, WireTyped DEF WireAt
      <4> HIDE DEF q
      <4>2. /\ Formed(Append(q, w)) /\ Append(q, w) # <<>>
            /\ Append(q, w)[Len(Append(q, w))] = w
        BY <4>1, FormedAppend
      <4> QED
        BY <3>1, <4>2 DEF q
    <3> QED
      BY <1>0, <2>1, <3>1, <3>2 DEF WireAt
  <2> QED
    BY <2>2, <2>3
<1>7. ASSUME UNCHANGED <<wire, resp>>, responded \subseteq responded'
      PROVE  WireAt(d)'
  BY <1>2, <1>3, <1>7
<1>8. CASE JsCalls
  BY <1>7, <1>8 DEF JsCalls, Listen, CloseIdle, CloseServer, Answer, Settle, Respond, End, OnClose,
                    Write, conns, flags
<1>9. CASE Loop
  BY <1>7, <1>9 DEF Loop, RunDispatch, RunCleanup, Opened, Closed, SettleCall, conns, flags
<1>10. CASE Worker
  <2>1. CASE (\E l \in Listens : RunOpen(l)) \/ (\E c \in Closes : RunClose(c)) \/ CloseListener
             \/ CloseDone \/ \E s \in Streams : Finished(s)
    BY <1>7, <2>1 DEF RunOpen, RunClose, CloseListener, CloseDone, Finished, conns, flags
  <2> QED
    BY <1>4, <1>5, <1>6, <1>10, <2>1 DEF Worker
<1>11. CASE Flushes \/ (\E r \in Requests : Arrive(r)) \/ UNCHANGED vars
  BY <1>7, <1>11 DEF Flushes, Flushed, Arrive, vars, conns, flags
<1> QED
  BY <1>8, <1>9, <1>10, <1>11 DEF Next

-----------------------------------------------------------------------------
(* Streams that are open, callbacks that are due. *)

LEMMA ForgottenStep ==
  ASSUME Fields, StepOK, NoForgottenStream, [Next]_vars
  PROVE  NoForgottenStream'
<1>1. ASSUME NEW S, streams \ S \subseteq streams' \cup batch', batch \ S \subseteq batch',
             ended \cup S \subseteq ended', alive' \subseteq alive \cup streams'
      PROVE  NoForgottenStream'
  BY <1>1 DEF NoForgottenStream
<1>2. ASSUME UNCHANGED <<streams, batch, alive>>, ended \subseteq ended'
      PROVE  NoForgottenStream'
  BY <1>2 DEF NoForgottenStream
<1>3. ASSUME NEW s \in Streams, NEW c, Fail(c, s), UNCHANGED <<batch, alive>>
      PROVE  NoForgottenStream'
  BY <1>1, <1>3 DEF Fail, MarkClosed
<1>4. CASE JsCalls
  BY <1>2, <1>4 DEF JsCalls, Listen, CloseIdle, CloseServer, Answer, Settle, Respond, End, OnClose,
                    Write, MarkClosed, conns, flags, io
<1>5. ASSUME NEW r \in Requests, RunDispatch(r)
      PROVE  NoForgottenStream'
  <2>1. /\ batch' = batch /\ ended \subseteq ended' /\ streams \subseteq streams'
        /\ alive' \subseteq alive \cup streams'
    BY <1>5 DEF RunDispatch, Dispatch, io
  <2> QED
    BY <1>1, <2>1
<1>6. ASSUME NEW s \in Streams, RunCleanup(s)
      PROVE  NoForgottenStream'
  BY <1>6 DEF RunCleanup, Cleanup, io, NoForgottenStream
<1>7. CASE Loop
  BY <1>2, <1>5, <1>6, <1>7 DEF Loop, Opened, Closed, SettleCall, conns, flags, io
<1>8. CASE Worker
  <2>1. ASSUME NEW c \in Closes, RunClose(c)
        PROVE  NoForgottenStream'
    BY <2>1 DEF RunClose, flags, StepOK, NoForgottenStream
  <2>2. ASSUME NEW s \in Streams, Finish(s)
        PROVE  NoForgottenStream'
    BY <2>2 DEF Finish, StepOK, NoForgottenStream
  <2>3. ASSUME NEW s \in Streams, Finished(s)
        PROVE  NoForgottenStream'
    BY <2>3 DEF Finished, MarkClosed, NoForgottenStream
  <2>4. ASSUME NEW s \in Streams, RunRespond(s)
        PROVE  NoForgottenStream'
    BY <1>2, <1>3, <2>4 DEF RunRespond, io
  <2>5. ASSUME NEW w \in Writes, RunWrite(w)
        PROVE  NoForgottenStream'
    BY <1>2, <1>3, <2>5, CallTypes DEF RunWrite, io
  <2>6. CASE (\E l \in Listens : RunOpen(l)) \/ CloseListener \/ CloseDone
    BY <1>2, <2>6 DEF RunOpen, CloseListener, CloseDone, conns, flags, io
  <2> QED
    BY <1>8, <2>1, <2>2, <2>3, <2>4, <2>5, <2>6 DEF Worker
<1>9. CASE Flushes
  <2>1. PICK s \in Streams, c \in Calls \ Closes : Flushed(c, s) /\ FlushOf(c, s)
    BY <1>9, FlushIs
  <2> QED
    BY <1>2, <1>3, <2>1 DEF Flushed, io
<1>10. CASE (\E r \in Requests : Arrive(r)) \/ UNCHANGED vars
  BY <1>2, <1>10 DEF Arrive, vars, conns, flags, io
<1> QED
  BY <1>4, <1>7, <1>8, <1>9, <1>10 DEF Next

\* A step that opens no stream and does not touch the server.
LEMMA ClosingKept ==
  ASSUME ClosingOK, CloseFindsStreams, UNCHANGED <<listening, closed, late, step, batch>>,
         InCloseServer' => InCloseServer, alive' \subseteq alive, ended \subseteq ended',
         \A r \in Requests : state'[r] = "queued" => state[r] = "queued" \/ listening
  PROVE  ClosingOK' /\ CloseFindsStreams'
  BY DEF ClosingOK, CloseFindsStreams

LEMMA ClosingJs ==
  ASSUME Fields, Fields', StepOK, DispatchOK, ClosingOK, CloseFindsStreams, JsCalls \/ Loop
  PROVE  ClosingOK' /\ CloseFindsStreams'
<1>1. Still /\ UNCHANGED <<batch, listening, step>>
  BY JsStill DEF Still
<1>2. InCloseServer' <=> InCloseServer
  BY <1>1, HeadStays DEF Fields, InCloseServer, Still
<1>3. ASSUME UNCHANGED <<closed, late>>, alive' \subseteq alive, ended \subseteq ended',
             \A r \in Requests : state'[r] = "queued" => state[r] = "queued"
      PROVE  ClosingOK' /\ CloseFindsStreams'
  BY <1>1, <1>2, <1>3, ClosingKept
<1>4. ASSUME NEW c \in Closes, CloseIdle(c)
      PROVE  ClosingOK' /\ CloseFindsStreams'
  <2>1. /\ closed' /\ UNCHANGED <<alive, ended, late>>
        /\ closed \/ ~listening
    BY <1>4 DEF CloseIdle, conns, flags
  <2>2. step = "flags" => InCloseServer /\ batch = {}
    BY DEF Fields, StepOK, InCloseServer
  <2>3. CloseFindsStreams'
    BY <2>1, <2>2 DEF ClosingOK, CloseFindsStreams
  <2>4. ClosingOK'
    BY <1>1, <1>2, <2>1 DEF ClosingOK
  <2> QED
    BY <2>3, <2>4
<1>5. ASSUME NEW r \in Requests, RunDispatch(r)
      PROVE  ClosingOK' /\ CloseFindsStreams'
  <2>1. state[r] = "queued"
    <3>1. In(completions, <<"dispatch", r>>)
      BY <1>5, TookNote DEF RunDispatch, Shrunk, In
    <3> QED
      BY <3>1 DEF DispatchOK
  <2>2. /\ closed' = closed /\ ended \subseteq ended'
        /\ closed => alive' = alive
        /\ late' = IF InCloseServer THEN late \cup (alive' \ alive) ELSE late
    BY <1>5 DEF RunDispatch, Dispatch, server
  <2>3. ClosingOK'
    BY <1>1, <1>2, <2>1, <2>2 DEF ClosingOK
  <2>4. CloseFindsStreams'
    BY <2>2 DEF CloseFindsStreams
  <2> QED
    BY <2>3, <2>4
<1>6. ASSUME NEW r \in Requests, Answer(r)
      PROVE  ClosingOK' /\ CloseFindsStreams'
  BY <1>3, <1>6 DEF Answer, Fields, conns, flags, server, history
<1>7. ASSUME NEW s \in Streams, Settle(s)
      PROVE  ClosingOK' /\ CloseFindsStreams'
  BY <1>3, <1>7, CallTypes DEF Settle, Fields, server, history
<1>8. ASSUME NEW w \in Writes, Write(w)
      PROVE  ClosingOK' /\ CloseFindsStreams'
  BY <1>3, <1>8 DEF Write, MarkClosed, server, history
<1>9. CASE JsCalls
  BY <1>3, <1>4, <1>6, <1>7, <1>8, <1>9
     DEF JsCalls, Listen, CloseServer, Respond, End, OnClose, server, conns, flags, history
<1>10. CASE Loop
  BY <1>3, <1>5, <1>10
     DEF Loop, RunCleanup, Cleanup, Opened, Closed, SettleCall, server, conns, flags, history
<1> QED
  BY <1>9, <1>10

LEMMA ClosingStep ==
  ASSUME Fields, Fields', StepOK, DispatchOK, ServerOK, NoForgottenStream, ClosingOK,
         CloseFindsStreams, [Next]_vars
  PROVE  ClosingOK' /\ CloseFindsStreams'
<1>1. ASSUME step = "idle", step' = step, UNCHANGED <<listening, closed, late, alive, batch>>,
             ended \subseteq ended',
             \A r \in Requests : state'[r] = "queued" => state[r] = "queued" \/ listening
      PROVE  ClosingOK' /\ CloseFindsStreams'
  BY <1>1, ClosingKept DEF InCloseServer
<1>2. ASSUME NEW l \in Listens, RunOpen(l)
      PROVE  ClosingOK' /\ CloseFindsStreams'
  BY <1>2 DEF RunOpen, ClosingOK, CloseFindsStreams, InCloseServer, conns, flags, io, history
<1>3. ASSUME NEW c \in Closes, RunClose(c)
      PROVE  ClosingOK' /\ CloseFindsStreams'
  BY <1>3 DEF RunClose, ClosingOK, CloseFindsStreams, NoForgottenStream, StepOK, server, flags,
              history
<1>4. CASE CloseListener
  BY <1>4 DEF CloseListener, ClosingOK, CloseFindsStreams, InCloseServer, conns, flags, history
<1>5. CASE CloseDone
  <2>1. InCloseServer /\ batch = {}
    BY <1>5 DEF CloseDone, Fields, StepOK, InCloseServer
  <2> QED
    BY <1>5, <2>1 DEF CloseDone, ClosingOK, CloseFindsStreams, InCloseServer, conns, flags, history
<1>6. ASSUME NEW s \in Streams, Finish(s)
      PROVE  ClosingOK' /\ CloseFindsStreams'
  <2>1. UNCHANGED <<listening, closed, state, alive, ended, late, tasks>>
        /\ step' = s /\ step \in {"idle", "closing"}
    BY <1>6 DEF Finish, server, history
  <2>2. InCloseServer' => InCloseServer /\ batch' = batch
    BY <1>6, <2>1 DEF Finish, Running, InCloseServer, Fields
  <2> QED
    BY <2>1, <2>2 DEF ClosingOK, CloseFindsStreams
<1>7. ASSUME NEW s \in Streams, Finished(s)
      PROVE  ClosingOK' /\ CloseFindsStreams'
  <2>1. /\ UNCHANGED <<listening, closed, state, alive, late>> /\ ended' = ended \cup {s}
        /\ batch' = batch \ {s} /\ step = s /\ s \notin {"idle", "flags"}
    BY <1>7, CallTypes DEF Finished, MarkClosed, server, history
  <2>2. InCloseServer' => InCloseServer
    BY <1>7, <2>1 DEF Finished, InCloseServer
  <2> QED
    BY <2>1, <2>2 DEF ClosingOK, CloseFindsStreams
<1>8. ASSUME NEW s \in Streams, RunRespond(s)
      PROVE  ClosingOK' /\ CloseFindsStreams'
  BY <1>1, <1>8 DEF RunRespond, Fail, MarkClosed, server, io, history
<1>9. ASSUME NEW w \in Writes, RunWrite(w)
      PROVE  ClosingOK' /\ CloseFindsStreams'
  BY <1>1, <1>9 DEF RunWrite, Fail, MarkClosed, server, io, history
<1>10. CASE Worker
  BY <1>2, <1>3, <1>4, <1>5, <1>6, <1>7, <1>8, <1>9, <1>10 DEF Worker
<1>11. CASE Flushes
  <2>1. PICK s \in Streams, c \in Calls \ Closes : Flushed(c, s) /\ FlushOf(c, s)
    BY <1>11, FlushIs
  <2> QED
    BY <1>1, <2>1 DEF Flushed, Fail, MarkClosed, server, io, history
<1>12. ASSUME NEW r \in Requests, Arrive(r)
       PROVE  ClosingOK' /\ CloseFindsStreams'
  BY <1>1, <1>12 DEF Arrive, Fields, ServerOK, server, conns, flags, io, history
<1>13. CASE UNCHANGED vars
  BY <1>13, ClosingKept DEF InCloseServer, vars, server, conns, flags, io, history
<1> QED
  BY <1>10, <1>11, <1>12, <1>13, ClosingJs DEF Next

\* The callback of stream s is made, or will be.
DueAt(s) ==
  s \in cleanup /\ ~In(completions, <<"cleanup", s>>) => onClose[s] # "set" /\ s \notin alive

LEMMA DueIs == ASSUME Fields PROVE NoCallbackLost <=> \A s \in Streams : DueAt(s)
  BY DEF NoCallbackLost, DueAt, Fields

LEMMA DueIsNext == ASSUME Fields' PROVE NoCallbackLost' <=> \A s \in Streams : DueAt(s)'
  BY DEF NoCallbackLost, DueAt, Fields

LEMMA DueStays ==
  ASSUME Fields, NEW S, cleanup' \subseteq cleanup \cup S, onClose' = onClose, alive' = alive,
         \A s \in Streams : In(completions, <<"cleanup", s>>) => In(completions', <<"cleanup", s>>),
         \A s \in S : s \in cleanup \/ In(completions', <<"cleanup", s>>)
  PROVE  \A s \in Streams : DueAt(s) => DueAt(s)'
<1> SUFFICES ASSUME NEW s \in Streams, DueAt(s) PROVE DueAt(s)'
  OBVIOUS
<1> DEFINE cs == <<"cleanup", s>>
<1>1. /\ In(completions, cs) => In(completions', cs)
      /\ s \in S => s \in cleanup \/ In(completions', cs)
      /\ s \in cleanup /\ ~In(completions, cs) => onClose[s] # "set" /\ s \notin alive
  BY DEF DueAt
<1> HIDE DEF cs
<1>2. s \in cleanup' /\ ~In(completions', cs) => onClose'[s] # "set" /\ s \notin alive'
  BY <1>1
<1> QED
  BY <1>2 DEF DueAt, cs

LEMMA GrownIn ==
  ASSUME NEW q, NEW p, NEW Y, Grown(q, p, Y)
  PROVE  /\ \A x : In(q, x) => In(p, x)
         /\ \A x \in Y : In(p, x)
  BY DEF Grown

LEMMA NotifiedIn ==
  ASSUME Fields, NEW note, NEW x, Notify(note, x)
  PROVE  /\ In(completions', <<note, x>>)
         /\ \A y : In(completions, y) => In(completions', y)
<1> DEFINE n == <<note, x>>
<1>1. Grown(completions, completions', {n})
  BY Notified
<1> HIDE DEF n
<1>2. In(completions', n) /\ \A y : In(completions, y) => In(completions', y)
  BY <1>1, GrownIn
<1> QED
  BY <1>2 DEF n

\* A stream is marked closed.
LEMMA DueMarked ==
  ASSUME Fields, NEW s \in Streams, NEW c \in Calls \ Closes,
         MarkClosed(s, <<>>) \/ MarkClosed(s, <<<<"settle", c>>>>), onClose' = onClose, alive' = alive
  PROVE  \A d \in Streams : DueAt(d) => DueAt(d)'
<1> DEFINE n == <<"settle", c>>
           Z == {<<"cleanup", s>>} \ {<<"cleanup", d>> : d \in cleanup}
<1>1. n \in Notes /\ n[1] # "cleanup"
  BY TaskTypes
<1>2. MarkClosed(s, <<>>) \/ MarkClosed(s, <<n>>)
  OBVIOUS
<1>3. s \in cleanup \/ <<"cleanup", s>> \in Z
  OBVIOUS
<1> HIDE DEF n, Z
<1>4. Grown(completions, completions', Z) \/ Grown(completions, completions', {n} \cup Z)
  BY <1>1, <1>2, Marked DEF Z
<1>5. /\ \A x : In(completions, x) => In(completions', x)
      /\ s \in cleanup \/ In(completions', <<"cleanup", s>>)
  BY <1>3, <1>4, GrownIn
<1>6. cleanup' = cleanup \cup {s}
  BY <1>2 DEF MarkClosed
<1> QED
  BY <1>5, <1>6, DueStays

\* Nothing but running it takes a cleanup from the completions.
LEMMA DueTaken ==
  ASSUME Fields, NEW note, NEW x, Take(note, x), note # "cleanup", UNCHANGED <<cleanup, onClose, alive>>
  PROVE  \A s \in Streams : DueAt(s) => DueAt(s)'
<1>1. \A s : <<"cleanup", s>> # <<note, x>>
  OBVIOUS
<1>2. \A s : In(completions, <<"cleanup", s>>) => In(completions', <<"cleanup", s>>)
  BY <1>1, TookNote DEF Shrunk
<1> QED
  BY <1>2, DueStays

LEMMA DueNotified ==
  ASSUME Fields, NEW note, NEW x, Notify(note, x) \/ UNCHANGED completions,
         UNCHANGED <<cleanup, onClose, alive>>
  PROVE  \A s \in Streams : DueAt(s) => DueAt(s)'
<1>1. \A s : In(completions, <<"cleanup", s>>) => In(completions', <<"cleanup", s>>)
  BY Notified, GrownIn
<1> QED
  BY <1>1, DueStays

LEMMA CallbackStep ==
  ASSUME Fields, Fields', DispatchOK, SeenOK, EndOK, NoCallbackLost, [Next]_vars
  PROVE  NoCallbackLost'
<1> USE CallTypes
<1> SUFFICES ASSUME NEW d \in Streams PROVE DueAt(d)'
  BY DueIsNext
<1>0. DueAt(d)
  BY DueIs
<1>1. ASSUME UNCHANGED <<completions, cleanup, onClose, alive>>
      PROVE  DueAt(d)'
  BY <1>0, <1>1 DEF DueAt
<1>2. ASSUME NEW s \in Streams, OnClose(s)
      PROVE  DueAt(d)'
  <2>1. /\ cleanup' = cleanup /\ alive' = alive
        /\ s \in cleanup => s \in ended
        /\ d # s => onClose'[d] = onClose[d]
    BY <1>2 DEF OnClose, flags, EndOK, Fields
  <2>2. CASE d = s
    <3>1. CASE s \in cleanup
      <4>1. Notify("cleanup", s)
        BY <1>2, <2>1, <3>1 DEF OnClose, Notify
      <4>2. In(completions', <<"cleanup", d>>)
        BY <2>2, <4>1, NotifiedIn
      <4> QED
        BY <4>2 DEF DueAt
    <3>2. CASE s \notin cleanup
      BY <2>1, <2>2, <3>2 DEF DueAt
    <3> QED
      BY <3>1, <3>2
  <2>3. CASE d # s
    <3>1. completions' = completions \/ Notify("cleanup", s)
      BY <1>2 DEF OnClose, Notify
    <3>2. In(completions, <<"cleanup", d>>) => In(completions', <<"cleanup", d>>)
      BY <3>1, NotifiedIn
    <3> QED
      BY <1>0, <2>1, <2>3, <3>2 DEF DueAt
  <2> QED
    BY <2>2, <2>3
<1>3. ASSUME NEW s \in Streams, RunCleanup(s)
      PROVE  DueAt(d)'
  <2>1. /\ cleanup' = cleanup /\ onClose'[s] # "set"
        /\ s \notin alive'
    BY <1>3 DEF RunCleanup, Cleanup, Fields
  <2>2. CASE d = s
    BY <2>1, <2>2 DEF DueAt
  <2>3. CASE d # s
    <3>1. <<"cleanup", d>> # <<"cleanup", s>>
      BY <2>3
    <3>2. In(completions, <<"cleanup", d>>) => In(completions', <<"cleanup", d>>)
      BY <1>3, <3>1, TookNote DEF RunCleanup, Shrunk
    <3>3. onClose'[d] = onClose[d] /\ (d \in alive' => d \in alive)
      BY <1>3, <2>3 DEF RunCleanup, Cleanup, Fields
    <3> QED
      BY <1>0, <2>1, <3>2, <3>3 DEF DueAt
  <2> QED
    BY <2>2, <2>3
<1>4. ASSUME NEW r \in Requests, RunDispatch(r)
      PROVE  DueAt(d)'
  <2>1. state[r] = "queued"
    BY <1>4, TookNote DEF RunDispatch, DispatchOK, Shrunk
  <2>2. r \in Streams => r \notin cleanup
    BY <2>1 DEF SeenOK, Visible
  <2>3. /\ cleanup' = cleanup /\ onClose' = onClose
        /\ alive' = alive \/ (r \in Streams /\ alive' = alive \cup {r})
    BY <1>4 DEF RunDispatch, Dispatch
  <2>4. In(completions, <<"cleanup", d>>) => In(completions', <<"cleanup", d>>)
    <3>1. <<"cleanup", d>> # <<"dispatch", r>>
      OBVIOUS
    <3> QED
      BY <1>4, <3>1, TookNote DEF RunDispatch, Shrunk
  <2> QED
    BY <1>0, <2>2, <2>3, <2>4 DEF DueAt
<1>5. CASE JsCalls
  <2>1. ASSUME NEW w \in Writes, Write(w) PROVE DueAt(d)'
    <3>1. On[w] \in Streams /\ w \in Calls \ Closes
      OBVIOUS
    <3>2. UNCHANGED <<onClose, alive>> /\ (UNCHANGED <<cleanup, completions>> \/ MarkClosed(On[w], <<>>))
      BY <2>1 DEF Write
    <3> QED
      BY <1>0, <1>1, <3>1, <3>2, DueMarked
  <2>2. CASE ~\E w \in Writes : Write(w)
    BY <1>1, <1>2, <1>5, <2>2 DEF JsCalls, Listen, CloseIdle, CloseServer, Answer, Settle, Respond, End,
                             conns, flags
  <2> QED
    BY <2>1, <2>2
<1>6. CASE Loop
  <2>1. ASSUME NEW l \in Listens, Opened(l) PROVE DueAt(d)'
    BY <1>0, <2>1, DueTaken DEF Opened, conns, flags
  <2>2. ASSUME NEW c \in Closes, Closed(c) PROVE DueAt(d)'
    BY <1>0, <2>2, DueTaken DEF Closed, conns, flags
  <2>3. ASSUME NEW c \in Calls, SettleCall(c) PROVE DueAt(d)'
    BY <1>0, <2>3, DueTaken DEF SettleCall, conns, flags
  <2> QED
    BY <1>3, <1>4, <1>6, <2>1, <2>2, <2>3 DEF Loop
<1>7. CASE Worker
  <2>1. ASSUME NEW l \in Listens, RunOpen(l) PROVE DueAt(d)'
    BY <1>0, <2>1, DueNotified DEF RunOpen, conns, flags
  <2>2. CASE CloseDone
    BY <1>0, <2>2, DueNotified DEF CloseDone, conns, flags
  <2>3. CASE CloseListener \/ (\E c \in Closes : RunClose(c)) \/ \E s \in Streams : Finish(s)
    BY <1>1, <2>3 DEF CloseListener, RunClose, Finish, conns, flags
  <2>4. ASSUME NEW s \in Streams, Finished(s) PROVE DueAt(d)'
    <3>1. <<"end", s>> \in Calls \ Closes /\ UNCHANGED <<onClose, alive>>
      BY <2>4 DEF Finished
    <3>2. MarkClosed(s, <<>>) \/ MarkClosed(s, <<<<"settle", <<"end", s>>>>>>)
      BY <2>4 DEF Finished
    <3> QED
      BY <1>0, <3>1, <3>2, DueMarked
  <2>5. ASSUME NEW s \in Streams, RunRespond(s) PROVE DueAt(d)'
    <3>1. <<"respond", s>> \in Calls \ Closes /\ UNCHANGED <<onClose, alive>>
      BY <2>5 DEF RunRespond
    <3>2. UNCHANGED <<cleanup, completions>> \/ MarkClosed(s, <<<<"settle", <<"respond", s>>>>>>)
      BY <2>5 DEF RunRespond, Fail
    <3> QED
      BY <1>0, <1>1, <3>1, <3>2, DueMarked
  <2>6. ASSUME NEW w \in Writes, RunWrite(w) PROVE DueAt(d)'
    <3>1. On[w] \in Streams /\ w \in Calls \ Closes /\ UNCHANGED <<onClose, alive>>
      BY <2>6 DEF RunWrite
    <3>2. UNCHANGED <<cleanup, completions>> \/ MarkClosed(On[w], <<<<"settle", w>>>>)
      BY <2>6 DEF RunWrite, Fail
    <3> QED
      BY <1>0, <1>1, <3>1, <3>2, DueMarked
  <2> QED
    BY <1>7, <2>1, <2>2, <2>3, <2>4, <2>5, <2>6 DEF Worker
<1>8. CASE Flushes
  <2>1. PICK s \in Streams, c \in Calls \ Closes : Flushed(c, s) /\ FlushOf(c, s)
    BY <1>8, FlushIs
  <2>2. /\ UNCHANGED <<onClose, alive>>
        /\ \/ Notify("settle", c) /\ UNCHANGED cleanup
           \/ MarkClosed(s, <<<<"settle", c>>>>)
    BY <2>1 DEF Flushed, Fail
  <2> QED
    BY <1>0, <2>2, DueMarked, DueNotified
<1>9. ASSUME NEW r \in Requests, Arrive(r)
      PROVE  DueAt(d)'
  BY <1>0, <1>9, DueNotified DEF Arrive, conns, flags
<1>10. CASE UNCHANGED vars
  BY <1>1, <1>10 DEF vars, conns, flags
<1> QED
  BY <1>5, <1>6, <1>7, <1>8, <1>9, <1>10 DEF Next

-----------------------------------------------------------------------------
(* The chunks that are buffered. *)

\* Chunk w is between write() and its flush.
Held(w) == w \in flushing \/ In(tasks, <<"write", w>>)
Given(s) == {w \in Writes : On[w] = s /\ Held(w)}

Buffers == buffered \in [Streams -> 0..MaxBuffered] /\ BufferMatches

LEMMA BufferIs == BufferMatches <=> \A s \in Streams : buffered[s] = Cardinality(Given(s))
  BY DEF BufferMatches, Given, Held

LEMMA BufferIsNext == BufferMatches' <=> \A s \in Streams : buffered'[s] = Cardinality(Given(s)')
  BY DEF BufferMatches, Given, Held

LEMMA GivenFinite ==
  \A s \in Streams : /\ IsFiniteSet(Given(s)) /\ Cardinality(Given(s)) \in Nat
                     /\ IsFiniteSet(Given(s)')
<1> SUFFICES ASSUME NEW s \in Streams
             PROVE  IsFiniteSet(Given(s)) /\ Cardinality(Given(s)) \in Nat /\ IsFiniteSet(Given(s)')
  OBVIOUS
<1>1. IsFiniteSet(Calls) /\ Given(s) \in SUBSET Calls /\ Given(s)' \in SUBSET Calls
  BY HttpServerAssumption, CallTypes DEF Given
<1>2. IsFiniteSet(Given(s)) /\ IsFiniteSet(Given(s)')
  BY <1>1, FS_Subset
<1> QED
  BY <1>2, FS_CardinalityType

\* Nothing is given or settled.
LEMMA BufferSame ==
  ASSUME Buffers, buffered' = buffered, \A w \in Writes : Held(w)' <=> Held(w)
  PROVE  Buffers'
<1>1. \A s \in Streams : Given(s)' = Given(s)
  BY DEF Given
<1> QED
  BY <1>1, BufferIs, BufferIsNext DEF Buffers

\* A chunk is given.
LEMMA BufferMore ==
  ASSUME Buffers, NEW w \in Writes, ~Held(w), buffered[On[w]] < MaxBuffered,
         buffered' = [buffered EXCEPT ![On[w]] = @ + 1],
         \A v \in Writes : Held(v)' <=> Held(v) \/ v = w
  PROVE  Buffers'
<1> DEFINE s == On[w]
<1>1. s \in Streams /\ MaxBuffered \in Nat
  BY CallTypes, HttpServerAssumption
<1>2. /\ Given(s)' = Given(s) \cup {w} /\ w \notin Given(s)
      /\ \A d \in Streams \ {s} : Given(d)' = Given(d)
  BY DEF Given
<1>3. Cardinality(Given(s)') = Cardinality(Given(s)) + 1
  BY <1>1, <1>2, GivenFinite, FS_AddElement
<1>4. /\ buffered[s] \in 0..MaxBuffered /\ buffered'[s] = buffered[s] + 1
      /\ \A d \in Streams \ {s} : buffered'[d] = buffered[d]
      /\ DOMAIN buffered' = Streams /\ buffered' = [d \in Streams |-> buffered'[d]]
  BY <1>1 DEF Buffers
<1>5. buffered'[s] \in 0..MaxBuffered
  BY <1>1, <1>4
<1>6. \A d \in Streams : buffered'[d] \in 0..MaxBuffered
  BY <1>4, <1>5 DEF Buffers
<1>7. \A d \in Streams : buffered'[d] = Cardinality(Given(d)')
  <2>1. \A d \in Streams : buffered[d] = Cardinality(Given(d))
    BY BufferIs DEF Buffers
  <2>2. buffered'[s] = Cardinality(Given(s)')
    BY <1>1, <1>3, <1>4, <2>1
  <2>3. ASSUME NEW d \in Streams, d # s
        PROVE  buffered'[d] = Cardinality(Given(d)')
    BY <1>2, <1>4, <2>1, <2>3
  <2> QED
    BY <2>2, <2>3
<1> QED
  BY <1>4, <1>6, <1>7, BufferIsNext DEF Buffers

\* A chunk is settled.
LEMMA BufferLess ==
  ASSUME Buffers, NEW w \in Writes, Held(w), buffered' = [buffered EXCEPT ![On[w]] = @ - 1],
         \A v \in Writes : Held(v)' <=> Held(v) /\ v # w
  PROVE  Buffers'
<1> DEFINE s == On[w]
<1>1. s \in Streams /\ MaxBuffered \in Nat
  BY CallTypes, HttpServerAssumption
<1>2. /\ Given(s)' = Given(s) \ {w} /\ w \in Given(s)
      /\ \A d \in Streams \ {s} : Given(d)' = Given(d)
  BY DEF Given
<1>3. /\ Cardinality(Given(s)') = Cardinality(Given(s)) - 1
      /\ Cardinality(Given(s)') \in Nat
  BY <1>1, <1>2, GivenFinite, FS_RemoveElement, FS_CardinalityType
<1>4. /\ buffered[s] \in 0..MaxBuffered /\ buffered'[s] = buffered[s] - 1
      /\ \A d \in Streams \ {s} : buffered'[d] = buffered[d]
      /\ DOMAIN buffered' = Streams /\ buffered' = [d \in Streams |-> buffered'[d]]
  BY <1>1 DEF Buffers
<1>5. buffered[s] = Cardinality(Given(s))
  BY <1>1, BufferIs DEF Buffers
<1>6. buffered'[s] \in 0..MaxBuffered
  BY <1>1, <1>3, <1>4, <1>5
<1>7. \A d \in Streams : buffered'[d] \in 0..MaxBuffered
  BY <1>4, <1>6 DEF Buffers
<1>8. \A d \in Streams : buffered'[d] = Cardinality(Given(d)')
  <2>1. \A d \in Streams : buffered[d] = Cardinality(Given(d))
    BY BufferIs DEF Buffers
  <2>2. buffered'[s] = Cardinality(Given(s)')
    BY <1>1, <1>3, <1>4, <2>1
  <2>3. ASSUME NEW d \in Streams, d # s
        PROVE  buffered'[d] = Cardinality(Given(d)')
    BY <1>2, <1>4, <2>1, <2>3
  <2> QED
    BY <2>2, <2>3
<1> QED
  BY <1>4, <1>7, <1>8, BufferIsNext DEF Buffers

\* Tasks that are not writes come and go.
NoWrites == {x \in Tasks : x[1] # "write"}

LEMMA HeldSame ==
  ASSUME TasksBy(NoWrites), \A w \in Writes : w \in flushing' <=> w \in flushing
  PROVE  \A w \in Writes : Held(w)' <=> Held(w)
<1> SUFFICES ASSUME NEW w \in Writes PROVE Held(w)' <=> Held(w)
  OBVIOUS
<1> DEFINE t == <<"write", w>>
<1>1. t \notin NoWrites
  BY DEF NoWrites
<1>2. Held(w) <=> w \in flushing \/ In(tasks, t)
  BY DEF Held
<1>3. Held(w)' <=> w \in flushing' \/ In(tasks', t)
  BY DEF Held
<1> HIDE DEF t
<1>4. In(tasks', t) <=> In(tasks, t)
  BY <1>1 DEF TasksBy, Grown, Shrunk
<1> QED
  BY <1>2, <1>3, <1>4

LEMMA PostedNoWrite ==
  ASSUME Fields, NEW kind, NEW x, Post(kind, x), <<kind, x>> \in Tasks, kind # "write"
  PROVE  TasksBy(NoWrites)
<1> DEFINE t == <<kind, x>>
<1>1. Grown(tasks, tasks', {t}) /\ t \in NoWrites
  BY Posted DEF NoWrites
<1> HIDE DEF t
<1>2. {t} \in SUBSET NoWrites
  BY <1>1
<1> QED
  BY <1>1, <1>2 DEF TasksBy

LEMMA RanNoWrite ==
  ASSUME Fields, tasks # <<>>, Head(tasks)[1] # "write", tasks' = Tail(tasks)
  PROVE  TasksBy(NoWrites)
  BY TookTask DEF TasksBy, NoWrites

LEMMA BufferStep ==
  ASSUME Fields, CallsOK, StepOK, EndOK, Buffers, [Next]_vars
  PROVE  Buffers'
<1> USE CallTypes
<1>0. \A w \in Writes : /\ CallOK(w) /\ Task(w) = <<"write", w>>
                        /\ \A s \in Streams : w # <<"respond", s>>
  BY TaskIs DEF CallsOK, Responds
<1>1. ASSUME buffered' = buffered, TasksBy(NoWrites), \A w \in Writes : w \in flushing' <=> w \in flushing
      PROVE  Buffers'
  BY <1>1, BufferSame, HeldSame
<1>2. ASSUME UNCHANGED <<buffered, tasks, flushing>>
      PROVE  Buffers'
  BY <1>1, <1>2 DEF TasksBy
<1>3. ASSUME NEW kind, NEW x, Post(kind, x), <<kind, x>> \in Tasks, kind # "write",
             UNCHANGED <<buffered, flushing>>
      PROVE  Buffers'
  BY <1>1, <1>3, PostedNoWrite
<1>4. ASSUME NEW kind, NEW x, Running(kind, x), kind # "write", tasks' = Tail(tasks),
             buffered' = buffered, \A w \in Writes : w \in flushing' <=> w \in flushing
      PROVE  Buffers'
  BY <1>1, <1>4, Heads, RanNoWrite
<1>5. ASSUME NEW w \in Writes, Write(w)
      PROVE  Buffers'
  <2>1. flushing' = flushing /\ On[w] \in Streams
    BY <1>5 DEF Write
  <2>2. CASE /\ buffered[On[w]] < MaxBuffered
             /\ buffered' = [buffered EXCEPT ![On[w]] = @ + 1]
             /\ Post("write", w)
    <3>1. ~Held(w)
      BY <1>0, <1>5 DEF Write, CallOK, Held
    <3>2. Grown(tasks, tasks', {<<"write", w>>})
      BY <2>2, Posted
    <3>3. \A v : In(tasks', <<"write", v>>) <=> In(tasks, <<"write", v>>) \/ v = w
      BY <3>2 DEF Grown
    <3>4. \A v \in Writes : Held(v)' <=> Held(v) \/ v = w
      BY <2>1, <3>3 DEF Held
    <3> QED
      BY <2>2, <3>1, <3>4, BufferMore
  <2>3. CASE Post("finish", On[w]) /\ buffered' = buffered
    BY <1>3, <2>1, <2>3, TaskTypes
  <2> QED
    BY <1>5, <2>2, <2>3 DEF Write
<1>6. CASE JsCalls
  <2>1. ASSUME NEW l \in Listens, Listen(l) PROVE Buffers'
    BY <1>3, <2>1, TaskTypes DEF Listen, conns
  <2>2. ASSUME NEW c \in Closes, CloseIdle(c) PROVE Buffers'
    BY <1>2, <2>2 DEF CloseIdle, conns
  <2>3. ASSUME NEW c \in Closes, CloseServer(c) PROVE Buffers'
    BY <1>3, <2>3, TaskTypes DEF CloseServer, conns
  <2>4. ASSUME NEW r \in Requests, Answer(r) PROVE Buffers'
    BY <1>2, <2>4 DEF Answer, conns
  <2>5. ASSUME NEW s \in Streams, Settle(s) PROVE Buffers'
    <3>1. tasks' = tasks \/ Post("finish", s)
      BY <2>5 DEF Settle, Post
    <3> QED
      BY <1>2, <1>3, <2>5, <3>1, TaskTypes DEF Settle
  <2>6. ASSUME NEW s \in Streams, Respond(s) PROVE Buffers'
    <3>1. <<"respond", s>> \in Tasks
      BY TaskTypes
    <3> QED
      BY <1>3, <2>6, <3>1 DEF Respond
  <2>7. ASSUME NEW s \in Streams, End(s) PROVE Buffers'
    <3>1. <<"end", s>> \in Tasks
      BY TaskTypes
    <3> QED
      BY <1>3, <2>7, <3>1 DEF End
  <2>8. ASSUME NEW s \in Streams, OnClose(s) PROVE Buffers'
    BY <1>2, <2>8 DEF OnClose
  <2> QED
    BY <1>5, <1>6, <2>1, <2>2, <2>3, <2>4, <2>5, <2>6, <2>7, <2>8 DEF JsCalls
<1>7. CASE Loop
  <2>1. ASSUME NEW r \in Requests, RunDispatch(r) PROVE Buffers'
    <3>1. /\ tasks' = tasks \/ (r \in Streams /\ Post("finish", r))
          /\ UNCHANGED <<buffered, flushing>>
      BY <2>1 DEF RunDispatch, Dispatch
    <3> QED
      BY <1>2, <1>3, <3>1, TaskTypes
  <2>2. CASE ~\E r \in Requests : RunDispatch(r)
    BY <1>2, <1>7, <2>2 DEF Loop, RunCleanup, Opened, Closed, SettleCall, conns
  <2> QED
    BY <2>1, <2>2
<1>8. CASE Worker
  <2>1. ASSUME NEW l \in Listens, RunOpen(l) PROVE Buffers'
    BY <1>4, <2>1 DEF RunOpen, conns
  <2>2. CASE CloseListener \/ (\E c \in Closes : RunClose(c)) \/ \E s \in Streams : Finish(s)
    BY <1>2, <2>2 DEF CloseListener, RunClose, Finish, conns
  <2>3. CASE CloseDone
    <3>1. tasks # <<>> /\ Head(tasks)[1] = "close"
      BY <2>3 DEF CloseDone, Fields
    <3> QED
      BY <1>1, <2>3, <3>1, RanNoWrite DEF CloseDone, conns
  <2>4. ASSUME NEW s \in Streams, Finished(s) PROVE Buffers'
    <3>1. tasks # <<>> /\ step = s /\ UNCHANGED <<buffered, flushing>>
      BY <2>4 DEF Finished, Fields
    <3>2. CASE Head(tasks)[1] = "close"
      BY <1>2, <2>4, <3>1, <3>2 DEF Finished
    <3>3. CASE Head(tasks)[1] # "close"
      <4>1. Head(tasks)[1] # "write"
        BY <3>1, <3>3 DEF StepOK
      <4> QED
        BY <1>1, <2>4, <3>1, <3>3, <4>1, RanNoWrite DEF Finished
    <3> QED
      BY <3>2, <3>3
  <2>5. ASSUME NEW s \in Streams, RunRespond(s) PROVE Buffers'
    <3> DEFINE c == <<"respond", s>>
    <3>1. /\ Running("respond", s) /\ tasks' = Tail(tasks)
          /\ \/ buffered' = buffered /\ flushing' = flushing \cup {c}
             \/ Fail(c, s) /\ flushing' = flushing
      BY <2>5 DEF RunRespond
    <3>2. c \notin Writes
      BY <1>0
    <3> HIDE DEF c
    <3>3. buffered' = buffered /\ \A w \in Writes : w \in flushing' <=> w \in flushing
      BY <3>1, <3>2 DEF Fail
    <3> QED
      BY <1>4, <3>1, <3>3
  <2>6. ASSUME NEW w \in Writes, RunWrite(w) PROVE Buffers'
    <3>1. Shrunk(tasks, tasks', <<"write", w>>)
      BY <2>6, Heads DEF RunWrite
    <3>2. w \notin flushing /\ ~In(tasks', <<"write", w>>) /\ In(tasks, <<"write", w>>)
      BY <1>0, <3>1 DEF CallOK, Shrunk
    <3>3. \A v : v # w => (In(tasks', <<"write", v>>) <=> In(tasks, <<"write", v>>))
      BY <3>1 DEF Shrunk
    <3>4. CASE flushing' = flushing \cup {w} /\ buffered' = buffered
      <4>1. \A v \in Writes : Held(v)' <=> Held(v)
        BY <3>2, <3>3, <3>4 DEF Held
      <4> QED
        BY <3>4, <4>1, BufferSame
    <3>5. CASE Fail(w, On[w]) /\ flushing' = flushing
      <4>1. \A v \in Writes : Held(v)' <=> Held(v) /\ v # w
        BY <3>2, <3>3, <3>5 DEF Held
      <4>2. Held(w) /\ buffered' = [buffered EXCEPT ![On[w]] = @ - 1]
        BY <3>2, <3>5 DEF Held, Fail
      <4> QED
        BY <4>1, <4>2, BufferLess
    <3> QED
      BY <2>6, <3>4, <3>5 DEF RunWrite
  <2> QED
    BY <1>8, <2>1, <2>2, <2>3, <2>4, <2>5, <2>6 DEF Worker
<1>9. CASE Flushes
  <2>1. PICK s \in Streams, c \in Calls \ Closes : Flushed(c, s) /\ FlushOf(c, s)
    BY <1>9, FlushIs
  <2>2. /\ c \in flushing /\ flushing' = flushing \ {c} /\ tasks' = tasks
        /\ buffered' = IF c \in Writes THEN [buffered EXCEPT ![s] = @ - 1] ELSE buffered
    BY <2>1 DEF Flushed, Fail
  <2>3. CASE c \in Writes
    <3>1. On[c] = s
      BY <1>0, <2>1, <2>3 DEF FlushOf
    <3>2. ~In(tasks, <<"write", c>>)
      BY <1>0, <2>2, <2>3 DEF CallOK
    <3>3. \A v \in Writes : Held(v)' <=> Held(v) /\ v # c
      BY <2>2, <3>2 DEF Held
    <3> QED
      BY <2>2, <2>3, <3>1, <3>3, BufferLess DEF Held
  <2>4. CASE c \notin Writes
    BY <1>1, <2>2, <2>4 DEF TasksBy
  <2> QED
    BY <2>3, <2>4
<1>10. CASE (\E r \in Requests : Arrive(r)) \/ UNCHANGED vars
  BY <1>2, <1>10 DEF Arrive, vars, conns
<1> QED
  BY <1>6, <1>7, <1>8, <1>9, <1>10 DEF Next

-----------------------------------------------------------------------------
(* The operations that the AsyncHost counts. *)

Pending == {c \in Calls : call[c] = "pending"}
Coming == {r \in Requests : state[r] \in {"queued", "waiting"}}

\* The five counts, each of a finite set.
Promises == Cardinality(Pending)
Handlers == Cardinality(Coming)
Living == Cardinality(alive)
Lifetimes == Cardinality(Resolved)
GivenUp == Cardinality(released)

LEMMA KeepIs == KeepAliveExact <=> ops = Promises + Handlers + Living + Lifetimes - GivenUp
  BY DEF KeepAliveExact, Promises, Handlers, Living, Lifetimes, GivenUp, Pending, Coming, Resolved

LEMMA KeepIsNext ==
  KeepAliveExact' <=> ops' = Promises' + Handlers' + Living' + Lifetimes' - GivenUp'
  BY DEF KeepAliveExact, Promises, Handlers, Living, Lifetimes, GivenUp, Pending, Coming, Resolved

LEMMA Finite ==
  ASSUME Fields
  PROVE  /\ IsFiniteSet(Pending) /\ IsFiniteSet(Coming) /\ IsFiniteSet(alive)
         /\ IsFiniteSet(Resolved) /\ IsFiniteSet(released)
         /\ Promises \in Nat /\ Handlers \in Nat /\ Living \in Nat /\ Lifetimes \in Nat /\ GivenUp \in Nat
<1>1. IsFiniteSet(Calls) /\ IsFiniteSet(Requests)
  BY HttpServerAssumption
<1>2. /\ Pending \in SUBSET Calls /\ Coming \in SUBSET Requests /\ alive \in SUBSET Requests
      /\ Resolved \in SUBSET Calls /\ released \in SUBSET Calls
  BY CallTypes DEF Fields, Pending, Coming, Resolved
<1>3. /\ IsFiniteSet(Pending) /\ IsFiniteSet(Coming) /\ IsFiniteSet(alive)
      /\ IsFiniteSet(Resolved) /\ IsFiniteSet(released)
  BY <1>1, <1>2, FS_Subset
<1> QED
  BY <1>3, FS_CardinalityType DEF Promises, Handlers, Living, Lifetimes, GivenUp

Numbers ==
  Promises \in Nat /\ Handlers \in Nat /\ Living \in Nat /\ Lifetimes \in Nat /\ GivenUp \in Nat

LEMMA NumbersAre == Fields => Numbers
  BY Finite DEF Numbers

LEMMA NumbersAreNext == Fields' => Numbers'
  BY NumbersAre, PTL

LEMMA Plus == ASSUME NEW S, IsFiniteSet(S), NEW x, x \notin S
              PROVE  Cardinality(S \cup {x}) = Cardinality(S) + 1
  BY FS_AddElement

LEMMA Minus == ASSUME NEW S, IsFiniteSet(S), NEW x, x \in S
               PROVE  Cardinality(S \ {x}) = Cardinality(S) - 1
  BY FS_RemoveElement

\* What a change of one call does to the counts.
LEMMA CallBegins ==
  ASSUME Fields, NEW c \in Calls, call[c] = "new", Settled(c, "pending")
  PROVE  Promises' = Promises + 1 /\ Lifetimes' = Lifetimes
<1>1. /\ Pending' = Pending \cup {c} /\ c \notin Pending
      /\ Resolved' = Resolved
  BY DEF Settled, Pending, Resolved, Fields
<1> QED
  BY <1>1, Finite, Plus DEF Promises, Lifetimes

LEMMA CallEnds ==
  ASSUME Fields, NEW c \in Calls, call[c] = "pending", Settled(c, "done")
  PROVE  Promises' = Promises - 1 /\ Lifetimes' = Lifetimes
<1>1. /\ Pending' = Pending \ {c} /\ c \in Pending
      /\ Resolved' = Resolved
  BY DEF Settled, Pending, Resolved, Fields
<1> QED
  BY <1>1, Finite, Minus DEF Promises, Lifetimes

LEMMA CallSkips ==
  ASSUME Fields, NEW c \in Calls, call[c] = "new", Settled(c, "done")
  PROVE  Promises' = Promises /\ Lifetimes' = Lifetimes
<1>1. Pending' = Pending /\ Resolved' = Resolved
  BY DEF Settled, Pending, Resolved, Fields
<1> QED
  BY <1>1 DEF Promises, Lifetimes

LEMMA CallOpens ==
  ASSUME Fields, NEW l \in Listens, call[l] = "pending", Settled(l, "ok")
  PROVE  Promises' = Promises - 1 /\ Lifetimes' = Lifetimes + 1
<1>1. /\ Pending' = Pending \ {l} /\ l \in Pending
      /\ Resolved' = Resolved \cup {l} /\ l \notin Resolved
  BY CallTypes DEF Settled, Pending, Resolved, Fields
<1> QED
  BY <1>1, Finite, Plus, Minus DEF Promises, Lifetimes

LEMMA CallsSame ==
  ASSUME call' = call
  PROVE  Promises' = Promises /\ Lifetimes' = Lifetimes
  BY DEF Promises, Lifetimes, Pending, Resolved

LEMMA StateSame ==
  ASSUME state' = state
  PROVE  Handlers' = Handlers
  BY DEF Handlers, Coming

\* A request is on its way to its handler, or waits for it, and is so no more.
LEMMA RequestComes ==
  ASSUME Fields, NEW r \in Requests, state[r] = "new", state' = [state EXCEPT ![r] = "queued"]
  PROVE  Handlers' = Handlers + 1
<1>1. Coming' = Coming \cup {r} /\ r \notin Coming
  BY DEF Coming, Fields
<1> QED
  BY <1>1, Finite, Plus DEF Handlers

LEMMA RequestGoes ==
  ASSUME Fields, NEW r \in Requests, state[r] \in {"queued", "waiting"}, NEW x, x \notin {"queued", "waiting"},
         state' = [state EXCEPT ![r] = x]
  PROVE  Handlers' = Handlers - 1
<1>1. Coming' = Coming \ {r} /\ r \in Coming
  BY DEF Coming, Fields
<1> QED
  BY <1>1, Finite, Minus DEF Handlers

LEMMA RequestStays ==
  ASSUME Fields, NEW r \in Requests, state[r] = "queued", state' = [state EXCEPT ![r] = "waiting"]
  PROVE  Handlers' = Handlers
<1>1. Coming' = Coming
  BY DEF Coming, Fields
<1> QED
  BY <1>1 DEF Handlers

LEMMA RequestAway ==
  ASSUME Fields, NEW r \in Requests, NEW x, NEW y,
         x \notin {"queued", "waiting"}, y \notin {"queued", "waiting"},
         state[r] = x, state' = [state EXCEPT ![r] = y]
  PROVE  Handlers' = Handlers
<1>1. Coming' = Coming
  BY DEF Coming, Fields
<1> QED
  BY <1>1 DEF Handlers

\* close() releases no more than listen() took, so the count is never negative.
Lifetime == LifetimeOK /\ ops \in Nat /\ KeepAliveExact

LEMMA LifetimeIs ==
  /\ LifetimeOK <=> GivenUp + (IF aliveHeld THEN 1 ELSE 0) <= Lifetimes
  /\ LifetimeOK' <=> GivenUp' + (IF aliveHeld' THEN 1 ELSE 0) <= Lifetimes'
  BY DEF LifetimeOK, GivenUp, Lifetimes

LEMMA Counted ==
  ASSUME Fields', LifetimeOK', KeepAliveExact'
  PROVE  Lifetime'
<1>1. Numbers' /\ KeepAliveExact' /\ LifetimeOK'
  BY NumbersAreNext
<1>2. PICK p \in Nat, h \in Nat, v \in Nat, n \in Nat, g \in Nat :
        p = Promises' /\ h = Handlers' /\ v = Living' /\ n = Lifetimes' /\ g = GivenUp'
  BY <1>1 DEF Numbers
<1>3. ops' = p + h + v + n - g
  BY <1>1, <1>2, KeepIsNext
<1>4. g + (IF aliveHeld' THEN 1 ELSE 0) <= n
  BY <1>1, <1>2, LifetimeIs
<1>5. g <= n
  BY <1>4
<1>6. ops' \in Nat
  BY <1>3, <1>5
<1> QED
  BY <1>6 DEF Lifetime

\* What a step that leaves the lifetime of the server alone does to the counts.
Steady == UNCHANGED <<Promises, Handlers, Living, ops>>
Begun == Promises' = Promises + 1 /\ ops' = ops + 1 /\ UNCHANGED <<Handlers, Living>>
Ended == Promises' = Promises - 1 /\ ops' = ops - 1 /\ UNCHANGED <<Handlers, Living>>
Came == Handlers' = Handlers + 1 /\ ops' = ops + 1 /\ UNCHANGED <<Promises, Living>>
Went == Handlers' = Handlers - 1 /\ ops' = ops - 1 /\ UNCHANGED <<Promises, Living>>
Died == Living' = Living - 1 /\ ops' = ops - 1 /\ UNCHANGED <<Promises, Handlers>>
Born == Living' = Living + 1 /\ Handlers' = Handlers - 1 /\ UNCHANGED <<Promises, ops>>

LEMMA Kept ==
  ASSUME Fields, Fields', Lifetime, UNCHANGED <<aliveHeld, released, Lifetimes>>,
         Steady \/ Begun \/ Ended \/ Came \/ Went \/ Died \/ Born
  PROVE  Lifetime'
<1>1. UNCHANGED <<Lifetimes, GivenUp>>
  BY DEF GivenUp
<1>2. LifetimeOK'
  BY <1>1, LifetimeIs DEF Lifetime
<1>3. PICK p \in Nat, h \in Nat, v \in Nat, n \in Nat, g \in Nat :
        p = Promises /\ h = Handlers /\ v = Living /\ n = Lifetimes /\ g = GivenUp
  BY NumbersAre DEF Numbers
<1>4. ops = p + h + v + n - g
  BY <1>3, KeepIs DEF Lifetime
<1>5. PICK q, j, w : q = Promises' /\ j = Handlers' /\ w = Living'
  OBVIOUS
<1>6. ops' = q + j + w + n - g
  <2>1. CASE Steady
    BY <1>3, <1>4, <1>5, <2>1 DEF Steady
  <2>2. CASE Begun
    BY <1>3, <1>4, <1>5, <2>2 DEF Begun
  <2>3. CASE Ended
    BY <1>3, <1>4, <1>5, <2>3 DEF Ended
  <2>4. CASE Came
    BY <1>3, <1>4, <1>5, <2>4 DEF Came
  <2>5. CASE Went
    BY <1>3, <1>4, <1>5, <2>5 DEF Went
  <2>6. CASE Died
    BY <1>3, <1>4, <1>5, <2>6 DEF Died
  <2>7. CASE Born
    BY <1>3, <1>4, <1>5, <2>7 DEF Born
  <2> QED
    BY <2>1, <2>2, <2>3, <2>4, <2>5, <2>6, <2>7
<1>7. KeepAliveExact'
  BY <1>1, <1>3, <1>5, <1>6, KeepIsNext
<1> QED
  BY <1>2, <1>7, Counted

\* listen() resolves: its operation becomes that of the server.
LEMMA KeptOpened ==
  ASSUME Fields, Fields', Lifetime, NEW l \in Listens, Opened(l), call[l] = "pending"
  PROVE  Lifetime'
<1>1. /\ Promises' = Promises - 1 /\ Lifetimes' = Lifetimes + 1
      /\ UNCHANGED <<Handlers, Living, GivenUp, ops>>
  BY CallOpens, StateSame DEF Opened, conns, flags, history, Living, GivenUp
<1>2. PICK p \in Nat, h \in Nat, v \in Nat, n \in Nat, g \in Nat :
        p = Promises /\ h = Handlers /\ v = Living /\ n = Lifetimes /\ g = GivenUp
  BY NumbersAre DEF Numbers
<1>3. g + (IF aliveHeld THEN 1 ELSE 0) <= n
  BY <1>2, LifetimeIs DEF Lifetime
<1>4. g + (IF aliveHeld' THEN 1 ELSE 0) <= n + 1
  BY <1>3
<1>5. LifetimeOK'
  BY <1>1, <1>2, <1>4, LifetimeIs
<1>6. ops = p + h + v + n - g
  BY <1>2, KeepIs DEF Lifetime
<1>7. ops' = (p - 1) + h + v + (n + 1) - g
  BY <1>1, <1>6
<1>8. KeepAliveExact'
  BY <1>1, <1>2, <1>7, KeepIsNext
<1> QED
  BY <1>5, <1>8, Counted

\* close() resolves, and releases the operation of the server if it is held.
LEMMA KeptClosed ==
  ASSUME Fields, Fields', Lifetime, NEW c \in Closes, Closed(c), call[c] = "pending", c \notin released
  PROVE  Lifetime'
<1>1. /\ Promises' = Promises - 1 /\ Lifetimes' = Lifetimes
      /\ UNCHANGED <<Handlers, Living>> /\ aliveHeld' = FALSE
  BY CallEnds, CallTypes, StateSame DEF Closed, conns, flags, Living
<1>2. PICK p \in Nat, h \in Nat, v \in Nat, n \in Nat, g \in Nat :
        p = Promises /\ h = Handlers /\ v = Living /\ n = Lifetimes /\ g = GivenUp
  BY NumbersAre DEF Numbers
<1>3. ops = p + h + v + n - g
  BY <1>2, KeepIs DEF Lifetime
<1>4. g + (IF aliveHeld THEN 1 ELSE 0) <= n
  BY <1>2, LifetimeIs DEF Lifetime
<1>5. CASE aliveHeld
  <2>1. GivenUp' = g + 1
    <3>1. released' = released \cup {c}
      BY <1>5 DEF Closed
    <3> QED
      BY <1>2, <3>1, Finite, Plus DEF GivenUp
  <2>2. g + 1 <= n /\ ops' = ops - 2
    BY <1>4, <1>5 DEF Closed
  <2>3. (g + 1) + (IF aliveHeld' THEN 1 ELSE 0) <= n
    BY <1>1, <2>2
  <2>4. LifetimeOK'
    BY <1>1, <1>2, <2>1, <2>3, LifetimeIs
  <2>5. ops' = (p - 1) + h + v + n - (g + 1)
    BY <1>3, <2>2
  <2>6. KeepAliveExact'
    BY <1>1, <1>2, <2>1, <2>5, KeepIsNext
  <2> QED
    BY <2>4, <2>6, Counted
<1>6. CASE ~aliveHeld
  <2>1. GivenUp' = g /\ ops' = ops - 1
    BY <1>2, <1>6 DEF Closed, GivenUp
  <2>2. g + (IF aliveHeld' THEN 1 ELSE 0) <= n
    BY <1>1, <1>4, <1>6
  <2>3. LifetimeOK'
    BY <1>1, <1>2, <2>1, <2>2, LifetimeIs
  <2>4. ops' = (p - 1) + h + v + n - g
    BY <1>3, <2>1
  <2>5. KeepAliveExact'
    BY <1>1, <1>2, <2>1, <2>4, KeepIsNext
  <2> QED
    BY <2>3, <2>5, Counted
<1> QED
  BY <1>5, <1>6

LEMMA KeepStep ==
  ASSUME Fields, Fields', CallsOK, DispatchOK, SeenOK, EndOK, ServerOK, Lifetime, [Next]_vars
  PROVE  Lifetime'
<1> USE CallTypes
<1>1. ASSUME UNCHANGED <<aliveHeld, released, call, state, alive, ops>>
      PROVE  Lifetime'
  BY <1>1, CallsSame, StateSame, Kept DEF Steady, Living
<1>2. ASSUME NEW c \in Calls, call[c] = "new", Settled(c, "pending"), ops' = ops + 1,
             UNCHANGED <<aliveHeld, released, state, alive>>
      PROVE  Lifetime'
  BY <1>2, CallBegins, StateSame, Kept DEF Begun, Living
<1>3. ASSUME NEW c \in Calls, call[c] = "new", Settled(c, "done"),
             UNCHANGED <<aliveHeld, released, state, alive, ops>>
      PROVE  Lifetime'
  BY <1>3, CallSkips, StateSame, Kept DEF Steady, Living
<1>4. ASSUME NEW c \in Calls, NEW note \in {"opened", "closed", "settle"}, Take(note, c)
      PROVE  call[c] = "pending"
  <2>1. In(completions, <<note, c>>) /\ <<note, c>> \in NotesOf(c)
    BY <1>4, TookNote DEF Shrunk, NotesOf
  <2> QED
    BY <2>1 DEF CallsOK, CallOK, Noted
<1>5. ASSUME NEW s \in Streams, NEW x \in {"handling", "settled"}, state[s] = x,
             NEW y \in {"handling", "settled"}, state' = [state EXCEPT ![s] = y],
             UNCHANGED <<aliveHeld, released, call, alive, ops>>
      PROVE  Lifetime'
  BY <1>5, RequestAway, CallsSame, Kept DEF Steady, Living
<1>6. CASE JsCalls
  <2>1. ASSUME NEW l \in Listens, Listen(l) PROVE Lifetime'
    BY <1>2, <2>1 DEF Listen, server, conns, flags, history
  <2>2. ASSUME NEW c \in Closes, CloseIdle(c) PROVE Lifetime'
    BY <1>3, <2>2 DEF CloseIdle, conns, flags
  <2>3. ASSUME NEW c \in Closes, CloseServer(c) PROVE Lifetime'
    BY <1>2, <2>3 DEF CloseServer, server, conns, flags
  <2>4. ASSUME NEW r \in Requests, Answer(r) PROVE Lifetime'
    <3>1. Went /\ UNCHANGED <<aliveHeld, released, Lifetimes>>
      BY <2>4, RequestGoes, CallsSame DEF Answer, Went, Living, server, conns, flags, history
    <3> QED
      BY <3>1, Kept
  <2>5. ASSUME NEW s \in Streams, Settle(s) PROVE Lifetime'
    BY <1>5, <2>5 DEF Settle, server, history
  <2>6. ASSUME NEW s \in Streams, Respond(s) PROVE Lifetime'
    <3> DEFINE c == <<"respond", s>>
    <3>1. c \in Calls
      OBVIOUS
    <3>2. /\ call[c] = "new" /\ Settled(c, "pending") /\ ops' = ops + 1
          /\ UNCHANGED <<aliveHeld, released, state, alive>>
      BY <2>6 DEF Respond, server, history
    <3> HIDE DEF c
    <3> QED
      BY <1>2, <3>1, <3>2
  <2>7. ASSUME NEW s \in Streams, End(s) PROVE Lifetime'
    <3> DEFINE c == <<"end", s>>
    <3>1. c \in Calls /\ call[c] = "new"
      BY <2>7 DEF End, EndOK
    <3>2. /\ Settled(c, "pending") /\ ops' = ops + 1
          /\ UNCHANGED <<aliveHeld, released, state, alive>>
      BY <2>7 DEF End, server, history
    <3> HIDE DEF c
    <3> QED
      BY <1>2, <3>1, <3>2
  <2>8. ASSUME NEW s \in Streams, OnClose(s) PROVE Lifetime'
    BY <1>1, <2>8 DEF OnClose, server, flags, history
  <2>9. ASSUME NEW w \in Writes, Write(w) PROVE Lifetime'
    <3>1. /\ call[w] = "new" /\ UNCHANGED <<aliveHeld, released, state, alive>>
          /\ \/ Settled(w, "pending") /\ ops' = ops + 1
             \/ Settled(w, "done") /\ ops' = ops
      BY <2>9 DEF Write, server, history
    <3> QED
      BY <1>2, <1>3, <3>1
  <2> QED
    BY <1>6, <2>1, <2>2, <2>3, <2>4, <2>5, <2>6, <2>7, <2>8, <2>9 DEF JsCalls
<1>7. CASE Loop
  <2>1. ASSUME NEW r \in Requests, RunDispatch(r) PROVE Lifetime'
    <3>1. state[r] = "queued" /\ (r \in Streams => r \notin alive)
      <4>1. In(completions, <<"dispatch", r>>)
        BY <2>1, TookNote DEF RunDispatch, Shrunk
      <4>2. state[r] = "queued"
        BY <4>1 DEF DispatchOK
      <4> QED
        BY <4>2 DEF SeenOK, Visible
    <3>2. UNCHANGED <<Promises, Lifetimes, aliveHeld, released>>
      BY <2>1, CallsSame DEF RunDispatch, server, history
    <3>3. CASE state' = [state EXCEPT ![r] = "dropped"] /\ ops' = ops - 1 /\ alive' = alive
      <4>1. Went
        BY <3>1, <3>2, <3>3, RequestGoes DEF Went, Living
      <4> QED
        BY <3>2, <4>1, Kept
    <3>4. CASE state' = [state EXCEPT ![r] = "waiting"] /\ UNCHANGED <<ops, alive>>
      <4>1. Steady
        BY <3>1, <3>2, <3>4, RequestStays DEF Steady, Living
      <4> QED
        BY <3>2, <4>1, Kept
    <3>5. CASE /\ r \in Streams /\ alive' = alive \cup {r} /\ ops' = ops
               /\ \/ state' = [state EXCEPT ![r] = "handling"]
                  \/ state' = [state EXCEPT ![r] = "settled"]
      <4>1. Living' = Living + 1
        BY <3>1, <3>5, Finite, Plus DEF Living
      <4>2. Handlers' = Handlers - 1
        BY <3>1, <3>5, RequestGoes
      <4>3. Born
        BY <3>2, <3>5, <4>1, <4>2 DEF Born
      <4> QED
        BY <3>2, <4>3, Kept
    <3> QED
      BY <2>1, <3>3, <3>4, <3>5 DEF RunDispatch, Dispatch
  <2>2. ASSUME NEW s \in Streams, RunCleanup(s) PROVE Lifetime'
    <3>1. UNCHANGED <<aliveHeld, released, call, state>>
      BY <2>2 DEF RunCleanup, server, history
    <3>2. CASE s \in alive
      <4>1. alive' = alive \ {s} /\ ops' = ops - 1
        BY <2>2, <3>2 DEF RunCleanup, Cleanup
      <4>2. Living' = Living - 1
        BY <3>2, <4>1, Finite, Minus DEF Living
      <4> QED
        BY <3>1, <4>1, <4>2, CallsSame, StateSame, Kept DEF Died
    <3>3. CASE s \notin alive
      <4>1. alive' = alive /\ ops' = ops
        BY <2>2, <3>3 DEF RunCleanup, Cleanup
      <4> QED
        BY <1>1, <3>1, <4>1
    <3> QED
      BY <3>2, <3>3
  <2>3. ASSUME NEW l \in Listens, Opened(l) PROVE Lifetime'
    BY <1>4, <2>3, KeptOpened DEF Opened
  <2>4. ASSUME NEW c \in Closes, Closed(c) PROVE Lifetime'
    <3>1. call[c] = "pending"
      BY <1>4, <2>4 DEF Closed
    <3>2. c \notin released
      BY <3>1 DEF ServerOK
    <3> QED
      BY <2>4, <3>1, <3>2, KeptClosed
  <2>5. ASSUME NEW c \in Calls, SettleCall(c) PROVE Lifetime'
    <3>1. call[c] = "pending"
      BY <1>4, <2>5 DEF SettleCall
    <3>2. Ended /\ UNCHANGED <<aliveHeld, released, Lifetimes>>
      BY <2>5, <3>1, CallEnds, StateSame DEF SettleCall, Ended, Living, server, conns, flags, history
    <3> QED
      BY <3>2, Kept
  <2> QED
    BY <1>7, <2>1, <2>2, <2>3, <2>4, <2>5 DEF Loop
<1>8. CASE Worker
  BY <1>1, <1>8 DEF Worker, RunOpen, RunClose, CloseListener, CloseDone, Finish, Finished, RunRespond,
                    RunWrite, conns, flags, server, history
<1>9. CASE Flushes
  BY <1>1, <1>9 DEF Flushes, Flushed, server, history
<1>10. ASSUME NEW r \in Requests, Arrive(r)
       PROVE  Lifetime'
  <2>1. UNCHANGED <<Promises, Lifetimes, Living, aliveHeld, released>> /\ state[r] = "new"
    BY <1>10, CallsSame DEF Arrive, Living, server, conns, flags, history
  <2>2. CASE state' = [state EXCEPT ![r] = "queued"] /\ ops' = ops + 1
    <3>1. Came
      BY <2>1, <2>2, RequestComes DEF Came
    <3> QED
      BY <2>1, <3>1, Kept
  <2>3. CASE state' = [state EXCEPT ![r] = "answered"] /\ ops' = ops
    <3>1. Steady
      BY <2>1, <2>3, RequestAway DEF Steady
    <3> QED
      BY <2>1, <3>1, Kept
  <2> QED
    BY <1>10, <2>2, <2>3 DEF Arrive
<1>11. CASE UNCHANGED vars
  BY <1>1, <1>11 DEF vars, conns, flags, server, history
<1> QED
  BY <1>6, <1>7, <1>8, <1>9, <1>10, <1>11 DEF Next

-----------------------------------------------------------------------------
(* The server: open, closed, and held by its lifetime operation. *)

\* The queues change by nothing that opens or closes the server.
Asides == OtherNotes \cup {<<"settle", c>> : c \in Calls}

NotesSame ==
  /\ \A l \in Listens : OpenedNote(l)' <=> OpenedNote(l)
  /\ \A c \in Closes : ClosedNote(c)' <=> ClosedNote(c)

TasksSame == \A l \in Listens : OpenTask(l)' <=> OpenTask(l)

LEMMA NotesSameBy == ASSUME NotesBy(Asides) PROVE NotesSame
<1>1. \A x : <<"opened", x>> \notin Asides /\ <<"closed", x>> \notin Asides
  BY DEF Asides, OtherNotes
<1>2. \A x : x \notin Asides => (In(completions', x) <=> In(completions, x))
  BY DEF NotesBy, Grown, Shrunk
<1> QED
  BY <1>1, <1>2 DEF NotesSame, OpenedNote, ClosedNote

LEMMA MarkedSame ==
  ASSUME Fields, NEW s \in Streams, NEW c \in Calls \ Closes,
         MarkClosed(s, <<>>) \/ MarkClosed(s, <<<<"settle", c>>>>)
  PROVE  NotesSame
<1>1. CASE MarkClosed(s, <<>>)
  <2>1. NotesBy(OtherNotes)
    BY <1>1, MarkedOnly
  <2>2. NotesBy(Asides)
    BY <2>1 DEF NotesBy, Asides
  <2> QED
    BY <2>2, NotesSameBy
<1>2. CASE MarkClosed(s, <<<<"settle", c>>>>)
  <2> DEFINE n == <<"settle", c>>
  <2>1. PICK Z \in SUBSET OtherNotes : Grown(completions, completions', {n} \cup Z)
    BY <1>2, MarkedWith
  <2>2. n \in Asides /\ OtherNotes \subseteq Asides
    BY DEF Asides
  <2> HIDE DEF n
  <2>3. {n} \cup Z \in SUBSET Asides
    BY <2>2
  <2> QED
    BY <2>1, <2>3, NotesSameBy DEF NotesBy
<1> QED
  BY <1>1, <1>2

LEMMA NotifiedSame ==
  ASSUME Fields, NEW note, NEW x, Notify(note, x), <<note, x>> \in Asides
  PROVE  NotesSame
<1> DEFINE n == <<note, x>>
<1>1. Grown(completions, completions', {n}) /\ n \in Asides
  BY Notified
<1> HIDE DEF n
<1>2. {n} \in SUBSET Asides
  BY <1>1
<1> QED
  BY <1>1, <1>2, NotesSameBy DEF NotesBy

LEMMA TookSame ==
  ASSUME Fields, NEW note, NEW x, Take(note, x), <<note, x>> \in Asides
  PROVE  NotesSame
<1>1. Shrunk(completions, completions', <<note, x>>)
  BY TookNote
<1> QED
  BY <1>1, NotesSameBy DEF NotesBy

LEMMA PostedSame ==
  ASSUME Fields, NEW kind, NEW x, Post(kind, x), kind # "open"
  PROVE  TasksSame
<1>1. Grown(tasks, tasks', {<<kind, x>>})
  BY Posted
<1>2. \A l : <<"open", l>> # <<kind, x>>
  OBVIOUS
<1> QED
  BY <1>1, <1>2 DEF TasksSame, OpenTask, Grown

LEMMA RanSame ==
  ASSUME Fields, tasks # <<>>, Head(tasks)[1] # "open", tasks' = Tail(tasks)
  PROVE  TasksSame
<1>1. Shrunk(tasks, tasks', Head(tasks))
  BY TookTask
<1>2. \A l : <<"open", l>> # Head(tasks)
  OBVIOUS
<1> QED
  BY <1>1, <1>2 DEF TasksSame, OpenTask, Shrunk

\* Neither the server nor one of its calls is concerned.
Bystander ==
  /\ UNCHANGED <<listening, closed, aliveHeld, open, released, early>>
  /\ step' = "flags" => step = "flags"
  /\ \A c \in Listens \cup Closes : call'[c] = call[c]
  /\ NotesSame /\ TasksSame

LEMMA OpensSame ==
  ASSUME NotesSame, \A l \in Listens : call'[l] = "ok" <=> call[l] = "ok"
  PROVE  Opens' = Opens
  BY DEF Opens, NotesSame

LEMMA BystanderKeeps ==
  ASSUME ServerOK, PromptOK, Bystander
  PROVE  ServerOK' /\ PromptOK'
<1>1. Opens' = Opens
  BY OpensSame DEF Bystander
<1>2. ServerOK'
  BY <1>1 DEF ServerOK, Bystander, NotesSame
<1>3. PromptOK'
  BY <1>1 DEF PromptOK, Bystander, NotesSame, TasksSame
<1> QED
  BY <1>2, <1>3

\* Requests, streams and chunks are no concern of the server's.
LEMMA OtherCalls ==
  \A c \in Writes \cup Responds \cup Ends : c \notin Listens \cup Closes
  BY HttpServerAssumption

LEMMA JsBystander ==
  ASSUME Fields,
         \/ \E r \in Requests : Answer(r)
         \/ \E s \in Streams : Settle(s) \/ Respond(s) \/ End(s) \/ OnClose(s)
         \/ \E w \in Writes : Write(w)
  PROVE  Bystander
<1> USE CallTypes, OtherCalls
<1>1. ASSUME NEW r \in Requests, Answer(r) PROVE Bystander
  BY <1>1 DEF Answer, Bystander, NotesSame, TasksSame, OpenedNote, ClosedNote, OpenTask, server, io,
              history
<1>2. ASSUME NEW s \in Streams, Settle(s) PROVE Bystander
  <2>1. tasks' = tasks \/ Post("finish", s)
    BY <1>2 DEF Settle, Post
  <2>2. TasksSame
    BY <2>1, PostedSame DEF TasksSame, OpenTask
  <2> QED
    BY <1>2, <2>2 DEF Settle, Bystander, NotesSame, OpenedNote, ClosedNote, server, io, history
<1>3. ASSUME NEW s \in Streams, Respond(s) PROVE Bystander
  <2>1. \A d \in Listens \cup Closes : call'[d] = call[d]
    <3> DEFINE c == <<"respond", s>>
    <3>1. c \notin Listens \cup Closes /\ call' = [call EXCEPT ![c] = "pending"]
      BY <1>3 DEF Respond, Settled
    <3> HIDE DEF c
    <3> QED
      BY <3>1 DEF Fields
  <2>2. TasksSame
    BY <1>3, PostedSame DEF Respond
  <2> QED
    BY <1>3, <2>1, <2>2 DEF Respond, Bystander, NotesSame, OpenedNote, ClosedNote, server, io, history
<1>4. ASSUME NEW s \in Streams, End(s) PROVE Bystander
  <2>1. \A d \in Listens \cup Closes : call'[d] = call[d]
    <3> DEFINE c == <<"end", s>>
    <3>1. c \notin Listens \cup Closes /\ call' = [call EXCEPT ![c] = "pending"]
      BY <1>4 DEF End, Settled
    <3> HIDE DEF c
    <3> QED
      BY <3>1 DEF Fields
  <2>2. TasksSame
    BY <1>4, PostedSame DEF End
  <2> QED
    BY <1>4, <2>1, <2>2 DEF End, Bystander, NotesSame, OpenedNote, ClosedNote, server, io, history
<1>5. ASSUME NEW s \in Streams, OnClose(s) PROVE Bystander
  <2>1. completions' = completions \/ Notify("cleanup", s)
    BY <1>5 DEF OnClose, Notify
  <2>2. <<"cleanup", s>> \in Asides
    BY DEF Asides, OtherNotes
  <2>3. NotesSame
    BY <2>1, <2>2, NotifiedSame DEF NotesSame, OpenedNote, ClosedNote
  <2> QED
    BY <1>5, <2>3 DEF OnClose, Bystander, TasksSame, OpenTask, server, io, history
<1>6. ASSUME NEW w \in Writes, Write(w) PROVE Bystander
  <2>1. /\ Post("write", w) \/ Post("finish", On[w])
        /\ completions' = completions \/ MarkClosed(On[w], <<>>)
        /\ Settled(w, "pending") \/ Settled(w, "done")
    BY <1>6 DEF Write
  <2>2. \A c \in Listens \cup Closes : call'[c] = call[c]
    BY <2>1 DEF Settled, Fields
  <2>3. TasksSame
    BY <2>1, PostedSame
  <2>4. NotesSame
    <3>1. On[w] \in Streams /\ w \in Calls \ Closes
      OBVIOUS
    <3> QED
      BY <2>1, <3>1, MarkedSame DEF NotesSame, OpenedNote, ClosedNote
  <2> QED
    BY <1>6, <2>2, <2>3, <2>4 DEF Write, Bystander, server, io, history
<1> QED
  BY <1>1, <1>2, <1>3, <1>4, <1>5, <1>6

LEMMA LoopBystander ==
  ASSUME Fields, (\E r \in Requests : RunDispatch(r)) \/ \E s \in Streams : RunCleanup(s)
  PROVE  Bystander
<1>1. ASSUME NEW r \in Requests, RunDispatch(r) PROVE Bystander
  <2>1. tasks' = tasks \/ Post("finish", r)
    BY <1>1 DEF RunDispatch, Dispatch
  <2>2. TasksSame
    BY <2>1, PostedSame DEF TasksSame, OpenTask
  <2>3. <<"dispatch", r>> \in Asides
    BY DEF Asides, OtherNotes
  <2>4. NotesSame
    BY <1>1, <2>3, TookSame DEF RunDispatch
  <2> QED
    BY <1>1, <2>2, <2>4 DEF RunDispatch, Bystander, server, io, history
<1>2. ASSUME NEW s \in Streams, RunCleanup(s) PROVE Bystander
  <2>1. <<"cleanup", s>> \in Asides
    BY DEF Asides, OtherNotes
  <2>2. NotesSame
    BY <1>2, <2>1, TookSame DEF RunCleanup
  <2> QED
    BY <1>2, <2>2 DEF RunCleanup, Bystander, TasksSame, OpenTask, server, io, history
<1> QED
  BY <1>1, <1>2

LEMMA WorkerBystander ==
  ASSUME Fields, StepOK,
         \/ \E c \in Closes : RunClose(c)
         \/ \E s \in Streams : Finish(s) \/ Finished(s) \/ RunRespond(s)
         \/ \E w \in Writes : RunWrite(w)
         \/ Flushes
         \/ \E r \in Requests : Arrive(r)
         \/ UNCHANGED vars
  PROVE  Bystander
<1> USE CallTypes
<1>1. ASSUME NEW s \in Streams, Finished(s) PROVE Bystander
  <2>1. tasks # <<>> /\ step = s
    BY <1>1 DEF Finished, Fields
  <2>2. TasksSame /\ step' # "flags"
    <3>1. CASE Head(tasks)[1] = "close"
      BY <1>1, <3>1 DEF Finished, TasksSame, OpenTask
    <3>2. CASE Head(tasks)[1] # "close"
      <4>1. Head(tasks)[1] # "open"
        BY <2>1, <3>2 DEF StepOK
      <4> QED
        BY <1>1, <2>1, <3>2, <4>1, RanSame DEF Finished
    <3> QED
      BY <3>1, <3>2
  <2>3. NotesSame
    <3>1. <<"end", s>> \in Calls \ Closes
      OBVIOUS
    <3>2. MarkClosed(s, <<>>) \/ MarkClosed(s, <<<<"settle", <<"end", s>>>>>>)
      BY <1>1 DEF Finished
    <3> QED
      BY <3>1, <3>2, MarkedSame
  <2> QED
    BY <1>1, <2>2, <2>3 DEF Finished, Bystander, server, history
<1>2. ASSUME NEW s \in Streams, RunRespond(s) PROVE Bystander
  <2>1. /\ Running("respond", s) /\ tasks' = Tail(tasks)
        /\ completions' = completions \/ MarkClosed(s, <<<<"settle", <<"respond", s>>>>>>)
    BY <1>2 DEF RunRespond, Fail
  <2>2. TasksSame
    <3>1. tasks # <<>> /\ Head(tasks)[1] # "open" /\ tasks' = Tail(tasks)
      BY <2>1 DEF Running
    <3> QED
      BY <3>1, RanSame
  <2>3. NotesSame
    <3>1. <<"respond", s>> \in Calls \ Closes
      OBVIOUS
    <3> QED
      BY <2>1, <3>1, MarkedSame DEF NotesSame, OpenedNote, ClosedNote
  <2> QED
    BY <1>2, <2>2, <2>3 DEF RunRespond, Bystander, server, io, history
<1>3. ASSUME NEW w \in Writes, RunWrite(w) PROVE Bystander
  <2>1. /\ Running("write", w) /\ tasks' = Tail(tasks)
        /\ completions' = completions \/ MarkClosed(On[w], <<<<"settle", w>>>>)
    BY <1>3 DEF RunWrite, Fail
  <2>2. TasksSame
    <3>1. tasks # <<>> /\ Head(tasks)[1] # "open" /\ tasks' = Tail(tasks)
      BY <2>1 DEF Running
    <3> QED
      BY <3>1, RanSame
  <2>3. NotesSame
    <3>1. On[w] \in Streams /\ w \in Calls \ Closes
      OBVIOUS
    <3> QED
      BY <2>1, <3>1, MarkedSame DEF NotesSame, OpenedNote, ClosedNote
  <2> QED
    BY <1>3, <2>2, <2>3 DEF RunWrite, Bystander, server, io, history
<1>4. CASE Flushes
  <2>1. PICK s \in Streams, c \in Calls \ Closes : Flushed(c, s) /\ FlushOf(c, s)
    BY <1>4, FlushIs
  <2>2. Notify("settle", c) \/ MarkClosed(s, <<<<"settle", c>>>>)
    BY <2>1 DEF Flushed, Fail
  <2>3. <<"settle", c>> \in Asides
    BY DEF Asides
  <2>4. NotesSame
    BY <2>2, <2>3, NotifiedSame, MarkedSame
  <2> QED
    BY <2>1, <2>4 DEF Flushed, Bystander, TasksSame, OpenTask, server, io, history
<1>5. ASSUME NEW r \in Requests, Arrive(r) PROVE Bystander
  <2>1. <<"dispatch", r>> \in Asides
    BY DEF Asides, OtherNotes
  <2>2. NotesSame
    BY <1>5, <2>1, NotifiedSame DEF Arrive, NotesSame, OpenedNote, ClosedNote
  <2> QED
    BY <1>5, <2>2 DEF Arrive, Bystander, TasksSame, OpenTask, server, io, history
<1>6. CASE (\E c \in Closes : RunClose(c)) \/ \E s \in Streams : Finish(s)
  BY <1>6 DEF RunClose, Finish, Bystander, NotesSame, TasksSame, OpenedNote, ClosedNote, OpenTask, server,
              history
<1>7. CASE UNCHANGED vars
  BY <1>7 DEF vars, Bystander, NotesSame, TasksSame, OpenedNote, ClosedNote, OpenTask, server, io, history
<1> QED
  BY <1>1, <1>2, <1>3, <1>4, <1>5, <1>6, <1>7

\* A completion that settles a call takes it from being pending.
LEMMA NotePending ==
  ASSUME Fields, CallsOK, NEW c \in Calls, NEW note \in {"opened", "closed", "settle"}, Take(note, c)
  PROVE  call[c] = "pending"
<1>1. In(completions, <<note, c>>) /\ <<note, c>> \in NotesOf(c)
  BY TookNote DEF Shrunk, NotesOf
<1> QED
  BY <1>1 DEF CallsOK, CallOK, Noted

\* A listen() or a close() that is posted or noted is pending, and in one place.
LEMMA ServerCalls ==
  ASSUME Fields, CallsOK
  PROVE  /\ \A l \in Listens : /\ OpenTask(l) => call[l] = "pending" /\ ~OpenedNote(l)
                               /\ OpenedNote(l) => call[l] = "pending"
                               /\ OpenedNote(l) => ~In(completions, <<"settle", l>>)
         /\ \A c \in Closes : /\ In(tasks, <<"close", c>>) => call[c] = "pending"
                              /\ ClosedNote(c) => call[c] = "pending"
<1> USE CallTypes
<1>1. ASSUME NEW l \in Listens
      PROVE  /\ OpenTask(l) => call[l] = "pending" /\ ~OpenedNote(l)
             /\ OpenedNote(l) => call[l] = "pending"
             /\ OpenedNote(l) => ~In(completions, <<"settle", l>>)
  <2>1. CallOK(l) /\ Task(l) = <<"open", l>>
    BY TaskIs DEF CallsOK
  <2>2. <<"opened", l>> \in NotesOf(l) /\ <<"settle", l>> \in NotesOf(l) /\ <<"opened", l>> # <<"settle", l>>
    BY DEF NotesOf
  <2> QED
    BY <2>1, <2>2 DEF CallOK, Noted, OpenTask, OpenedNote
<1>2. ASSUME NEW c \in Closes
      PROVE  /\ In(tasks, <<"close", c>>) => call[c] = "pending"
             /\ ClosedNote(c) => call[c] = "pending"
  <2>1. CallOK(c) /\ Task(c) = <<"close", c>> /\ <<"closed", c>> \in NotesOf(c)
    BY TaskIs DEF CallsOK, NotesOf
  <2> QED
    BY <2>1 DEF CallOK, Noted, ClosedNote
<1> QED
  BY <1>1, <1>2

\* close_server() runs for a close() that is pending.
LEMMA Closing ==
  ASSUME Fields, CallsOK, step \in {"closing", "flags"}
  PROVE  \E c \in Closes : Head(tasks) = <<"close", c>> /\ call[c] = "pending"
<1>1. tasks # <<>> /\ Head(tasks)[1] = "close"
  BY DEF Fields
<1>2. Head(tasks) \in Tasks /\ In(tasks, Head(tasks))
  BY <1>1, TookTask DEF Shrunk
<1>3. PICK c \in Closes : Head(tasks) = <<"close", c>>
  BY <1>1, <1>2 DEF Tasks
<1> QED
  BY <1>2, <1>3, ServerCalls

LEMMA ServerJs ==
  ASSUME Fields, Fields', CallsOK, ServerOK, PromptOK, JsCalls
  PROVE  ServerOK' /\ PromptOK'
<1> USE CallTypes
<1>1. ASSUME NEW l \in Listens, Listen(l)
      PROVE  ServerOK' /\ PromptOK'
  <2>1. /\ ~closed /\ UNCHANGED <<listening, closed, aliveHeld, open, step, released, early, completions>>
        /\ \A c \in Closes : call'[c] = call[c]
        /\ \A k \in Listens : call'[k] = "ok" <=> call[k] = "ok"
    BY <1>1, HttpServerAssumption DEF Listen, server, io, history, Settled, Fields
  <2>2. NotesSame /\ Opens' = Opens
    BY <2>1, OpensSame DEF NotesSame, OpenedNote, ClosedNote
  <2>3. ServerOK'
    BY <2>1, <2>2 DEF ServerOK, NotesSame
  <2>4. PromptOK'
    BY <2>1, <2>2 DEF PromptOK, NotesSame
  <2> QED
    BY <2>3, <2>4
<1>2. ASSUME NEW c \in Closes, CloseIdle(c)
      PROVE  ServerOK' /\ PromptOK'
  <2>1. /\ UNCHANGED <<listening, aliveHeld, open, step, released, completions, tasks>>
        /\ closed' = TRUE /\ (closed \/ ~listening) /\ early' = early \cup Listening
        /\ call[c] = "new" /\ call'[c] = "done" /\ \A d \in Closes \ {c} : call'[d] = call[d]
        /\ \A l \in Listens : call'[l] = call[l]
    BY <1>2, HttpServerAssumption DEF CloseIdle, io, Settled, Fields
  <2>2. NotesSame /\ TasksSame /\ Opens' = Opens
    BY <2>1, OpensSame DEF NotesSame, TasksSame, OpenedNote, ClosedNote, OpenTask
  <2>3. ServerOK'
    BY <2>1, <2>2 DEF ServerOK, NotesSame
  <2>4. ASSUME early' = {}
        PROVE  early = {} /\ \A l \in Listens : ~OpenTask(l) /\ ~OpenedNote(l)
    BY <2>1, <2>4, ServerCalls DEF Listening
  <2>5. closed \/ ~open
    BY <2>1 DEF ServerOK
  <2>6. PromptOK'
    BY <2>1, <2>2, <2>4, <2>5 DEF PromptOK, NotesSame, TasksSame
  <2> QED
    BY <2>3, <2>6
<1>3. ASSUME NEW c \in Closes, CloseServer(c)
      PROVE  ServerOK' /\ PromptOK'
  <2>1. /\ UNCHANGED <<listening, closed, aliveHeld, open, step, released, completions>>
        /\ ~closed /\ listening /\ early' = early \cup Listening
        /\ call[c] = "new" /\ call'[c] = "pending" /\ \A d \in Closes \ {c} : call'[d] = call[d]
        /\ \A l \in Listens : call'[l] = call[l]
    BY <1>3, HttpServerAssumption DEF CloseServer, server, io, Settled, Fields
  <2>2. NotesSame /\ Opens' = Opens
    BY <2>1, OpensSame DEF NotesSame, OpenedNote, ClosedNote
  <2>3. ServerOK'
    BY <2>1, <2>2 DEF ServerOK, NotesSame
  <2>4. ASSUME early' = {}
        PROVE  early = {} /\ \A l \in Listens : ~OpenedNote(l)
    BY <2>1, <2>4, ServerCalls DEF Listening
  <2>5. PromptOK'
    BY <2>1, <2>2, <2>4 DEF PromptOK, NotesSame
  <2> QED
    BY <2>3, <2>5
<1> QED
  BY <1>1, <1>2, <1>3, JsBystander, BystanderKeeps DEF JsCalls

LEMMA ServerLoop ==
  ASSUME Fields, Fields', CallsOK, ServerOK, PromptOK, Loop
  PROVE  ServerOK' /\ PromptOK'
<1> USE CallTypes
<1>1. ASSUME NEW l \in Listens, Opened(l)
      PROVE  ServerOK' /\ PromptOK'
  <2>1. /\ UNCHANGED <<listening, closed, open, step, released, early, tasks>>
        /\ aliveHeld' = TRUE /\ call'[l] = "ok"
        /\ \A k \in Listens \ {l} : call'[k] = call[k]
        /\ \A c \in Closes : call'[c] = call[c]
    BY <1>1, HttpServerAssumption DEF Opened, io, history, Settled, Fields
  <2>2. Shrunk(completions, completions', <<"opened", l>>)
    BY <1>1, TookNote DEF Opened
  <2>3. /\ OpenedNote(l) /\ \A c \in Closes : ClosedNote(c)' <=> ClosedNote(c)
        /\ \A k \in Listens : OpenedNote(k)' => OpenedNote(k)
        /\ \A k \in Listens \ {l} : OpenedNote(k)' <=> OpenedNote(k)
    BY <2>2 DEF Shrunk, OpenedNote, ClosedNote
  <2>4. Opens' = Opens /\ l \in Opens
    BY <2>1, <2>3 DEF Opens
  <2>5. ServerOK'
    BY <2>1, <2>3, <2>4 DEF ServerOK
  <2>6. TasksSame
    BY <2>1 DEF TasksSame, OpenTask
  <2>7. early = {} /\ (\A j, k \in Opens : j = k) => open
    BY <2>3, <2>4 DEF PromptOK, ServerOK
  <2>8. PromptOK'
    BY <2>1, <2>3, <2>4, <2>6, <2>7 DEF PromptOK, TasksSame
  <2> QED
    BY <2>5, <2>8
<1>2. ASSUME NEW c \in Closes, Closed(c)
      PROVE  ServerOK' /\ PromptOK'
  <2>1. /\ UNCHANGED <<listening, closed, open, step, early, tasks>>
        /\ aliveHeld' = FALSE /\ released' \subseteq released \cup {c}
        /\ call'[c] = "done" /\ \A d \in Closes \ {c} : call'[d] = call[d]
        /\ \A l \in Listens : call'[l] = call[l]
    BY <1>2, HttpServerAssumption DEF Closed, io, Settled, Fields
  <2>2. Shrunk(completions, completions', <<"closed", c>>)
    BY <1>2, TookNote DEF Closed
  <2>3. /\ ClosedNote(c) /\ \A d \in Closes : ClosedNote(d)' => ClosedNote(d)
        /\ \A l \in Listens : OpenedNote(l)' <=> OpenedNote(l)
    BY <2>2 DEF Shrunk, OpenedNote, ClosedNote
  <2>4. Opens' = Opens /\ TasksSame
    BY <2>1, <2>3 DEF Opens, TasksSame, OpenTask
  <2>5. closed /\ call[c] = "pending"
    BY <1>2, <2>3, NotePending DEF ServerOK, Closed
  <2>6. ServerOK'
    BY <2>1, <2>3, <2>4, <2>5 DEF ServerOK
  <2>7. PromptOK'
    BY <2>1, <2>3, <2>4, <2>5 DEF PromptOK, TasksSame
  <2> QED
    BY <2>6, <2>7
<1>3. ASSUME NEW c \in Calls, SettleCall(c)
      PROVE  ServerOK' /\ PromptOK'
  <2>1. Shrunk(completions, completions', <<"settle", c>>) /\ <<"settle", c>> \in Notes
    BY <1>3, TookNote DEF SettleCall
  <2>2. c \in Calls \ Closes
    BY <2>1 DEF Notes
  <2>3. /\ UNCHANGED <<listening, closed, aliveHeld, open, step, released, early, tasks>>
        /\ \A d \in Calls \ {c} : call'[d] = call[d]
        /\ call'[c] = "done" /\ call[c] = "pending"
    BY <1>3, NotePending DEF SettleCall, server, io, history, Settled, Fields
  <2>4. NotesSame /\ TasksSame
    <3>1. <<"settle", c>> \in Asides
      BY DEF Asides
    <3> QED
      BY <1>3, <2>3, <3>1, TookSame DEF SettleCall, TasksSame, OpenTask
  <2>5. /\ \A d \in Closes : call'[d] = call[d]
        /\ \A l \in Listens : call'[l] = "ok" <=> call[l] = "ok"
    BY <2>2, <2>3
  <2>6. Opens' = Opens
    BY <2>4, <2>5, OpensSame
  <2>7. ServerOK'
    BY <2>3, <2>4, <2>5, <2>6 DEF ServerOK, NotesSame
  <2>8. PromptOK'
    BY <2>3, <2>4, <2>5, <2>6 DEF PromptOK, NotesSame, TasksSame
  <2> QED
    BY <2>7, <2>8
<1> QED
  BY <1>1, <1>2, <1>3, LoopBystander, BystanderKeeps DEF Loop

LEMMA ServerWorker ==
  ASSUME Fields, Fields', CallsOK, StepOK, ServerOK, PromptOK, Worker
  PROVE  ServerOK' /\ PromptOK'
<1> USE CallTypes
<1>1. ASSUME NEW l \in Listens, RunOpen(l)
      PROVE  ServerOK' /\ PromptOK'
  <2>1. /\ UNCHANGED <<closed, aliveHeld, call, step, released, early>> /\ step = "idle"
    BY <1>1 DEF RunOpen, io, history
  <2>2. Shrunk(tasks, tasks', <<"open", l>>)
    BY <1>1, Heads DEF RunOpen
  <2>3. /\ OpenTask(l) /\ ~OpenedNote(l) /\ call[l] = "pending"
        /\ \A k \in Listens : OpenTask(k)' => OpenTask(k)
    BY <2>2, ServerCalls DEF Shrunk, OpenTask
  <2>4. CASE open' = TRUE /\ listening' = TRUE /\ Notify("opened", l)
    <3>1. Grown(completions, completions', {<<"opened", l>>})
      BY <2>4, Notified
    <3>2. /\ \A k \in Listens : OpenedNote(k)' <=> OpenedNote(k) \/ k = l
          /\ \A c \in Closes : ClosedNote(c)' <=> ClosedNote(c)
      BY <3>1 DEF Grown, OpenedNote, ClosedNote
    <3>3. Opens' = Opens \cup {l} /\ l \notin Opens
      BY <2>1, <2>3, <3>2 DEF Opens
    <3>4. ServerOK'
      BY <2>1, <2>4, <3>2, <3>3 DEF ServerOK
    <3>5. ASSUME early = {}, \A j, k \in Opens' : j = k
          PROVE  ~closed /\ \A c \in Closes : call[c] = "new"
      <4>1. Opens = {}
        BY <3>3, <3>5
      <4>2. ~closed
        BY <2>3, <3>5, <4>1 DEF PromptOK
      <4>3. \A c \in Closes : call[c] \notin {"ok", "pending", "done"}
        BY <4>1, <4>2 DEF ServerOK
      <4> QED
        BY <4>2, <4>3 DEF Fields
    <3>6. PromptOK'
      BY <2>1, <2>4, <3>2, <3>3, <3>5 DEF PromptOK
    <3> QED
      BY <3>4, <3>6
  <2>5. CASE Notify("settle", l) /\ UNCHANGED <<open, listening>>
    <3>1. <<"settle", l>> \in Asides
      BY DEF Asides
    <3>2. NotesSame
      BY <2>5, <3>1, NotifiedSame
    <3>3. Opens' = Opens
      BY <2>1, <3>2, OpensSame
    <3>4. ServerOK'
      BY <2>1, <2>5, <3>2, <3>3 DEF ServerOK, NotesSame
    <3>5. PromptOK'
      BY <2>1, <2>3, <2>5, <3>2, <3>3 DEF PromptOK, NotesSame
    <3> QED
      BY <3>4, <3>5
  <2> QED
    BY <1>1, <2>4, <2>5 DEF RunOpen
<1>2. CASE CloseListener
  <2>1. /\ UNCHANGED <<closed, aliveHeld, call, released, early, tasks, completions>>
        /\ open' = FALSE /\ listening' = FALSE /\ step = "closing"
    BY <1>2 DEF CloseListener, history
  <2>2. PICK c \in Closes : call[c] = "pending"
    BY <2>1, Closing
  <2>3. NotesSame /\ TasksSame /\ Opens' = Opens
    BY <2>1, OpensSame DEF NotesSame, TasksSame, OpenedNote, ClosedNote, OpenTask
  <2>4. ServerOK'
    BY <2>1, <2>2, <2>3 DEF ServerOK, NotesSame
  <2>5. PromptOK'
    BY <2>1, <2>2, <2>3 DEF PromptOK, NotesSame, TasksSame
  <2> QED
    BY <2>4, <2>5
<1>3. CASE CloseDone
  <2>1. /\ UNCHANGED <<listening, aliveHeld, open, call, released, early>>
        /\ closed' = TRUE /\ step = "flags" /\ step' = "idle" /\ tasks' = Tail(tasks)
        /\ Notify("closed", Head(tasks)[2])
    BY <1>3 DEF CloseDone, history
  <2>2. PICK c \in Closes : Head(tasks) = <<"close", c>> /\ call[c] = "pending"
    BY <2>1, Closing
  <2>3. Notify("closed", c)
    BY <2>1, <2>2
  <2>4. Grown(completions, completions', {<<"closed", c>>})
    BY <2>3, Notified
  <2>5. \A l \in Listens : OpenedNote(l)' <=> OpenedNote(l)
    BY <2>4 DEF Grown, OpenedNote
  <2>6. Opens' = Opens /\ Opens # {} /\ ~open
    BY <2>1, <2>2, <2>5 DEF Opens, ServerOK
  <2>7. ServerOK'
    BY <2>1, <2>6 DEF ServerOK
  <2>8. PromptOK'
    BY <2>1, <2>5, <2>6 DEF PromptOK
  <2> QED
    BY <2>7, <2>8
<1> QED
  BY <1>1, <1>2, <1>3, WorkerBystander, BystanderKeeps DEF Worker

LEMMA ServerStep ==
  ASSUME Fields, Fields', CallsOK, StepOK, ServerOK, PromptOK, [Next]_vars
  PROVE  ServerOK' /\ PromptOK'
  BY ServerJs, ServerLoop, ServerWorker, WorkerBystander, BystanderKeeps DEF Next

-----------------------------------------------------------------------------
(* The theorems. *)

LEMMA InitQueues ==
  ASSUME Init
  PROVE  /\ \A x : ~In(tasks, x) /\ ~In(completions, x)
         /\ \A x : Once(tasks, x) /\ Once(completions, x)
  BY DEF Init, In, Once

LEMMA InitFields == Init => Fields
<1> SUFFICES ASSUME Init PROVE Fields
  OBVIOUS
<1> DEFINE W == {"head", "end", "whole"} \cup Writes
<1>1. <<>> \in Seq(Tasks) /\ <<>> \in Seq(Notes) /\ <<>> \in Seq(W)
  OBVIOUS
<1> HIDE DEF W
<1>2. wire \in [Streams -> Seq(W)]
  BY <1>1 DEF Init
<1>3. call \in [Calls -> {"new", "pending", "ok", "done"}]
  BY DEF Init
<1> QED
  BY <1>1, <1>2, <1>3 DEF Init, Fields, W

LEMMA InitCounts == Init => Lifetime /\ Buffers
<1> SUFFICES ASSUME Init PROVE Lifetime /\ Buffers
  OBVIOUS
<1>1. Pending = {} /\ Coming = {} /\ alive = {} /\ Resolved = {} /\ released = {}
  BY CallTypes DEF Init, Pending, Coming, Resolved
<1>2. Promises = 0 /\ Handlers = 0 /\ Living = 0 /\ Lifetimes = 0 /\ GivenUp = 0
  BY <1>1, FS_EmptySet DEF Promises, Handlers, Living, Lifetimes, GivenUp
<1>3. Lifetime
  BY <1>2, KeepIs, LifetimeIs DEF Init, Lifetime
<1>4. \A s \in Streams : Given(s) = {}
  BY InitQueues DEF Init, Given, Held
<1>5. \A s \in Streams : buffered[s] = 0 /\ Cardinality(Given(s)) = 0
  BY <1>4, FS_EmptySet DEF Init
<1>6. Buffers
  BY <1>5, BufferIs, HttpServerAssumption DEF Buffers, Init
<1> QED
  BY <1>3, <1>6

LEMMA InitIInv == Init => IInv
<1> SUFFICES ASSUME Init PROVE IInv
  OBVIOUS
<1> USE CallTypes
<1>1. Fields /\ Lifetime /\ Buffers
  BY InitFields, InitCounts
<1>2. TypeOK
  BY <1>1, TypeIs DEF Counters, Lifetime, Buffers
<1>3. CallsOK
  BY InitQueues DEF Init, CallsOK, CallOK, Noted
<1>4. DispatchOK
  BY InitQueues DEF DispatchOK
<1>5. SeenOK
  BY InitQueues DEF Init, SeenOK, About
<1>6. StepOK /\ EndOK
  BY DEF Init, StepOK, EndOK
<1>7. WireOK /\ WireWellFormed
  <2>1. resp = {} /\ \A s \in Streams : wire[s] = <<>> /\ ~In(tasks, <<"respond", s>>)
    BY InitQueues DEF Init
  <2>2. WireOK
    BY <2>1 DEF WireOK
  <2>3. \A s \in Streams : \A i \in DOMAIN wire[s] : FALSE
    <3>1. \A q : q = <<>> => \A i \in DOMAIN q : FALSE
      OBVIOUS
    <3> QED
      BY <2>1, <3>1
  <2> QED
    BY <2>2, <2>3 DEF WireWellFormed
<1>8. Opens = {}
  BY InitQueues DEF Init, Opens, OpenedNote
<1>9. ServerOK /\ PromptOK
  BY <1>8, InitQueues DEF Init, ServerOK, PromptOK, ClosedNote, OpenedNote, OpenTask
<1>10. NoCallbackLost /\ NoForgottenStream /\ ClosingOK /\ CloseFindsStreams
  BY DEF Init, NoCallbackLost, NoForgottenStream, ClosingOK, CloseFindsStreams, InCloseServer
<1> QED
  BY <1>1, <1>2, <1>3, <1>4, <1>5, <1>6, <1>7, <1>9, <1>10 DEF IInv, Lifetime, Buffers

LEMMA StepIInv == ASSUME IInv, [Next]_vars PROVE IInv'
<1>1. /\ Fields /\ Lifetime /\ Buffers /\ CallsOK /\ DispatchOK /\ SeenOK /\ StepOK /\ EndOK
      /\ WireOK /\ ServerOK /\ PromptOK /\ WireWellFormed /\ NoCallbackLost /\ NoForgottenStream
      /\ ClosingOK /\ CloseFindsStreams
  BY TypeIs DEF IInv, Lifetime, Buffers, Counters
<1>2. Fields'
  BY <1>1, FieldsStep
<1>3. CallsOK' /\ DispatchOK'
  BY <1>1, <1>2, CallsStep, DispatchStep
<1>4. SeenOK' /\ StepOK' /\ EndOK'
  BY <1>1, <1>2, SeenStep, StepStep, EndStep
<1>5. (WireOK /\ WireWellFormed)'
  BY <1>1, <1>2, WireStep
<1>6. NoCallbackLost' /\ NoForgottenStream'
  BY <1>1, <1>2, CallbackStep, ForgottenStep
<1>7. Lifetime'
  BY <1>1, <1>2, KeepStep
<1>8. Buffers'
  BY <1>1, BufferStep
<1>9. ServerOK' /\ PromptOK'
  BY <1>1, <1>2, ServerStep
<1>10. TypeOK'
  BY <1>2, <1>7, <1>8, TypeIsNext DEF Counters, Lifetime, Buffers
<1>11. ClosingOK' /\ CloseFindsStreams'
  BY <1>1, <1>2, ClosingStep
<1> QED
  BY <1>3, <1>4, <1>5, <1>6, <1>7, <1>8, <1>9, <1>10, <1>11 DEF IInv, Lifetime, Buffers

\* What every state of the server satisfies.
THEOREM Inductive == Spec => []IInv
<1>1. IInv /\ [Next]_vars => IInv'
  BY StepIInv
<1> QED
  BY <1>1, InitIInv, PTL DEF Spec

\* The variables have their types, among them the two counters of the code: the
\* keep-alive count of the AsyncHost is never negative, and no stream has more chunks
\* buffered than maxBufferedBytes lets it.
THEOREM TypeCorrect == Spec => []TypeOK
<1>1. IInv => TypeOK
  BY DEF IInv
<1> QED
  BY <1>1, Inductive, PTL

\* The AsyncHost counts exactly what is in progress, however calls, requests, failures
\* and closes interleave: the process neither exits too early nor hangs for a count
\* that nobody will take back.
THEOREM KeepAliveIsExact == Spec => []KeepAliveExact
<1>1. IInv => KeepAliveExact
  BY DEF IInv
<1> QED
  BY <1>1, Inductive, PTL

\* bufferedBytes is the sum of what is posted or being flushed: every way out of a
\* write gives its share back once.
THEOREM BufferAlwaysMatches == Spec => []BufferMatches
<1>1. IInv => BufferMatches
  BY DEF IInv
<1> QED
  BY <1>1, Inductive, PTL

\* What a client is sent is at all times the beginning of one response, a whole one or a
\* head with chunks behind it, and nothing after an end, whoever of the script, its
\* handler and close_server() ends the stream first.  Whether the end comes is open: the
\* head of a respond() that runs behind the finish of its stream is never ended.
THEOREM WireAlwaysFormed == Spec => []WireWellFormed
<1>1. IInv => WireWellFormed
  BY DEF IInv
<1> QED
  BY <1>1, Inductive, PTL

\* An onClose callback is called and the stream's operation released once the cleanup
\* has run, whether the callback was registered before the stream ended or after.
THEOREM CallbacksNeverLost == Spec => []NoCallbackLost
<1>1. IInv => NoCallbackLost
  BY DEF IInv
<1> QED
  BY <1>1, Inductive, PTL

\* Closing a server ends its streams, but for those that the loop opened while
\* close_server() was under way: these alone are open on a closed server.
THEOREM CloseFindsItsStreams == Spec => []CloseFindsStreams
<1>1. IInv => CloseFindsStreams
  BY DEF IInv
<1> QED
  BY <1>1, Inductive, PTL

\* When no listen() was in flight at a close() and listen() resolved once, a server
\* whose close() has resolved accepts nothing and holds no operation.
THEOREM PromptCloseAlwaysReleases == Spec => []PromptCloseReleases
<1>1. ASSUME IInv
      PROVE  PromptCloseReleases
  <2> USE CallTypes
  <2> SUFFICES ASSUME early = {}, Cardinality(Resolved) < 2, Over
               PROVE  ~open /\ ~aliveHeld
    BY DEF PromptCloseReleases, CloseReleases, Resolved
  <2>1. Fields /\ CallsOK /\ ServerOK /\ PromptOK
    BY <1>1, TypeIs DEF IInv
  <2>2. Opens = Resolved
    BY <2>1, ServerCalls DEF Opens, Resolved, Over
  <2>3. \A k, l \in Opens : k = l
    <3> SUFFICES ASSUME NEW k \in Resolved, NEW l \in Resolved, k # l
                 PROVE  FALSE
      BY <2>2
    <3>1. {k, l} \in SUBSET Resolved /\ IsFiniteSet(Resolved) /\ Cardinality(Resolved) \in Nat
      BY <2>1, Finite, FS_CardinalityType
    <3>2. Cardinality({k, l}) = 2
      <4>1. IsFiniteSet({k}) /\ Cardinality({k}) = 1 /\ {k} \cup {l} = {k, l} /\ l \notin {k}
        BY FS_Singleton
      <4> QED
        BY <4>1, Plus
    <3>3. Cardinality({k, l}) <= Cardinality(Resolved)
      BY <3>1, FS_Subset
    <3> QED
      BY <3>1, <3>2, <3>3
  <2>4. closed /\ ~\E c \in Closes : call[c] = "pending"
    BY <2>1 DEF Over, ServerOK
  <2> QED
    BY <2>1, <2>3, <2>4 DEF PromptOK
<1> QED
  BY <1>1, Inductive, PTL
=============================================================================
