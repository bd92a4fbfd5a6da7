------------------------- MODULE SignalingHubProofs -------------------------
(***************************************************************************)
(* Proofs about SignalingHub and the WebSockets it composes: type            *)
(* correctness, the order of frames and callbacks, and that no session of the *)
(* hub is left without an owner who can close it.                            *)
(***************************************************************************)
EXTENDS SignalingHub, TLAPS, FiniteSetTheorems

Blank == ""

\* The callbacks that wait to be called for connection c.
About(i, c) == i \in DOMAIN jobs /\ jobs[i][2] = c
OpenAt(i, c) == i \in DOMAIN jobs /\ jobs[i] = <<"open", c, Blank>>
CloseAt(i, c) == i \in DOMAIN jobs /\ jobs[i] = <<"close", c, Blank>>

\* Task t sends a message on connection c, or the close frame that is an opcode.
SendOf(t, c) == \E what \in Sends : t = <<what, c>>

\* What the io thread has yet to do for connection c.
SendAt(i, c) == i \in DOMAIN tasks /\ SendOf(tasks[i], c)
ByeAt(i, c) == i \in DOMAIN tasks /\ tasks[i] = <<"bye", c>>
SendIdx(c) == {i \in DOMAIN tasks : SendOf(tasks[i], c)}

\* The map of the server holds connections that are up.
SocketsOK == \A c \in websockets : link[c] = "up"

\* bufferedBytes counts what send() took and RESTinio has not called back for.
FlowOK == \A c \in Conns : buffered[c] = flying[c] + Cardinality(SendIdx(c))

\* A connection whose close frame is on its way is closed, and no message is
\* behind it.
PartedOK ==
  \A c \in Conns :
    /\ \A i \in Nat : ByeAt(i, c) =>
         c \in closed /\ \A j \in Nat : SendAt(j, c) => j < i
    /\ "close" \in parted[c] => c \in closed /\ \A j \in Nat : ~SendAt(j, c)

\* Of the callbacks of a connection onOpen is the first and onClose the last, and a
\* connection that the hub knows, or will hear of, and that is gone has one.
QueueOK(c) ==
  /\ link[c] = "none" => \A i \in Nat : ~About(i, c)
  /\ \A i, j \in Nat : OpenAt(i, c) /\ About(j, c) => i <= j
  /\ \A i, j \in Nat : CloseAt(i, c) /\ About(j, c) => j <= i
  /\ \A i \in Nat : CloseAt(i, c) => link[c] = "down"

ToldOK(c) ==
  /\ link[c] # "none" /\ told[c] = "none" => over \/ \E i \in Nat : OpenAt(i, c)
  /\ told[c] = "close" => link[c] = "down" /\ (over \/ \A i \in Nat : ~About(i, c))
  /\ link[c] = "down" /\ (c \in known \/ \E i \in Nat : About(i, c)) =>
       over \/ \E i \in Nat : CloseAt(i, c)

CallbacksOK == \A c \in Conns : QueueOK(c) /\ ToldOK(c)

\* Each session that runs is the session of its owner's record.
OwnedOK ==
  \A s \in Sessions : life[s] = "started" => owner[s] \in known /\ session[owner[s]] = s

IInv == TypeOK /\ SocketsOK /\ FlowOK /\ PartedOK /\ CallbacksOK /\ OwnedOK

-----------------------------------------------------------------------------
(* The two queues. *)

JobSet == Kinds \X Conns \X (Texts \cup {Blank})
TaskSet == ((Sends \cup {"bye"}) \X Conns) \cup {<<"close", "server">>}

LEMMA SendIs ==
  ASSUME NEW what, NEW x, NEW c
  PROVE  SendOf(<<what, x>>, c) <=> what \in Sends /\ x = c
  BY DEF SendOf

LEMMA SendKinds == Sends = {"send", "sendClose"} /\ "bye" \notin Sends /\ "close" \notin Sends
  BY DEF Sends

LEMMA QueuesTyped == TypeOK => jobs \in Seq(JobSet) /\ tasks \in Seq(TaskSet)
  BY DEF TypeOK, WsTypeOK, JobSet, TaskSet, Blank

LEMMA AppendTo ==
  ASSUME NEW S, NEW q \in Seq(S), NEW x
  PROVE  LET n == Len(q) + 1 IN
         /\ n \in Nat /\ n # 0 /\ n \notin DOMAIN q
         /\ DOMAIN Append(q, x) = DOMAIN q \cup {n}
         /\ \A i \in DOMAIN q : i < n /\ Append(q, x)[i] = q[i]
         /\ Append(q, x)[n] = x
  OBVIOUS

LEMMA AppendTyped ==
  ASSUME NEW S, NEW q \in Seq(S), NEW x \in S
  PROVE  Append(q, x) \in Seq(S)
  OBVIOUS

LEMMA TailOf ==
  ASSUME NEW S, NEW q \in Seq(S), q # <<>>
  PROVE  /\ 1 \in DOMAIN q /\ Head(q) = q[1]
         /\ \A i \in DOMAIN q : i \in Nat /\ i # 0
         /\ \A i \in Nat : /\ i \in DOMAIN Tail(q) <=> i # 0 /\ i + 1 \in DOMAIN q
                          /\ i \in DOMAIN Tail(q) => Tail(q)[i] = q[i + 1]
  OBVIOUS

\* A callback is posted, after those that wait.
LEMMA JobsCall ==
  ASSUME TypeOK, NEW what, NEW c, NEW text, Call(what, c, text)
  PROVE  LET n == Len(jobs) + 1 IN
         /\ n \in Nat
         /\ \A i, d : About(i, d)' <=> About(i, d) \/ (i = n /\ d = c)
         /\ \A i, d : OpenAt(i, d)' <=>
              OpenAt(i, d) \/ (i = n /\ <<what, c, text>> = <<"open", d, Blank>>)
         /\ \A i, d : CloseAt(i, d)' <=>
              CloseAt(i, d) \/ (i = n /\ <<what, c, text>> = <<"close", d, Blank>>)
         /\ \A i, d : About(i, d) => i < n
<1> DEFINE n == Len(jobs) + 1
<1>1. jobs \in Seq(JobSet) /\ n \in Nat
  BY QueuesTyped
<1>2. /\ DOMAIN jobs' = DOMAIN jobs \cup {n} /\ n \notin DOMAIN jobs
      /\ \A i \in DOMAIN jobs : i < n /\ jobs'[i] = jobs[i]
      /\ jobs'[n] = <<what, c, text>>
  BY <1>1, AppendTo DEF Call
<1> HIDE DEF n
<1>3. \A i, d : About(i, d)' <=> About(i, d) \/ (i = n /\ d = c)
  BY <1>2 DEF About
<1>4. \A i, d : OpenAt(i, d)' <=>
        OpenAt(i, d) \/ (i = n /\ <<what, c, text>> = <<"open", d, Blank>>)
  BY <1>2 DEF OpenAt
<1>6. \A i, d : CloseAt(i, d)' <=>
        CloseAt(i, d) \/ (i = n /\ <<what, c, text>> = <<"close", d, Blank>>)
  BY <1>2 DEF CloseAt
<1>5. \A i, d : About(i, d) => i < n
  BY <1>2 DEF About
<1> QED
  BY <1>1, <1>3, <1>4, <1>5, <1>6 DEF n

\* The first callback is called: the others move up.
LEMMA JobsTail ==
  ASSUME TypeOK, jobs # <<>>, jobs' = Tail(jobs)
  PROVE  /\ \A d : \A i \in Nat : /\ About(i, d)' <=> i # 0 /\ About(i + 1, d)
                                  /\ OpenAt(i, d)' <=> i # 0 /\ OpenAt(i + 1, d)
                                  /\ CloseAt(i, d)' <=> i # 0 /\ CloseAt(i + 1, d)
         /\ \A i, d : About(i, d) => i \in Nat /\ i # 0
         /\ \A d : About(1, d) <=> Head(jobs)[2] = d
         /\ \A d : OpenAt(1, d) <=> Head(jobs) = <<"open", d, Blank>>
         /\ \A d : CloseAt(1, d) <=> Head(jobs) = <<"close", d, Blank>>
<1>1. jobs \in Seq(JobSet)
  BY QueuesTyped
<1>2. \A i \in Nat : /\ i \in DOMAIN jobs' <=> i # 0 /\ i + 1 \in DOMAIN jobs
                     /\ i \in DOMAIN jobs' => jobs'[i] = jobs[i + 1]
  BY <1>1, TailOf
<1>3. 1 \in DOMAIN jobs /\ Head(jobs) = jobs[1] /\ \A i \in DOMAIN jobs : i \in Nat /\ i # 0
  BY <1>1, TailOf
<1> QED
  BY <1>2, <1>3 DEF About, OpenAt, CloseAt

\* Something is posted to the io thread.
LEMMA TasksPost ==
  ASSUME TypeOK, NEW what, NEW x, Post(what, x)
  PROVE  LET n == Len(tasks) + 1 IN
         /\ n \in Nat
         /\ \A i, d : SendAt(i, d)' <=>
              SendAt(i, d) \/ (i = n /\ SendOf(<<what, x>>, d))
         /\ \A i, d : ByeAt(i, d)' <=> ByeAt(i, d) \/ (i = n /\ <<what, x>> = <<"bye", d>>)
         /\ \A i, d : SendAt(i, d) \/ ByeAt(i, d) => i < n
         /\ \A d : SendIdx(d)' = IF SendOf(<<what, x>>, d) THEN SendIdx(d) \cup {n} ELSE SendIdx(d)
         /\ \A d : n \notin SendIdx(d)
<1> DEFINE n == Len(tasks) + 1
<1>1. tasks \in Seq(TaskSet) /\ n \in Nat
  BY QueuesTyped
<1>2. /\ DOMAIN tasks' = DOMAIN tasks \cup {n} /\ n \notin DOMAIN tasks
      /\ \A i \in DOMAIN tasks : i < n /\ tasks'[i] = tasks[i]
      /\ tasks'[n] = <<what, x>>
  BY <1>1, AppendTo DEF Post
<1> HIDE DEF n
<1> QED
  BY <1>1, <1>2 DEF SendAt, ByeAt, SendIdx, n

LEMMA SendsFinite ==
  ASSUME TypeOK, NEW c
  PROVE  IsFiniteSet(SendIdx(c)) /\ Cardinality(SendIdx(c)) \in Nat
<1>1. SendIdx(c) \subseteq 1..Len(tasks) /\ Len(tasks) \in Nat
  BY QueuesTyped DEF SendIdx
<1>2. IsFiniteSet(1..Len(tasks))
  BY <1>1, FS_Interval
<1>3. IsFiniteSet(SendIdx(c))
  BY <1>1, <1>2, FS_Subset
<1> QED
  BY <1>3, FS_CardinalityType

\* The io thread has run what was first.
LEMMA TasksTail ==
  ASSUME TypeOK, tasks # <<>>, tasks' = Tail(tasks)
  PROVE  /\ \A d : \A i \in Nat : /\ SendAt(i, d)' <=> i # 0 /\ SendAt(i + 1, d)
                                  /\ ByeAt(i, d)' <=> i # 0 /\ ByeAt(i + 1, d)
         /\ \A i, d : SendAt(i, d) \/ ByeAt(i, d) => i \in Nat /\ i # 0
         /\ \A d : SendAt(1, d) <=> SendOf(Head(tasks), d)
         /\ \A d : ByeAt(1, d) <=> Head(tasks) = <<"bye", d>>
         /\ \A d : Cardinality(SendIdx(d)') =
              Cardinality(SendIdx(d)) - IF SendOf(Head(tasks), d) THEN 1 ELSE 0
<1>1. tasks \in Seq(TaskSet)
  BY QueuesTyped
<1>2. \A i \in Nat : /\ i \in DOMAIN tasks' <=> i # 0 /\ i + 1 \in DOMAIN tasks
                     /\ i \in DOMAIN tasks' => tasks'[i] = tasks[i + 1]
  BY <1>1, TailOf
<1>3. 1 \in DOMAIN tasks /\ Head(tasks) = tasks[1] /\ \A i \in DOMAIN tasks : i \in Nat /\ i # 0
  BY <1>1, TailOf
<1>4. ASSUME NEW d
      PROVE  Cardinality(SendIdx(d)') =
               Cardinality(SendIdx(d)) - IF SendOf(Head(tasks), d) THEN 1 ELSE 0
  <2> DEFINE Later == {i \in DOMAIN Tail(tasks) : SendOf(Tail(tasks)[i], d)}
             Rest == SendIdx(d) \ {1}
             up == [i \in Later |-> i + 1]
  <2>1. SendIdx(d)' = Later
    BY DEF SendIdx
  <2>2. Later \subseteq Nat
    BY <1>1
  <2>3. \A i \in Nat : i \in Later <=> i # 0 /\ i + 1 \in SendIdx(d)
    BY <1>2 DEF SendIdx
  <2>4. \A k \in Rest : k \in Nat /\ k - 1 \in Nat /\ k - 1 # 0 /\ (k - 1) + 1 = k
    BY <1>3 DEF SendIdx
  <2>5. \A i \in Later : i + 1 \in Rest
    BY <2>2, <2>3
  <2>6. \A k \in Rest : k - 1 \in Later
    BY <2>3, <2>4
  <2> HIDE DEF Later, Rest
  <2>7. up \in [Later -> Rest] /\ \A i \in Later : up[i] = i + 1
    BY <2>5
  <2>8. up \in Injection(Later, Rest)
    BY <2>2, <2>7 DEF Injection, IsInjective
  <2>9. up \in Surjection(Later, Rest)
    BY <2>4, <2>6, <2>7 DEF Surjection
  <2>10. ExistsBijection(Later, Rest)
    BY <2>8, <2>9 DEF ExistsBijection, Bijection
  <2>11. IsFiniteSet(SendIdx(d)) /\ Cardinality(SendIdx(d)) \in Nat
    BY SendsFinite
  <2>12. /\ IsFiniteSet(Rest)
         /\ Cardinality(Rest) =
              Cardinality(SendIdx(d)) - IF 1 \in SendIdx(d) THEN 1 ELSE 0
    BY <2>11, FS_RemoveElement DEF Rest
  <2>13. IsFiniteSet(Later)
    BY <2>8, <2>12, FS_Injection
  <2>14. Cardinality(Later) = Cardinality(Rest)
    BY <2>10, <2>13, FS_Bijection
  <2>15. 1 \in SendIdx(d) <=> SendOf(Head(tasks), d)
    BY <1>3 DEF SendIdx
  <2> QED
    BY <2>1, <2>12, <2>14, <2>15
<1> QED
  BY <1>2, <1>3, <1>4 DEF SendAt, ByeAt

-----------------------------------------------------------------------------
(* Types. *)

SaySet == (Sends \cup {"close"}) \X Conns

\* WsTypeOK, with the contents of the queues by name.
WsFields ==
  /\ link \in [Conns -> {"none", "up", "shut", "down"}]
  /\ websockets \subseteq Conns /\ closed \subseteq Conns /\ over \in BOOLEAN
  /\ buffered \in [Conns -> 0..MaxBuffered] /\ flying \in [Conns -> 0..MaxBuffered]
  /\ frames \in [Conns -> 0..MaxFrames]
  /\ tasks \in Seq(TaskSet) /\ jobs \in Seq(JobSet) /\ say \in Seq(SaySet)
  /\ parted \in [Conns -> SUBSET Partings] /\ told \in [Conns -> Kinds \cup {"none"}]

LEMMA WsTyped == WsTypeOK <=> WsFields
  BY DEF WsTypeOK, WsFields, TaskSet, JobSet, SaySet, Blank

LEMMA WsIs == TypeOK => WsFields
  BY WsTyped DEF TypeOK

\* A counter that stays in its range.
LEMMA Counted ==
  ASSUME NEW m \in Nat, NEW f \in [Conns -> 0..m], NEW c \in Conns
  PROVE  /\ f[c] \in Nat /\ f[c] <= m
         /\ f[c] < m => [f EXCEPT ![c] = @ + 1] \in [Conns -> 0..m]
         /\ f[c] > 0 => [f EXCEPT ![c] = @ - 1] \in [Conns -> 0..m]
<1>1. f[c] \in Nat /\ f[c] <= m
  OBVIOUS
<1>2. f[c] < m => f[c] + 1 \in 0..m
  BY <1>1
<1>3. f[c] > 0 => f[c] - 1 \in 0..m
  BY <1>1
<1> QED
  BY <1>1, <1>2, <1>3

LEMMA CallTyped ==
  ASSUME TypeOK, NEW what \in Kinds, NEW c \in Conns, NEW text \in Texts \cup {Blank},
         Call(what, c, text)
  PROVE  jobs' \in Seq(JobSet)
<1>1. <<what, c, text>> \in JobSet
  BY DEF JobSet
<1>2. jobs \in Seq(JobSet)
  BY QueuesTyped
<1>3. Append(jobs, <<what, c, text>>) \in Seq(JobSet)
  BY <1>1, <1>2, AppendTyped
<1> QED
  BY <1>3 DEF Call

LEMMA PostTyped ==
  ASSUME TypeOK, NEW what, NEW x, <<what, x>> \in TaskSet, Post(what, x)
  PROVE  tasks' \in Seq(TaskSet)
  BY QueuesTyped DEF Post

LEMMA TailTyped ==
  ASSUME TypeOK
  PROVE  /\ jobs # <<>> => Tail(jobs) \in Seq(JobSet)
         /\ tasks # <<>> => Tail(tasks) \in Seq(TaskSet)
         /\ say \in Seq(SaySet) /\ (say # <<>> => Tail(say) \in Seq(SaySet))
<1>1. say \in Seq(SaySet)
  BY WsIs DEF WsFields
<1> QED
  BY <1>1, QueuesTyped

\* What RESTinio holds was counted.
LEMMA FlowBound ==
  ASSUME TypeOK, FlowOK, NEW c \in Conns
  PROVE  /\ flying[c] \in Nat /\ buffered[c] \in Nat /\ flying[c] <= buffered[c]
         /\ buffered[c] <= MaxBuffered
         /\ SendOf(Head(tasks), c) /\ tasks # <<>> => flying[c] < buffered[c]
<1>1. flying[c] \in Nat /\ buffered[c] \in Nat /\ buffered[c] <= MaxBuffered
  BY WsIs, WebSocketsAssumption, Counted DEF WsFields
<1>2. buffered[c] = flying[c] + Cardinality(SendIdx(c)) /\ Cardinality(SendIdx(c)) \in Nat
  BY SendsFinite DEF FlowOK
<1>3. ASSUME SendOf(Head(tasks), c), tasks # <<>>
      PROVE  flying[c] < buffered[c]
  <2>1. 1 \in SendIdx(c)
    BY <1>3, QueuesTyped, TailOf DEF SendIdx
  <2>2. Cardinality(SendIdx(c)) # 0
    BY <2>1, SendsFinite, FS_EmptySet
  <2> QED
    BY <1>1, <1>2, <2>2
<1> QED
  BY <1>1, <1>2, <1>3

LEMMA PartTyped ==
  ASSUME NEW c \in Conns, NEW whose \in Partings, Part(c, whose),
         parted \in [Conns -> SUBSET Partings]
  PROVE  /\ parted' \in [Conns -> SUBSET Partings]
         /\ whose # "close" =>
              \A d \in Conns : "close" \in parted'[d] <=> "close" \in parted[d]
         /\ \A d \in Conns : "close" \in parted'[d] => "close" \in parted[d] \/ d = c
<1>1. parted[c] \cup {whose} \in SUBSET Partings
  OBVIOUS
<1> QED
  BY <1>1 DEF Part

LEMMA NetworkTyped ==
  ASSUME TypeOK, FlowOK, Network
  PROVE  WsFields'
<1>1. WsFields
  BY WsIs
<1>2. ASSUME NEW c \in Conns, Upgrade(c)
      PROVE  WsFields'
  <2>1. jobs' \in Seq(JobSet)
    BY <1>2, CallTyped DEF Upgrade, Kinds, Blank
  <2> QED
    BY <1>1, <1>2, <2>1 DEF Upgrade, WsFields
<1>3. ASSUME NEW c \in Conns, Receive(c), jobs' \in Seq(JobSet),
             parted' \in [Conns -> SUBSET Partings]
      PROVE  WsFields'
  <2>1. frames' \in [Conns -> 0..MaxFrames]
    BY <1>1, <1>3, WebSocketsAssumption, Counted DEF Receive, WsFields
  <2> QED
    BY <1>1, <1>3, <2>1 DEF Receive, WsFields
<1>4. ASSUME NEW c \in Conns, NEW text \in Texts, Message(c, text)
      PROVE  WsFields'
  <2>1. jobs' \in Seq(JobSet)
    BY <1>4, CallTyped DEF Message, Kinds
  <2> QED
    BY <1>1, <1>3, <1>4, <2>1 DEF Message, WsFields
<1>5. ASSUME NEW c \in Conns, TooBig(c)
      PROVE  WsFields'
  <2>1. jobs' \in Seq(JobSet)
    BY <1>1, <1>5 DEF TooBig, WsFields
  <2>2. parted' \in [Conns -> SUBSET Partings]
    BY <1>1, <1>5, PartTyped DEF TooBig, WsFields, Partings
  <2> QED
    BY <1>3, <1>5, <2>1, <2>2 DEF TooBig
<1>6. ASSUME NEW c \in Conns, CloseFrame(c)
      PROVE  WsFields'
  <2>1. jobs' \in Seq(JobSet)
    BY <1>6, CallTyped DEF CloseFrame, Kinds, Blank
  <2>2. parted' \in [Conns -> SUBSET Partings]
    BY <1>1, <1>6, PartTyped DEF CloseFrame, WsFields, Partings
  <2> QED
    BY <1>1, <1>6, <2>1, <2>2 DEF CloseFrame, WsFields
<1>7. ASSUME NEW c \in Conns, Flushed(c)
      PROVE  WsFields'
  <2>1. flying[c] \in Nat /\ flying[c] # 0 /\ buffered[c] \in Nat /\ buffered[c] # 0
    BY <1>7, FlowBound DEF Flushed
  <2>2. /\ flying' \in [Conns -> 0..MaxBuffered]
        /\ buffered' \in [Conns -> 0..MaxBuffered]
    BY <1>1, <1>7, <2>1, WebSocketsAssumption, Counted DEF Flushed, Shed, WsFields
  <2> QED
    BY <1>1, <1>7, <2>2 DEF Flushed, WsFields
<1> QED
  BY <1>2, <1>4, <1>5, <1>6, <1>7 DEF Network

LEMMA WorkerTyped ==
  ASSUME TypeOK, FlowOK, Worker
  PROVE  WsFields'
<1>1. WsFields
  BY WsIs
<1>2. ASSUME NEW what, NEW x, Running(what, x)
      PROVE  tasks' \in Seq(TaskSet)
  BY <1>2, TailTyped DEF Running
<1>3. CASE RunCloseServer
  <2>1. tasks' \in Seq(TaskSet)
    BY <1>2, <1>3 DEF RunCloseServer
  <2>2. link' \in [Conns -> {"none", "up", "shut", "down"}]
    BY <1>1, <1>3 DEF RunCloseServer, WsFields
  <2> QED
    BY <1>1, <1>3, <2>1, <2>2 DEF RunCloseServer, WsFields
<1>6. ASSUME NEW c \in Conns, NEW whose \in Partings, Part(c, whose)
      PROVE  parted' \in [Conns -> SUBSET Partings]
  BY <1>1, <1>6, PartTyped DEF WsFields
<1>4. ASSUME NEW c \in Conns, NEW what \in Sends, RunSend(c, what)
      PROVE  WsFields'
  <2>1. tasks' \in Seq(TaskSet)
    BY <1>2, <1>4 DEF RunSend
  <2>5. parted' \in [Conns -> SUBSET Partings]
    BY <1>1, <1>4, <1>6 DEF RunSend, WsFields, Partings
  <2>2. /\ flying[c] \in Nat /\ buffered[c] \in Nat /\ flying[c] < buffered[c]
        /\ buffered[c] <= MaxBuffered
    <3>1. tasks # <<>> /\ SendOf(Head(tasks), c)
      BY <1>4 DEF RunSend, Running, SendOf
    <3> QED
      BY <3>1, FlowBound
  <2>3. CASE flying' = [flying EXCEPT ![c] = @ + 1] /\ UNCHANGED <<closed, buffered>>
    <3>1. flying' \in [Conns -> 0..MaxBuffered]
      BY <1>1, <2>2, <2>3, WebSocketsAssumption, Counted DEF WsFields
    <3> QED
      BY <1>1, <1>4, <2>1, <2>3, <2>5, <3>1 DEF RunSend, WsFields
  <2>4. CASE Shed(c) /\ closed' = closed \cup {c} /\ UNCHANGED flying
    <3>1. buffered' \in [Conns -> 0..MaxBuffered]
      BY <1>1, <2>2, <2>4, WebSocketsAssumption, Counted DEF WsFields, Shed
    <3> QED
      BY <1>1, <1>4, <2>1, <2>4, <2>5, <3>1 DEF RunSend, WsFields
  <2> QED
    BY <1>4, <2>3, <2>4 DEF RunSend
<1>5. ASSUME NEW c \in Conns, RunBye(c)
      PROVE  WsFields'
  <2>1. tasks' \in Seq(TaskSet)
    BY <1>2, <1>5 DEF RunBye
  <2>2. parted' \in [Conns -> SUBSET Partings]
    BY <1>5, <1>6 DEF RunBye, Partings
  <2> QED
    BY <1>1, <1>5, <2>1, <2>2 DEF RunBye, WsFields
<1> QED
  BY <1>3, <1>4, <1>5 DEF Worker

\* The calls of scripts.
LEMMA SaidTyped ==
  ASSUME TypeOK, (Calls \/ CloseServer)
  PROVE  WsFields'
<1>1. WsFields
  BY WsIs
<1>2. \A c \in Conns : /\ <<"bye", c>> \in TaskSet
                       /\ \A what \in Sends : <<what, c>> \in TaskSet
  BY DEF TaskSet
<1>3. ASSUME NEW c \in Conns, NEW what \in Sends, Send(c, what)
      PROVE  WsFields'
  <2>1. say' \in Seq(SaySet)
    BY <1>3, TailTyped DEF Send, Saying
  <2>2. tasks' \in Seq(TaskSet)
    BY <1>2, <1>3, PostTyped, QueuesTyped DEF Send
  <2>3. buffered' \in [Conns -> 0..MaxBuffered]
    <3>1. buffered[c] < MaxBuffered =>
            [buffered EXCEPT ![c] = @ + 1] \in [Conns -> 0..MaxBuffered]
      BY <1>1, WebSocketsAssumption, Counted DEF WsFields
    <3> QED
      BY <1>1, <1>3, <3>1 DEF Send, WsFields
  <2>4. closed' \subseteq Conns
    BY <1>1, <1>3 DEF Send, WsFields
  <2> QED
    BY <1>1, <1>3, <2>1, <2>2, <2>3, <2>4 DEF Send, WsFields
<1>4. ASSUME NEW c \in Conns, Hangup(c)
      PROVE  WsFields'
  <2>1. say' \in Seq(SaySet)
    BY <1>4, TailTyped DEF Hangup, Saying
  <2>2. tasks' \in Seq(TaskSet)
    BY <1>2, <1>4, PostTyped, QueuesTyped DEF Hangup
  <2> QED
    BY <1>1, <1>4, <2>1, <2>2 DEF Hangup, WsFields
<1>5. CASE CloseServer
  <2>1. tasks' \in Seq(TaskSet)
    BY <1>5, PostTyped DEF CloseServer, TaskSet
  <2> QED
    BY <1>1, <1>5, <2>1 DEF CloseServer, WsFields, sockets
<1> QED
  BY <1>3, <1>4, <1>5 DEF Calls

\* What a handler says, and how it is called.
LEMMA Replies ==
  ASSUME NEW c \in Conns
  PROVE  /\ <<>> \in Seq(SaySet) /\ <<Reply(c)>> \in Seq(SaySet)
         /\ <<Reply(c), <<"close", c>>>> \in Seq(SaySet)
         /\ \A n \in Nat : [i \in 1..n |-> Reply(c)] \in Seq(SaySet)
<1>1. Reply(c) \in SaySet /\ <<"close", c>> \in SaySet
  BY DEF SaySet, Reply, Sends
<1> QED
  BY <1>1

\* The lives and offers of sessions after pump() of s, and what it says.
LEMMA PumpTyped ==
  ASSUME NEW s \in Sessions, NEW c \in Conns,
         NEW lf \in [Sessions -> {"none", "started", "closed"}],
         NEW of \in [Sessions -> {"no", "asked", "ready", "sent"}],
         Pump(s, c, lf, of)
  PROVE  /\ life' = lf \/ life' = [lf EXCEPT ![s] = "closed"]
         /\ life' \in [Sessions -> {"none", "started", "closed"}]
         /\ offer' \in [Sessions -> {"no", "asked", "ready", "sent"}]
         /\ say' \in Seq(SaySet)
<1>1. life' = lf \/ life' = [lf EXCEPT ![s] = "closed"]
  BY DEF Pump
<1>2. offer' = of \/ offer' = [of EXCEPT ![s] = "sent"]
  BY DEF Pump
<1>3. say' \in Seq(SaySet)
  <2>1. say' = <<>> \/ \E n \in Nat : say' = [i \in 1..n |-> Reply(c)]
    <3>1. \A changes \in 0..1 : changes + (IF of[s] = "ready" THEN 1 ELSE 0) \in Nat
      OBVIOUS
    <3> QED
      BY <3>1 DEF Pump, Says
  <2> QED
    BY <2>1, Replies
<1> QED
  BY <1>1, <1>2, <1>3

\* How a handler changes the records of connections: the calls it answers.
HeardBy(c, what) ==
  \/ over /\ known' = known
  \/ what = "open" /\ known' = known
  \/ what = "message" /\ ~over /\ known' = known \cup {c}
  \/ what = "close" /\ ~over /\ known' = known \ {c}

LEMMA HandlerIs ==
  ASSUME Handlers
  PROVE  \E c \in Conns, what \in Kinds : \E text :
           /\ Dispatch(what, c, text) /\ HeardBy(c, what)
           /\ what \in {"open", "close"} => text = Blank
<1>1. ASSUME NEW c \in Conns, NEW text, Heard(c, text)
      PROVE  /\ Dispatch("message", c, text) /\ HeardBy(c, "message")
             /\ "message" \in Kinds /\ "message" \notin {"open", "close"}
  BY <1>1 DEF Heard, HeardBy, Kinds
<1>2. ASSUME NEW c \in Conns, NEW what \in Kinds, NEW text, Skip(what, c, text)
      PROVE  Dispatch(what, c, text) /\ HeardBy(c, what)
  BY <1>2 DEF Skip, HeardBy, hub, records
<1>3. ASSUME NEW c \in Conns, OnClose(c)
      PROVE  Dispatch("close", c, Blank) /\ HeardBy(c, "close")
  BY <1>3 DEF OnClose, HeardBy, Blank
<1>4. ASSUME NEW c \in Conns, Hello(c) \/ StartNothing(c) \/ Stop(c)
      PROVE  \E text : Heard(c, text)
  BY <1>4 DEF Hello, StartNothing, Stop
<1>5. ASSUME NEW c \in Conns, NEW s \in Sessions, StartFails(c, s) \/ Start(c, s)
      PROVE  \E text : Heard(c, text)
  BY <1>5 DEF StartFails, Start
<1>6. ASSUME NEW c \in Conns, NEW text \in Texts,
             TooEarly(c, text) \/ Signal(c, text) \/ Ignore(c, text)
      PROVE  Heard(c, text)
  BY <1>6 DEF TooEarly, Signal, Ignore
<1>7. "open" \in Kinds /\ "close" \in Kinds /\ "message" \in Kinds
  BY DEF Kinds
<1>8. CASE \E c \in Conns : \E text : Heard(c, text)
  BY <1>1, <1>8
<1>9. CASE \E c \in Conns : Skip("open", c, Blank) \/ Skip("close", c, Blank)
  BY <1>2, <1>7, <1>9
<1>10. CASE \E c \in Conns, text \in Texts : Skip("message", c, text)
  <2>1. "message" \notin {"open", "close"}
    OBVIOUS
  <2> QED
    BY <1>2, <1>7, <1>10, <2>1
<1> QED
  BY <1>3, <1>4, <1>5, <1>6, <1>7, <1>8, <1>9, <1>10 DEF Handlers, Blank

LEMMA DispatchTyped ==
  ASSUME TypeOK, NEW c \in Conns, NEW what \in Kinds, NEW text,
         Dispatch(what, c, text), say' \in Seq(SaySet)
  PROVE  WsFields'
<1>1. jobs' \in Seq(JobSet)
  BY TailTyped DEF Dispatch
<1>2. told' \in [Conns -> Kinds \cup {"none"}]
  BY WsIs DEF Dispatch, WsFields
<1> QED
  BY <1>1, <1>2, WsIs DEF Dispatch, WsFields, sockets

HubFields ==
  /\ known \subseteq Conns /\ authed \subseteq known
  /\ session \in [Conns -> Sessions \cup {None}]
  /\ life \in [Sessions -> {"none", "started", "closed"}]
  /\ owner \in [Sessions -> Conns \cup {None}]
  /\ offer \in [Sessions -> {"no", "asked", "ready", "sent"}]

LEMMA TypeIs == TypeOK <=> WsFields /\ HubFields
  BY WsTyped DEF TypeOK, HubFields

LEMMA TypeIsNext == TypeOK' <=> WsFields' /\ HubFields'
  BY TypeIs, PTL

LEMMA ClosingTyped ==
  ASSUME HubFields, NEW S
  PROVE  /\ Closing(S) \in [Sessions -> {"none", "started", "closed"}]
         /\ \A s \in Sessions : /\ Closing(S)[s] = "started" => life[s] = "started" /\ s \notin S
                                /\ life[s] = "started" /\ s \notin S => Closing(S)[s] = "started"
  BY DEF HubFields, Closing

\* A handler keeps the types; and no session that runs loses its record.
LEMMA HeardTyped ==
  ASSUME TypeOK, NEW c \in Conns, NEW text, Heard(c, text), say' \in Seq(SaySet)
  PROVE  WsFields' /\ known' = known \cup {c} /\ known' \subseteq Conns
<1>1. WsFields'
  BY DispatchTyped DEF Heard, Kinds
<1> QED
  BY <1>1, TypeIs DEF Heard, HubFields

\* A session that runs is one of its owner's.
LEMMA OwnSessions ==
  ASSUME TypeOK, OwnedOK, NEW C, NEW s \in Sessions, life[s] = "started", owner[s] \in C
  PROVE  s \in Of(C)
  BY SignalingHubAssumption DEF OwnedOK, Of

\* What handlers do to sessions keeps each one that runs with its owner.
LEMMA HandlersTyped ==
  ASSUME TypeOK, OwnedOK, Handlers
  PROVE  TypeOK' /\ OwnedOK'
<1>1. HubFields /\ WsFields
  BY TypeIs
<1>2. ASSUME NEW c \in Conns, NEW what \in Kinds, NEW text, Skip(what, c, text)
      PROVE  TypeOK' /\ OwnedOK'
  <2>1. WsFields'
    BY <1>1, <1>2, DispatchTyped DEF Skip, WsFields
  <2>2. UNCHANGED hub
    BY <1>2 DEF Skip
  <2> QED
    BY <1>1, <2>1, <2>2, TypeIsNext DEF HubFields, OwnedOK, hub, records, media
<1>3. ASSUME NEW c \in Conns, NEW text, Heard(c, text), say' \in Seq(SaySet),
             UNCHANGED <<session, media>>, authed' \subseteq known'
      PROVE  TypeOK' /\ OwnedOK'
  <2>1. WsFields' /\ known' = known \cup {c} /\ known' \subseteq Conns
    BY <1>3, HeardTyped
  <2>2. HubFields'
    BY <1>1, <1>3, <2>1 DEF HubFields, media
  <2>3. OwnedOK'
    BY <1>3, <2>1 DEF OwnedOK, media
  <2> QED
    BY <2>1, <2>2, <2>3, TypeIsNext
<1>4. ASSUME NEW c \in Conns, Hello(c)
      PROVE  TypeOK' /\ OwnedOK'
  <2>1. say' \in Seq(SaySet)
    BY <1>4, Replies DEF Hello, Says
  <2>2. Heard(c, "hello") /\ UNCHANGED <<session, media>>
    BY <1>4 DEF Hello
  <2>3. authed' \subseteq known'
    BY <1>1, <1>4 DEF Hello, Heard, HubFields
  <2> QED
    BY <1>3, <2>1, <2>2, <2>3
<1>5. ASSUME NEW c \in Conns, NEW text, TooEarly(c, text) \/ Ignore(c, text)
      PROVE  TypeOK' /\ OwnedOK'
  <2>1. say' \in Seq(SaySet)
    BY <1>5, Replies DEF TooEarly, Ignore, Says
  <2>2. Heard(c, text) /\ UNCHANGED <<authed, session, media>>
    BY <1>5 DEF TooEarly, Ignore
  <2>3. authed' \subseteq known'
    BY <1>1, <2>2 DEF Heard, HubFields
  <2> QED
    BY <1>3, <2>1, <2>2, <2>3
<1>6. ASSUME NEW c \in Conns, StartNothing(c)
      PROVE  TypeOK' /\ OwnedOK'
  <2>1. say' \in Seq(SaySet)
    BY <1>6, Replies DEF StartNothing, Says
  <2>2. /\ Heard(c, "start") /\ life' = Closing(Of({c}))
        /\ session' = [session EXCEPT ![c] = None] /\ UNCHANGED <<authed, owner, offer>>
    BY <1>6 DEF StartNothing
  <2>3. WsFields' /\ known' = known \cup {c} /\ known' \subseteq Conns
    BY <2>1, <2>2, HeardTyped
  <2>4. HubFields'
    BY <1>1, <2>2, <2>3, ClosingTyped DEF HubFields
  <2>5. ASSUME NEW s \in Sessions, life'[s] = "started"
        PROVE  owner'[s] \in known' /\ session'[owner'[s]] = s
    <3>1. life[s] = "started" /\ s \notin Of({c})
      BY <1>1, <2>2, <2>5, ClosingTyped
    <3>2. owner[s] \in known /\ session[owner[s]] = s /\ owner[s] # c
      BY <3>1, OwnSessions DEF OwnedOK
    <3> QED
      BY <1>1, <2>2, <2>3, <3>2 DEF HubFields
  <2> QED
    BY <2>3, <2>4, <2>5, TypeIsNext DEF OwnedOK
<1>7. ASSUME NEW c \in Conns, NEW s \in Sessions, StartFails(c, s)
      PROVE  TypeOK' /\ OwnedOK'
  <2>1. say' \in Seq(SaySet)
    BY <1>7, Replies DEF StartFails, Says
  <2>2. /\ Heard(c, "start") /\ life' = Closing(Of({c}) \cup {s})
        /\ owner' = [owner EXCEPT ![s] = c]
        /\ session' = [session EXCEPT ![c] = None] /\ UNCHANGED <<authed, offer>>
    BY <1>7 DEF StartFails
  <2>3. WsFields' /\ known' = known \cup {c} /\ known' \subseteq Conns
    BY <2>1, <2>2, HeardTyped
  <2>4. HubFields'
    BY <1>1, <2>2, <2>3, ClosingTyped DEF HubFields
  <2>5. ASSUME NEW r \in Sessions, life'[r] = "started"
        PROVE  owner'[r] \in known' /\ session'[owner'[r]] = r
    <3> DEFINE S == Of({c}) \cup {s}
    <3>1. life[r] = "started" /\ r \notin S
      BY <1>1, <2>2, <2>5, ClosingTyped
    <3>2. owner[r] \in known /\ session[owner[r]] = r /\ owner[r] # c /\ r # s
      BY <3>1, OwnSessions DEF OwnedOK
    <3> QED
      BY <1>1, <2>2, <2>3, <3>2 DEF HubFields
  <2> QED
    BY <2>3, <2>4, <2>5, TypeIsNext DEF OwnedOK
<1>8. ASSUME NEW c \in Conns, NEW s \in Sessions, Start(c, s)
      PROVE  TypeOK' /\ OwnedOK'
  <2> DEFINE lf == [Closing(Of({c})) EXCEPT ![s] = "started"]
  <2>1. /\ Heard(c, "start") /\ owner' = [owner EXCEPT ![s] = c]
        /\ session' = [session EXCEPT ![c] = s] /\ UNCHANGED authed
    BY <1>8 DEF Start
  <2>2. /\ lf \in [Sessions -> {"none", "started", "closed"}]
        /\ \A r \in Sessions : lf[r] = IF r = s THEN "started" ELSE Closing(Of({c}))[r]
    BY <1>1, ClosingTyped
  <2>3. PICK ready \in {"asked", "ready"} : Pump(s, c, lf, [offer EXCEPT ![s] = ready])
    BY <1>8 DEF Start
  <2>4. [offer EXCEPT ![s] = ready] \in [Sessions -> {"no", "asked", "ready", "sent"}]
    BY <1>1 DEF HubFields
  <2> HIDE DEF lf
  <2>5. /\ life' = lf \/ life' = [lf EXCEPT ![s] = "closed"]
        /\ life' \in [Sessions -> {"none", "started", "closed"}]
        /\ offer' \in [Sessions -> {"no", "asked", "ready", "sent"}]
        /\ say' \in Seq(SaySet)
    BY <2>2, <2>3, <2>4, PumpTyped
  <2>6. WsFields' /\ known' = known \cup {c} /\ known' \subseteq Conns
    BY <2>1, <2>5, HeardTyped
  <2>7. HubFields'
    BY <1>1, <2>1, <2>5, <2>6 DEF HubFields
  <2>8. ASSUME NEW r \in Sessions, life'[r] = "started"
        PROVE  owner'[r] \in known' /\ session'[owner'[r]] = r
    <3>1. CASE r = s
      BY <1>1, <2>1, <2>6, <3>1 DEF HubFields
    <3>2. CASE r # s
      <4>1. Closing(Of({c}))[r] = "started"
        BY <2>2, <2>5, <2>8, <3>2
      <4>2. life[r] = "started" /\ r \notin Of({c})
        BY <1>1, <4>1, ClosingTyped
      <4>3. owner[r] \in known /\ session[owner[r]] = r /\ owner[r] # c
        BY <4>2, OwnSessions DEF OwnedOK
      <4> QED
        BY <1>1, <2>1, <2>6, <3>2, <4>3 DEF HubFields
    <3> QED
      BY <3>1, <3>2
  <2> QED
    BY <2>6, <2>7, <2>8, TypeIsNext DEF OwnedOK
<1>9. ASSUME NEW c \in Conns, NEW text, Heard(c, text), say' \in Seq(SaySet),
             UNCHANGED <<authed, session, owner>>,
             offer' \in [Sessions -> {"no", "asked", "ready", "sent"}],
             life' \in [Sessions -> {"none", "started", "closed"}],
             \A r \in Sessions : life'[r] = "started" => life[r] = "started"
      PROVE  TypeOK' /\ OwnedOK'
  <2>1. WsFields' /\ known' = known \cup {c} /\ known' \subseteq Conns
    BY <1>9, HeardTyped
  <2>2. HubFields'
    BY <1>1, <1>9, <2>1 DEF HubFields
  <2>3. OwnedOK'
    BY <1>9, <2>1 DEF OwnedOK
  <2> QED
    BY <2>1, <2>2, <2>3, TypeIsNext
<1>10. ASSUME NEW c \in Conns, NEW text, Signal(c, text)
       PROVE  TypeOK' /\ OwnedOK'
  <2>1. Heard(c, text) /\ UNCHANGED <<authed, session, owner>>
    BY <1>10 DEF Signal
  <2>2. session[c] \in Sessions
    BY <1>1, <1>10 DEF Signal, Live, HubFields
  <2>3. CASE Says(<<Reply(c)>>) /\ UNCHANGED <<life, offer>>
    BY <1>1, <1>9, <2>1, <2>3, Replies DEF Says, HubFields
  <2>4. CASE Pump(session[c], c, life, offer)
    <3>1. /\ life' = life \/ life' = [life EXCEPT ![session[c]] = "closed"]
          /\ life' \in [Sessions -> {"none", "started", "closed"}]
          /\ offer' \in [Sessions -> {"no", "asked", "ready", "sent"}]
          /\ say' \in Seq(SaySet)
      BY <1>1, <2>2, <2>4, PumpTyped DEF HubFields
    <3>2. \A r \in Sessions : life'[r] = "started" => life[r] = "started"
      BY <1>1, <2>2, <3>1 DEF HubFields
    <3> QED
      BY <1>9, <2>1, <3>1, <3>2
  <2> QED
    BY <1>10, <2>3, <2>4 DEF Signal
<1>11. ASSUME NEW c \in Conns, Stop(c)
       PROVE  TypeOK' /\ OwnedOK'
  <2>1. /\ Heard(c, "stop") /\ UNCHANGED <<authed, session, owner, offer>>
        /\ life' = Closing(Of({c})) /\ say' \in Seq(SaySet)
    BY <1>11, Replies DEF Stop, Says
  <2> QED
    BY <1>1, <1>9, <2>1, ClosingTyped DEF HubFields
<1>12. ASSUME NEW c \in Conns, OnClose(c)
       PROVE  TypeOK' /\ OwnedOK'
  <2>1. /\ Dispatch("close", c, Blank) /\ life' = Closing(Of({c}))
        /\ known' = known \ {c} /\ authed' = authed \ {c}
        /\ session' = [session EXCEPT ![c] = None] /\ UNCHANGED <<say, owner, offer>>
    BY <1>12 DEF OnClose, Blank
  <2>2. WsFields'
    BY <1>1, <2>1, DispatchTyped DEF WsFields, Kinds
  <2>3. HubFields'
    BY <1>1, <2>1, ClosingTyped DEF HubFields
  <2>4. ASSUME NEW s \in Sessions, life'[s] = "started"
        PROVE  owner'[s] \in known' /\ session'[owner'[s]] = s
    <3>1. life[s] = "started" /\ s \notin Of({c})
      BY <1>1, <2>1, <2>4, ClosingTyped
    <3>2. owner[s] \in known /\ session[owner[s]] = s /\ owner[s] # c
      BY <3>1, OwnSessions DEF OwnedOK
    <3> QED
      BY <1>1, <2>1, <3>2 DEF HubFields
  <2> QED
    BY <2>2, <2>3, <2>4, TypeIsNext DEF OwnedOK
<1>13. "open" \in Kinds /\ "close" \in Kinds /\ "message" \in Kinds
  BY DEF Kinds
<1> QED
  BY <1>2, <1>4, <1>5, <1>6, <1>7, <1>8, <1>10, <1>11, <1>12, <1>13 DEF Handlers

\* So do the calls of the application and the library.
LEMMA AppTyped ==
  ASSUME TypeOK, OwnedOK,
         Close \/ \E s \in Sessions : CloseSession(s) \/ PumpSession(s) \/ Describe(s)
  PROVE  TypeOK' /\ OwnedOK'
<1>1. HubFields /\ WsFields
  BY TypeIs
<1>2. CASE Close
  <2>1. /\ life' = Closing(Of(known)) /\ known' = {} /\ authed' = {}
        /\ session' = [c \in Conns |-> None] /\ UNCHANGED <<wsVars, owner, offer>>
    BY <1>2 DEF Close
  <2>2. HubFields' /\ WsFields'
    BY <1>1, <2>1, ClosingTyped DEF HubFields, WsFields, wsVars, sockets
  <2>3. \A s \in Sessions : life'[s] # "started"
    BY <1>1, <2>1, OwnSessions, ClosingTyped DEF OwnedOK
  <2> QED
    BY <2>2, <2>3, TypeIsNext DEF OwnedOK
<1>3. ASSUME UNCHANGED <<sockets, tasks, jobs, told, records, owner>>, say' \in Seq(SaySet),
             life' \in [Sessions -> {"none", "started", "closed"}],
             offer' \in [Sessions -> {"no", "asked", "ready", "sent"}],
             \A r \in Sessions : life'[r] = "started" => life[r] = "started"
      PROVE  TypeOK' /\ OwnedOK'
  <2>1. HubFields' /\ WsFields'
    BY <1>1, <1>3 DEF HubFields, WsFields, sockets, records
  <2>2. OwnedOK'
    BY <1>3 DEF OwnedOK, records
  <2> QED
    BY <2>1, <2>2, TypeIsNext
<1>4. ASSUME NEW s \in Sessions, CloseSession(s)
      PROVE  TypeOK' /\ OwnedOK'
  <2>1. life' = Closing({s}) /\ UNCHANGED <<wsVars, records, owner, offer>>
    BY <1>4 DEF CloseSession
  <2> QED
    BY <1>1, <1>3, <2>1, ClosingTyped DEF HubFields, WsFields, wsVars
<1>5. ASSUME NEW s \in Sessions, PumpSession(s)
      PROVE  TypeOK' /\ OwnedOK'
  <2>1. /\ life[s] = "started" /\ Pump(s, owner[s], life, offer)
        /\ UNCHANGED <<sockets, tasks, jobs, told, records, owner>>
    BY <1>5 DEF PumpSession
  <2>2. owner[s] \in Conns
    BY <1>1, <2>1 DEF OwnedOK, HubFields
  <2>3. /\ life' = life \/ life' = [life EXCEPT ![s] = "closed"]
        /\ life' \in [Sessions -> {"none", "started", "closed"}]
        /\ offer' \in [Sessions -> {"no", "asked", "ready", "sent"}]
        /\ say' \in Seq(SaySet)
    BY <1>1, <2>1, <2>2, PumpTyped DEF HubFields
  <2>4. \A r \in Sessions : life'[r] = "started" => life[r] = "started"
    BY <1>1, <2>3 DEF HubFields
  <2> QED
    BY <1>3, <2>1, <2>3, <2>4
<1>6. ASSUME NEW s \in Sessions, Describe(s)
      PROVE  TypeOK' /\ OwnedOK'
  <2>1. offer' = [offer EXCEPT ![s] = "ready"] /\ UNCHANGED <<wsVars, records, life, owner>>
    BY <1>6 DEF Describe
  <2> QED
    BY <1>1, <1>3, <2>1 DEF HubFields, WsFields, wsVars
<1> QED
  BY <1>2, <1>4, <1>5, <1>6

LEMMA TypeStep ==
  ASSUME TypeOK, FlowOK, OwnedOK, [Next]_vars
  PROVE  TypeOK' /\ OwnedOK'
<1>1. HubFields /\ WsFields
  BY TypeIs
<1>2. ASSUME WsFields', UNCHANGED hub
      PROVE  TypeOK' /\ OwnedOK'
  BY <1>1, <1>2, TypeIsNext DEF HubFields, OwnedOK, hub, records, media
<1>3. CASE Network \/ Worker \/ Calls \/ (CloseServer /\ UNCHANGED hub)
  <2>1. UNCHANGED hub
    BY <1>3 DEF Network, Worker, Calls
  <2> QED
    BY <1>2, <1>3, <2>1, NetworkTyped, WorkerTyped, SaidTyped
<1>4. CASE UNCHANGED vars
  BY <1>1, <1>2, <1>4 DEF vars, wsVars, sockets, WsFields
<1> QED
  BY <1>3, <1>4, HandlersTyped, AppTyped DEF Next, App

\* The steps of the JavaScript thread that concern no connection.
HubStep ==
  Close \/ (\E s \in Sessions : CloseSession(s) \/ PumpSession(s) \/ Describe(s)) \/ UNCHANGED vars

LEMMA HubStill ==
  ASSUME HubStep
  PROVE  UNCHANGED <<sockets, tasks, jobs, told>> /\ (known' = known \/ known' = {})
  BY DEF HubStep, Close, CloseSession, PumpSession, Describe, vars, wsVars, hub, records

LEMMA NextIs ==
  ASSUME [Next]_vars
  PROVE  \/ Handlers \/ HubStep
         \/ (Network \/ Worker \/ Calls \/ CloseServer) /\ known' = known
  BY DEF Next, App, HubStep, Network, Worker, Calls, hub, records

-----------------------------------------------------------------------------
(* Connections. *)

LEMMA SocketsStep ==
  ASSUME TypeOK, SocketsOK, [Next]_vars
  PROVE  SocketsOK'
<1>1. WsFields
  BY WsIs
<1>2. ASSUME UNCHANGED <<link, websockets>>
      PROVE  SocketsOK'
  BY <1>2 DEF SocketsOK
<1>3. CASE Handlers \/ HubStep
  <2>1. UNCHANGED sockets
    BY <1>3, HandlerIs, HubStill DEF Dispatch
  <2> QED
    BY <1>2, <2>1 DEF sockets
<1>4. CASE Network
  <2>1. ASSUME NEW c \in Conns, Upgrade(c)
        PROVE  SocketsOK'
    BY <1>1, <2>1 DEF Upgrade, SocketsOK, WsFields
  <2>2. ASSUME NEW c \in Conns, CloseFrame(c)
        PROVE  SocketsOK'
    BY <1>1, <2>2 DEF CloseFrame, SocketsOK, WsFields
  <2>3. ASSUME NEW c \in Conns, TooBig(c) \/ Flushed(c) \/ \E text \in Texts : Message(c, text)
        PROVE  SocketsOK'
    BY <1>2, <2>3 DEF TooBig, Flushed, Message, Receive
  <2> QED
    BY <1>4, <2>1, <2>2, <2>3 DEF Network
<1>5. CASE Worker
  BY <1>2, <1>5 DEF Worker, RunCloseServer, RunSend, RunBye, SocketsOK
<1>6. CASE Calls \/ CloseServer
  BY <1>2, <1>6 DEF Calls, Send, Hangup, CloseServer, sockets
<1> QED
  BY <1>3, <1>4, <1>5, <1>6, NextIs

LEMMA FlowStep ==
  ASSUME TypeOK, FlowOK, [Next]_vars
  PROVE  FlowOK'
<1>1. /\ buffered \in [Conns -> 0..MaxBuffered] /\ flying \in [Conns -> 0..MaxBuffered]
      /\ \A c \in Conns : buffered[c] \in Nat /\ flying[c] \in Nat
      /\ \A c \in Conns : Cardinality(SendIdx(c)) \in Nat /\ IsFiniteSet(SendIdx(c))
      /\ \A c \in Conns : buffered[c] = flying[c] + Cardinality(SendIdx(c))
  BY WsIs, WebSocketsAssumption, Counted, SendsFinite DEF WsFields, FlowOK
<1>2. ASSUME UNCHANGED <<buffered, flying, tasks>>
      PROVE  FlowOK'
  BY <1>2 DEF FlowOK, SendIdx
<1>3. CASE Handlers \/ HubStep
  <2>1. UNCHANGED <<sockets, tasks>>
    BY <1>3, HandlerIs, HubStill DEF Dispatch
  <2> QED
    BY <1>2, <2>1 DEF sockets
<1>4. ASSUME NEW x, Post("bye", x) \/ Post("close", x), UNCHANGED <<buffered, flying>>
      PROVE  FlowOK'
  <2>1. PICK what \in {"bye", "close"} : Post(what, x)
    BY <1>4
  <2>2. \A d : ~SendOf(<<what, x>>, d)
    BY <2>1, SendIs, SendKinds
  <2>3. \A d : SendIdx(d)' = SendIdx(d)
    BY <2>1, <2>2, TasksPost
  <2> QED
    BY <1>4, <2>3 DEF FlowOK
<1>5. ASSUME NEW c \in Conns, NEW what \in Sends, Send(c, what)
      PROVE  FlowOK'
  <2>1. CASE buffered' = [buffered EXCEPT ![c] = @ + 1] /\ Post(what, c)
    <3> DEFINE n == Len(tasks) + 1
    <3>4. /\ \A d : SendIdx(d)' = IF SendOf(<<what, c>>, d)
                                  THEN SendIdx(d) \cup {n} ELSE SendIdx(d)
          /\ \A d : n \notin SendIdx(d)
      BY <2>1, TasksPost, Zenon
    <3>1. /\ \A d : SendIdx(d)' = IF c = d THEN SendIdx(d) \cup {n} ELSE SendIdx(d)
          /\ \A d : n \notin SendIdx(d)
      BY <3>4, SendIs
    <3> HIDE DEF n
    <3>2. flying' = flying
      BY <1>5 DEF Send
    <3>3. ASSUME NEW d \in Conns
          PROVE  buffered'[d] = flying'[d] + Cardinality(SendIdx(d)')
      <4>1. CASE d = c
        <5>1. Cardinality(SendIdx(d)') = Cardinality(SendIdx(d)) + 1
          BY <1>1, <3>1, <4>1, FS_AddElement
        <5> QED
          BY <1>1, <2>1, <3>2, <4>1, <5>1
      <4>2. CASE d # c
        BY <1>1, <2>1, <3>1, <3>2, <4>2
      <4> QED
        BY <4>1, <4>2
    <3> QED
      BY <3>3 DEF FlowOK
  <2>2. CASE Post("bye", c) /\ UNCHANGED buffered
    BY <1>4, <1>5, <2>2 DEF Send
  <2>3. CASE UNCHANGED <<closed, buffered, tasks>>
    BY <1>2, <1>5, <2>3 DEF Send
  <2> QED
    BY <1>5, <2>1, <2>2, <2>3 DEF Send
<1>6. ASSUME NEW c \in Conns, Hangup(c)
      PROVE  FlowOK'
  BY <1>2, <1>4, <1>6 DEF Hangup
<1>7. CASE CloseServer
  BY <1>4, <1>7 DEF CloseServer, sockets
<1>8. CASE Network
  <2>1. ASSUME NEW c \in Conns, Flushed(c)
        PROVE  FlowOK'
    <3>1. /\ flying' = [flying EXCEPT ![c] = @ - 1] /\ flying[c] # 0
          /\ buffered' = [buffered EXCEPT ![c] = @ - 1]
          /\ \A d : SendIdx(d)' = SendIdx(d)
      BY <1>1, <2>1 DEF Flushed, Shed, SendIdx
    <3>2. ASSUME NEW d \in Conns
          PROVE  buffered'[d] = flying'[d] + Cardinality(SendIdx(d)')
      BY <1>1, <3>1
    <3> QED
      BY <3>2 DEF FlowOK
  <2>2. ASSUME NEW c \in Conns,
               Upgrade(c) \/ TooBig(c) \/ CloseFrame(c) \/ \E text \in Texts : Message(c, text)
        PROVE  FlowOK'
    BY <1>2, <2>2 DEF Upgrade, TooBig, CloseFrame, Message, Receive
  <2> QED
    BY <1>8, <2>1, <2>2 DEF Network
<1>9. CASE Worker
  <2>1. ASSUME NEW what, NEW x, Running(what, x)
        PROVE  \A d : Cardinality(SendIdx(d)') =
                 Cardinality(SendIdx(d)) - IF SendOf(<<what, x>>, d) THEN 1 ELSE 0
    BY <2>1, TasksTail DEF Running
  <2>2. ASSUME NEW x, Running("bye", x) \/ Running("close", x), UNCHANGED <<buffered, flying>>
        PROVE  FlowOK'
    <3>1. PICK what \in {"bye", "close"} : Running(what, x)
      BY <2>2
    <3>2. \A d : ~SendOf(<<what, x>>, d)
      BY <3>1, SendIs, SendKinds
    <3>3. \A d \in Conns : Cardinality(SendIdx(d)') = Cardinality(SendIdx(d)) - 0
      BY <2>1, <3>1, <3>2
    <3> QED
      BY <1>1, <2>2, <3>3 DEF FlowOK
  <2>3. ASSUME NEW c \in Conns, NEW what \in Sends, RunSend(c, what)
        PROVE  FlowOK'
    <3>5. \A d : Cardinality(SendIdx(d)') =
             Cardinality(SendIdx(d)) - IF SendOf(<<what, c>>, d) THEN 1 ELSE 0
      BY <2>1, <2>3 DEF RunSend
    <3>1. \A d : Cardinality(SendIdx(d)') =
             Cardinality(SendIdx(d)) - IF c = d THEN 1 ELSE 0
      BY <3>5, SendIs
    <3>2. \A d \in Conns : Cardinality(SendIdx(d)') =
             IF d = c THEN Cardinality(SendIdx(d)) - 1 ELSE Cardinality(SendIdx(d))
      BY <1>1, <3>1
    <3>3. \/ flying' = [flying EXCEPT ![c] = @ + 1] /\ buffered' = buffered
          \/ flying' = flying /\ buffered' = [buffered EXCEPT ![c] = @ - 1]
      BY <2>3 DEF RunSend, Shed
    <3>4. ASSUME NEW d \in Conns
          PROVE  buffered'[d] = flying'[d] + Cardinality(SendIdx(d)')
      <4>1. CASE d = c
        BY <1>1, <3>2, <3>3, <4>1
      <4>2. CASE d # c
        BY <1>1, <3>2, <3>3, <4>2
      <4> QED
        BY <4>1, <4>2
    <3> QED
      BY <3>4 DEF FlowOK
  <2>4. CASE RunCloseServer
    BY <2>2, <2>4 DEF RunCloseServer
  <2>5. ASSUME NEW c \in Conns, RunBye(c)
        PROVE  FlowOK'
    BY <2>2, <2>5 DEF RunBye
  <2> QED
    BY <1>9, <2>3, <2>4, <2>5 DEF Worker
<1> QED
  BY <1>3, <1>5, <1>6, <1>7, <1>8, <1>9, NextIs DEF Calls

LEMMA PartedStep ==
  ASSUME TypeOK, PartedOK, [Next]_vars
  PROVE  PartedOK'
<1>1. WsFields
  BY WsIs
<1>2. ASSUME UNCHANGED tasks, closed \subseteq closed',
             \A c \in Conns : "close" \in parted'[c] => "close" \in parted[c]
      PROVE  PartedOK'
  BY <1>2 DEF PartedOK, SendAt, ByeAt
<1>3. ASSUME NEW what, NEW x, Post(what, x), parted' = parted, closed \subseteq closed',
             what = "bye" => x \in closed',
             what \in Sends => x \notin closed
      PROVE  PartedOK'
  <2>1. PICK n \in Nat :
          /\ \A i, d : SendAt(i, d)' <=> SendAt(i, d) \/ (i = n /\ SendOf(<<what, x>>, d))
          /\ \A i, d : ByeAt(i, d)' <=> ByeAt(i, d) \/ (i = n /\ <<what, x>> = <<"bye", d>>)
          /\ \A i, d : SendAt(i, d) \/ ByeAt(i, d) => i < n
    BY <1>3, TasksPost
  <2>2. ASSUME NEW c \in Conns, NEW i \in Nat, ByeAt(i, c)'
        PROVE  c \in closed' /\ \A j \in Nat : SendAt(j, c)' => j < i
    <3>1. CASE ByeAt(i, c)
      <4>1. c \in closed /\ \A j \in Nat : SendAt(j, c) => j < i
        BY <3>1 DEF PartedOK
      <4>2. ~SendOf(<<what, x>>, c)
        BY <1>3, <4>1, SendIs
      <4> QED
        BY <1>3, <2>1, <4>1, <4>2
    <3>2. CASE i = n /\ <<what, x>> = <<"bye", c>>
      <4>1. what = "bye" /\ x = c
        BY <3>2
      <4>2. ~SendOf(<<what, x>>, c)
        BY <4>1, SendIs, SendKinds
      <4> QED
        BY <1>3, <2>1, <3>2, <4>1, <4>2
    <3> QED
      BY <2>1, <2>2, <3>1, <3>2
  <2>3. ASSUME NEW c \in Conns, "close" \in parted'[c]
        PROVE  c \in closed' /\ \A j \in Nat : ~SendAt(j, c)'
    <3>1. c \in closed /\ \A j \in Nat : ~SendAt(j, c)
      BY <1>3, <2>3 DEF PartedOK
    <3>2. ~SendOf(<<what, x>>, c)
      BY <1>3, <3>1, SendIs
    <3> QED
      BY <1>3, <2>1, <3>1, <3>2
  <2> QED
    BY <2>2, <2>3 DEF PartedOK
<1>4. ASSUME NEW what, NEW x, Running(what, x), closed \subseteq closed',
             \A c \in Conns : "close" \in parted'[c] =>
               "close" \in parted[c] \/ (what = "bye" /\ x = c)
      PROVE  PartedOK'
  <2>1. /\ \A d : \A i \in Nat : /\ SendAt(i, d)' <=> i # 0 /\ SendAt(i + 1, d)
                                 /\ ByeAt(i, d)' <=> i # 0 /\ ByeAt(i + 1, d)
        /\ \A i, d : SendAt(i, d) \/ ByeAt(i, d) => i \in Nat /\ i # 0
        /\ \A d : ByeAt(1, d) <=> <<what, x>> = <<"bye", d>>
    BY <1>4, TasksTail DEF Running
  <2>2. \A i \in Nat : i + 1 \in Nat
    OBVIOUS
  <2>3. ASSUME NEW c \in Conns, NEW i \in Nat, ByeAt(i, c)'
        PROVE  c \in closed' /\ \A j \in Nat : SendAt(j, c)' => j < i
    <3>1. ByeAt(i + 1, c)
      BY <2>1, <2>3
    <3>2. c \in closed /\ \A j \in Nat : SendAt(j + 1, c) => j + 1 < i + 1
      BY <2>2, <3>1 DEF PartedOK
    <3> QED
      BY <1>4, <2>1, <3>2
  <2>4. ASSUME NEW c \in Conns, "close" \in parted'[c]
        PROVE  c \in closed' /\ \A j \in Nat : ~SendAt(j, c)'
    <3>1. CASE "close" \in parted[c]
      BY <1>4, <2>1, <2>2, <3>1 DEF PartedOK
    <3>2. CASE "close" \notin parted[c]
      <4>1. ByeAt(1, c)
        BY <1>4, <2>1, <2>4, <3>2
      <4>2. c \in closed /\ \A j \in Nat : SendAt(j, c) => j < 1
        BY <4>1 DEF PartedOK
      <4>3. \A j \in Nat : ~SendAt(j, c)
        BY <2>1, <4>2
      <4> QED
        BY <1>4, <2>1, <2>2, <4>2, <4>3
    <3> QED
      BY <3>1, <3>2
  <2> QED
    BY <2>3, <2>4 DEF PartedOK
<1>5. CASE Handlers \/ HubStep
  <2>1. UNCHANGED <<sockets, tasks>>
    BY <1>5, HandlerIs, HubStill DEF Dispatch
  <2> QED
    BY <1>2, <2>1 DEF sockets
<1>6. CASE Network
  <2>1. ASSUME NEW c \in Conns, TooBig(c) \/ CloseFrame(c)
        PROVE  PartedOK'
    <3>1. /\ UNCHANGED tasks /\ closed \subseteq closed'
          /\ Part(c, "reply") /\ "reply" \in Partings
      BY <2>1 DEF TooBig, CloseFrame, Receive, Partings
    <3>2. \A d \in Conns : "close" \in parted'[d] => "close" \in parted[d]
      BY <1>1, <3>1, PartTyped DEF WsFields
    <3> QED
      BY <1>2, <3>1, <3>2
  <2>2. ASSUME NEW c \in Conns,
               Upgrade(c) \/ Flushed(c) \/ \E text \in Texts : Message(c, text)
        PROVE  PartedOK'
    BY <1>2, <2>2 DEF Upgrade, Flushed, Message, Receive
  <2> QED
    BY <1>6, <2>1, <2>2 DEF Network
<1>7. ASSUME NEW c \in Conns, NEW what \in Sends, Send(c, what)
      PROVE  PartedOK'
  <2>1. CASE c \notin closed /\ closed' = closed \cup {c} /\ Post("bye", c)
    BY <1>3, <1>7, <2>1, SendKinds DEF Send
  <2>2. CASE c \notin closed /\ UNCHANGED closed /\ Post(what, c)
    BY <1>3, <1>7, <2>2, SendKinds DEF Send
  <2>3. CASE UNCHANGED <<closed, tasks>>
    BY <1>2, <1>7, <2>3 DEF Send
  <2> QED
    BY <1>7, <2>1, <2>2, <2>3 DEF Send
<1>8. ASSUME NEW c \in Conns, Hangup(c)
      PROVE  PartedOK'
  <2>1. CASE closed' = closed \cup {c} /\ Post("bye", c)
    BY <1>3, <1>8, <2>1, SendKinds DEF Hangup
  <2>2. CASE UNCHANGED <<closed, tasks>>
    BY <1>2, <1>8, <2>2 DEF Hangup
  <2> QED
    BY <1>8, <2>1, <2>2 DEF Hangup
<1>9. CASE CloseServer
  BY <1>3, <1>9, SendKinds DEF CloseServer, sockets
<1>10. CASE Worker
  <2>1. CASE RunCloseServer
    <3>1. Running("close", "server") /\ closed \subseteq closed' /\ parted' = parted
      BY <2>1 DEF RunCloseServer
    <3> QED
      BY <1>4, <3>1
  <2>2. ASSUME NEW c \in Conns, NEW what \in Sends, RunSend(c, what)
        PROVE  PartedOK'
    <3>1. \A d \in Conns : "close" \in parted'[d] => "close" \in parted[d]
      BY <1>1, <2>2, PartTyped DEF RunSend, WsFields, Partings
    <3>2. Running(what, c) /\ closed \subseteq closed'
      BY <2>2 DEF RunSend
    <3> QED
      BY <1>4, <3>1, <3>2
  <2>3. ASSUME NEW c \in Conns, RunBye(c)
        PROVE  PartedOK'
    <3>1. \A d \in Conns : "close" \in parted'[d] => "close" \in parted[d] \/ d = c
      BY <1>1, <2>3, PartTyped DEF RunBye, WsFields, Partings
    <3>2. Running("bye", c) /\ closed \subseteq closed'
      BY <2>3 DEF RunBye
    <3> QED
      BY <1>4, <3>1, <3>2
  <2> QED
    BY <1>10, <2>1, <2>2, <2>3 DEF Worker
<1> QED
  BY <1>5, <1>6, <1>7, <1>8, <1>9, <1>10, NextIs DEF Calls

\* Nothing changes for connection c.
LEMMA CallbacksSame ==
  ASSUME NEW c \in Conns, QueueOK(c), ToldOK(c),
         \A i : /\ About(i, c)' <=> About(i, c)
                /\ OpenAt(i, c)' <=> OpenAt(i, c)
                /\ CloseAt(i, c)' <=> CloseAt(i, c),
         link'[c] = link[c], told'[c] = told[c], c \in known' => c \in known, over => over'
  PROVE  QueueOK(c)' /\ ToldOK(c)'
<1>1. QueueOK(c)'
  BY DEF QueueOK
<1>2. ToldOK(c)'
  BY DEF ToldOK
<1> QED
  BY <1>1, <1>2

LEMMA JobsStill ==
  ASSUME jobs' = jobs
  PROVE  \A i, c : /\ About(i, c)' <=> About(i, c)
                   /\ OpenAt(i, c)' <=> OpenAt(i, c)
                   /\ CloseAt(i, c)' <=> CloseAt(i, c)
  BY DEF About, OpenAt, CloseAt

LEMMA CallbacksStill ==
  ASSUME CallbacksOK, UNCHANGED <<jobs, told, link, over>>, known' \subseteq known
  PROVE  CallbacksOK'
<1>1. ASSUME NEW c \in Conns
      PROVE  QueueOK(c)' /\ ToldOK(c)'
  BY CallbacksSame, JobsStill DEF CallbacksOK
<1> QED
  BY <1>1 DEF CallbacksOK

\* The io thread posts a callback: onOpen as a connection comes up, onClose as it
\* goes down, onMessage between.
LEMMA CallbacksCall ==
  ASSUME TypeOK, CallbacksOK, NEW c \in Conns, NEW what, NEW text,
         Call(what, c, text), UNCHANGED <<told, over, known>>,
         \A d \in Conns : d # c => link'[d] = link[d],
         \/ what = "open" /\ text = Blank /\ link[c] = "none" /\ link'[c] = "up"
         \/ what = "message" /\ link[c] \in {"up", "shut"} /\ link'[c] = link[c]
         \/ what = "close" /\ text = Blank /\ link[c] \in {"up", "shut"} /\ link'[c] = "down"
  PROVE  CallbacksOK'
<1>1. PICK n \in Nat :
        /\ \A i, d : About(i, d)' <=> About(i, d) \/ (i = n /\ d = c)
        /\ \A i, d : OpenAt(i, d)' <=>
             OpenAt(i, d) \/ (i = n /\ <<what, c, text>> = <<"open", d, Blank>>)
        /\ \A i, d : CloseAt(i, d)' <=>
             CloseAt(i, d) \/ (i = n /\ <<what, c, text>> = <<"close", d, Blank>>)
        /\ \A i, d : About(i, d) => i < n
  BY JobsCall
<1>2. ASSUME NEW d \in Conns, d # c
      PROVE  QueueOK(d)' /\ ToldOK(d)'
  <2>1. \A i : /\ About(i, d)' <=> About(i, d)
               /\ OpenAt(i, d)' <=> OpenAt(i, d)
               /\ CloseAt(i, d)' <=> CloseAt(i, d)
    BY <1>1, <1>2
  <2> QED
    BY <1>2, <2>1, CallbacksSame DEF CallbacksOK
<1>3. /\ \A i : OpenAt(i, c)' <=> OpenAt(i, c) \/ (i = n /\ what = "open")
      /\ \A i : CloseAt(i, c)' <=> CloseAt(i, c) \/ (i = n /\ what = "close")
  BY <1>1
<1>4. QueueOK(c) /\ ToldOK(c)
  BY DEF CallbacksOK
<1>5. \A i : OpenAt(i, c) \/ CloseAt(i, c) => About(i, c)
  BY DEF About, OpenAt, CloseAt
<1>6. \A i \in Nat : ~CloseAt(i, c)
  BY <1>4 DEF QueueOK
<1>7. QueueOK(c)'
  <2>1. link'[c] # "none"
    OBVIOUS
  <2>2. ASSUME NEW i \in Nat, NEW j \in Nat, OpenAt(i, c)', About(j, c)'
        PROVE  i <= j
    <3>1. CASE OpenAt(i, c)
      BY <1>1, <1>4, <1>5, <2>2, <3>1 DEF QueueOK
    <3>2. CASE i = n /\ what = "open"
      BY <1>1, <1>4, <2>2, <3>2 DEF QueueOK
    <3> QED
      BY <1>3, <2>2, <3>1, <3>2
  <2>3. ASSUME NEW i \in Nat, NEW j \in Nat, CloseAt(i, c)', About(j, c)'
        PROVE  j <= i
    BY <1>1, <1>3, <1>6, <2>3
  <2>4. ASSUME NEW i \in Nat, CloseAt(i, c)'
        PROVE  link'[c] = "down"
    BY <1>3, <1>6, <2>4
  <2> QED
    BY <2>1, <2>2, <2>3, <2>4 DEF QueueOK
<1>8. ToldOK(c)'
  <2>1. ASSUME link'[c] # "none", told'[c] = "none"
        PROVE  over' \/ \E i \in Nat : OpenAt(i, c)'
    BY <1>3, <1>4, <2>1 DEF ToldOK
  <2>2. told'[c] # "close"
    BY <1>4 DEF ToldOK
  <2>3. ASSUME link'[c] = "down"
        PROVE  \E i \in Nat : CloseAt(i, c)'
    BY <1>3, <2>3
  <2> QED
    BY <2>1, <2>2, <2>3 DEF ToldOK
<1> QED
  BY <1>2, <1>7, <1>8 DEF CallbacksOK

\* The JavaScript thread calls the first of them.
LEMMA CallbacksDispatch ==
  ASSUME TypeOK, CallbacksOK, NEW c \in Conns, NEW what \in Kinds, NEW text,
         Dispatch(what, c, text), HeardBy(c, what),
         what \in {"open", "close"} => text = Blank
  PROVE  /\ CallbacksOK'
         /\ told[c] = "none" => told'[c] \in {"none", "open"}
         /\ told[c] = "close" => told'[c] = "close"
<1>1. /\ \A d : \A i \in Nat : /\ About(i, d)' <=> i # 0 /\ About(i + 1, d)
                               /\ OpenAt(i, d)' <=> i # 0 /\ OpenAt(i + 1, d)
                               /\ CloseAt(i, d)' <=> i # 0 /\ CloseAt(i + 1, d)
      /\ \A i, d : About(i, d) => i \in Nat /\ i # 0
      /\ \A d : About(1, d) <=> Head(jobs)[2] = d
      /\ \A d : OpenAt(1, d) <=> Head(jobs) = <<"open", d, Blank>>
      /\ \A d : CloseAt(1, d) <=> Head(jobs) = <<"close", d, Blank>>
  BY JobsTail DEF Dispatch
<1>2. /\ Head(jobs) = <<what, c, text>> /\ UNCHANGED <<link, over>>
      /\ told' = IF over THEN told ELSE [told EXCEPT ![c] = what]
  BY DEF Dispatch, sockets
<1>3. /\ \A d : About(1, d) <=> d = c
      /\ \A d : OpenAt(1, d) <=> what = "open" /\ d = c
      /\ \A d : CloseAt(1, d) <=> what = "close" /\ d = c
  BY <1>1, <1>2
<1>4. \A i \in Nat : i # 0 /\ i # 1 => i - 1 \in Nat /\ i - 1 # 0 /\ (i - 1) + 1 = i
  OBVIOUS
<1>5. /\ \A i, d : OpenAt(i, d) \/ CloseAt(i, d) => About(i, d)
      /\ \A i \in Nat : \A d : OpenAt(i, d) /\ i # 1 => \E k \in Nat : OpenAt(k, d)'
      /\ \A i \in Nat : \A d : CloseAt(i, d) /\ i # 1 => \E k \in Nat : CloseAt(k, d)'
  <2>1. \A i, d : OpenAt(i, d) \/ CloseAt(i, d) => About(i, d)
    BY DEF About, OpenAt, CloseAt
  <2>2. ASSUME NEW i \in Nat, NEW d, OpenAt(i, d), i # 1
        PROVE  \E k \in Nat : OpenAt(k, d)'
    <3>1. OpenAt(i - 1, d)' /\ i - 1 \in Nat
      BY <1>1, <1>4, <2>1, <2>2
    <3> QED
      BY <3>1
  <2>3. ASSUME NEW i \in Nat, NEW d, CloseAt(i, d), i # 1
        PROVE  \E k \in Nat : CloseAt(k, d)'
    <3>1. CloseAt(i - 1, d)' /\ i - 1 \in Nat
      BY <1>1, <1>4, <2>1, <2>3
    <3> QED
      BY <3>1
  <2> QED
    BY <2>1, <2>2, <2>3
<1>6. told \in [Conns -> Kinds \cup {"none"}] /\ "none" \notin Kinds /\ 1 \in Nat
  BY WsIs DEF WsFields, Kinds
<1>7. \A d \in Conns : QueueOK(d) /\ ToldOK(d)
  BY DEF CallbacksOK
<1>8. link[c] # "none"
  BY <1>3, <1>6, <1>7 DEF QueueOK
<1>9. ASSUME NEW d \in Conns
      PROVE  QueueOK(d)'
  <2>1. link[d] = "none" => \A i \in Nat : ~About(i, d)'
    BY <1>1, <1>7 DEF QueueOK
  <2>2. ASSUME NEW i \in Nat, NEW j \in Nat
        PROVE  /\ OpenAt(i, d)' /\ About(j, d)' => i <= j
               /\ CloseAt(i, d)' /\ About(j, d)' => j <= i
               /\ CloseAt(i, d)' => link[d] = "down"
    <3>1. i + 1 \in Nat /\ j + 1 \in Nat
      OBVIOUS
    <3>2. /\ OpenAt(i + 1, d) /\ About(j + 1, d) => i + 1 <= j + 1
          /\ CloseAt(i + 1, d) /\ About(j + 1, d) => j + 1 <= i + 1
          /\ CloseAt(i + 1, d) => link[d] = "down"
      BY <1>7, <3>1 DEF QueueOK
    <3> QED
      BY <1>1, <3>2
  <2> QED
    BY <1>2, <2>1, <2>2 DEF QueueOK
<1>10. ASSUME NEW d \in Conns
       PROVE  ToldOK(d)'
  <2>1. ASSUME link[d] # "none", told'[d] = "none", ~over
        PROVE  \E i \in Nat : OpenAt(i, d)'
    <3>1. d # c /\ told[d] = "none"
      BY <1>2, <1>6, <2>1
    <3>2. PICK i \in Nat : OpenAt(i, d)
      BY <1>7, <2>1, <3>1 DEF ToldOK
    <3>3. i # 1
      BY <1>3, <3>1, <3>2
    <3> QED
      BY <1>5, <3>2, <3>3
  <2>2. ASSUME told'[d] = "close"
        PROVE  link[d] = "down" /\ (over \/ \A i \in Nat : ~About(i, d)')
    <3>1. CASE told[d] = "close"
      BY <1>1, <1>7, <3>1 DEF ToldOK
    <3>2. CASE told[d] # "close"
      <4>1. ~over /\ d = c /\ what = "close"
        BY <1>2, <1>6, <2>2, <3>2
      <4>2. CloseAt(1, c)
        BY <1>3, <4>1
      <4>3. link[c] = "down" /\ \A j \in Nat : About(j, c) => j <= 1
        BY <1>6, <1>7, <4>2 DEF QueueOK
      <4>4. \A i \in Nat : i # 0 => i + 1 \in Nat /\ ~(i + 1 <= 1)
        OBVIOUS
      <4> QED
        BY <1>1, <4>1, <4>3, <4>4
    <3> QED
      BY <3>1, <3>2
  <2>3. ASSUME link[d] = "down", d \in known' \/ \E i \in Nat : About(i, d)', ~over
        PROVE  \E i \in Nat : CloseAt(i, d)'
    <3>1. d \in known \/ \E i \in Nat : About(i, d)
      <4>1. \A i \in Nat : i + 1 \in Nat
        OBVIOUS
      <4> QED
        BY <1>1, <1>3, <1>6, <2>3, <4>1 DEF HeardBy
    <3>2. PICK i \in Nat : CloseAt(i, d)
      BY <1>7, <2>3, <3>1 DEF ToldOK
    <3>3. CASE i = 1
      <4>1. what = "close" /\ d = c
        BY <1>3, <3>2, <3>3
      <4>2. d \notin known'
        BY <2>3, <4>1 DEF HeardBy
      <4>3. \A j \in Nat : About(j, d) => j <= 1
        BY <1>7, <3>2, <3>3 DEF QueueOK
      <4>4. \A j \in Nat : j # 0 => j + 1 \in Nat /\ ~(j + 1 <= 1)
        OBVIOUS
      <4> QED
        BY <1>1, <2>3, <4>2, <4>3, <4>4
    <3>4. CASE i # 1
      BY <1>5, <3>2, <3>4
    <3> QED
      BY <3>3, <3>4
  <2> QED
    BY <1>2, <2>1, <2>2, <2>3 DEF ToldOK
<1>11. ASSUME told[c] = "none"
       PROVE  told'[c] \in {"none", "open"}
  <2>1. CASE over
    BY <1>2, <1>11, <2>1
  <2>2. CASE ~over
    <3>1. PICK i \in Nat : OpenAt(i, c)
      BY <1>7, <1>8, <1>11, <2>2 DEF ToldOK
    <3>2. i <= 1 /\ i # 0
      BY <1>1, <1>3, <1>5, <1>6, <1>7, <3>1 DEF QueueOK
    <3>3. i = 1
      BY <3>2
    <3>4. what = "open"
      BY <1>3, <3>1, <3>3
    <3> QED
      BY <1>2, <1>6, <2>2, <3>4
  <2> QED
    BY <2>1, <2>2
<1>12. ASSUME told[c] = "close"
       PROVE  told'[c] = "close"
  BY <1>2, <1>3, <1>6, <1>7, <1>12 DEF ToldOK
<1> QED
  BY <1>9, <1>10, <1>11, <1>12 DEF CallbacksOK

LEMMA CallbacksStep ==
  ASSUME TypeOK, SocketsOK, CallbacksOK, [Next]_vars
  PROVE  CallbacksOK'
<1>1. WsFields
  BY WsIs
<1>2. CASE Handlers
  BY <1>2, HandlerIs, CallbacksDispatch
<1>3. CASE HubStep
  <2>1. UNCHANGED <<sockets, tasks, jobs, told>> /\ known' \subseteq known
    BY <1>3, HubStill
  <2> QED
    BY <2>1, CallbacksStill DEF sockets
<1>4. CASE Network /\ known' = known
  <2>1. ASSUME NEW c \in Conns, Upgrade(c)
        PROVE  CallbacksOK'
    <3>1. /\ Call("open", c, Blank) /\ UNCHANGED <<told, over>> /\ link[c] = "none"
          /\ link' = [link EXCEPT ![c] = "up"]
      BY <2>1 DEF Upgrade, Blank
    <3>2. link'[c] = "up" /\ \A d \in Conns : d # c => link'[d] = link[d]
      BY <1>1, <3>1 DEF WsFields
    <3> QED
      BY <1>4, <3>1, <3>2, CallbacksCall
  <2>2. ASSUME NEW c \in Conns, NEW text, Message(c, text)
        PROVE  CallbacksOK'
    <3>1. /\ Call("message", c, text) /\ UNCHANGED <<told, over, link>>
          /\ link[c] \in {"up", "shut"}
      BY <2>2 DEF Message, Receive
    <3> QED
      BY <1>4, <3>1, CallbacksCall
  <2>3. ASSUME NEW c \in Conns, CloseFrame(c)
        PROVE  CallbacksOK'
    <3>1. /\ Call("close", c, Blank) /\ UNCHANGED <<told, over>> /\ link[c] \in {"up", "shut"}
          /\ link' = [link EXCEPT ![c] = "down"]
      BY <2>3 DEF CloseFrame, Blank
    <3>2. link'[c] = "down" /\ \A d \in Conns : d # c => link'[d] = link[d]
      BY <1>1, <3>1 DEF WsFields
    <3> QED
      BY <1>4, <3>1, <3>2, CallbacksCall
  <2>4. ASSUME NEW c \in Conns, TooBig(c) \/ Flushed(c)
        PROVE  CallbacksOK'
    BY <1>4, <2>4, CallbacksStill DEF TooBig, Receive, Flushed
  <2> QED
    BY <1>4, <2>1, <2>2, <2>3, <2>4 DEF Network
<1>5. CASE RunCloseServer /\ known' = known
  <2>1. UNCHANGED <<jobs, told>> /\ over'
    BY <1>5 DEF RunCloseServer
  <2>2. \A c \in Conns : \/ link'[c] = link[c]
                         \/ link[c] = "up" /\ link'[c] = "shut"
    BY <1>1, <1>5 DEF RunCloseServer, SocketsOK, WsFields
  <2>3. \A i, c : /\ About(i, c)' <=> About(i, c)
                  /\ OpenAt(i, c)' <=> OpenAt(i, c)
                  /\ CloseAt(i, c)' <=> CloseAt(i, c)
    BY <2>1, JobsStill
  <2>4. ASSUME NEW c \in Conns
        PROVE  QueueOK(c)' /\ ToldOK(c)'
    <3>1. QueueOK(c) /\ ToldOK(c)
      BY DEF CallbacksOK
    <3>2. QueueOK(c)'
      BY <2>2, <2>3, <3>1 DEF QueueOK
    <3>3. ToldOK(c)'
      BY <2>1, <2>2, <2>3, <3>1 DEF ToldOK
    <3> QED
      BY <3>2, <3>3
  <2> QED
    BY <2>4 DEF CallbacksOK
<1>6. CASE (Calls \/ CloseServer \/ \E c \in Conns : RunBye(c) \/ \E what \in Sends : RunSend(c, what))
           /\ known' = known
  <2>1. UNCHANGED <<jobs, told, link, over>>
    BY <1>6 DEF Calls, Send, Hangup, CloseServer, sockets, RunSend, RunBye
  <2> QED
    BY <1>6, <2>1, CallbacksStill
<1> QED
  BY <1>2, <1>3, <1>4, <1>5, <1>6, NextIs DEF Worker

-----------------------------------------------------------------------------
(* The theorems. *)

LEMMA InitIInv == Init => IInv
<1> SUFFICES ASSUME Init PROVE IInv
  OBVIOUS
<1>1. WsFields
  <2>1. 0 \in 0..MaxBuffered /\ 0 \in 0..MaxFrames
    BY WebSocketsAssumption
  <2>2. /\ buffered \in [Conns -> 0..MaxBuffered] /\ flying \in [Conns -> 0..MaxBuffered]
        /\ frames \in [Conns -> 0..MaxFrames]
    BY <2>1, Zenon DEF Init, WsInit
  <2>3. tasks \in Seq(TaskSet) /\ jobs \in Seq(JobSet) /\ say \in Seq(SaySet)
    BY DEF Init, WsInit
  <2> QED
    BY <2>2, <2>3 DEF Init, WsInit, WsFields
<1>2. HubFields
  BY DEF Init, HubFields
<1>3. SocketsOK /\ OwnedOK
  BY DEF Init, WsInit, SocketsOK, OwnedOK
<1>4. FlowOK
  <2>1. \A c : SendIdx(c) = {}
    BY DEF Init, WsInit, SendIdx
  <2>2. ASSUME NEW c \in Conns PROVE buffered[c] = 0 /\ flying[c] = 0
    BY DEF Init, WsInit
  <2>3. \A c : Cardinality(SendIdx(c)) = 0
    BY <2>1, FS_EmptySet, Zenon
  <2> QED
    BY <2>2, <2>3 DEF FlowOK
<1>5. PartedOK
  BY DEF Init, WsInit, PartedOK, ByeAt
<1>6. CallbacksOK
  BY DEF Init, WsInit, CallbacksOK, QueueOK, ToldOK, About, OpenAt, CloseAt
<1> QED
  BY <1>1, <1>2, <1>3, <1>4, <1>5, <1>6, TypeIs DEF IInv

THEOREM Inductive == Spec => []IInv
<1>1. IInv /\ [Next]_vars => IInv'
  BY TypeStep, SocketsStep, FlowStep, PartedStep, CallbacksStep DEF IInv
<1> QED
  BY <1>1, InitIInv, PTL DEF Spec

\* Every variable keeps its type: no send() overruns maxBufferedBytes, and RESTinio
\* never calls back for more than it was given.
THEOREM TypeCorrect == Spec => []TypeOK
<1>1. IInv => TypeOK
  BY DEF IInv
<1> QED
  BY <1>1, Inductive, PTL

\* No restart, failure, hub.close() or late message leaves a session that runs
\* without a record through which it is closed (wl2_webrtc.cpp).
THEOREM NoGhosts == Spec => []NoGhostSession
<1>1. IInv => NoGhostSession
  <2> SUFFICES ASSUME IInv, NEW s \in Sessions, life[s] = "started"
               PROVE  /\ owner[s] \in known /\ session[owner[s]] = s
                      /\ link[owner[s]] = "down" =>
                           over \/ \E i \in DOMAIN jobs : jobs[i] = <<"close", owner[s], "">>
    BY DEF NoGhostSession
  <2>1. owner[s] \in known /\ session[owner[s]] = s
    BY DEF IInv, OwnedOK
  <2>2. owner[s] \in Conns
    BY <2>1, TypeIs DEF IInv, HubFields
  <2>3. ASSUME link[owner[s]] = "down", ~over
        PROVE  \E i \in DOMAIN jobs : jobs[i] = <<"close", owner[s], "">>
    <3>1. ToldOK(owner[s])
      BY <2>2 DEF IInv, CallbacksOK
    <3>2. PICK i \in Nat : CloseAt(i, owner[s])
      BY <2>1, <2>3, <3>1 DEF ToldOK
    <3> QED
      BY <3>2 DEF CloseAt, Blank
  <2> QED
    BY <2>1, <2>3
<1> QED
  BY <1>1, Inductive, PTL

\* No message follows the close frame of the script's close(), and the callbacks of a
\* connection are onOpen first and onClose last (wl2_restinio.cpp).
THEOREM AlwaysInOrder == Spec => InOrder
<1> DEFINE Ordered(c) == /\ "close" \in parted[c] => flying'[c] <= flying[c]
                         /\ told[c] = "none" => told'[c] \in {"none", "open"}
                         /\ told[c] = "close" => told'[c] = "close"
<1>1. ASSUME IInv, [Next]_vars, NEW c \in Conns
      PROVE  Ordered(c)
  <2>1. TypeOK /\ PartedOK /\ CallbacksOK /\ WsFields
    BY <1>1, WsIs DEF IInv
  <2>2. flying \in [Conns -> 0..MaxBuffered] /\ flying[c] \in Nat /\ told[c] \in Kinds \cup {"none"}
    BY <2>1, WebSocketsAssumption, Counted DEF WsFields
  <2>3. ASSUME UNCHANGED <<flying, told>> PROVE Ordered(c)
    BY <2>2, <2>3
  <2>4. CASE Handlers
    <3> PICK d \in Conns, what \in Kinds :
               \E text : /\ Dispatch(what, d, text) /\ HeardBy(d, what)
                         /\ what \in {"open", "close"} => text = Blank
      BY <2>4, HandlerIs
    <3>1. PICK text : /\ Dispatch(what, d, text) /\ HeardBy(d, what)
                      /\ what \in {"open", "close"} => text = Blank
      OBVIOUS
    <3>2. flying' = flying
      BY <3>1 DEF Dispatch, sockets
    <3>3. CASE d = c
      BY <2>1, <2>2, <3>1, <3>2, <3>3, CallbacksDispatch
    <3>4. CASE d # c
      <4>1. told'[c] = told[c]
        BY <2>1, <3>1, <3>4 DEF Dispatch, WsFields
      <4> QED
        BY <2>2, <3>2, <4>1
    <3> QED
      BY <3>3, <3>4
  <2>5. CASE HubStep
    <3>1. UNCHANGED <<flying, told>>
      BY <2>5, HubStill DEF sockets
    <3> QED
      BY <2>3, <3>1
  <2>6. ASSUME NEW d \in Conns, NEW what \in Sends, RunSend(d, what)
        PROVE  Ordered(c)
    <3>1. told' = told
      BY <2>6 DEF RunSend
    <3>2. "close" \in parted[c] => c # d
      <4>2. tasks # <<>> /\ tasks' = Tail(tasks) /\ SendOf(Head(tasks), d)
        BY <2>6 DEF RunSend, Running, SendOf
      <4>1. SendAt(1, d) /\ 1 \in Nat
        BY <2>1, <4>2, TasksTail
      <4> QED
        BY <2>1, <4>1 DEF PartedOK
    <3>3. c # d => flying'[c] = flying[c]
      BY <2>2, <2>6 DEF RunSend
    <3> QED
      BY <2>2, <3>1, <3>2, <3>3
  <2>7. ASSUME NEW d \in Conns, Flushed(d)
        PROVE  Ordered(c)
    <3>1. told' = told /\ flying' = [flying EXCEPT ![d] = @ - 1]
      BY <2>7 DEF Flushed
    <3>2. flying'[c] <= flying[c]
      BY <2>2, <3>1
    <3> QED
      BY <3>1, <3>2
  <2>8. CASE \/ Calls \/ CloseServer \/ RunCloseServer
             \/ \E d \in Conns : \/ RunBye(d) \/ Upgrade(d) \/ TooBig(d) \/ CloseFrame(d)
                                 \/ \E text \in Texts : Message(d, text)
    <3>1. UNCHANGED <<flying, told>>
      BY <2>8 DEF Calls, Send, Hangup, CloseServer, sockets, RunCloseServer, RunBye, Upgrade,
                  TooBig, CloseFrame, Message, Receive
    <3> QED
      BY <2>3, <3>1
  <2> QED
    BY <1>1, <2>4, <2>5, <2>6, <2>7, <2>8, NextIs DEF Worker, Network
<1>2. IInv /\ [Next]_vars => [\A c \in Conns : Ordered(c)]_wsVars
  BY <1>1
<1> QED
  BY <1>2, Inductive, PTL DEF Spec, InOrder
=============================================================================
