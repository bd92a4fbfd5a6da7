-------------------------- MODULE AsioSocketsProofs --------------------------
(***************************************************************************)
(* Proofs about AsioSockets for any handles and any finite set of operations: *)
(* the done flag settles every promise once, reads do not overlap, data is   *)
(* lost only to a deadline, and what connect() resolves with is open.        *)
(***************************************************************************)
EXTENDS AsioSockets, TLAPS, FiniteSetTheorems, SequenceTheorems

\* Each operation is posted once, and a handle is closed before its socket.
TaskOK ==
  /\ \A i \in DOMAIN tasks, o \in SocketOps :
       tasks[i] = <<Start, o>> => io[o] = "posted"
  /\ \A i, j \in DOMAIN tasks, o \in SocketOps :
       tasks[i] = <<Start, o>> /\ tasks[j] = <<Start, o>> => i = j
  /\ \A i \in DOMAIN tasks, h \in Handles :
       tasks[i] = <<Close, h>> => h \in closed

\* Nothing is decided about an operation that the worker has not begun, and only
\* connect() resolves a name; a handler is called with a result.
BegunOK ==
  \A o \in SocketOps :
    /\ io[o] \in {"new", "posted"} => o \notin done /\ timer[o] = "off"
    /\ io[o] \in {"resolving", "resolved"} => o \in Connects
    /\ io[o] = "ready" => result[o] # "none"

\* SettledOnce without counting: at most one completion of o is queued, none
\* when its promise is settled, and one of the two if and only if o is done.
OnceOK ==
  \A o \in SocketOps :
    /\ \A i, j \in Queued(o) : i = j
    /\ settlement[o] # "none" => Queued(o) = {}
    /\ o \in done <=> settlement[o] # "none" \/ Queued(o) # {}

\* A read that was called and whose promise is not settled.
Reading(o) == o \in Reads /\ io[o] # "new" /\ settlement[o] = "none"

\* The reading flag is the one such read of its handle; a read that was given
\* up is in the hands of Asio no longer.
FlagOK ==
  /\ \A o \in Reads : Reading(o) => "reading" \in busy[On[o]]
  /\ \A o, p \in Reads : Reading(o) /\ Reading(p) /\ On[o] = On[p] => o = p
  /\ \A o \in Reads : o \in done => io[o] \in {"ready", "handled"}

\* A read has taken a chunk when its result is "ok", and its handler is ready or
\* has run.
ChunkOK ==
  \A o \in Reads :
    /\ result[o] = "ok" <=> taken[o] # 0
    /\ taken[o] # 0 => io[o] \in {"ready", "handled"}
    /\ taken[o] <= arrived[On[o]]

\* The chunk of a read that has not settled is younger than whatever the script
\* has got from the handle.
GotOK ==
  /\ \A o \in Reads : Told(o, "ok") => taken[o] # 0
  /\ \A o \in Reads : taken[o] # 0 /\ settlement[o] = "none" =>
       \A i \in DOMAIN got[On[o]] : got[On[o]][i] < taken[o]
  /\ \A h \in Handles : \A i \in DOMAIN got[h] : got[h][i] <= arrived[h]
  /\ \A h \in Handles : \A i, j \in DOMAIN got[h] : i < j => got[h][i] < got[h][j]

\* A read that was decided before its handler ran was decided by its deadline.
LateOK ==
  \A o \in Reads :
    io[o] = "ready" /\ o \in done => o \in deadline /\ Told(o, "timeout")

\* A chunk that was taken is delivered, or lost to the deadline of its read.
LostOK ==
  \A o \in Reads : taken[o] # 0 /\ io[o] = "handled" =>
    Told(o, "ok") \/ (o \in deadline /\ Told(o, "timeout"))

\* A socket is closed by close(), or by the deadline of the connect().
SocketOK ==
  \A c \in Connects :
    On[c] \notin sockets /\ On[c] \notin closed => Told(c, "timeout")

\* A deadline has passed on the handle of o, and its operation reports it.
Caused(o) == \E p \in deadline : On[p] = On[o] /\ Told(p, "timeout")

\* An operation is aborted by close(), or by a deadline on its handle.
CauseOK ==
  \A o \in SocketOps : result[o] = "aborted" /\ On[o] \notin closed => Caused(o)

\* Whoever is told of a timeout, a deadline has passed on its handle; the deadline need
\* not be its own (see OwnTimeoutsOnly).
TimeoutsHaveCause == \A o \in SocketOps : Told(o, "timeout") => Caused(o)

IInv ==
  /\ SocketsTypeOK /\ TaskOK /\ BegunOK /\ OnceOK /\ FlagOK
  /\ ChunkOK /\ GotOK /\ LateOK /\ LostOK
  /\ SocketOK /\ CauseOK /\ TimeoutsHaveCause
-----------------------------------------------------------------------------
(* What a step does to the completions and the promises. *)

Quiet == UNCHANGED <<done, completions, settlement>>

\* The done flag of o is set and its completion is posted.
Posts(o, how) ==
  /\ o \notin done /\ done' = done \cup {o}
  /\ completions' = Append(completions, <<o, how>>)
  /\ UNCHANGED settlement

SomePost == \E o \in SocketOps, how \in Outcomes : Posts(o, how)

\* Every step leaves the promises alone, settles the oldest completion, or posts
\* the completion of one operation.
LEMMA Effects ==
  ASSUME SocketsTypeOK, [SocketsNext]_socketVars
  PROVE  Quiet \/ Settle \/ SomePost
<1> USE DEF scriptVars, ioVars, claimVars
<1>1. ASSUME NEW o \in SocketOps,
             Call(o) \/ Answer(o) \/ DeadlinePasses(o) \/ RunStart(o)
      PROVE  Quiet
  BY <1>1 DEF Call, Answer, DeadlinePasses, RunStart, Quiet
<1>2. ASSUME NEW h \in Handles, CloseHandle(h) \/ RunClose(h)
      PROVE  Quiet
  BY <1>2 DEF CloseHandle, RunClose, Quiet
<1>3. ASSUME NEW c \in Connects, Resolved(c)
      PROVE  Quiet
  BY <1>3 DEF Resolved, Quiet
<1>4. ASSUME NEW o \in SocketOps, HandleIo(o)
      PROVE  Quiet \/ SomePost
  <2>1. Verdict(o) \in Outcomes
    BY DEF Verdict, Outcomes
  <2>2. CASE o \in done
    BY <1>4, <2>2 DEF HandleIo, Decided, Quiet
  <2>3. CASE o \notin done
    <3>1. Posts(o, Verdict(o))
      BY <1>4, <2>3 DEF HandleIo, Decided, Claim, Posts
    <3> QED
      BY <2>1, <3>1 DEF SomePost
  <2> QED
    BY <2>2, <2>3
<1>5. ASSUME NEW o \in SocketOps, HandleTimer(o)
      PROVE  Quiet \/ SomePost
  <2>1. CASE o \in done
    BY <1>5, <2>1 DEF HandleTimer, Quiet
  <2>2. CASE o \notin done
    <3>1. Posts(o, "timeout") /\ "timeout" \in Outcomes
      BY <1>5, <2>2 DEF HandleTimer, Posts, Outcomes
    <3> QED
      BY <3>1 DEF SomePost
  <2> QED
    BY <2>1, <2>2
<1>6. ASSUME NEW c \in Connects, HandleResolved(c)
      PROVE  Quiet \/ SomePost
  <2>1. CASE UNCHANGED claimVars
    BY <1>6, <2>1 DEF HandleResolved, Quiet
  <2>2. CASE \E how \in {"denied", "failed"} : c \notin done /\ Claim(c, how)
    <3>1. PICK how \in {"denied", "failed"} : Posts(c, how)
      BY <1>6, <2>2 DEF HandleResolved, Claim, Posts
    <3>2. how \in Outcomes /\ c \in SocketOps
      BY DEF Outcomes, SocketOps
    <3> QED
      BY <3>1, <3>2 DEF SomePost
  <2> QED
    BY <1>6, <2>1, <2>2 DEF HandleResolved
<1>7. CASE UNCHANGED socketVars
  BY <1>7 DEF socketVars, Quiet
<1> QED
  BY <1>1, <1>2, <1>3, <1>4, <1>5, <1>6, <1>7 DEF SocketsNext, Worker

\* A queued completion is a pair of an operation and an outcome.
LEMMA CompletionTyped ==
  ASSUME SocketsTypeOK, NEW i \in DOMAIN completions
  PROVE  /\ completions[i] = <<completions[i][1], completions[i][2]>>
         /\ completions[i][1] \in SocketOps /\ completions[i][2] \in Outcomes
<1>1. completions[i] \in SocketOps \X Outcomes
  BY ElementOfSeq DEF SocketsTypeOK
<1> QED
  BY <1>1

LEMMA PostQueued ==
  ASSUME SocketsTypeOK, NEW o \in SocketOps, NEW how \in Outcomes, Posts(o, how),
         NEW p \in SocketOps
  PROVE  Queued(p)' = IF p = o THEN Queued(p) \cup {Len(completions) + 1}
                      ELSE Queued(p)
<1>1. completions \in Seq(SocketOps \X Outcomes) /\ <<o, how>> \in SocketOps \X Outcomes
  BY DEF SocketsTypeOK
<1>2. /\ DOMAIN completions = 1 .. Len(completions)
      /\ DOMAIN completions' = 1 .. (Len(completions) + 1)
      /\ \A i \in DOMAIN completions : completions'[i] = completions[i]
      /\ completions'[Len(completions) + 1] = <<o, how>>
      /\ Len(completions) \in Nat
  BY <1>1 DEF Posts
<1> QED
  BY <1>2 DEF Queued

\* Settling removes the first completion and moves the others up by one.
LEMMA SettleShifts ==
  ASSUME SocketsTypeOK, Settle
  PROVE  \E n \in Nat :
           /\ DOMAIN completions = 1 .. n + 1
           /\ DOMAIN completions' = 1 .. n
           /\ \A i \in 1 .. n : completions'[i] = completions[i + 1]
           /\ Head(completions) = completions[1]
<1>1. completions \in Seq(SocketOps \X Outcomes) /\ completions # <<>>
  BY DEF SocketsTypeOK, Settle
<1>2. /\ DOMAIN completions = 1 .. Len(completions)
      /\ Len(completions) \in Nat \ {0}
      /\ DOMAIN completions' = 1 .. (Len(completions) - 1)
      /\ \A i \in DOMAIN completions' : completions'[i] = completions[i + 1]
      /\ Head(completions) = completions[1]
  BY <1>1 DEF Settle
<1>3. Len(completions) - 1 \in Nat /\ (Len(completions) - 1) + 1 = Len(completions)
  BY <1>2
<1> QED
  BY <1>2, <1>3

\* The first completion is settled: its flag is cleared, and a read that has
\* taken a chunk hands it to the script.
LEMMA SettleFirst ==
  ASSUME SocketsTypeOK, Settle
  PROVE  \E o \in SocketOps, how \in Outcomes :
           /\ completions[1] = <<o, how>> /\ 1 \in DOMAIN completions
           /\ settlement' = [settlement EXCEPT ![o] = how]
           /\ busy' = [busy EXCEPT ![On[o]] = @ \ Flags(o)]
           /\ got' = IF o \in Reads /\ how = "ok"
                     THEN [got EXCEPT ![On[o]] = Append(@, taken[o])] ELSE got
<1>1. Head(completions) = completions[1] /\ 1 \in DOMAIN completions
  BY SettleShifts
<1>2. PICK o \in SocketOps, how \in Outcomes : completions[1] = <<o, how>>
  BY <1>1, CompletionTyped
<1>3. Head(completions)[1] = o /\ Head(completions)[2] = how
  BY <1>1, <1>2
<1>4. /\ settlement' = [settlement EXCEPT ![o] = how]
      /\ busy' = [busy EXCEPT ![On[o]] = @ \ Flags(o)]
      /\ got' = IF o \in Reads /\ how = "ok"
                THEN [got EXCEPT ![On[o]] = Append(@, taken[o])] ELSE got
  BY <1>3 DEF Settle
<1> QED
  BY <1>1, <1>2, <1>4

-----------------------------------------------------------------------------
(* Settled once. *)

LEMMA OnceStep ==
  ASSUME SocketsTypeOK, OnceOK, [SocketsNext]_socketVars
  PROVE  OnceOK'
<1>1. CASE Quiet
  BY <1>1 DEF Quiet, OnceOK, Queued
<1>2. ASSUME NEW o \in SocketOps, NEW how \in Outcomes, Posts(o, how)
      PROVE  OnceOK'
  <2>1. Queued(o) = {} /\ settlement[o] = "none"
    BY <1>2 DEF OnceOK, Posts
  <2>2. \A p \in SocketOps : Queued(p)' = IF p = o THEN {Len(completions) + 1}
                                     ELSE Queued(p)
    BY <1>2, <2>1, PostQueued
  <2>3. done' = done \cup {o} /\ settlement' = settlement
    BY <1>2 DEF Posts
  <2> QED
    BY <2>1, <2>2, <2>3 DEF OnceOK
<1>3. CASE Settle
  <2>1. PICK n \in Nat :
          /\ DOMAIN completions = 1 .. n + 1
          /\ DOMAIN completions' = 1 .. n
          /\ \A i \in 1 .. n : completions'[i] = completions[i + 1]
          /\ Head(completions) = completions[1]
    BY <1>3, SettleShifts
  <2>2. PICK o \in SocketOps, how \in Outcomes :
          completions[1] = <<o, how>> /\ settlement' = [settlement EXCEPT ![o] = how]
    BY <1>3, SettleFirst
  <2>3. settlement' = [settlement EXCEPT ![o] = how] /\ done' = done /\ how # "none"
    BY <1>3, <2>2 DEF Settle, Outcomes
  <2>4. \A p \in SocketOps, i \in Int : i \in Queued(p)' <=> i > 0 /\ i + 1 \in Queued(p)
    BY <2>1 DEF Queued
  <2>5. \A p \in SocketOps : Queued(p) \subseteq Int /\ Queued(p)' \subseteq Int
    BY <2>1 DEF Queued
  <2>6. \A p \in SocketOps : 1 \in Queued(p) <=> p = o
    BY <2>1, <2>2 DEF Queued
  <2>7. \A p \in SocketOps : \A i \in Queued(p) : i > 0
    BY <2>1 DEF Queued
  <2>8. ASSUME NEW p \in SocketOps
        PROVE  /\ \A i, j \in Queued(p)' : i = j
               /\ settlement'[p] # "none" => Queued(p)' = {}
               /\ p \in done' <=> settlement'[p] # "none" \/ Queued(p)' # {}
    <3>1. \A i, j \in Queued(p)' : i = j
      BY <2>4, <2>5 DEF OnceOK
    <3>2. CASE p = o
      <4>1. Queued(p)' = {}
        BY <3>2, <2>4, <2>5, <2>6 DEF OnceOK
      <4>2. settlement'[p] # "none"
        BY <3>2, <2>3 DEF SocketsTypeOK
      <4> QED
        BY <3>2, <4>1, <4>2, <2>3, <2>6 DEF OnceOK
    <3>3. CASE p # o
      <4>1. Queued(p)' = {} <=> Queued(p) = {}
        <5>1. \A i \in Queued(p) : i \in Int /\ i - 1 \in Int /\ i - 1 > 0 /\ i - 1 + 1 = i
          BY <3>3, <2>5, <2>6, <2>7
        <5>2. \A i \in Queued(p) : i - 1 \in Queued(p)'
          BY <5>1, <2>4
        <5>3. \A i \in Queued(p)' : i + 1 \in Queued(p)
          BY <2>4, <2>5
        <5> QED
          BY <5>2, <5>3
      <4>2. settlement'[p] = settlement[p]
        BY <3>3, <2>3 DEF SocketsTypeOK
      <4> QED
        BY <3>1, <4>1, <4>2, <2>3 DEF OnceOK
    <3> QED
      BY <3>1, <3>2, <3>3
  <2> QED
    BY <2>8 DEF OnceOK
<1> QED
  BY <1>1, <1>2, <1>3, Effects DEF SomePost

\* Counting: an operation is done when it has one completion or one outcome.
LEMMA OnceCounts == SocketsTypeOK /\ OnceOK => SettledOnce
<1>1. SUFFICES ASSUME OnceOK, NEW o \in SocketOps
               PROVE  Cardinality(Queued(o)) + (IF settlement[o] = "none" THEN 0 ELSE 1)
                        = (IF o \in done THEN 1 ELSE 0)
  BY DEF SettledOnce
<1>2. CASE Queued(o) = {}
  BY <1>1, <1>2, FS_EmptySet DEF OnceOK
<1>3. CASE Queued(o) # {}
  <2>1. PICK i \in Queued(o) : Queued(o) = {i}
    BY <1>1, <1>3 DEF OnceOK
  <2>2. Cardinality(Queued(o)) = 1
    BY <2>1, FS_Singleton
  <2> QED
    BY <1>1, <1>3, <2>2 DEF OnceOK
<1> QED
  BY <1>2, <1>3

-----------------------------------------------------------------------------
(* What the script is told. *)

\* A promise is told one thing only, and only when its operation is done.
LEMMA ToldOnce ==
  ASSUME OnceOK, NEW o \in SocketOps, NEW v \in Outcomes, Told(o, v)
  PROVE  o \in done /\ \A w \in Outcomes : Told(o, w) => v = w
<1>1. v # "none" /\ \A w \in Outcomes : w # "none"
  BY DEF Outcomes
<1>2. \A w : (\E i \in DOMAIN completions : completions[i] = <<o, w>>)
               => \E i \in Queued(o) : completions[i] = <<o, w>>
  BY DEF Queued
<1> QED
  BY <1>1, <1>2 DEF OnceOK, Told

\* A step tells an operation something only by posting its completion.
LEMMA ToldStep ==
  ASSUME SocketsTypeOK, OnceOK, [SocketsNext]_socketVars, NEW o \in SocketOps, NEW how \in Outcomes
  PROVE  Told(o, how)' <=> Told(o, how) \/ Posts(o, how)
<1>1. CASE Quiet
  <2>1. ~Posts(o, how)
    BY <1>1 DEF Quiet, Posts
  <2> QED
    BY <1>1, <2>1 DEF Quiet, Told
<1>2. ASSUME NEW p \in SocketOps, NEW w \in Outcomes, Posts(p, w)
      PROVE  Told(o, how)' <=> Told(o, how) \/ Posts(o, how)
  <2>1. completions \in Seq(SocketOps \X Outcomes) /\ <<p, w>> \in SocketOps \X Outcomes
    BY DEF SocketsTypeOK
  <2>2. /\ DOMAIN completions' = DOMAIN completions \cup {Len(completions) + 1}
        /\ \A i \in DOMAIN completions : completions'[i] = completions[i]
        /\ completions'[Len(completions) + 1] = <<p, w>>
    BY <1>2, <2>1 DEF Posts
  <2>3. Posts(o, how) <=> o = p /\ how = w
    BY <1>2, <2>2 DEF Posts
  <2>4. settlement' = settlement
    BY <1>2 DEF Posts
  <2>5. (\E i \in DOMAIN completions' : completions'[i] = <<o, how>>)
          <=> \/ o = p /\ how = w
              \/ \E i \in DOMAIN completions : completions[i] = <<o, how>>
    <3>1. <<p, w>> = <<o, how>> <=> o = p /\ how = w
      OBVIOUS
    <3> QED
      BY <2>2, <3>1, Zenon
  <2> QED
    BY <2>3, <2>4, <2>5 DEF Told
<1>3. CASE Settle
  <2>1. PICK n \in Nat :
          /\ DOMAIN completions = 1 .. n + 1
          /\ DOMAIN completions' = 1 .. n
          /\ \A i \in 1 .. n : completions'[i] = completions[i + 1]
          /\ Head(completions) = completions[1]
    BY <1>3, SettleShifts
  <2>2. PICK p \in SocketOps, w \in Outcomes :
          completions[1] = <<p, w>> /\ settlement' = [settlement EXCEPT ![p] = w]
    BY <1>3, SettleFirst
  <2>3. settlement' = [settlement EXCEPT ![p] = w] /\ done' = done
    BY <1>3, <2>2 DEF Settle
  <2>4. 1 \in Queued(p) /\ p \in done
    BY <2>1, <2>2 DEF OnceOK, Queued
  <2>5. ~Posts(o, how)
    BY <2>3 DEF Posts
  <2>6. (\E i \in DOMAIN completions' : completions'[i] = <<o, how>>)
          <=> \E i \in 2 .. n + 1 : completions[i] = <<o, how>>
    <3>1. \A i \in 2 .. n + 1 : i - 1 \in 1 .. n /\ completions'[i - 1] = completions[i]
      BY <2>1
    <3>2. \A i \in 1 .. n : i + 1 \in 2 .. n + 1 /\ completions'[i] = completions[i + 1]
      BY <2>1
    <3>3. ASSUME NEW i \in 1 .. n, completions'[i] = <<o, how>>
          PROVE  \E k \in 2 .. n + 1 : completions[k] = <<o, how>>
      <4>1. i + 1 \in 2 .. n + 1 /\ completions[i + 1] = <<o, how>>
        BY <3>2, <3>3
      <4> QED
        BY <4>1, Zenon
    <3>4. ASSUME NEW i \in 2 .. n + 1, completions[i] = <<o, how>>
          PROVE  \E k \in 1 .. n : completions'[k] = <<o, how>>
      <4>1. i - 1 \in 1 .. n /\ completions'[i - 1] = <<o, how>>
        BY <3>1, <3>4
      <4> QED
        BY <4>1, Zenon
    <3> QED
      BY <2>1, <3>3, <3>4, Zenon
  <2>7. 1 .. n + 1 = {1} \cup 2 .. n + 1 /\ 1 \notin 2 .. n + 1
    OBVIOUS
  <2>8. CASE o = p
    <3>a. settlement'[o] = w
      BY <2>3, <2>8 DEF SocketsTypeOK
    <3>b. 1 \in DOMAIN completions
      BY <2>1
    <3>1. settlement'[o] = w /\ Told(o, w)
      BY <2>2, <2>8, <3>a, <3>b, Zenon DEF Told
    <3>2. Told(o, how) => how = w
      BY <3>1, <2>2, ToldOnce
    <3>3. \A i \in 2 .. n + 1 : completions[i] # <<o, how>>
      BY <2>1, <2>4, <2>7, <2>8 DEF OnceOK, Queued
    <3> QED
      BY <2>5, <2>6, <3>1, <3>2, <3>3 DEF Told
  <2>9. CASE o # p
    <3>1. settlement'[o] = settlement[o] /\ completions[1] # <<o, how>>
      BY <2>2, <2>3, <2>9 DEF SocketsTypeOK
    <3> QED
      BY <2>1, <2>5, <2>6, <2>7, <3>1 DEF Told
  <2> QED
    BY <2>8, <2>9
<1> QED
  BY <1>1, <1>2, <1>3, Effects DEF SomePost

LEMMA ToldStays ==
  ASSUME SocketsTypeOK, OnceOK, [SocketsNext]_socketVars, NEW o \in SocketOps, NEW how \in Outcomes,
         Told(o, how)
  PROVE  Told(o, how)'
  BY ToldStep

-----------------------------------------------------------------------------
(* What a step does to the functions posted to the worker. *)

PostsTask(task) == task \in Tasks /\ tasks' = Append(tasks, task)
RunsTask == tasks # <<>> /\ tasks' = Tail(tasks)

LEMMA TaskEffects ==
  ASSUME [SocketsNext]_socketVars
  PROVE  \/ UNCHANGED tasks \/ RunsTask \/ \E task \in Tasks : PostsTask(task)
<1>1. ASSUME NEW o \in SocketOps, Call(o)
      PROVE  PostsTask(<<Start, o>>)
  BY <1>1 DEF Call, PostsTask, Tasks
<1>2. ASSUME NEW h \in Handles, CloseHandle(h)
      PROVE  PostsTask(<<Close, h>>)
  BY <1>2 DEF CloseHandle, PostsTask, Tasks
<1>3. ASSUME NEW o \in SocketOps, RunStart(o)
      PROVE  RunsTask
  BY <1>3 DEF RunStart, RunsTask
<1>4. ASSUME NEW h \in Handles, RunClose(h)
      PROVE  RunsTask
  BY <1>4 DEF RunClose, RunsTask
<1>5. ASSUME NEW o \in SocketOps,
             Answer(o) \/ DeadlinePasses(o) \/ HandleIo(o) \/ HandleTimer(o)
      PROVE  UNCHANGED tasks
  BY <1>5 DEF Answer, DeadlinePasses, HandleIo, HandleTimer
<1>6. ASSUME NEW c \in Connects, Resolved(c) \/ HandleResolved(c)
      PROVE  UNCHANGED tasks
  BY <1>6 DEF Resolved, HandleResolved
<1>7. CASE Settle \/ UNCHANGED socketVars
  BY <1>7 DEF Settle, socketVars
<1>8. (\E o \in SocketOps : Call(o)) \/ (\E h \in Handles : CloseHandle(h))
        => \E task \in Tasks : PostsTask(task)
  BY <1>1, <1>2 DEF PostsTask
<1> QED
  BY <1>3, <1>4, <1>5, <1>6, <1>7, <1>8 DEF SocketsNext, Worker

\* A function that is posted comes last.
LEMMA PostedLast ==
  ASSUME SocketsTypeOK, NEW task, PostsTask(task)
  PROVE  \E n \in Nat : /\ DOMAIN tasks = 1 .. n /\ DOMAIN tasks' = 1 .. n + 1
                        /\ \A i \in 1 .. n : tasks'[i] = tasks[i]
                        /\ tasks'[n + 1] = task
                        /\ tasks' \in Seq(Tasks)
<1>1. tasks \in Seq(Tasks) /\ task \in Tasks /\ Len(tasks) \in Nat
  BY DEF SocketsTypeOK, PostsTask
<1>2. /\ DOMAIN tasks = 1 .. Len(tasks) /\ DOMAIN tasks' = 1 .. Len(tasks) + 1
      /\ \A i \in 1 .. Len(tasks) : tasks'[i] = tasks[i]
      /\ tasks'[Len(tasks) + 1] = task
      /\ tasks' \in Seq(Tasks)
  BY <1>1 DEF PostsTask
<1> QED
  BY <1>1, <1>2

\* The worker runs the first function, and the others move up by one.
LEMMA RunsFirst ==
  ASSUME SocketsTypeOK, RunsTask
  PROVE  \E n \in Nat : /\ DOMAIN tasks = 1 .. n + 1 /\ DOMAIN tasks' = 1 .. n
                        /\ \A i \in 1 .. n : tasks'[i] = tasks[i + 1]
                        /\ Head(tasks) = tasks[1]
                        /\ tasks' \in Seq(Tasks)
<1>1. tasks \in Seq(Tasks) /\ tasks # <<>>
  BY DEF SocketsTypeOK, RunsTask
<1>2. /\ DOMAIN tasks = 1 .. Len(tasks) /\ Len(tasks) \in Nat \ {0}
      /\ DOMAIN tasks' = 1 .. (Len(tasks) - 1)
      /\ \A i \in 1 .. (Len(tasks) - 1) : tasks'[i] = tasks[i + 1]
      /\ Head(tasks) = tasks[1]
      /\ tasks' \in Seq(Tasks)
  BY <1>1 DEF RunsTask
<1>3. Len(tasks) - 1 \in Nat /\ (Len(tasks) - 1) + 1 = Len(tasks)
  BY <1>2
<1> QED
  BY <1>2, <1>3

LEMMA TasksTyped ==
  ASSUME SocketsTypeOK, [SocketsNext]_socketVars
  PROVE  tasks' \in Seq(Tasks)
<1>1. CASE UNCHANGED tasks
  BY <1>1 DEF SocketsTypeOK
<1>2. CASE RunsTask
  BY <1>2, RunsFirst
<1>3. CASE \E task \in Tasks : PostsTask(task)
  BY <1>3, PostedLast
<1> QED
  BY <1>1, <1>2, <1>3, TaskEffects

LEMMA PromisesTyped ==
  ASSUME SocketsTypeOK, [SocketsNext]_socketVars
  PROVE  /\ done' \subseteq SocketOps
         /\ completions' \in Seq(SocketOps \X Outcomes)
         /\ settlement' \in [SocketOps -> Outcomes \cup {"none"}]
<1> USE DEF SocketsTypeOK
<1>1. CASE Quiet
  BY <1>1 DEF Quiet
<1>2. CASE SomePost
  <2>1. PICK o \in SocketOps, how \in Outcomes : Posts(o, how)
    BY <1>2 DEF SomePost
  <2>2. completions \in Seq(SocketOps \X Outcomes) /\ <<o, how>> \in SocketOps \X Outcomes
    OBVIOUS
  <2>3. completions' \in Seq(SocketOps \X Outcomes)
    BY <2>1, <2>2 DEF Posts
  <2> QED
    BY <2>1, <2>3 DEF Posts
<1>3. CASE Settle
  <2>1. PICK o \in SocketOps, how \in Outcomes : settlement' = [settlement EXCEPT ![o] = how]
    BY <1>3, SettleFirst
  <2>2. completions \in Seq(SocketOps \X Outcomes) /\ completions # <<>>
    BY <1>3 DEF Settle
  <2>3. completions' \in Seq(SocketOps \X Outcomes)
    BY <1>3, <2>2 DEF Settle
  <2>4. done' = done
    BY <1>3 DEF Settle
  <2> QED
    BY <2>1, <2>3, <2>4
<1> QED
  BY <1>1, <1>2, <1>3, Effects

-----------------------------------------------------------------------------
(* The steps, one group of the invariant at a time. *)

\* The variables that TasksTyped and PromisesTyped leave.
RestTyped ==
  /\ closed \subseteq Handles /\ sockets \subseteq Handles
  /\ busy \in [Handles -> SUBSET {"reading", "writing"}]
  /\ io \in [SocketOps -> {"new", "posted", "resolving", "resolved", "pending",
                     "ready", "handled"}]
  /\ result \in [SocketOps -> {"none", "ok", "aborted", "error"}]
  /\ deadline \subseteq SocketOps
  /\ timer \in [SocketOps -> {"off", "armed", "ready"}]
  /\ \A o \in SocketOps : timer[o] # "off" => o \in deadline
  /\ arrived \in [Handles -> Nat] /\ taken \in [Reads -> Nat]
  /\ got \in [Handles -> Seq(Nat)]

LEMMA SettleTyped ==
  ASSUME SocketsTypeOK, Settle
  PROVE  /\ busy' \in [Handles -> SUBSET {"reading", "writing"}]
         /\ got' \in [Handles -> Seq(Nat)]
<1>1. PICK o \in SocketOps, how \in Outcomes :
        /\ busy' = [busy EXCEPT ![On[o]] = @ \ Flags(o)]
        /\ got' = IF o \in Reads /\ how = "ok"
                  THEN [got EXCEPT ![On[o]] = Append(@, taken[o])] ELSE got
  BY SettleFirst
<1>2. CASE o \in Reads
  <2>1. got[On[o]] \in Seq(Nat) /\ taken[o] \in Nat
    BY <1>2, AsioSocketsAssumption DEF SocketsTypeOK
  <2>2. Append(got[On[o]], taken[o]) \in Seq(Nat)
    BY <2>1
  <2> QED
    BY <1>1, <1>2, <2>2 DEF SocketsTypeOK
<1>3. CASE o \notin Reads
  BY <1>1, <1>3 DEF SocketsTypeOK
<1> QED
  BY <1>2, <1>3

LEMMA ClaimTyped ==
  ASSUME SocketsTypeOK, NEW o \in SocketOps, NEW how, Claim(o, how)
  PROVE  /\ timer' \in [SocketOps -> {"off", "armed", "ready"}]
         /\ \A p \in SocketOps : timer'[p] # "off" => p \in deadline
<1>1. CASE timer[o] = "armed"
  BY <1>1 DEF Claim, SocketsTypeOK
<1>2. CASE timer[o] # "armed"
  BY <1>2 DEF Claim, SocketsTypeOK
<1> QED
  BY <1>1, <1>2

LEMMA RestStep ==
  ASSUME SocketsTypeOK, [SocketsNext]_socketVars
  PROVE  RestTyped'
<1> RestTyped
  BY DEF SocketsTypeOK, RestTyped
<1> USE AsioSocketsAssumption DEF RestTyped, SocketOps
<1>1. ASSUME NEW o \in SocketOps, Call(o)
      PROVE  RestTyped'
  BY <1>1 DEF Call, Flags, claimVars
<1>2. ASSUME NEW o \in SocketOps, Answer(o)
      PROVE  RestTyped'
  <2>1. arrived' \in [Handles -> Nat] /\ taken' \in [Reads -> Nat]
    <3>1. CASE UNCHANGED <<arrived, taken>>
      BY <3>1
    <3>2. CASE /\ arrived' = [arrived EXCEPT ![On[o]] = arrived[On[o]] + 1]
               /\ taken' = [taken EXCEPT ![o] = arrived[On[o]] + 1]
      <4>1. arrived[On[o]] + 1 \in Nat
        OBVIOUS
      <4> QED
        BY <3>2, <4>1
    <3>3. \/ UNCHANGED <<arrived, taken>>
          \/ /\ arrived' = [arrived EXCEPT ![On[o]] = arrived[On[o]] + 1]
             /\ taken' = [taken EXCEPT ![o] = arrived[On[o]] + 1]
      BY <1>2, Zenon DEF Answer
    <3> QED
      BY <3>1, <3>2, <3>3
  <2>2. result' \in [SocketOps -> {"none", "ok", "aborted", "error"}]
    BY <1>2 DEF Answer
  <2> QED
    BY <1>2, <2>1, <2>2 DEF Answer, scriptVars, claimVars
<1>3. ASSUME NEW o \in SocketOps, DeadlinePasses(o)
      PROVE  RestTyped'
  BY <1>3 DEF DeadlinePasses, scriptVars, ioVars
<1>4. ASSUME NEW h \in Handles, CloseHandle(h)
      PROVE  RestTyped'
  BY <1>4 DEF CloseHandle, ioVars, claimVars
<1>5. ASSUME NEW c \in Connects, Resolved(c)
      PROVE  RestTyped'
  BY <1>5 DEF Resolved, scriptVars, claimVars
<1>6. ASSUME Settle
      PROVE  RestTyped'
  BY <1>6, SettleTyped DEF Settle, ioVars
<1>7. ASSUME NEW o \in SocketOps, RunStart(o)
      PROVE  RestTyped'
  BY <1>7 DEF RunStart, scriptVars
<1>8. ASSUME NEW o \in SocketOps, HandleIo(o)
      PROVE  RestTyped'
  <2>1. CASE UNCHANGED claimVars
    BY <1>8, <2>1 DEF HandleIo, scriptVars, claimVars
  <2>2. CASE Claim(o, Verdict(o))
    BY <1>8, <2>2, ClaimTyped DEF HandleIo, scriptVars
  <2> QED
    BY <1>8, <2>1, <2>2 DEF HandleIo
<1>9. ASSUME NEW o \in SocketOps, HandleTimer(o)
      PROVE  RestTyped'
  <2>1. timer' = [timer EXCEPT ![o] = "off"] /\ UNCHANGED <<scriptVars, tasks, deadline>>
    BY <1>9 DEF HandleTimer
  <2>2. CASE UNCHANGED <<ioVars, sockets>>
    BY <2>1, <2>2 DEF ioVars, scriptVars
  <2>3. CASE GiveUp(o)
    <3>1. /\ sockets' \subseteq Handles /\ UNCHANGED <<arrived, taken>>
          /\ io' \in [SocketOps -> {"new", "posted", "resolving", "resolved", "pending",
                              "ready", "handled"}]
          /\ result' \in [SocketOps -> {"none", "ok", "aborted", "error"}]
      <4>1. CASE /\ io' = [io EXCEPT ![o] = "resolved"]
                 /\ sockets' = sockets \ {On[o]}
                 /\ UNCHANGED <<result, arrived, taken>>
        BY <4>1
      <4>2. CASE Cancel(On[o], {}, {}) /\ sockets' = sockets \ {On[o]}
        BY <4>2 DEF Cancel
      <4>3. ASSUME NEW W \in SUBSET Writes, Cancel(On[o], W, {}), UNCHANGED sockets
            PROVE  /\ sockets' \subseteq Handles /\ UNCHANGED <<arrived, taken>>
                   /\ io' \in [SocketOps -> {"new", "posted", "resolving", "resolved",
                                       "pending", "ready", "handled"}]
                   /\ result' \in [SocketOps -> {"none", "ok", "aborted", "error"}]
        BY <4>3 DEF Cancel
      <4> QED
        BY <2>3, <4>1, <4>2, <4>3, Zenon DEF GiveUp
    <3> QED
      BY <2>1, <3>1 DEF scriptVars
  <2> QED
    BY <1>9, <2>2, <2>3 DEF HandleTimer
<1>10. ASSUME NEW h \in Handles, RunClose(h)
      PROVE  RestTyped'
  BY <1>10 DEF RunClose, Cancel, scriptVars, claimVars
<1>11. ASSUME NEW c \in Connects, HandleResolved(c)
      PROVE  RestTyped'
  <2>1. CASE UNCHANGED claimVars
    BY <1>11, <2>1 DEF HandleResolved, scriptVars, claimVars
  <2>2. CASE \E how : Claim(c, how)
    BY <1>11, <2>2, ClaimTyped DEF HandleResolved, scriptVars
  <2> QED
    BY <1>11, <2>1, <2>2 DEF HandleResolved
<1>12. CASE UNCHANGED socketVars
  BY <1>12 DEF socketVars, scriptVars, ioVars, claimVars
<1> QED
  BY <1>1, <1>2, <1>3, <1>4, <1>5, <1>6, <1>7, <1>8, <1>9, <1>10, <1>11, <1>12
     DEF SocketsNext, Worker

\* Every step keeps the types.
LEMMA TypeStep ==
  ASSUME SocketsTypeOK, [SocketsNext]_socketVars
  PROVE  SocketsTypeOK'
  BY TasksTyped, PromisesTyped, RestStep DEF SocketsTypeOK, RestTyped

\* An operation is posted when it leaves "new", and begins when its task is run.
LEMMA TaskStep ==
  ASSUME SocketsTypeOK, TaskOK, [SocketsNext]_socketVars
  PROVE  TaskOK'
<1> USE DEF Start, Close
<1>1. ASSUME NEW o \in SocketOps, Call(o)
      PROVE  TaskOK'
  <2>1. PostsTask(<<Start, o>>)
    BY <1>1 DEF Call, PostsTask, Tasks
  <2>2. PICK n \in Nat : /\ DOMAIN tasks = 1 .. n /\ DOMAIN tasks' = 1 .. n + 1
                         /\ \A i \in 1 .. n : tasks'[i] = tasks[i]
                         /\ tasks'[n + 1] = <<Start, o>>
    BY <2>1, PostedLast
  <2>3. io[o] = "new" /\ io' = [io EXCEPT ![o] = "posted"] /\ closed' = closed
    BY <1>1 DEF Call
  <2>4. \A i \in 1 .. n + 1 : i = n + 1 \/ i \in 1 .. n
    OBVIOUS
  <2>5. \A i \in 1 .. n : tasks[i] # <<Start, o>>
    BY <2>2, <2>3 DEF TaskOK
  <2>6. io'[o] = "posted" /\ \A p \in SocketOps : io[p] = "posted" => io'[p] = "posted"
    BY <2>3 DEF SocketsTypeOK
  <2>7. \A p \in SocketOps : <<Start, o>> = <<Start, p>> => o = p
    OBVIOUS
  <2>8. \A h \in Handles : <<Start, o>> # <<Close, h>>
    OBVIOUS
  <2> QED
    BY <2>2, <2>3, <2>4, <2>5, <2>6, <2>7, <2>8 DEF TaskOK
<1>2. ASSUME NEW h \in Handles, CloseHandle(h)
      PROVE  TaskOK'
  <2>1. PostsTask(<<Close, h>>)
    BY <1>2 DEF CloseHandle, PostsTask, Tasks
  <2>2. PICK n \in Nat : /\ DOMAIN tasks = 1 .. n /\ DOMAIN tasks' = 1 .. n + 1
                         /\ \A i \in 1 .. n : tasks'[i] = tasks[i]
                         /\ tasks'[n + 1] = <<Close, h>>
    BY <2>1, PostedLast
  <2>3. io' = io /\ closed' = closed \cup {h}
    BY <1>2 DEF CloseHandle, ioVars
  <2>4. \A i \in 1 .. n + 1 : i = n + 1 \/ i \in 1 .. n
    OBVIOUS
  <2>5. \A p \in SocketOps : <<Close, h>> # <<Start, p>>
    OBVIOUS
  <2>6. \A g \in Handles : <<Close, h>> = <<Close, g>> => h = g
    OBVIOUS
  <2> QED
    BY <2>2, <2>3, <2>4, <2>5, <2>6 DEF TaskOK
<1>3. ASSUME RunsTask, closed' = closed,
             \A p \in SocketOps : io[p] = "posted" /\ Head(tasks) # <<Start, p>>
                              => io'[p] = "posted"
      PROVE  TaskOK'
  <2>1. PICK n \in Nat : /\ DOMAIN tasks = 1 .. n + 1 /\ DOMAIN tasks' = 1 .. n
                         /\ \A i \in 1 .. n : tasks'[i] = tasks[i + 1]
                         /\ Head(tasks) = tasks[1]
    BY <1>3, RunsFirst
  <2>2. /\ 1 \in DOMAIN tasks
        /\ \A i \in 1 .. n : i + 1 \in DOMAIN tasks /\ i + 1 # 1
        /\ \A i, j \in 1 .. n : i + 1 = j + 1 => i = j
    BY <2>1
  <2>3. \A i \in 1 .. n, p \in SocketOps : tasks'[i] = <<Start, p>> => io'[p] = "posted"
    BY <1>3, <2>1, <2>2 DEF TaskOK
  <2>4. \A i, j \in 1 .. n, p \in SocketOps :
          tasks'[i] = <<Start, p>> /\ tasks'[j] = <<Start, p>> => i = j
    <3>1. SUFFICES ASSUME NEW i \in 1 .. n, NEW j \in 1 .. n, NEW p \in SocketOps,
                          tasks'[i] = <<Start, p>>, tasks'[j] = <<Start, p>>
                   PROVE  i = j
      OBVIOUS
    <3>2. /\ i + 1 \in DOMAIN tasks /\ j + 1 \in DOMAIN tasks
          /\ tasks[i + 1] = tasks'[i] /\ tasks[j + 1] = tasks'[j]
      BY <2>1, <2>2
    <3>3. i + 1 = j + 1
      BY <3>1, <3>2, Zenon DEF TaskOK
    <3> QED
      BY <2>2, <3>3
  <2>5. \A i \in 1 .. n, h \in Handles : tasks'[i] = <<Close, h>> => h \in closed'
    BY <1>3, <2>1, <2>2 DEF TaskOK
  <2>6. DOMAIN tasks' = 1 .. n
    BY <2>1
  <2> QED
    BY <2>3, <2>4, <2>5, <2>6, Zenon DEF TaskOK
<1>4. ASSUME NEW o \in SocketOps, RunStart(o)
      PROVE  TaskOK'
  <2>1. RunsTask /\ closed' = closed /\ Head(tasks) = <<Start, o>>
    BY <1>4 DEF RunStart, RunsTask, scriptVars
  <2>2. \A p \in SocketOps : p # o => io'[p] = io[p]
    BY <1>4 DEF RunStart, SocketsTypeOK
  <2> QED
    BY <2>1, <2>2, <1>3
<1>5. ASSUME NEW h \in Handles, RunClose(h)
      PROVE  TaskOK'
  <2>1. RunsTask /\ closed' = closed
    BY <1>5 DEF RunClose, RunsTask, scriptVars
  <2>2. \A p \in SocketOps : io[p] = "posted" => io'[p] = "posted"
    BY <1>5 DEF RunClose, Cancel
  <2> QED
    BY <2>1, <2>2, <1>3
<1>6. ASSUME UNCHANGED <<tasks, closed>>,
             \A p \in SocketOps : io[p] = "posted" => io'[p] = "posted"
      PROVE  TaskOK'
  BY <1>6 DEF TaskOK
<1>7. ASSUME NEW o \in SocketOps,
             Answer(o) \/ DeadlinePasses(o) \/ HandleIo(o)
      PROVE  TaskOK'
  <2>1. UNCHANGED <<tasks, closed>>
    BY <1>7 DEF Answer, DeadlinePasses, HandleIo, scriptVars
  <2>2. \A p \in SocketOps : io[p] = "posted" => io'[p] = "posted"
    BY <1>7 DEF Answer, DeadlinePasses, HandleIo, ioVars, SocketsTypeOK
  <2> QED
    BY <2>1, <2>2, <1>6
<1>8. ASSUME NEW o \in SocketOps, HandleTimer(o)
      PROVE  TaskOK'
  <2>1. UNCHANGED <<tasks, closed>>
    BY <1>8 DEF HandleTimer, scriptVars
  <2>2. \A p \in SocketOps : io[p] = "posted" => io'[p] = "posted"
    BY <1>8 DEF HandleTimer, GiveUp, Cancel, ioVars, SocketsTypeOK
  <2> QED
    BY <2>1, <2>2, <1>6
<1>9. ASSUME NEW c \in Connects, Resolved(c) \/ HandleResolved(c)
      PROVE  TaskOK'
  <2>1. UNCHANGED <<tasks, closed>>
    BY <1>9 DEF Resolved, HandleResolved, scriptVars
  <2>2. \A p \in SocketOps : io[p] = "posted" => io'[p] = "posted"
    BY <1>9 DEF Resolved, HandleResolved, SocketsTypeOK
  <2> QED
    BY <2>1, <2>2, <1>6
<1>10. CASE Settle \/ UNCHANGED socketVars
  BY <1>10, <1>6 DEF Settle, socketVars, scriptVars, ioVars
<1> QED
  BY <1>1, <1>2, <1>4, <1>5, <1>7, <1>8, <1>9, <1>10 DEF SocketsNext, Worker

\* A timer is armed, and an operation handled, only after its task was run.
LEMMA BegunStep ==
  ASSUME SocketsTypeOK, BegunOK, [SocketsNext]_socketVars
  PROVE  BegunOK'
<1> USE DEF SocketsTypeOK, BegunOK
<1>1. ASSUME NEW o \in SocketOps, Call(o)
      PROVE  BegunOK'
  BY <1>1 DEF Call, claimVars
<1>2. ASSUME NEW o \in SocketOps, Answer(o)
      PROVE  BegunOK'
  BY <1>2 DEF Answer, claimVars
<1>3. ASSUME NEW o \in SocketOps, DeadlinePasses(o)
      PROVE  BegunOK'
  BY <1>3 DEF DeadlinePasses, ioVars
<1>4. ASSUME NEW h \in Handles, CloseHandle(h)
      PROVE  BegunOK'
  BY <1>4 DEF CloseHandle, ioVars, claimVars
<1>5. ASSUME NEW c \in Connects, Resolved(c)
      PROVE  BegunOK'
  BY <1>5 DEF Resolved, claimVars
<1>6. ASSUME Settle
      PROVE  BegunOK'
  BY <1>6 DEF Settle, ioVars
<1>7. ASSUME NEW o \in SocketOps, RunStart(o)
      PROVE  BegunOK'
  <2>1. io' = [io EXCEPT ![o] = IF o \in Connects THEN "resolving" ELSE "pending"]
    BY <1>7 DEF RunStart
  <2>2. /\ io'[o] \notin {"new", "posted", "resolved"}
        /\ io'[o] = "resolving" => o \in Connects
        /\ io'[o] # "ready" /\ result' = result
        /\ \A p \in SocketOps \ {o} : io'[p] = io[p]
    BY <1>7, <2>1 DEF RunStart
  <2>3. done' = done /\ \A p \in SocketOps \ {o} : timer'[p] = timer[p]
    BY <1>7 DEF RunStart
  <2> QED
    BY <2>2, <2>3
<1>8. ASSUME NEW o \in SocketOps, HandleIo(o)
      PROVE  BegunOK'
  BY <1>8 DEF HandleIo, Decided, Claim, claimVars
<1>9. ASSUME NEW o \in SocketOps, HandleTimer(o)
      PROVE  BegunOK'
  BY <1>9 DEF HandleTimer, GiveUp, Cancel, ioVars
<1>10. ASSUME NEW h \in Handles, RunClose(h)
      PROVE  BegunOK'
  BY <1>10 DEF RunClose, Cancel, claimVars
<1>11. ASSUME NEW c \in Connects, HandleResolved(c)
      PROVE  BegunOK'
  BY <1>11 DEF HandleResolved, Claim, claimVars
<1>12. CASE UNCHANGED socketVars
  BY <1>12 DEF socketVars, scriptVars, ioVars, claimVars
<1> QED
  BY <1>1, <1>2, <1>3, <1>4, <1>5, <1>6, <1>7, <1>8, <1>9, <1>10, <1>11, <1>12
     DEF SocketsNext, Worker

\* What the worker runs was posted.
LEMMA StartsPosted ==
  ASSUME SocketsTypeOK, TaskOK, NEW o \in SocketOps, RunStart(o)
  PROVE  io[o] = "posted"
<1>1. RunsTask /\ Head(tasks) = <<Start, o>>
  BY DEF RunStart, RunsTask
<1>2. 1 \in DOMAIN tasks /\ tasks[1] = <<Start, o>>
  BY <1>1, RunsFirst
<1> QED
  BY <1>2 DEF TaskOK

LEMMA ClosesClosed ==
  ASSUME SocketsTypeOK, TaskOK, NEW h \in Handles, RunClose(h)
  PROVE  h \in closed
<1>1. RunsTask /\ Head(tasks) = <<Close, h>>
  BY DEF RunClose, RunsTask
<1>2. 1 \in DOMAIN tasks /\ tasks[1] = <<Close, h>>
  BY <1>1, RunsFirst
<1> QED
  BY <1>2 DEF TaskOK

\* What a step may not undo.
Kept ==
  /\ closed \subseteq closed' /\ deadline \subseteq deadline'
  /\ \A o \in SocketOps : io[o] = "handled" => io'[o] = "handled"

LEMMA Monotone ==
  ASSUME SocketsTypeOK, TaskOK, [SocketsNext]_socketVars
  PROVE  Kept
<1> USE DEF Kept, SocketsTypeOK, scriptVars, ioVars
<1>1. ASSUME NEW o \in SocketOps,
             Call(o) \/ Answer(o) \/ DeadlinePasses(o) \/ HandleIo(o)
      PROVE  Kept
  BY <1>1 DEF Call, Answer, DeadlinePasses, HandleIo
<1>2. ASSUME NEW o \in SocketOps, RunStart(o)
      PROVE  Kept
  <2>1. io[o] = "posted"
    BY <1>2, StartsPosted
  <2> QED
    BY <1>2, <2>1 DEF RunStart
<1>3. ASSUME NEW o \in SocketOps, HandleTimer(o)
      PROVE  Kept
  BY <1>3 DEF HandleTimer, GiveUp, Cancel
<1>4. ASSUME NEW c \in Connects, Resolved(c) \/ HandleResolved(c)
      PROVE  Kept
  BY <1>4 DEF Resolved, HandleResolved
<1>5. ASSUME NEW h \in Handles, CloseHandle(h) \/ RunClose(h)
      PROVE  Kept
  BY <1>5 DEF CloseHandle, RunClose, Cancel
<1>6. CASE Settle \/ UNCHANGED socketVars
  BY <1>6 DEF Settle, socketVars
<1> QED
  BY <1>1, <1>2, <1>3, <1>4, <1>5, <1>6 DEF SocketsNext, Worker

\* A step posts one completion.
LEMMA PostsOne ==
  ASSUME SocketsTypeOK, NEW o \in SocketOps, NEW v \in Outcomes, NEW p \in SocketOps,
         NEW w \in Outcomes,
         Posts(o, v), Posts(p, w)
  PROVE  o = p /\ v = w
<1>1. completions \in Seq(SocketOps \X Outcomes)
      /\ <<o, v>> \in SocketOps \X Outcomes /\ <<p, w>> \in SocketOps \X Outcomes
  BY DEF SocketsTypeOK
<1>2. completions'[Len(completions) + 1] = <<o, v>>
      /\ completions'[Len(completions) + 1] = <<p, w>>
  BY <1>1 DEF Posts
<1> QED
  BY <1>2

\* Who posts a completion: the handler of the operation, or that of its timer.
LEMMA WhoPosts ==
  ASSUME SocketsTypeOK, [SocketsNext]_socketVars, NEW o \in SocketOps, NEW how \in Outcomes,
         Posts(o, how)
  PROVE  \/ HandleIo(o) /\ how = Verdict(o)
         \/ HandleTimer(o) /\ how = "timeout"
         \/ o \in Connects /\ HandleResolved(o) /\ how \in {"denied", "failed"}
<1>1. o \notin done /\ o \in done'
  BY DEF Posts
<1>2. ASSUME NEW p \in SocketOps, HandleIo(p)
      PROVE  HandleIo(o) /\ how = Verdict(o)
  <2>1. p \notin done
    BY <1>1, <1>2 DEF HandleIo, Decided, claimVars
  <2>2. Posts(p, Verdict(p)) /\ Verdict(p) \in Outcomes
    BY <1>2, <2>1 DEF HandleIo, Decided, Claim, Posts, scriptVars, Verdict, Outcomes
  <2> QED
    BY <1>2, <2>2, PostsOne
<1>3. ASSUME NEW p \in SocketOps, HandleTimer(p)
      PROVE  HandleTimer(o) /\ how = "timeout"
  <2>1. p \notin done
    BY <1>1, <1>3 DEF HandleTimer
  <2>2. Posts(p, "timeout") /\ "timeout" \in Outcomes
    BY <1>3, <2>1 DEF HandleTimer, Posts, scriptVars, Outcomes
  <2> QED
    BY <1>3, <2>2, PostsOne
<1>4. ASSUME NEW c \in Connects, HandleResolved(c)
      PROVE  o \in Connects /\ HandleResolved(o) /\ how \in {"denied", "failed"}
  <2>1. PICK w \in {"denied", "failed"} : Posts(c, w)
    BY <1>1, <1>4 DEF HandleResolved, Claim, Posts, claimVars, scriptVars
  <2>2. w \in Outcomes /\ c \in SocketOps
    BY DEF Outcomes, SocketOps
  <2> QED
    BY <1>4, <2>1, <2>2, PostsOne
<1>5. ASSUME NEW p \in SocketOps,
             Call(p) \/ Answer(p) \/ DeadlinePasses(p) \/ RunStart(p)
      PROVE  FALSE
  BY <1>1, <1>5 DEF Call, Answer, DeadlinePasses, RunStart, claimVars
<1>6. ASSUME NEW h \in Handles, CloseHandle(h) \/ RunClose(h)
      PROVE  FALSE
  BY <1>1, <1>6 DEF CloseHandle, RunClose, claimVars
<1>7. ASSUME NEW c \in Connects, Resolved(c)
      PROVE  FALSE
  BY <1>1, <1>7 DEF Resolved, claimVars
<1>8. CASE Settle \/ UNCHANGED socketVars
  BY <1>1, <1>8 DEF Settle, socketVars, claimVars
<1> QED
  BY <1>2, <1>3, <1>4, <1>5, <1>6, <1>7, <1>8 DEF SocketsNext, Worker

\* Whoever is newly done has posted.
LEMMA DonePosts ==
  ASSUME SocketsTypeOK, [SocketsNext]_socketVars, NEW o \in SocketOps, o \in done', o \notin done
  PROVE  \E how \in Outcomes : Posts(o, how)
  BY Effects DEF Quiet, Settle, SomePost, Posts

\* A read is accepted only when the flag is clear, that is when no read of the
\* handle waits; its deadline takes it out of the hands of Asio.
LEMMA FlagStep ==
  ASSUME SocketsTypeOK, TaskOK, BegunOK, OnceOK, FlagOK, [SocketsNext]_socketVars
  PROVE  FlagOK'
<1>a. On \in [SocketOps -> Handles] /\ Reads \subseteq SocketOps /\ Reads \cap Writes = {}
      /\ Reads \cap Connects = {} /\ Connects \subseteq SocketOps
  BY AsioSocketsAssumption DEF SocketOps
<1>b. \A o \in Reads : Flags(o) = {"reading"}
  BY DEF Flags
<1>c. \A o \in SocketOps \ Reads : "reading" \notin Flags(o)
  BY DEF Flags
<1>d. \A o \in Reads : io[o] \notin {"resolving", "resolved"}
  BY <1>a DEF BegunOK
<1>1. ASSUME NEW o \in SocketOps, Call(o)
      PROVE  FlagOK'
  <2>1. /\ io[o] = "new" /\ io' = [io EXCEPT ![o] = "posted"] /\ UNCHANGED <<settlement, done>>
        /\ busy' = [busy EXCEPT ![On[o]] = @ \cup Flags(o)]
        /\ o \in Reads => Flags(o) \cap busy[On[o]] = {}
    BY <1>1, <1>a DEF Call, claimVars
  <2>2. o \notin done
    BY <2>1 DEF BegunOK
  <2>3. ASSUME NEW p \in Reads, Reading(p)'
        PROVE  "reading" \in busy'[On[p]] /\ (p = o \/ Reading(p))
    <3>1. p = o \/ Reading(p)
      BY <2>1, <2>3, <1>a DEF Reading, SocketsTypeOK
    <3>2. p = o => "reading" \in Flags(o)
      BY <2>3, <1>b
    <3>3. On[p] \in Handles /\ On[o] \in Handles
      BY <1>a
    <3>4. p # o => "reading" \in busy[On[p]]
      BY <3>1 DEF FlagOK
    <3> QED
      BY <2>1, <3>1, <3>2, <3>3, <3>4 DEF SocketsTypeOK
  <2>4. ASSUME NEW p \in Reads, Reading(p), o \in Reads, On[p] = On[o]
        PROVE  FALSE
    BY <2>1, <2>4, <1>b DEF FlagOK
  <2>5. ASSUME NEW p \in Reads, NEW q \in Reads, Reading(p)', Reading(q)', On[p] = On[q]
        PROVE  p = q
    BY <2>3, <2>4, <2>5 DEF FlagOK
  <2>6. \A p \in Reads : p \in done' => io'[p] \in {"ready", "handled"}
    BY <2>1, <2>2, <1>a DEF FlagOK, SocketsTypeOK
  <2> QED
    BY <2>3, <2>5, <2>6 DEF FlagOK
<1>2. ASSUME UNCHANGED <<busy, settlement>>,
             \A p \in Reads : io'[p] = "new" <=> io[p] = "new",
             \A p \in Reads : p \in done' => io'[p] \in {"ready", "handled"}
      PROVE  FlagOK'
  BY <1>2 DEF FlagOK, Reading
<1>3. ASSUME UNCHANGED <<scriptVars, done>>, NEW o \in SocketOps, o \notin Reads \/ o \notin done,
             io[o] # "new", io'[o] # "new", \A p \in SocketOps \ {o} : io'[p] = io[p]
      PROVE  FlagOK'
  <2>1. \A p \in Reads : io'[p] = "new" <=> io[p] = "new"
    BY <1>3, <1>a
  <2>2. \A p \in Reads : p \in done' => io'[p] \in {"ready", "handled"}
    BY <1>3, <1>a DEF FlagOK
  <2> QED
    BY <2>1, <2>2, <1>2, <1>3 DEF scriptVars
<1>4. ASSUME NEW o \in SocketOps, Answer(o)
      PROVE  FlagOK'
  <2>1. /\ io[o] = "pending" /\ io' = [io EXCEPT ![o] = "ready"]
        /\ UNCHANGED <<scriptVars, done>>
    BY <1>4 DEF Answer, claimVars
  <2>2. o \notin Reads \/ o \notin done
    BY <2>1 DEF FlagOK
  <2> QED
    BY <2>1, <2>2, <1>3 DEF SocketsTypeOK
<1>5. ASSUME NEW o \in SocketOps, RunStart(o)
      PROVE  FlagOK'
  <2>1. io[o] = "posted" /\ UNCHANGED <<scriptVars, done>>
    BY <1>5, StartsPosted DEF RunStart
  <2>2. io'[o] # "new" /\ \A p \in SocketOps \ {o} : io'[p] = io[p]
    BY <1>5 DEF RunStart, SocketsTypeOK
  <2>3. o \notin done
    BY <2>1 DEF BegunOK
  <2> QED
    BY <2>1, <2>2, <2>3, <1>3
<1>6. ASSUME NEW c \in Connects, Resolved(c) \/ HandleResolved(c)
      PROVE  FlagOK'
  <2>1. /\ \A p \in Reads : io'[p] = io[p]
        /\ UNCHANGED <<busy, settlement>>
    BY <1>6, <1>a DEF Resolved, HandleResolved, SocketsTypeOK, scriptVars
  <2>2. done' \subseteq done \cup {c}
    BY <1>6 DEF Resolved, HandleResolved, Claim, claimVars
  <2> QED
    BY <2>1, <2>2, <1>2, <1>a DEF FlagOK
<1>7. ASSUME NEW o \in SocketOps, HandleIo(o)
      PROVE  FlagOK'
  <2>1. /\ io[o] = "ready" /\ io' = [io EXCEPT ![o] = "handled"]
        /\ UNCHANGED <<busy, settlement>>
    BY <1>7 DEF HandleIo, scriptVars
  <2>2. done' \subseteq done \cup {o}
    BY <1>7 DEF HandleIo, Claim, claimVars
  <2>3. io'[o] = "handled" /\ \A p \in SocketOps \ {o} : io'[p] = io[p]
    BY <2>1 DEF SocketsTypeOK
  <2> QED
    BY <2>1, <2>2, <2>3, <1>2, <1>a DEF FlagOK
<1>8. ASSUME NEW o \in SocketOps, HandleTimer(o)
      PROVE  FlagOK'
  <2>1. timer[o] = "ready" /\ UNCHANGED scriptVars /\ io[o] \notin {"new", "posted"}
    BY <1>8 DEF HandleTimer, BegunOK
  <2>2. CASE o \in done
    BY <1>8, <2>1, <2>2, <1>2 DEF HandleTimer, ioVars, scriptVars, FlagOK
  <2>3. CASE o \notin done /\ o \in Connects
    <3>1. GiveUp(o) /\ done' = done \cup {o}
      BY <1>8, <2>3 DEF HandleTimer
    <3>2. \A p \in Reads : io'[p] = io[p] \/ (io[p] = "pending" /\ io'[p] = "ready")
      BY <3>1, <2>3, <1>a DEF GiveUp, Cancel, SocketsTypeOK
    <3> QED
      BY <2>1, <2>3, <3>1, <3>2, <1>2, <1>a DEF FlagOK, scriptVars
  <2>4. CASE o \notin done /\ o \notin Connects
    <3>1. PICK W \in SUBSET Writes : Cancel(On[o], W, {})
      BY <1>8, <2>4 DEF HandleTimer, GiveUp
    <3>2. \A p \in SocketOps : io'[p] = IF p \notin W /\ On[p] = On[o] /\ io[p] = "pending"
                                   THEN "ready" ELSE io[p]
      BY <3>1 DEF Cancel
    <3>3. done' = done \cup {o}
      BY <1>8, <2>4 DEF HandleTimer
    <3>4. o \in Reads => io[o] \in {"pending", "ready", "handled"} /\ o \notin W
      BY <2>1, <1>a, <1>d DEF SocketsTypeOK
    <3> QED
      BY <2>1, <3>2, <3>3, <3>4, <1>2, <1>a DEF FlagOK, scriptVars
  <2> QED
    BY <2>2, <2>3, <2>4
<1>9. ASSUME NEW h \in Handles, RunClose(h)
      PROVE  FlagOK'
  <2>1. PICK F \in SUBSET Writes : Cancel(h, {}, F)
    BY <1>9 DEF RunClose
  <2>2. \A p \in SocketOps : io'[p] = io[p] \/ (io[p] = "pending" /\ io'[p] = "ready")
    BY <2>1 DEF Cancel
  <2>3. UNCHANGED <<busy, settlement, done>>
    BY <1>9 DEF RunClose, scriptVars, claimVars
  <2> QED
    BY <2>2, <2>3, <1>2, <1>a DEF FlagOK
<1>10. CASE Settle
  <2>1. PICK o \in SocketOps, how \in Outcomes :
          /\ completions[1] = <<o, how>> /\ 1 \in DOMAIN completions
          /\ settlement' = [settlement EXCEPT ![o] = how]
          /\ busy' = [busy EXCEPT ![On[o]] = @ \ Flags(o)]
    BY <1>10, SettleFirst
  <2>2. UNCHANGED <<io, done>> /\ how # "none"
    BY <1>10 DEF Settle, ioVars, Outcomes
  <2>3. settlement[o] = "none" /\ o \in done /\ io[o] # "new"
    <3>1. Queued(o) # {}
      BY <2>1 DEF Queued
    <3> QED
      BY <3>1 DEF OnceOK, BegunOK
  <2>4. \A p \in Reads : Reading(p)' => Reading(p) /\ p # o
    BY <2>1, <2>2, <1>a DEF Reading, SocketsTypeOK
  <2>5. o \in Reads => Reading(o)
    BY <2>3 DEF Reading
  <2>6. ASSUME NEW p \in Reads, Reading(p)'
        PROVE  "reading" \in busy'[On[p]]
    <3>1. "reading" \in busy[On[p]] /\ (o \in Reads => On[p] # On[o])
      BY <2>4, <2>5, <2>6 DEF FlagOK
    <3>2. On[p] = On[o] => "reading" \notin Flags(o)
      BY <3>1, <1>c
    <3>3. On[p] \in Handles /\ On[o] \in Handles
      BY <1>a
    <3> QED
      BY <2>1, <3>1, <3>2, <3>3 DEF SocketsTypeOK
  <2> QED
    BY <2>2, <2>4, <2>6 DEF FlagOK
<1>11. ASSUME NEW o \in SocketOps, DeadlinePasses(o)
       PROVE  FlagOK'
  BY <1>11, <1>2 DEF DeadlinePasses, scriptVars, ioVars, FlagOK
<1>12. ASSUME NEW h \in Handles, CloseHandle(h)
       PROVE  FlagOK'
  BY <1>12, <1>2 DEF CloseHandle, ioVars, claimVars, FlagOK
<1>13. CASE UNCHANGED socketVars
  BY <1>13, <1>2 DEF socketVars, scriptVars, ioVars, claimVars, FlagOK
<1> QED
  BY <1>1, <1>4, <1>5, <1>6, <1>7, <1>8, <1>9, <1>10, <1>11, <1>12, <1>13
     DEF SocketsNext, Worker

\* A read that waits has no result yet, and is given one with its chunk.
LEMMA ChunkStep ==
  ASSUME SocketsTypeOK, TaskOK, ChunkOK, [SocketsNext]_socketVars
  PROVE  ChunkOK'
<1>a. /\ On \in [SocketOps -> Handles] /\ Reads \subseteq SocketOps
      /\ Reads \cap Connects = {} /\ Connects \subseteq SocketOps
  BY AsioSocketsAssumption DEF SocketOps
<1>b. \A o \in Reads : result[o] \in {"none", "ok", "aborted", "error"} /\ taken[o] \in Nat
                        /\ arrived[On[o]] \in Nat /\ io[o] \in {"new", "posted", "resolving",
                             "resolved", "pending", "ready", "handled"}
  BY <1>a DEF SocketsTypeOK
<1>1. ASSUME UNCHANGED <<arrived, taken>>,
             \A p \in Reads :
               \/ result'[p] = result[p]
               \/ io[p] \notin {"ready", "handled"} /\ result'[p] # "ok",
             \A p \in Reads : io[p] \in {"ready", "handled"}
                                => io'[p] \in {"ready", "handled"}
      PROVE  ChunkOK'
  BY <1>1, <1>b DEF ChunkOK
<1>2. ASSUME NEW o \in SocketOps, Answer(o)
      PROVE  ChunkOK'
  <2>1. io[o] = "pending" /\ io'[o] = "ready" /\ \A p \in SocketOps \ {o} : io'[p] = io[p]
    BY <1>2 DEF Answer, SocketsTypeOK
  <2>2. CASE /\ o \in Reads /\ result' = [result EXCEPT ![o] = "ok"]
             /\ arrived' = [arrived EXCEPT ![On[o]] = @ + 1]
             /\ taken' = [taken EXCEPT ![o] = arrived[On[o]] + 1]
    <3>1. /\ taken'[o] = arrived[On[o]] + 1 /\ result'[o] = "ok"
          /\ arrived'[On[o]] = arrived[On[o]] + 1
      BY <2>2, <1>a DEF SocketsTypeOK
    <3>2. \A p \in Reads \ {o} : taken'[p] = taken[p] /\ result'[p] = result[p]
      BY <2>2, <1>a DEF SocketsTypeOK
    <3>3. \A p \in Reads : arrived[On[p]] <= arrived'[On[p]] /\ arrived'[On[p]] \in Nat
      BY <2>2, <1>a, <1>b DEF SocketsTypeOK
    <3>4. taken'[o] # 0 /\ taken'[o] <= arrived'[On[o]]
      BY <2>2, <3>1, <1>b
    <3>5. \A p \in Reads \ {o} : taken'[p] <= arrived'[On[p]]
      BY <3>2, <3>3, <1>b DEF ChunkOK
    <3> QED
      BY <2>1, <3>1, <3>2, <3>4, <3>5, <1>a DEF ChunkOK
  <2>3. CASE UNCHANGED <<arrived, taken>> /\ \/ o \notin Reads
                                             \/ result' = [result EXCEPT ![o] = "error"]
    <3>1. \A p \in SocketOps \ {o} : result'[p] = result[p]
      BY <1>2 DEF Answer, SocketsTypeOK
    <3>2. o \in Reads => result'[o] # "ok"
      BY <2>3 DEF SocketsTypeOK
    <3> QED
      BY <2>1, <2>3, <3>1, <3>2, <1>1, <1>a
  <2>4. \/ o \in Reads /\ result' = [result EXCEPT ![o] = "ok"]
             /\ arrived' = [arrived EXCEPT ![On[o]] = @ + 1]
             /\ taken' = [taken EXCEPT ![o] = arrived[On[o]] + 1]
        \/ UNCHANGED <<arrived, taken>> /\ \/ o \notin Reads
                                           \/ result' = [result EXCEPT ![o] = "error"]
    BY <1>2, Zenon DEF Answer
  <2> QED
    BY <2>2, <2>3, <2>4
<1>3. ASSUME UNCHANGED <<result, arrived, taken>>, NEW o \in SocketOps,
             o \in Reads /\ io[o] \in {"ready", "handled"}
               => io'[o] \in {"ready", "handled"},
             \A p \in SocketOps \ {o} : io'[p] = io[p]
      PROVE  ChunkOK'
  BY <1>3, <1>1, <1>a
<1>4. ASSUME NEW o \in SocketOps, Call(o) \/ HandleIo(o) \/ DeadlinePasses(o)
      PROVE  ChunkOK'
  BY <1>4, <1>3 DEF Call, HandleIo, DeadlinePasses, ioVars, SocketsTypeOK
<1>5. ASSUME NEW o \in SocketOps, RunStart(o)
      PROVE  ChunkOK'
  <2>1. io[o] = "posted" /\ UNCHANGED <<result, arrived, taken>>
    BY <1>5, StartsPosted DEF RunStart
  <2>2. \A p \in SocketOps \ {o} : io'[p] = io[p]
    BY <1>5 DEF RunStart, SocketsTypeOK
  <2> QED
    BY <2>1, <2>2, <1>3
<1>6. ASSUME NEW c \in Connects, Resolved(c) \/ HandleResolved(c)
      PROVE  ChunkOK'
  <2>1. \A p \in SocketOps \ {c} : io'[p] = io[p] /\ result'[p] = result[p]
    BY <1>6, <1>a DEF Resolved, HandleResolved, SocketsTypeOK
  <2>2. UNCHANGED <<arrived, taken>>
    BY <1>6 DEF Resolved, HandleResolved
  <2> QED
    BY <2>1, <2>2, <1>1, <1>a
<1>7. ASSUME NEW h, NEW W, NEW F, Cancel(h, W, F)
      PROVE  ChunkOK'
  <2>1. UNCHANGED <<arrived, taken>>
    BY <1>7 DEF Cancel
  <2>2. \A p \in Reads :
          \/ io'[p] = io[p] /\ result'[p] = result[p]
          \/ io[p] = "pending" /\ io'[p] = "ready" /\ result'[p] \in {"error", "aborted"}
    BY <1>7, <1>a DEF Cancel
  <2> QED
    BY <2>1, <2>2, <1>1
<1>8. ASSUME NEW o \in SocketOps, HandleTimer(o)
      PROVE  ChunkOK'
  <2>1. CASE UNCHANGED ioVars
    BY <2>1, <1>1 DEF ioVars
  <2>2. CASE \E h \in Handles, W, F \in SUBSET Writes : Cancel(h, W, F)
    BY <2>2, <1>7
  <2>3. CASE /\ o \in Connects /\ io' = [io EXCEPT ![o] = "resolved"]
             /\ UNCHANGED <<result, arrived, taken>>
    BY <2>3, <1>3, <1>a DEF SocketsTypeOK
  <2>4. On[o] \in Handles /\ {} \in SUBSET Writes
    BY <1>a
  <2> QED
    BY <1>8, <2>1, <2>2, <2>3, <2>4 DEF HandleTimer, GiveUp
<1>9. ASSUME NEW h \in Handles, RunClose(h)
      PROVE  ChunkOK'
  BY <1>9, <1>7 DEF RunClose
<1>10. ASSUME NEW h \in Handles, CloseHandle(h)
       PROVE  ChunkOK'
  BY <1>10, <1>1 DEF CloseHandle, ioVars
<1>11. CASE Settle \/ UNCHANGED socketVars
  BY <1>11, <1>1 DEF Settle, socketVars, ioVars
<1> QED
  BY <1>2, <1>4, <1>5, <1>6, <1>8, <1>9, <1>10, <1>11 DEF SocketsNext, Worker

\* What the script gets grows by the chunk of the one read it was waiting for.
LEMMA GotStep ==
  ASSUME SocketsTypeOK, TaskOK, BegunOK, OnceOK, FlagOK, ChunkOK, GotOK, [SocketsNext]_socketVars
  PROVE  GotOK'
<1>a. /\ On \in [SocketOps -> Handles] /\ Reads \subseteq SocketOps
      /\ Reads \cap Connects = {} /\ Connects \subseteq SocketOps
      /\ "ok" \in Outcomes
  BY AsioSocketsAssumption DEF SocketOps, Outcomes
<1>b. \A o \in Reads : taken[o] \in Nat /\ arrived[On[o]] \in Nat
  BY <1>a DEF SocketsTypeOK
<1>c. \A h \in Handles : \A i \in DOMAIN got[h] : got[h][i] \in Nat
  BY ElementOfSeq DEF SocketsTypeOK
\* What is told "ok" has a chunk.
<1>1. ASSUME NEW o \in Reads, Told(o, "ok")', taken'[o] = 0
      PROVE  FALSE
  <2>1. taken[o] = 0
    <3>1. \A p \in SocketOps : Answer(p) => taken'[o] = taken[o] \/ taken'[o] = arrived[On[p]] + 1
      BY <1>a DEF Answer, SocketsTypeOK
    <3>2. \A p \in SocketOps : arrived[On[p]] + 1 # 0
      BY <1>a DEF SocketsTypeOK
    <3>3. (\A p \in SocketOps : ~Answer(p)) => taken' = taken
      <4>1. \A p \in SocketOps : Call(p) \/ DeadlinePasses(p) \/ RunStart(p) \/ HandleIo(p)
                              => taken' = taken
        BY DEF Call, DeadlinePasses, RunStart, HandleIo, ioVars
      <4>2. \A p \in SocketOps : HandleTimer(p) => taken' = taken
        BY DEF HandleTimer, GiveUp, Cancel, ioVars
      <4>3. \A h \in Handles : CloseHandle(h) \/ RunClose(h) => taken' = taken
        BY DEF CloseHandle, RunClose, Cancel, ioVars
      <4>4. \A c \in Connects : Resolved(c) \/ HandleResolved(c) => taken' = taken
        BY DEF Resolved, HandleResolved
      <4>5. Settle \/ UNCHANGED socketVars => taken' = taken
        BY DEF Settle, socketVars, ioVars
      <4> QED
        BY <4>1, <4>2, <4>3, <4>4, <4>5 DEF SocketsNext, Worker
    <3> QED
      BY <1>1, <3>1, <3>2, <3>3
  <2>2. ~Told(o, "ok")
    BY <2>1 DEF GotOK
  <2>3. Posts(o, "ok")
    BY <1>1, <1>a, <2>2, ToldStep
  <2>4. Verdict(o) = "ok"
    BY <2>3, <1>a, WhoPosts
  <2> QED
    BY <2>1, <2>4 DEF Verdict, ChunkOK
<1>2. ASSUME UNCHANGED <<got, arrived, taken, settlement>>
      PROVE  GotOK'
  BY <1>1, <1>2 DEF GotOK
<1>3. ASSUME NEW o \in SocketOps, Answer(o)
      PROVE  GotOK'
  <2>1. UNCHANGED <<got, settlement>> /\ io[o] = "pending"
    BY <1>3 DEF Answer, scriptVars
  <2>2. CASE UNCHANGED <<arrived, taken>>
    BY <2>1, <2>2, <1>2
  <2>3. CASE /\ o \in Reads
             /\ arrived' = [arrived EXCEPT ![On[o]] = @ + 1]
             /\ taken' = [taken EXCEPT ![o] = arrived[On[o]] + 1]
    <3>1. taken'[o] = arrived[On[o]] + 1 /\ \A p \in Reads \ {o} : taken'[p] = taken[p]
      BY <2>3 DEF SocketsTypeOK
    <3>2. \A h \in Handles : arrived[h] \in Nat /\ arrived'[h] \in Nat /\ arrived[h] <= arrived'[h]
      BY <2>3, <1>a DEF SocketsTypeOK
    <3>3. \A i \in DOMAIN got[On[o]] : got[On[o]][i] < taken'[o]
      <4>1. On[o] \in Handles /\ arrived[On[o]] \in Nat
        BY <2>3, <1>a, <1>b
      <4>2. \A i \in DOMAIN got[On[o]] : got[On[o]][i] \in Nat /\ got[On[o]][i] <= arrived[On[o]]
        BY <4>1, <1>c DEF GotOK
      <4> QED
        BY <3>1, <4>1, <4>2
    <3>4. ASSUME NEW p \in Reads, taken'[p] # 0, settlement'[p] = "none"
          PROVE  \A i \in DOMAIN got'[On[p]] : got'[On[p]][i] < taken'[p]
      BY <2>1, <3>1, <3>3, <3>4 DEF GotOK
    <3>5. \A h \in Handles : \A i \in DOMAIN got'[h] : got'[h][i] <= arrived'[h]
      BY <2>1, <3>2, <1>c DEF GotOK
    <3>6. \A h \in Handles : \A i, j \in DOMAIN got'[h] : i < j => got'[h][i] < got'[h][j]
      BY <2>1 DEF GotOK
    <3> QED
      BY <1>1, <3>4, <3>5, <3>6 DEF GotOK
  <2>4. \/ UNCHANGED <<arrived, taken>>
        \/ /\ o \in Reads
           /\ arrived' = [arrived EXCEPT ![On[o]] = @ + 1]
           /\ taken' = [taken EXCEPT ![o] = arrived[On[o]] + 1]
    BY <1>3, Zenon DEF Answer
  <2> QED
    BY <2>2, <2>3, <2>4
<1>4. CASE Settle
  <2>1. PICK o \in SocketOps, how \in Outcomes :
          /\ completions[1] = <<o, how>> /\ 1 \in DOMAIN completions
          /\ settlement' = [settlement EXCEPT ![o] = how]
          /\ got' = IF o \in Reads /\ how = "ok"
                    THEN [got EXCEPT ![On[o]] = Append(@, taken[o])] ELSE got
    BY <1>4, SettleFirst
  <2>2. UNCHANGED <<arrived, taken>> /\ how # "none"
    BY <1>4 DEF Settle, ioVars, Outcomes
  <2>3. \A p \in Reads : settlement'[p] = "none" => p # o /\ settlement[p] = "none"
    BY <2>1, <2>2, <1>a DEF SocketsTypeOK
  <2>4. CASE ~(o \in Reads /\ how = "ok")
    <3>1. got' = got
      BY <2>1, <2>4
    <3> QED
      BY <2>2, <2>3, <3>1, <1>1 DEF GotOK
  <2>5. CASE o \in Reads /\ how = "ok"
    <3>1. Queued(o) # {}
      BY <2>1 DEF Queued
    <3>2. settlement[o] = "none" /\ taken[o] # 0
      BY <2>1, <2>5, <3>1 DEF OnceOK, GotOK, Told
    <3>3. PICK n \in Nat :
            /\ got[On[o]] \in Seq(Nat) /\ DOMAIN got[On[o]] = 1 .. n
            /\ DOMAIN got'[On[o]] = 1 .. n + 1
            /\ \A i \in 1 .. n : got'[On[o]][i] = got[On[o]][i]
            /\ got'[On[o]][n + 1] = taken[o]
      <4>1. got[On[o]] \in Seq(Nat) /\ taken[o] \in Nat
        BY <1>a, <1>b, <2>5 DEF SocketsTypeOK
      <4>2. got'[On[o]] = Append(got[On[o]], taken[o])
        BY <2>1, <2>5, <1>a DEF SocketsTypeOK
      <4>3. /\ Len(got[On[o]]) \in Nat
            /\ DOMAIN got[On[o]] = 1 .. Len(got[On[o]])
            /\ DOMAIN got'[On[o]] = 1 .. Len(got[On[o]]) + 1
            /\ \A i \in 1 .. Len(got[On[o]]) : got'[On[o]][i] = got[On[o]][i]
            /\ got'[On[o]][Len(got[On[o]]) + 1] = taken[o]
        BY <4>1, <4>2
      <4> QED
        BY <4>1, <4>3
    <3>4. \A h \in Handles \ {On[o]} : got'[h] = got[h]
      BY <2>1, <2>5, <1>a DEF SocketsTypeOK
    <3>5. \A i \in 1 .. n : got[On[o]][i] < taken[o] /\ got[On[o]][i] \in Nat
      BY <3>2, <3>3, <2>5, <1>a, <1>c DEF GotOK
    <3>6. \A i \in 1 .. n + 1 : i \in 1 .. n \/ i = n + 1
      OBVIOUS
    <3>7. \A i, j \in 1 .. n + 1 : i < j => i \in 1 .. n
      OBVIOUS
    <3>8. taken[o] \in Nat /\ taken[o] <= arrived[On[o]] /\ On[o] \in Handles
      BY <2>5, <1>a, <1>b DEF ChunkOK
    <3>9. ASSUME NEW h \in Handles
          PROVE  /\ \A i \in DOMAIN got'[h] : got'[h][i] <= arrived'[h]
                 /\ \A i, j \in DOMAIN got'[h] : i < j => got'[h][i] < got'[h][j]
      <4>1. CASE h = On[o]
        <5>1. \A i \in 1 .. n : got[h][i] <= arrived[h]
          BY <3>3, <4>1 DEF GotOK
        <5>2. \A i, j \in 1 .. n : i < j => got[h][i] < got[h][j]
          BY <3>3, <4>1 DEF GotOK
        <5> QED
          BY <4>1, <5>1, <5>2, <2>2, <3>3, <3>5, <3>6, <3>7, <3>8
      <4>2. CASE h # On[o]
        BY <4>2, <2>2, <3>4 DEF GotOK
      <4> QED
        BY <4>1, <4>2
    <3>10. ASSUME NEW p \in Reads, taken'[p] # 0, settlement'[p] = "none"
           PROVE  \A i \in DOMAIN got'[On[p]] : got'[On[p]][i] < taken'[p]
      <4>1. p # o /\ settlement[p] = "none" /\ taken[p] # 0
        BY <2>2, <2>3, <3>10
      <4>2. Reading(p) /\ Reading(o)
        BY <2>5, <3>2, <4>1 DEF Reading, ChunkOK
      <4>3. On[p] # On[o] /\ On[p] \in Handles
        BY <2>5, <4>1, <4>2, <1>a DEF FlagOK
      <4> QED
        BY <2>2, <3>4, <4>1, <4>3 DEF GotOK
    <3> QED
      BY <1>1, <3>9, <3>10 DEF GotOK
  <2> QED
    BY <2>4, <2>5
<1>5. ASSUME NEW o \in SocketOps,
             Call(o) \/ DeadlinePasses(o) \/ RunStart(o) \/ HandleIo(o)
      PROVE  GotOK'
  BY <1>5, <1>2 DEF Call, DeadlinePasses, RunStart, HandleIo, scriptVars, ioVars
<1>6. ASSUME NEW o \in SocketOps, HandleTimer(o)
      PROVE  GotOK'
  <2>1. UNCHANGED <<arrived, taken>> /\ UNCHANGED scriptVars
    BY <1>6 DEF HandleTimer, GiveUp, Cancel, ioVars
  <2> QED
    BY <2>1, <1>2 DEF scriptVars
<1>7. ASSUME NEW h \in Handles, CloseHandle(h) \/ RunClose(h)
      PROVE  GotOK'
  BY <1>7, <1>2 DEF CloseHandle, RunClose, Cancel, scriptVars, ioVars
<1>8. ASSUME NEW c \in Connects, Resolved(c) \/ HandleResolved(c)
      PROVE  GotOK'
  BY <1>8, <1>2 DEF Resolved, HandleResolved, scriptVars
<1>9. CASE UNCHANGED socketVars
  BY <1>9, <1>2 DEF socketVars, scriptVars, ioVars
<1> QED
  BY <1>3, <1>4, <1>5, <1>6, <1>7, <1>8, <1>9 DEF SocketsNext, Worker

\* A read that is done before its handler runs is done by the handler of its
\* timer, which then stands in the completion.
LEMMA LateStep ==
  ASSUME SocketsTypeOK, TaskOK, OnceOK, FlagOK, LateOK, [SocketsNext]_socketVars
  PROVE  LateOK'
<1>a. /\ Reads \subseteq SocketOps /\ Reads \cap Connects = {} /\ "timeout" \in Outcomes
  BY AsioSocketsAssumption DEF SocketOps, Outcomes
<1>1. SUFFICES ASSUME NEW o \in Reads, io'[o] = "ready", o \in done'
               PROVE  o \in deadline' /\ Told(o, "timeout")'
  BY DEF LateOK
<1>2. CASE o \in done
  <2>1. io[o] = "ready"
    BY <1>1, <1>2, <1>a, Monotone DEF Kept, FlagOK
  <2>2. o \in deadline /\ Told(o, "timeout")
    BY <1>2, <2>1 DEF LateOK
  <2> QED
    BY <2>2, <1>a, ToldStays, Monotone DEF Kept
<1>3. CASE o \notin done
  <2>1. PICK how \in Outcomes : Posts(o, how)
    BY <1>1, <1>3, <1>a, DonePosts
  <2>2. ~HandleIo(o)
    BY <1>1, <1>a DEF HandleIo, SocketsTypeOK
  <2>3. HandleTimer(o) /\ how = "timeout"
    BY <2>1, <2>2, <1>a, WhoPosts
  <2>4. o \in deadline
    BY <2>3, <1>a DEF HandleTimer, SocketsTypeOK
  <2> QED
    BY <2>1, <2>3, <2>4, <1>a, ToldStep, Monotone DEF Kept
<1> QED
  BY <1>2, <1>3

\* The handler of a read tells the script what it has, unless the deadline did.
LEMMA LostStep ==
  ASSUME SocketsTypeOK, TaskOK, OnceOK, ChunkOK, LateOK, LostOK, [SocketsNext]_socketVars
  PROVE  LostOK'
<1>a. /\ Reads \subseteq SocketOps /\ Reads \cap Connects = {}
      /\ "timeout" \in Outcomes /\ "ok" \in Outcomes
  BY AsioSocketsAssumption DEF SocketOps, Outcomes
<1>1. SUFFICES ASSUME NEW o \in Reads, taken'[o] # 0, io'[o] = "handled"
               PROVE  Told(o, "ok")' \/ (o \in deadline' /\ Told(o, "timeout")')
  BY DEF LostOK
<1>2. ASSUME Told(o, "ok") \/ (o \in deadline /\ Told(o, "timeout"))
      PROVE  Told(o, "ok")' \/ (o \in deadline' /\ Told(o, "timeout")')
  BY <1>2, <1>a, ToldStays, Monotone DEF Kept
<1>3. ASSUME NEW p \in SocketOps, HandleIo(p), p = o
      PROVE  Told(o, "ok")' \/ (o \in deadline' /\ Told(o, "timeout")')
  <2>1. io[o] = "ready" /\ taken[o] # 0
    BY <1>1, <1>3 DEF HandleIo
  <2>2. CASE o \in done
    BY <2>1, <2>2, <1>2 DEF LateOK
  <2>3. CASE o \notin done
    <3>1. Verdict(o) = "ok"
      BY <2>1 DEF Verdict, ChunkOK
    <3>2. Posts(o, "ok")
      BY <1>3, <2>3, <3>1 DEF HandleIo, Decided, Claim, Posts, scriptVars
    <3> QED
      BY <3>2, <1>a, ToldStep
  <2> QED
    BY <2>2, <2>3
<1>4. ASSUME io[o] = "handled", taken[o] # 0
      PROVE  Told(o, "ok")' \/ (o \in deadline' /\ Told(o, "timeout")')
  BY <1>2, <1>4 DEF LostOK
<1>5. (\A p \in SocketOps : HandleIo(p) => p # o) => io[o] = "handled" /\ taken[o] # 0
  <2> SUFFICES ASSUME \A p \in SocketOps : HandleIo(p) => p # o
               PROVE  io[o] = "handled" /\ taken[o] # 0
    OBVIOUS
  <2> USE <1>1, <1>a DEF SocketsTypeOK
  <2>1. ASSUME NEW p \in SocketOps, Answer(p)
        PROVE  io[o] = "handled" /\ taken[o] # 0
    <3>1. p # o /\ io[o] = "handled"
      BY <2>1 DEF Answer
    <3>2. taken'[o] = taken[o]
      BY <2>1, <3>1 DEF Answer
    <3> QED
      BY <3>1, <3>2
  <2>2. ASSUME NEW p \in SocketOps, Call(p) \/ DeadlinePasses(p) \/ HandleIo(p) \/ RunStart(p)
        PROVE  io[o] = "handled" /\ taken[o] # 0
    BY <2>2 DEF Call, DeadlinePasses, HandleIo, RunStart, ioVars
  <2>3. ASSUME NEW p \in SocketOps, HandleTimer(p)
        PROVE  io[o] = "handled" /\ taken[o] # 0
    BY <2>3 DEF HandleTimer, GiveUp, Cancel, ioVars
  <2>4. ASSUME NEW h \in Handles, CloseHandle(h) \/ RunClose(h)
        PROVE  io[o] = "handled" /\ taken[o] # 0
    BY <2>4 DEF CloseHandle, RunClose, Cancel, ioVars
  <2>5. ASSUME NEW c \in Connects, Resolved(c) \/ HandleResolved(c)
        PROVE  io[o] = "handled" /\ taken[o] # 0
    BY <2>5 DEF Resolved, HandleResolved
  <2>6. CASE Settle \/ UNCHANGED socketVars
    BY <2>6 DEF Settle, socketVars, ioVars
  <2> QED
    BY <2>1, <2>2, <2>3, <2>4, <2>5, <2>6 DEF SocketsNext, Worker
<1> QED
  BY <1>3, <1>4, <1>5

\* A handler of a deadline closes the socket of its own connect() only.
LEMMA SocketStep ==
  ASSUME SocketsTypeOK, TaskOK, OnceOK, SocketOK, [SocketsNext]_socketVars
  PROVE  SocketOK'
<1>a. Connects \subseteq SocketOps /\ "timeout" \in Outcomes
  BY DEF SocketOps, Outcomes
<1>1. SUFFICES ASSUME NEW c \in Connects, On[c] \notin sockets', On[c] \notin closed'
               PROVE  Told(c, "timeout")'
  BY DEF SocketOK
<1>2. CASE On[c] \notin sockets
  BY <1>1, <1>2, <1>a, Monotone, ToldStays DEF SocketOK, Kept
<1>3. ASSUME On[c] \in sockets, NEW o \in SocketOps, HandleTimer(o)
      PROVE  Told(c, "timeout")'
  <2>1. o \in Connects /\ On[o] = On[c] /\ o \notin done
    BY <1>1, <1>3 DEF HandleTimer, GiveUp
  <2>2. o = c
    BY <2>1, AsioSocketsAssumption
  <2>3. Posts(c, "timeout")
    BY <1>3, <2>1, <2>2 DEF HandleTimer, Posts, scriptVars
  <2> QED
    BY <2>3, <1>a, ToldStep
<1>4. ASSUME On[c] \in sockets, NEW h \in Handles, RunClose(h)
      PROVE  FALSE
  <2>1. On[c] = h
    BY <1>1, <1>4 DEF RunClose
  <2> QED
    BY <1>1, <1>4, <2>1, ClosesClosed, Monotone DEF Kept
<1>5. ASSUME On[c] \in sockets, NEW o \in SocketOps,
             Call(o) \/ Answer(o) \/ DeadlinePasses(o) \/ RunStart(o) \/ HandleIo(o)
      PROVE  FALSE
  BY <1>1, <1>5 DEF Call, Answer, DeadlinePasses, RunStart, HandleIo
<1>6. ASSUME On[c] \in sockets, NEW d \in Connects, Resolved(d) \/ HandleResolved(d)
      PROVE  FALSE
  BY <1>1, <1>6 DEF Resolved, HandleResolved
<1>7. ASSUME On[c] \in sockets, NEW h \in Handles, CloseHandle(h)
      PROVE  FALSE
  BY <1>1, <1>7 DEF CloseHandle
<1>8. CASE On[c] \in sockets /\ (Settle \/ UNCHANGED socketVars)
  BY <1>1, <1>8 DEF Settle, socketVars
<1> QED
  BY <1>2, <1>3, <1>4, <1>5, <1>6, <1>7, <1>8 DEF SocketsNext, Worker

LEMMA CausedStays ==
  ASSUME SocketsTypeOK, TaskOK, OnceOK, [SocketsNext]_socketVars, NEW o \in SocketOps, Caused(o)
  PROVE  Caused(o)'
<1>1. "timeout" \in Outcomes /\ deadline \subseteq SocketOps
  BY DEF Outcomes, SocketsTypeOK
<1>2. PICK p \in deadline : On[p] = On[o] /\ Told(p, "timeout")
  BY DEF Caused
<1>3. p \in deadline' /\ Told(p, "timeout")'
  BY <1>1, <1>2, ToldStays, Monotone DEF Kept
<1> QED
  BY <1>2, <1>3 DEF Caused

\* The handler of a deadline that was not too late is a cause for its handle.
LEMMA TimerCauses ==
  ASSUME SocketsTypeOK, TaskOK, OnceOK, [SocketsNext]_socketVars,
         NEW o \in SocketOps, NEW p \in SocketOps, HandleTimer(p), p \notin done, On[p] = On[o]
  PROVE  Caused(o)'
<1>1. p \in deadline /\ "timeout" \in Outcomes
  BY DEF HandleTimer, SocketsTypeOK, Outcomes
<1>2. Posts(p, "timeout")
  BY DEF HandleTimer, Posts, scriptVars
<1>3. p \in deadline' /\ Told(p, "timeout")'
  BY <1>1, <1>2, ToldStep, Monotone DEF Kept
<1> QED
  BY <1>3 DEF Caused

\* What is aborted is aborted by close() or by such a handler.
LEMMA CauseStep ==
  ASSUME SocketsTypeOK, TaskOK, OnceOK, CauseOK, [SocketsNext]_socketVars
  PROVE  CauseOK'
<1>1. SUFFICES ASSUME NEW o \in SocketOps, result'[o] = "aborted", On[o] \notin closed'
               PROVE  Caused(o)'
  BY DEF CauseOK
<1>2. CASE result[o] = "aborted"
  BY <1>1, <1>2, CausedStays, Monotone DEF CauseOK, Kept
<1>3. ASSUME result[o] # "aborted", NEW p \in SocketOps, HandleTimer(p)
      PROVE  Caused(o)'
  <2>1. p \notin done /\ GiveUp(p)
    BY <1>1, <1>3 DEF HandleTimer, ioVars
  <2>2. On[p] = On[o]
    BY <1>1, <1>3, <2>1 DEF GiveUp, Cancel
  <2> QED
    BY <1>3, <2>1, <2>2, TimerCauses
<1>4. ASSUME result[o] # "aborted", NEW h \in Handles, RunClose(h)
      PROVE  FALSE
  <2>1. On[o] = h
    BY <1>1, <1>4 DEF RunClose, Cancel
  <2> QED
    BY <1>1, <1>4, <2>1, ClosesClosed, Monotone DEF Kept
<1>5. ASSUME result[o] # "aborted", NEW p \in SocketOps,
             Call(p) \/ Answer(p) \/ DeadlinePasses(p) \/ RunStart(p) \/ HandleIo(p)
      PROVE  FALSE
  BY <1>1, <1>5 DEF Call, Answer, DeadlinePasses, RunStart, HandleIo, ioVars, SocketsTypeOK
<1>6. ASSUME result[o] # "aborted", NEW d \in Connects, Resolved(d) \/ HandleResolved(d)
      PROVE  FALSE
  BY <1>1, <1>6 DEF Resolved, HandleResolved, SocketsTypeOK
<1>7. ASSUME result[o] # "aborted", NEW h \in Handles, CloseHandle(h)
      PROVE  FALSE
  BY <1>1, <1>7 DEF CloseHandle, ioVars
<1>8. CASE result[o] # "aborted" /\ (Settle \/ UNCHANGED socketVars)
  BY <1>1, <1>8 DEF Settle, socketVars, ioVars
<1> QED
  BY <1>2, <1>3, <1>4, <1>5, <1>6, <1>7, <1>8 DEF SocketsNext, Worker

\* An abort is taken for a timeout on an open handle only.
LEMMA TimeoutStep ==
  ASSUME SocketsTypeOK, TaskOK, BegunOK, OnceOK, CauseOK, TimeoutsHaveCause,
         [SocketsNext]_socketVars
  PROVE  TimeoutsHaveCause'
<1>a. "timeout" \in Outcomes /\ "timeout" \notin {"denied", "failed"}
  BY DEF Outcomes
<1>1. SUFFICES ASSUME NEW o \in SocketOps, Told(o, "timeout")' PROVE Caused(o)'
  BY DEF TimeoutsHaveCause, Caused
<1>2. CASE Told(o, "timeout")
  BY <1>2, CausedStays DEF TimeoutsHaveCause, Caused
<1>3. CASE Posts(o, "timeout")
  <2>1. CASE HandleIo(o) /\ "timeout" = Verdict(o)
    <3>1. result[o] = "aborted" /\ On[o] \notin closed
      BY <2>1 DEF Verdict, HandleIo, BegunOK, SocketsTypeOK
    <3> QED
      BY <3>1, CausedStays DEF CauseOK
  <2>2. CASE HandleTimer(o)
    BY <1>3, <2>2, TimerCauses DEF Posts
  <2> QED
    BY <1>3, <1>a, <2>1, <2>2, WhoPosts
<1> QED
  BY <1>1, <1>2, <1>3, <1>a, ToldStep
-----------------------------------------------------------------------------

LEMMA InitHolds == SocketsInit => IInv
<1>1. SUFFICES ASSUME SocketsInit PROVE IInv
  OBVIOUS
<1>2. /\ completions = <<>> /\ done = {} /\ \A o \in SocketOps : settlement[o] = "none"
  BY <1>1 DEF SocketsInit
<1>3. SocketsTypeOK
  BY <1>1, AsioSocketsAssumption DEF SocketsInit, SocketsTypeOK
<1>4. TaskOK /\ BegunOK
  BY <1>1 DEF SocketsInit, TaskOK, BegunOK
<1>5. \A o \in SocketOps : Queued(o) = {} /\ \A how \in Outcomes : ~Told(o, how)
  BY <1>2 DEF Queued, Told, Outcomes
<1>6. OnceOK /\ TimeoutsHaveCause
  BY <1>2, <1>5 DEF OnceOK, TimeoutsHaveCause, Outcomes
<1>7. Reads \subseteq SocketOps /\ On \in [SocketOps -> Handles]
  BY AsioSocketsAssumption DEF SocketOps
<1>8. FlagOK /\ LateOK
  BY <1>1, <1>7 DEF SocketsInit, FlagOK, LateOK, Reading
<1>9. ChunkOK /\ GotOK /\ LostOK
  BY <1>1, <1>5, <1>7 DEF SocketsInit, ChunkOK, GotOK, LostOK, Outcomes
<1>10. SocketOK /\ CauseOK
  BY <1>1, AsioSocketsAssumption DEF SocketsInit, SocketOK, CauseOK, SocketOps
<1> QED
  BY <1>3, <1>4, <1>6, <1>8, <1>9, <1>10 DEF IInv

LEMMA StepKeeps == IInv /\ [SocketsNext]_socketVars => IInv'
<1>1. SUFFICES ASSUME IInv, [SocketsNext]_socketVars PROVE IInv'
  OBVIOUS
<1>2. /\ SocketsTypeOK /\ TaskOK /\ BegunOK /\ OnceOK /\ FlagOK /\ ChunkOK /\ GotOK
      /\ LateOK /\ LostOK /\ SocketOK /\ CauseOK /\ TimeoutsHaveCause
  BY <1>1 DEF IInv
<1>3. SocketsTypeOK' /\ TaskOK' /\ BegunOK' /\ OnceOK'
  BY <1>1, <1>2, TypeStep, TaskStep, BegunStep, OnceStep
<1>4. FlagOK' /\ ChunkOK' /\ GotOK' /\ LateOK' /\ LostOK'
  BY <1>1, <1>2, FlagStep, ChunkStep, GotStep, LateStep, LostStep
<1>5. SocketOK' /\ CauseOK' /\ TimeoutsHaveCause'
  BY <1>1, <1>2, SocketStep, CauseStep, TimeoutStep
<1> QED
  BY <1>3, <1>4, <1>5 DEF IInv

LEMMA Invariance == SocketsSpec => []IInv
<1>1. SocketsInit => IInv
  BY InitHolds
<1>2. IInv /\ [SocketsNext]_socketVars => IInv'
  BY StepKeeps
<1> QED
  BY <1>1, <1>2, PTL DEF SocketsSpec

\* The state of wl2:asio's sockets keeps its types.
THEOREM TypeCorrect == SocketsSpec => []SocketsTypeOK
<1>1. IInv => SocketsTypeOK
  BY DEF IInv
<1> QED
  BY <1>1, Invariance, PTL

\* Result, deadline and close together settle each promise once.
THEOREM SettledOnceAlways == SocketsSpec => []SettledOnce
<1>1. IInv => SettledOnce
  BY OnceCounts DEF IInv
<1> QED
  BY <1>1, Invariance, PTL

\* The reading flag keeps reads apart, also when one was given up.
THEOREM ReadsNeverOverlap == SocketsSpec => []ReadsDoNotOverlap
<1>1. IInv => ReadsDoNotOverlap
  <2>1. SUFFICES ASSUME IInv, NEW o \in Reads, NEW p \in Reads, On[o] = On[p],
                        io[o] = "pending", io[p] = "pending"
                 PROVE  o = p
    BY DEF ReadsDoNotOverlap, Overlap
  <2>2. o \notin done /\ p \notin done /\ o \in SocketOps /\ p \in SocketOps
    BY <2>1 DEF IInv, FlagOK, SocketOps
  <2>3. Reading(o) /\ Reading(p)
    BY <2>1, <2>2 DEF IInv, OnceOK, Reading
  <2> QED
    BY <2>1, <2>3 DEF IInv, FlagOK
<1> QED
  BY <1>1, Invariance, PTL

\* Chunks reach the script in order, and only a deadline loses one.
THEOREM DeadlinesAloneLose == SocketsSpec => []OnlyTimeoutsLose
<1>1. IInv => OnlyTimeoutsLose
  BY DEF IInv, GotOK, LostOK, OnlyTimeoutsLose
<1> QED
  BY <1>1, Invariance, PTL

\* A connect() that succeeded and one that timed out are not the same: the socket
\* the script gets was not closed by the deadline.
THEOREM ConnectedStaysOpen == SocketsSpec => []ConnectedIsOpen
<1>1. IInv => ConnectedIsOpen
  <2>1. SUFFICES ASSUME IInv, NEW c \in Connects, Told(c, "ok"), On[c] \notin closed,
                        On[c] \notin sockets
                 PROVE  FALSE
    BY DEF ConnectedIsOpen
  <2>2. Told(c, "timeout")
    BY <2>1 DEF IInv, SocketOK
  <2>3. c \in SocketOps /\ "ok" \in Outcomes /\ "timeout" \in Outcomes /\ "ok" # "timeout"
    BY DEF SocketOps, Outcomes
  <2> QED
    BY <2>1, <2>2, <2>3, ToldOnce DEF IInv
<1> QED
  BY <1>1, Invariance, PTL

\* Behind every timeout that is reported a deadline has passed on the handle, that of an
\* operation that reports it too: what is left of OwnTimeoutsOnly, which does not hold.
THEOREM TimeoutsAreCaused == SocketsSpec => []TimeoutsHaveCause
<1>1. IInv => TimeoutsHaveCause
  BY DEF IInv
<1> QED
  BY <1>1, Invariance, PTL
=============================================================================
