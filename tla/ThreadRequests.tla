--------------------------- MODULE ThreadRequests ---------------------------
(***************************************************************************)
(* The message and request/reply half of wl2::ThreadTree (thread_tree.cpp): *)
(* the registry of nodes, the mailboxes, the pending_ map, and the          *)
(* PendingReply and ThreadRequest handles.                                  *)
(*                                                                          *)
(* One action is one critical section.  A call that takes more than one     *)
(* lock (request, send, take, remove, shutdown, and every call that erases   *)
(* an entry of pending_ under the tree mutex and publishes its outcome       *)
(* under the state mutex afterwards) is a sequence of actions of the calling *)
(* OS thread, whose progress is pc and the locals arg, at, batch, ans and    *)
(* closing.                                                                  *)
(*                                                                          *)
(* Data abstracted: a message is the id of its request, or OneWay; payloads, *)
(* types and error texts are left out; a deadline is the event that the      *)
(* steady clock passes it.                                                   *)
(***************************************************************************)
EXTENDS Naturals, Sequences, FiniteSets

CONSTANTS
  Threads,      \* OS threads calling into the tree
  Paths,        \* node paths
  Main,         \* the path "/main", which always exists
  MaxRequests,  \* bound: requests issued in one behaviour
  MaxNodes,     \* bound: node objects created in one behaviour
  MaxMail,      \* bound: mailbox length at which senders pause
  MayLapse      \* bound: requests whose deadline passes in a behaviour

ASSUME ThreadRequestsAssumption ==
  /\ Main \in Paths
  /\ MaxRequests \in Nat
  /\ MaxNodes \in Nat \ {0}
  /\ MaxMail \in Nat
  /\ MayLapse \subseteq 1 .. MaxRequests

Ids == 1 .. MaxRequests
NodeIds == 1 .. MaxNodes
OneWay == 0                 \* a message with expectsReply = false
NoNode == 0
NoId == 0
Statuses == {"Ok", "Rejected", "Timeout", "Cancelled", "Unreachable"}

\* PendingReplyState::reply before it is published: a default-constructed
\* ThreadReply, whose status field reads Ok.
Unset == "Unset"
Answers == Statuses \cup {Unset}

Labels == {"idle", "post", "send", "take", "wait", "expire", "publish", "read",
           "close"}

VARIABLES
  nodes,     \* nodes_: path -> node object, or NoNode
  lastNode,  \* node objects created so far
  mailbox,   \* node object -> queued messages
  closed,    \* node objects whose mailbox is closed
  lastId,    \* nextId_ - 1
  dest,      \* PendingReplyState::destination
  pending,   \* the keys of pending_
  terminal,  \* ids whose PendingReplyState::terminal is set
  reply,     \* PendingReplyState::reply (its status)
  expired,   \* ids whose deadline the steady clock has passed
  dropped,   \* droppedReplies_
  held,      \* thread -> ids of the unresolved ThreadRequests it owns
  deferred,  \* held ids whose ThreadRequest has deferred_ set
  pc, arg, at, batch, ans, closing,   \* per-thread call progress
  lost,      \* history: requests whose message is gone although nobody answered
             \* it: they found no node, a closed mailbox, or a responder that
             \* destroyed what it had deferred
  verdict,   \* history: what a responder passed to deliverReply, or Unset
  seen       \* history: the answers wait() and poll() gave to callers

treeVars == <<nodes, lastNode, mailbox, closed>>
requestVars == <<lastId, dest>>
replyVars == <<terminal, reply>>
holdVars == <<held, deferred, lost>>
callVars == <<pc, arg, at, batch, ans, closing>>
vars == <<treeVars, requestVars, pending, replyVars, expired, dropped,
          holdVars, callVars, verdict, seen>>

Issued == 1 .. lastId

Init ==
  /\ nodes = [p \in Paths |-> IF p = Main THEN 1 ELSE NoNode]
  /\ lastNode = 1
  /\ mailbox = [n \in NodeIds |-> <<>>]
  /\ closed = {}
  /\ lastId = 0
  /\ dest = [i \in Ids |-> Main]
  /\ pending = {}
  /\ terminal = {}
  /\ reply = [i \in Ids |-> Unset]
  /\ expired = {}
  /\ dropped = 0
  /\ held = [t \in Threads |-> {}]
  /\ deferred = {} /\ lost = {}
  /\ pc = [t \in Threads |-> "idle"]
  /\ arg = [t \in Threads |-> NoId]
  /\ at = [t \in Threads |-> NoNode]
  /\ batch = [t \in Threads |-> {}]
  /\ ans = [t \in Threads |-> Unset]
  /\ closing = [t \in Threads |-> {}]
  /\ verdict = [i \in Ids |-> Unset]
  /\ seen = [i \in Ids |-> {}]

-----------------------------------------------------------------------------
(* Where a call goes next: each operator gives every call variable a value. *)

Call(t, label, i, n, ids, a, ns) ==
  /\ pc' = [pc EXCEPT ![t] = label]
  /\ arg' = [arg EXCEPT ![t] = i]
  /\ at' = [at EXCEPT ![t] = n]
  /\ batch' = [batch EXCEPT ![t] = ids]
  /\ ans' = [ans EXCEPT ![t] = a]
  /\ closing' = [closing EXCEPT ![t] = ns]

Return(t) == Call(t, "idle", NoId, NoNode, {}, Unset, {})

\* Thread t has erased ids from pending_ and alone will resolve them with a;
\* then it reads the reply of id i, or returns when i = NoId.
Publishing(t, ids, a, i) ==
  IF ids # {} THEN Call(t, "publish", i, NoNode, ids, a, {})
  ELSE IF i # NoId THEN Call(t, "read", i, NoNode, {}, Unset, {})
  ELSE Return(t)

-----------------------------------------------------------------------------
(* Nodes and one-way messages. *)

\* ThreadTree::create: an existing node is kept.
Create(t, p) ==
  /\ pc[t] = "idle" /\ nodes[p] = NoNode /\ lastNode < MaxNodes
  /\ lastNode' = lastNode + 1
  /\ nodes' = [nodes EXCEPT ![p] = lastNode + 1]
  /\ UNCHANGED <<mailbox, closed, requestVars, pending, replyVars, expired,
                 dropped, holdVars, callVars, verdict, seen>>

\* ThreadTree::remove: the entry goes under the tree mutex, the mailbox is
\* closed after it is released.
Remove(t, p) ==
  /\ pc[t] = "idle" /\ p # Main /\ nodes[p] # NoNode
  /\ nodes' = [nodes EXCEPT ![p] = NoNode]
  /\ Call(t, "close", NoId, NoNode, {}, Unset, {nodes[p]})
  /\ UNCHANGED <<lastNode, mailbox, closed, requestVars, pending, replyVars,
                 expired, dropped, holdVars, verdict, seen>>

\* Mailbox::close of one node, for remove() and shutdown().
CloseMailbox(t, n) ==
  /\ pc[t] = "close" /\ n \in closing[t]
  /\ closed' = closed \cup {n}
  /\ IF closing[t] = {n}
     THEN Publishing(t, batch[t], ans[t], NoId)
     ELSE Call(t, "close", NoId, NoNode, batch[t], ans[t], closing[t] \ {n})
  /\ UNCHANGED <<nodes, lastNode, mailbox, requestVars, pending, replyVars,
                 expired, dropped, holdVars, verdict, seen>>

\* Mailbox::post: a closed mailbox swallows the message.
PostTo(n, m) ==
  mailbox' = IF n \in closed THEN mailbox
             ELSE [mailbox EXCEPT ![n] = Append(@, m)]

\* ThreadTree::send: find the node, then post without the tree mutex.
Send(t, p) ==
  /\ pc[t] = "idle" /\ nodes[p] # NoNode /\ Len(mailbox[nodes[p]]) < MaxMail
  /\ Call(t, "send", NoId, nodes[p], {}, Unset, {})
  /\ UNCHANGED <<treeVars, requestVars, pending, replyVars, expired, dropped,
                 holdVars, verdict, seen>>

SendPost(t) ==
  /\ pc[t] = "send"
  /\ PostTo(at[t], OneWay)
  /\ Return(t)
  /\ UNCHANGED <<nodes, lastNode, closed, requestVars, pending, replyVars,
                 expired, dropped, holdVars, verdict, seen>>

-----------------------------------------------------------------------------
(* The caller: request(), wait(), poll(), cancel(). *)

\* ThreadTree::request under the tree mutex: a known destination is registered
\* in pending_; an unknown one resolves the state, which nobody else holds yet.
Request(t, p) ==
  LET i == lastId + 1 IN
  /\ pc[t] = "idle" /\ i \in Ids
  /\ lastId' = i
  /\ dest' = [dest EXCEPT ![i] = p]
  /\ \/ /\ nodes[p] # NoNode
        /\ pending' = pending \cup {i}
        /\ Call(t, "post", i, nodes[p], {}, Unset, {})
        /\ UNCHANGED <<replyVars, lost>>
     \/ /\ nodes[p] = NoNode
        /\ terminal' = terminal \cup {i}
        /\ reply' = [reply EXCEPT ![i] = "Unreachable"]
        /\ lost' = lost \cup {i}
        /\ UNCHANGED <<pending, callVars>>
  /\ UNCHANGED <<treeVars, expired, dropped, held, deferred, verdict, seen>>

\* The rest of request(): the message is posted to the node found before.
RequestPost(t) ==
  /\ pc[t] = "post"
  /\ PostTo(at[t], arg[t])
  /\ lost' = IF at[t] \in closed THEN lost \cup {arg[t]} ELSE lost
  /\ Return(t)
  /\ UNCHANGED <<nodes, lastNode, closed, requestVars, pending, replyVars,
                 expired, dropped, held, deferred, verdict, seen>>

\* A handle exists once request() has returned it.
Returned(i) == i \in Issued /\ ~\E t \in Threads : pc[t] = "post" /\ arg[t] = i

\* The steady clock passes the deadline of request i.
DeadlinePasses(i) ==
  /\ i \in (Issued \cap MayLapse) \ expired
  /\ expired' = expired \cup {i}
  /\ UNCHANGED <<treeVars, requestVars, pending, replyVars, dropped, holdVars,
                 callVars, verdict, seen>>

\* PendingReply::wait() begins to block.  The bounded wait(timeout) holds no
\* state between its checks: it is a series of Poll actions.
Wait(t, i) ==
  /\ pc[t] = "idle" /\ Returned(i)
  /\ Call(t, "wait", i, NoNode, {}, Unset, {})
  /\ UNCHANGED <<treeVars, requestVars, pending, replyVars, expired, dropped,
                 holdVars, verdict, seen>>

\* Mutants of Lapsed: no deadline test; a wait that ignores the deadline.
LapsedAtOnce(i) == i \in Issued
NeverLapsed(i) == i \in {}

\* steady_clock::now() >= deadline.
Lapsed(i) == i \in expired

\* One check under the state mutex: hand out the terminal reply, or leave to
\* expire the request once its deadline has passed.
Check(t, i) ==
  /\ \/ /\ i \in terminal
        /\ seen' = [seen EXCEPT ![i] = @ \cup {reply[i]}]
        /\ Return(t)
     \/ /\ i \notin terminal /\ Lapsed(i)
        /\ Call(t, "expire", i, NoNode, {}, Unset, {})
        /\ UNCHANGED seen
  /\ UNCHANGED <<treeVars, requestVars, pending, replyVars, expired, dropped,
                 holdVars, verdict>>

Poll(t, i) == pc[t] = "idle" /\ Returned(i) /\ Check(t, i)
WaitCheck(t) == pc[t] = "wait" /\ Check(t, arg[t])

\* Mutants: the lookup's result is not tested; the entry is not erased.
ClaimUnchecked(i) == {i}
ExpireKeepsEntry(t) ==
  /\ pc[t] = "expire"
  /\ Publishing(t, {arg[t]} \cap pending, "Timeout", arg[t])
  /\ UNCHANGED <<treeVars, requestVars, pending, replyVars, expired, dropped,
                 holdVars, verdict, seen>>

\* The lookup in pending_ before an erase: {} when the entry is gone.
Claim(i) == {i} \cap pending

\* ThreadTree::expirePending: whoever erases the entry resolves it; a caller
\* that finds it gone returns to read the state.
Expire(t) ==
  /\ pc[t] = "expire"
  /\ pending' = pending \ {arg[t]}
  /\ Publishing(t, Claim(arg[t]), "Timeout", arg[t])
  /\ UNCHANGED <<treeVars, requestVars, replyVars, expired, dropped, holdVars,
                 verdict, seen>>

\* The end of poll() and wait() after expirePending: state_->reply is returned
\* without looking at terminal.
ReadReply(t) ==
  /\ pc[t] = "read"
  /\ seen' = [seen EXCEPT ![arg[t]] = @ \cup {reply[arg[t]]}]
  /\ Return(t)
  /\ UNCHANGED <<treeVars, requestVars, pending, replyVars, expired, dropped,
                 holdVars, verdict>>

\* PendingReply::cancel -> ThreadTree::cancelPending.
Cancel(t, i) ==
  /\ pc[t] = "idle" /\ Returned(i) /\ i \in pending
  /\ pending' = pending \ {i}
  /\ Publishing(t, {i}, "Cancelled", NoId)
  /\ UNCHANGED <<treeVars, requestVars, replyVars, expired, dropped, holdVars,
                 verdict, seen>>

\* resolve_state: a state that is already terminal is left alone.
Publish(t, i) ==
  /\ pc[t] = "publish" /\ i \in batch[t]
  /\ terminal' = terminal \cup {i}
  /\ reply' = IF i \in terminal THEN reply ELSE [reply EXCEPT ![i] = ans[t]]
  /\ Publishing(t, batch[t] \ {i}, ans[t], arg[t])
  /\ UNCHANGED <<treeVars, requestVars, pending, expired, dropped, holdVars,
                 verdict, seen>>

-----------------------------------------------------------------------------
(* The responder: take(), and the life of a ThreadRequest. *)

Take(t, p) ==
  /\ pc[t] = "idle" /\ nodes[p] # NoNode
  /\ Call(t, "take", NoId, nodes[p], {}, Unset, {})
  /\ UNCHANGED <<treeVars, requestVars, pending, replyVars, expired, dropped,
                 holdVars, verdict, seen>>

\* Mailbox::wait returns the oldest message, of a closed mailbox too.
Receive(t) ==
  /\ pc[t] = "take" /\ mailbox[at[t]] # <<>>
  /\ LET m == Head(mailbox[at[t]]) IN
     held' = [held EXCEPT ![t] = IF m = OneWay THEN @ ELSE @ \cup {m}]
  /\ mailbox' = [mailbox EXCEPT ![at[t]] = Tail(@)]
  /\ Return(t)
  /\ UNCHANGED <<nodes, lastNode, closed, requestVars, pending, replyVars,
                 expired, dropped, deferred, lost, verdict, seen>>

\* Mailbox::wait times out, or finds the mailbox closed and empty.
ReceiveNothing(t) ==
  /\ pc[t] = "take" /\ mailbox[at[t]] = <<>>
  /\ Return(t)
  /\ UNCHANGED <<treeVars, requestVars, pending, replyVars, expired, dropped,
                 holdVars, verdict, seen>>

\* Mutants of DeliverReply: droppedReplies_ is not incremented, or goes down.
DeliverUncounted(t, i, a) ==
  /\ verdict' = [verdict EXCEPT ![i] = a]
  /\ pending' = pending \ {i}
  /\ Publishing(t, Claim(i), a, NoId)
  /\ UNCHANGED dropped

\* ThreadTree::deliverReply: the reply wins the entry of pending_, or counts
\* as dropped.
DeliverReply(t, i, a) ==
  /\ verdict' = [verdict EXCEPT ![i] = a]
  /\ pending' = pending \ {i}
  /\ Publishing(t, Claim(i), a, NoId)
  /\ dropped' = IF i \in pending THEN dropped ELSE dropped + 1

\* A ThreadRequest that is resolved or destroyed obliges its owner no more.
Release(t, i) ==
  /\ held' = [held EXCEPT ![t] = @ \ {i}]
  /\ deferred' = deferred \ {i}

\* ThreadRequest::reply and reject set resolved_ and return true, whether or
\* not deliverReply found the request.
Reply(t, i) ==
  /\ pc[t] = "idle" /\ i \in held[t]
  /\ Release(t, i)
  /\ DeliverReply(t, i, "Ok")
  /\ UNCHANGED <<treeVars, requestVars, replyVars, expired, lost, seen>>

Reject(t, i) ==
  /\ pc[t] = "idle" /\ i \in held[t]
  /\ Release(t, i)
  /\ DeliverReply(t, i, "Rejected")
  /\ UNCHANGED <<treeVars, requestVars, replyVars, expired, lost, seen>>

\* ThreadRequest::defer.
Defer(t, i) ==
  /\ pc[t] = "idle" /\ i \in held[t] \ deferred
  /\ deferred' = deferred \cup {i}
  /\ UNCHANGED <<treeVars, requestVars, pending, replyVars, expired, dropped,
                 held, lost, callVars, verdict, seen>>

\* Mutant of Drop: no unresolved request is rejected.
DropSilently(t, i) ==
  /\ pc[t] = "idle" /\ i \in held[t]
  /\ Release(t, i)
  /\ lost' = lost \cup ({i} \cap deferred)
  /\ UNCHANGED <<treeVars, requestVars, pending, replyVars, expired, dropped,
                 callVars, verdict, seen>>

\* ~ThreadRequest: an unresolved request is rejected unless it was deferred.
Drop(t, i) ==
  /\ pc[t] = "idle" /\ i \in held[t]
  /\ Release(t, i)
  /\ \/ i \notin deferred /\ DeliverReply(t, i, "Rejected") /\ lost' = lost
     \/ /\ i \in deferred /\ lost' = lost \cup {i}
        /\ UNCHANGED <<pending, dropped, callVars, verdict>>
  /\ UNCHANGED <<treeVars, requestVars, replyVars, expired, seen>>

-----------------------------------------------------------------------------
(* Bulk resolution. *)

\* ThreadTree::rejectPendingFor, run when the script thread of p has ended.
RejectPendingFor(t, p) ==
  LET victims == {i \in pending : dest[i] = p} IN
  /\ pc[t] = "idle"
  /\ pending' = pending \ victims
  /\ Publishing(t, victims, "Unreachable", NoId)
  /\ UNCHANGED <<treeVars, requestVars, replyVars, expired, dropped, holdVars,
                 verdict, seen>>

\* ThreadTree::shutdown: the nodes and the pending requests are collected under
\* the tree mutex; the threads are awaited and joined (module ScriptThreads);
\* then the mailboxes are closed and the requests resolved.
Shutdown(t) ==
  /\ pc[t] = "idle"
  /\ pending' = {}
  /\ Call(t, "close", NoId, NoNode, pending, "Unreachable",
          {nodes[p] : p \in Paths} \ {NoNode})
  /\ UNCHANGED <<treeVars, requestVars, replyVars, expired, dropped, holdVars,
                 verdict, seen>>

-----------------------------------------------------------------------------
\* A step of a call in progress.
Continue(t) ==
  \/ \E n \in NodeIds : CloseMailbox(t, n)
  \/ SendPost(t) \/ RequestPost(t)
  \/ WaitCheck(t) \/ Expire(t) \/ ReadReply(t)
  \/ \E i \in Ids : Publish(t, i)
  \/ Receive(t) \/ ReceiveNothing(t)

\* A thread begins a call.
Begin(t) ==
  \/ \E p \in Paths : \/ Create(t, p) \/ Remove(t, p) \/ Send(t, p)
                      \/ Request(t, p) \/ Take(t, p) \/ RejectPendingFor(t, p)
  \/ \E i \in Ids : \/ Wait(t, i) \/ Poll(t, i) \/ Cancel(t, i)
                    \/ Reply(t, i) \/ Reject(t, i) \/ Defer(t, i) \/ Drop(t, i)
  \/ Shutdown(t)

Next ==
  \/ \E t \in Threads : Begin(t) \/ Continue(t)
  \/ \E i \in Ids : DeadlinePasses(i)

Spec == Init /\ [][Next]_vars

\* A call that has begun is scheduled, and every timeout is finite.
Fairness ==
  /\ \A t \in Threads : WF_vars(Continue(t))
  /\ \A i \in Ids : WF_vars(DeadlinePasses(i))

FairSpec == Spec /\ Fairness

-----------------------------------------------------------------------------
(* Properties *)

\* The locals of the calls in progress.
CallsTyped ==
  /\ pc \in [Threads -> Labels]
  /\ arg \in [Threads -> Ids \cup {NoId}]
  /\ at \in [Threads -> NodeIds \cup {NoNode}]
  /\ batch \in [Threads -> SUBSET Ids]
  /\ ans \in [Threads -> Answers]
  /\ closing \in [Threads -> SUBSET NodeIds]

TypeOK ==
  /\ nodes \in [Paths -> NodeIds \cup {NoNode}]
  /\ lastNode \in NodeIds
  /\ mailbox \in [NodeIds -> Seq(Ids \cup {OneWay})]
  /\ closed \subseteq NodeIds
  /\ lastId \in 0 .. MaxRequests
  /\ dest \in [Ids -> Paths]
  /\ pending \subseteq Ids
  /\ terminal \subseteq Ids
  /\ reply \in [Ids -> Answers]
  /\ expired \subseteq Ids
  /\ dropped \in Nat
  /\ held \in [Threads -> SUBSET Ids]
  /\ deferred \subseteq Ids /\ lost \subseteq Ids
  /\ CallsTyped
  /\ verdict \in [Ids -> {"Ok", "Rejected", Unset}]
  /\ seen \in [Ids -> SUBSET Answers]

\* What becomes of request i: decided when its entry left pending_, by the
\* thread that erased it.
Outcome(i) ==
  IF i \in terminal THEN reply[i]
  ELSE IF \E t \in Threads : i \in batch[t]
       THEN ans[CHOOSE t \in Threads : i \in batch[t]]
       ELSE Unset

\* Every request that has been issued is in exactly one of three places: the
\* pending_ map, the hands of the one thread that erased it from there, or its
\* terminal state.  So no two threads race to resolve one request, and none is
\* forgotten (thread_tree.cpp: every erase under the tree mutex).
OneWinner ==
  /\ pending \cup terminal \subseteq Issued
  /\ pending \cap terminal = {}
  /\ \A t \in Threads :
       /\ batch[t] \subseteq Issued \ (pending \cup terminal)
       /\ \A u \in Threads \ {t} : batch[t] \cap batch[u] = {}
  /\ \A i \in Issued :
       i \in pending \cup terminal \/ \E t \in Threads : i \in batch[t]

\* The life of request i as its caller is promised it.
Fate(i) ==
  IF i \notin Issued THEN "unissued"
  ELSE IF i \in pending THEN "open"
  ELSE Outcome(i)

\* Each request is open until one end is decided for it, which happened and is
\* never revised, although deciding (the erase from pending_) and publishing
\* (resolve_state) are separate steps of concurrent threads.
Promise == INSTANCE OneShotReply
             WITH fate <- [i \in Ids |-> Fate(i)], offered <- verdict,
                  late <- expired
ImplementsPromise == Promise!Spec

\* droppedReplies() counts exactly the replies and rejections that lost to
\* another outcome of their request.
DroppedAccounting ==
  dropped = Cardinality({i \in Issued : verdict[i] \notin {Unset, Outcome(i)}})

\* Every answer that wait() and poll() give is the terminal reply of the request: it
\* "resolves exactly once, to a reply, rejection, timeout, cancellation, or
\* unreachable-destination outcome" (thread_tree.h:215-217), and wait() returns "The
\* terminal reply, synthesizing a Timeout at the deadline" (thread_tree.h:262).  The
\* code does not keep it: a caller that is past its deadline and finds the entry of
\* pending_ gone reads state_->reply without looking at terminal, perhaps before
\* the thread that erased the entry has published.
AnswersAreTerminal ==
  \A i \in Issued : \A a \in seen[i] : i \in terminal /\ a = reply[i]

\* The places where the message of request i is: a mailbox slot, a post in
\* progress, or a ThreadRequest.
Copies(i) ==
  (UNION {{<<"mailbox", n, k>> : k \in {j \in DOMAIN mailbox[n] :
                                         mailbox[n][j] = i}} : n \in NodeIds})
  \cup {<<"post", t>> : t \in {u \in Threads : pc[u] = "post" /\ arg[u] = i}}
  \cup {<<"held", t>> : t \in {u \in Threads : i \in held[u]}}

\* Until it is answered a request is in one place: the call that posts it, a
\* mailbox, or the ThreadRequest of the one responder that took it.  An answered
\* one is nowhere, so that nobody answers it again; and none vanishes unanswered
\* but those that found no open mailbox and those a responder deferred and then
\* destroyed (ThreadRequest::defer, ~ThreadRequest).
AnsweredOnce ==
  \A i \in Issued :
    Cardinality(Copies(i)) = (IF verdict[i] = Unset /\ i \notin lost THEN 1 ELSE 0)

\* A caller blocked in PendingReply::wait() returns, whatever the responder,
\* the other callers, an exit or a shutdown do.
EveryWaitReturns ==
  \A t \in Threads : pc[t] = "wait" ~> pc[t] = "idle"
=============================================================================
