------------------------ MODULE ThreadRequestsProofs ------------------------
(***************************************************************************)
(* Proofs about ThreadRequests for every set of threads and paths and every *)
(* bound.  Each request is resolved by one winner; a responder answers it   *)
(* once, and none is lost on the way to it; the callers agree on the answer; *)
(* dropped replies are counted exactly; and the module implements           *)
(* OneShotReply.                                                            *)
(***************************************************************************)
EXTENDS ThreadRequests, TLAPS, FiniteSetTheorems

\* What the labels say about the locals of a call in progress.  Only the calls
\* that erase entries of pending_ in bulk hold a batch, and they let go of it
\* one published reply at a time.
CallOK ==
  \A t \in Threads :
    /\ arg[t] \in Issued \cup {NoId}
    /\ pc[t] \in {"post", "wait", "expire", "read"} => arg[t] \in Issued
    /\ pc[t] \in {"post", "send", "take"} => at[t] \in NodeIds
    /\ batch[t] # {} => pc[t] \in {"publish", "close"}

IInv == TypeOK /\ CallOK /\ OneWinner

-----------------------------------------------------------------------------

\* A call that goes on with typed locals keeps the call variables typed.
LEMMA CallTyped ==
  ASSUME CallsTyped,
         NEW t \in Threads, NEW label \in Labels, NEW i \in Ids \cup {NoId},
         NEW n \in NodeIds \cup {NoNode}, NEW ids \in SUBSET Ids,
         NEW a \in Answers, NEW ns \in SUBSET NodeIds,
         Call(t, label, i, n, ids, a, ns)
  PROVE  CallsTyped'
  BY DEF CallsTyped, Call

\* The empty locals of a call that returns are typed.
LEMMA ReturnTyped ==
  ASSUME CallsTyped, NEW t \in Threads, Return(t)
  PROVE  CallsTyped'
  BY CallTyped DEF Return, Labels, Answers

LEMMA PublishingTyped ==
  ASSUME CallsTyped, NEW t \in Threads, NEW ids \in SUBSET Ids,
         NEW a \in Answers, NEW i \in Ids \cup {NoId},
         Publishing(t, ids, a, i)
  PROVE  CallsTyped'
<1>1. CASE ids # {}
  <2>1. Call(t, "publish", i, NoNode, ids, a, {})
    BY <1>1 DEF Publishing
  <2>2. "publish" \in Labels
    BY DEF Labels
  <2> QED
    BY <2>1, <2>2, CallTyped
<1>2. CASE ids = {} /\ i # NoId
  <2>1. Call(t, "read", i, NoNode, {}, Unset, {})
    BY <1>2 DEF Publishing
  <2>2. "read" \in Labels /\ Unset \in Answers
    BY DEF Labels, Answers
  <2> QED
    BY <2>1, <2>2, CallTyped
<1>3. CASE ids = {} /\ i = NoId
  BY <1>3, ReturnTyped DEF Publishing
<1> QED
  BY <1>1, <1>2, <1>3

\* Posting keeps the mailboxes typed.
LEMMA PostTyped ==
  ASSUME mailbox \in [NodeIds -> Seq(Ids \cup {OneWay})],
         NEW n, NEW m \in Ids \cup {OneWay}, PostTo(n, m)
  PROVE  mailbox' \in [NodeIds -> Seq(Ids \cup {OneWay})]
<1>1. CASE n \in NodeIds
  BY <1>1 DEF PostTo
<1>2. CASE n \notin NodeIds
  BY <1>2 DEF PostTo
<1> QED
  BY <1>1, <1>2
-----------------------------------------------------------------------------

\* Every value of TypeOK but the call variables, so that an action's effect on
\* the two can be shown apart.
RestTyped ==
  /\ nodes \in [Paths -> NodeIds \cup {NoNode}]
  /\ lastNode \in NodeIds
  /\ mailbox \in [NodeIds -> Seq(Ids \cup {OneWay})]
  /\ closed \subseteq NodeIds
  /\ lastId \in 0 .. MaxRequests
  /\ dest \in [Ids -> Paths]
  /\ pending \subseteq Ids
  /\ terminal \subseteq Ids
  /\ reply \in [Ids -> Answers]
  /\ expired \subseteq Ids
  /\ dropped \in Nat
  /\ held \in [Threads -> SUBSET Ids]
  /\ deferred \subseteq Ids /\ lost \subseteq Ids
  /\ verdict \in [Ids -> {"Ok", "Rejected", Unset}]
  /\ seen \in [Ids -> SUBSET Answers]

LEMMA TypeParts == TypeOK <=> RestTyped /\ CallsTyped
  BY DEF TypeOK, RestTyped

LEMMA IssuedIds == ASSUME TypeOK PROVE Issued \subseteq Ids
  BY ThreadRequestsAssumption DEF TypeOK, Issued, Ids

LEMMA DeliverTyped ==
  ASSUME TypeOK, NEW t \in Threads, NEW i \in Ids,
         NEW a \in {"Ok", "Rejected"}, DeliverReply(t, i, a)
  PROVE  /\ CallsTyped'
         /\ dropped' \in Nat
         /\ pending' \subseteq Ids
         /\ verdict' \in [Ids -> {"Ok", "Rejected", Unset}]
<1>1. a \in Answers /\ Claim(i) \in SUBSET Ids
  BY DEF Answers, Statuses, Claim
<1>2. CallsTyped'
  BY <1>1, PublishingTyped DEF DeliverReply, TypeOK
<1> QED
  BY <1>2 DEF DeliverReply, TypeOK

LEMMA CheckTyped ==
  ASSUME TypeOK, NEW t \in Threads, NEW i \in Ids, Check(t, i)
  PROVE  CallsTyped' /\ seen' \in [Ids -> SUBSET Answers]
<1>a. CallsTyped /\ seen \in [Ids -> SUBSET Answers] /\ reply \in [Ids -> Answers]
  BY DEF TypeOK
<1>1. CASE Return(t) /\ seen' = [seen EXCEPT ![i] = @ \cup {reply[i]}]
  BY <1>1, <1>a, ReturnTyped
<1>2. CASE Call(t, "expire", i, NoNode, {}, Unset, {}) /\ UNCHANGED seen
  <2>1. "expire" \in Labels /\ Unset \in Answers
    BY DEF Labels, Answers
  <2>2. CallsTyped'
    BY <1>2, <2>1, <1>a, CallTyped
  <2> QED
    BY <1>2, <2>2, <1>a
<1> QED
  BY <1>1, <1>2 DEF Check

\* The two halves of TypeStep.  First: whatever a step does, the locals of the
\* calls stay typed.
LEMMA CallsStep ==
  ASSUME TypeOK, CallOK, Next
  PROVE  CallsTyped'
<1> USE ThreadRequestsAssumption DEF NoNode, NoId
<1>a. CallsTyped /\ Issued \subseteq Ids /\ {"send", "close", "take", "wait", "post"} \subseteq Labels
  BY IssuedIds DEF TypeOK, Labels
<1>b. Unset \in Answers /\ Statuses \subseteq Answers
      /\ \A s \in {"Timeout", "Cancelled", "Unreachable"} : s \in Statuses
  BY DEF Answers, Statuses
<1>c. \A t \in Threads, p \in Paths : nodes[p] # NoNode => nodes[p] \in NodeIds
  BY DEF TypeOK
<1>1. ASSUME NEW t \in Threads, NEW p \in Paths, Create(t, p)
      PROVE  CallsTyped'
  BY <1>1, <1>a DEF Create, callVars, CallsTyped
<1>2. ASSUME NEW t \in Threads, NEW p \in Paths, Remove(t, p)
      PROVE  CallsTyped'
  <2>1. Call(t, "close", NoId, NoNode, {}, Unset, {nodes[p]})
    BY <1>2 DEF Remove
  <2>2. {nodes[p]} \in SUBSET NodeIds
    BY <1>2, <1>c DEF Remove
  <2> QED
    BY <2>1, <2>2, <1>a, <1>b, CallTyped
<1>3. ASSUME NEW t \in Threads, NEW p \in Paths, Send(t, p) \/ Take(t, p)
      PROVE  CallsTyped'
  <2>1. PICK label \in {"send", "take"} :
          Call(t, label, NoId, nodes[p], {}, Unset, {})
    BY <1>3 DEF Send, Take
  <2>2. nodes[p] \in NodeIds
    BY <1>3, <1>c DEF Send, Take
  <2> QED
    BY <2>1, <2>2, <1>a, <1>b, CallTyped
<1>4. ASSUME NEW t \in Threads, NEW p \in Paths, Request(t, p)
      PROVE  CallsTyped'
  <2>1. CASE nodes[p] # NoNode
    <3>1. Call(t, "post", lastId + 1, nodes[p], {}, Unset, {}) /\ lastId + 1 \in Ids
      BY <1>4, <2>1 DEF Request
    <3> QED
      BY <3>1, <2>1, <1>a, <1>b, <1>c, CallTyped
  <2>2. CASE nodes[p] = NoNode
    BY <1>4, <2>2, <1>a DEF Request, callVars, CallsTyped
  <2> QED
    BY <2>1, <2>2
<1>5. ASSUME NEW t \in Threads, NEW p \in Paths, RejectPendingFor(t, p)
      PROVE  CallsTyped'
  <2>1. {i \in pending : dest[i] = p} \in SUBSET Ids
    BY DEF TypeOK
  <2>2. Publishing(t, {i \in pending : dest[i] = p}, "Unreachable", NoId)
    BY <1>5 DEF RejectPendingFor
  <2> QED
    BY <2>1, <2>2, <1>a, <1>b, PublishingTyped
<1>6. ASSUME NEW t \in Threads, NEW i \in Ids, Wait(t, i)
      PROVE  CallsTyped'
  <2>1. Call(t, "wait", i, NoNode, {}, Unset, {})
    BY <1>6 DEF Wait
  <2> QED
    BY <2>1, <1>a, <1>b, CallTyped
<1>7. ASSUME NEW t \in Threads, NEW i \in Ids, Poll(t, i)
      PROVE  CallsTyped'
  BY <1>7, CheckTyped DEF Poll
<1>8. ASSUME NEW t \in Threads, WaitCheck(t)
      PROVE  CallsTyped'
  <2>1. arg[t] \in Ids /\ Check(t, arg[t])
    BY <1>8, <1>a DEF WaitCheck, CallOK
  <2> QED
    BY <2>1, CheckTyped
<1>9. ASSUME NEW t \in Threads, NEW i \in Ids, Cancel(t, i)
      PROVE  CallsTyped'
  <2>1. Publishing(t, {i}, "Cancelled", NoId) /\ {i} \in SUBSET Ids
    BY <1>9 DEF Cancel
  <2> QED
    BY <2>1, <1>a, <1>b, PublishingTyped
<1>10. ASSUME NEW t \in Threads, NEW i \in Ids,
              Reply(t, i) \/ Reject(t, i) \/ Drop(t, i)
       PROVE  CallsTyped'
  <2>1. CASE \E a \in {"Ok", "Rejected"} : DeliverReply(t, i, a)
    BY <2>1, DeliverTyped
  <2>2. CASE UNCHANGED callVars
    BY <2>2, <1>a DEF callVars, CallsTyped
  <2> QED
    BY <1>10, <2>1, <2>2 DEF Reply, Reject, Drop
<1>11. ASSUME NEW t \in Threads, NEW i \in Ids, Defer(t, i)
       PROVE  CallsTyped'
  BY <1>11, <1>a DEF Defer, callVars, CallsTyped
<1>12. ASSUME NEW t \in Threads, Shutdown(t)
       PROVE  CallsTyped'
  <2>1. Call(t, "close", NoId, NoNode, pending, "Unreachable",
             {nodes[p] : p \in Paths} \ {NoNode})
    BY <1>12 DEF Shutdown
  <2>2. {nodes[p] : p \in Paths} \ {NoNode} \in SUBSET NodeIds /\ pending \in SUBSET Ids
    BY <1>c DEF TypeOK
  <2> QED
    BY <2>1, <2>2, <1>a, <1>b, CallTyped
<1>13. ASSUME NEW t \in Threads,
              SendPost(t) \/ RequestPost(t) \/ ReadReply(t) \/ Receive(t)
              \/ ReceiveNothing(t)
       PROVE  CallsTyped'
  <2>1. Return(t)
    BY <1>13 DEF SendPost, RequestPost, ReadReply, Receive, ReceiveNothing
  <2> QED
    BY <2>1, <1>a, ReturnTyped
<1>14. ASSUME NEW t \in Threads, Expire(t)
       PROVE  CallsTyped'
  <2>1. Publishing(t, Claim(arg[t]), "Timeout", arg[t])
    BY <1>14 DEF Expire
  <2>2. arg[t] \in Ids /\ Claim(arg[t]) \in SUBSET Ids
    BY <1>14, <1>a DEF Expire, CallOK, Claim
  <2> QED
    BY <2>1, <2>2, <1>a, <1>b, PublishingTyped
<1>15. ASSUME NEW t \in Threads, NEW i \in Ids, Publish(t, i)
       PROVE  CallsTyped'
  <2>1. Publishing(t, batch[t] \ {i}, ans[t], arg[t])
    BY <1>15 DEF Publish
  <2>2. batch[t] \ {i} \in SUBSET Ids /\ ans[t] \in Answers /\ arg[t] \in Ids \cup {NoId}
    BY <1>a DEF CallsTyped
  <2> QED
    BY <2>1, <2>2, <1>a, PublishingTyped
<1>16. ASSUME NEW t \in Threads, NEW n \in NodeIds, CloseMailbox(t, n)
       PROVE  CallsTyped'
  <2>1. batch[t] \in SUBSET Ids /\ ans[t] \in Answers /\ closing[t] \ {n} \in SUBSET NodeIds
    BY <1>a DEF CallsTyped
  <2>2. CASE Publishing(t, batch[t], ans[t], NoId)
    BY <2>1, <2>2, <1>a, PublishingTyped
  <2>3. CASE Call(t, "close", NoId, NoNode, batch[t], ans[t], closing[t] \ {n})
    BY <2>1, <2>3, <1>a, CallTyped
  <2> QED
    BY <1>16, <2>2, <2>3 DEF CloseMailbox
<1>17. ASSUME NEW i \in Ids, DeadlinePasses(i)
       PROVE  CallsTyped'
  BY <1>17, <1>a DEF DeadlinePasses, callVars, CallsTyped
<1> QED
  BY <1>1, <1>2, <1>3, <1>4, <1>5, <1>6, <1>7, <1>8, <1>9, <1>10, <1>11,
     <1>12, <1>13, <1>14, <1>15, <1>16, <1>17 DEF Next, Begin, Continue

\* Second: the tree, the requests, the replies and the ThreadRequests.
LEMMA RestStep ==
  ASSUME TypeOK, CallOK, Next
  PROVE  RestTyped'
<1> USE ThreadRequestsAssumption DEF NoNode, NoId, OneWay
<1>a. RestTyped /\ Issued \subseteq Ids
  BY IssuedIds, TypeParts
<1>b. Unset \in Answers /\ Statuses \subseteq Answers /\ "Unreachable" \in Statuses
  BY DEF Answers, Statuses
<1>1. ASSUME NEW t \in Threads, NEW p \in Paths, Create(t, p)
      PROVE  RestTyped'
  <2>1. lastNode + 1 \in NodeIds
    BY <1>1, <1>a DEF Create, RestTyped, NodeIds
  <2> QED
    BY <1>1, <1>a, <2>1 DEF Create, RestTyped, requestVars, replyVars, holdVars
<1>2. ASSUME NEW t \in Threads, NEW p \in Paths,
             Remove(t, p) \/ Send(t, p) \/ Take(t, p) \/ RejectPendingFor(t, p)
      PROVE  RestTyped'
  BY <1>2, <1>a DEF Remove, Send, Take, RejectPendingFor, RestTyped, treeVars,
                    requestVars, replyVars, holdVars
<1>3. ASSUME NEW t \in Threads, NEW p \in Paths, Request(t, p)
      PROVE  RestTyped'
  <2>1. /\ lastId' = lastId + 1 /\ lastId + 1 \in Ids
        /\ dest' = [dest EXCEPT ![lastId + 1] = p]
        /\ lost' = lost \/ lost' = lost \cup {lastId + 1}
        /\ UNCHANGED <<treeVars, expired, dropped, held, deferred, verdict, seen>>
    BY <1>3 DEF Request
  <2>2. lastId' \in 0 .. MaxRequests
    BY <2>1, <1>a DEF RestTyped, Ids
  <2>4. lost' \subseteq Ids
    <3>1. lost \subseteq Ids
      BY <1>a DEF RestTyped
    <3> QED
      BY <2>1, <3>1
  <2>3. pending' \subseteq Ids /\ terminal' \subseteq Ids /\ reply' \in [Ids -> Answers]
    BY <1>3, <1>a, <1>b DEF Request, RestTyped, replyVars
  <2> QED
    BY <2>1, <2>2, <2>3, <2>4, <1>a DEF RestTyped, treeVars
<1>4. ASSUME NEW t \in Threads, NEW i \in Ids,
             Wait(t, i) \/ Cancel(t, i) \/ Defer(t, i)
      PROVE  RestTyped'
  BY <1>4, <1>a DEF Wait, Cancel, Defer, RestTyped, treeVars, requestVars,
                    replyVars, holdVars
<1>5. ASSUME NEW t \in Threads, NEW i \in Ids, Check(t, i)
      PROVE  RestTyped'
  <2>1. seen' \in [Ids -> SUBSET Answers]
    BY <1>5, CheckTyped
  <2> QED
    BY <1>5, <2>1, <1>a DEF Check, RestTyped, treeVars, requestVars, replyVars,
                            holdVars
<1>6. ASSUME NEW t \in Threads, WaitCheck(t)
      PROVE  RestTyped'
  BY <1>5, <1>6, <1>a DEF WaitCheck, CallOK
<1>7. ASSUME NEW t \in Threads, NEW i \in Ids,
             Reply(t, i) \/ Reject(t, i) \/ Drop(t, i)
      PROVE  RestTyped'
  <2>1. /\ Release(t, i)
        /\ UNCHANGED <<treeVars, requestVars, replyVars, expired, seen>>
    BY <1>7 DEF Reply, Reject, Drop
  <2>2. held' \in [Threads -> SUBSET Ids] /\ deferred' \subseteq Ids
    BY <2>1, <1>a DEF Release, RestTyped
  <2>3. /\ dropped' \in Nat /\ pending' \subseteq Ids
        /\ verdict' \in [Ids -> {"Ok", "Rejected", Unset}]
    <3>1. CASE \E a \in {"Ok", "Rejected"} : DeliverReply(t, i, a)
      BY <3>1, DeliverTyped
    <3>2. CASE UNCHANGED <<pending, dropped, callVars, verdict>>
      BY <3>2, <1>a DEF RestTyped
    <3> QED
      BY <1>7, <3>1, <3>2 DEF Reply, Reject, Drop
  <2>4. lost' \subseteq Ids
    <3>1. lost \subseteq Ids /\ (lost' = lost \/ lost' = lost \cup {i})
      BY <1>7, <1>a DEF Reply, Reject, Drop, RestTyped
    <3> QED
      BY <3>1
  <2> QED
    BY <2>1, <2>2, <2>3, <2>4, <1>a DEF RestTyped, treeVars, requestVars, replyVars
<1>8. ASSUME NEW t \in Threads, Shutdown(t) \/ ReceiveNothing(t) \/ Expire(t)
      PROVE  RestTyped'
  BY <1>8, <1>a DEF Shutdown, ReceiveNothing, Expire, RestTyped, treeVars,
                    requestVars, replyVars, holdVars
<1>9. ASSUME NEW t \in Threads, SendPost(t) \/ RequestPost(t)
      PROVE  RestTyped'
  <2>1. PICK m \in Ids \cup {OneWay} : PostTo(at[t], m)
    BY <1>9, <1>a DEF SendPost, RequestPost, CallOK
  <2>2. mailbox' \in [NodeIds -> Seq(Ids \cup {OneWay})]
    BY <2>1, <1>a, PostTyped DEF RestTyped
  <2>3. lost' \subseteq Ids
    <3>1. CASE SendPost(t)
      BY <3>1, <1>a DEF SendPost, holdVars, RestTyped
    <3>2. CASE RequestPost(t)
      <4>1. arg[t] \in Ids
        BY <3>2, <1>a, IssuedIds DEF RequestPost, CallOK
      <4>2. lost \subseteq Ids /\ (lost' = lost \/ lost' = lost \cup {arg[t]})
        BY <3>2, <1>a DEF RequestPost, RestTyped
      <4> QED
        BY <4>1, <4>2
    <3> QED
      BY <1>9, <3>1, <3>2
  <2> QED
    BY <1>9, <2>2, <2>3, <1>a DEF SendPost, RequestPost, RestTyped, requestVars,
                                  replyVars, holdVars
<1>10. ASSUME NEW t \in Threads, ReadReply(t)
       PROVE  RestTyped'
  <2>1. arg[t] \in Ids
    BY <1>10, <1>a DEF ReadReply, CallOK
  <2>2. seen' \in [Ids -> SUBSET Answers]
    BY <1>10, <2>1, <1>a DEF ReadReply, RestTyped
  <2> QED
    BY <1>10, <2>2, <1>a DEF ReadReply, RestTyped, treeVars, requestVars,
                             replyVars, holdVars
<1>11. ASSUME NEW t \in Threads, NEW i \in Ids, Publish(t, i)
       PROVE  RestTyped'
  <2>1. ans[t] \in Answers
    BY DEF TypeOK, CallsTyped
  <2>2. terminal' \subseteq Ids /\ reply' \in [Ids -> Answers]
    BY <1>11, <2>1, <1>a DEF Publish, RestTyped
  <2> QED
    BY <1>11, <2>2, <1>a DEF Publish, RestTyped, treeVars, requestVars, holdVars
<1>12. ASSUME NEW t \in Threads, Receive(t)
       PROVE  RestTyped'
  <2>1. at[t] \in NodeIds /\ mailbox[at[t]] \in Seq(Ids \cup {OneWay}) /\ mailbox[at[t]] # <<>>
    BY <1>12, <1>a DEF Receive, CallOK, RestTyped
  <2>2. /\ Head(mailbox[at[t]]) \in Ids \cup {OneWay}
        /\ Tail(mailbox[at[t]]) \in Seq(Ids \cup {OneWay})
    BY <2>1
  <2>3. mailbox' \in [NodeIds -> Seq(Ids \cup {OneWay})]
    BY <1>12, <2>1, <2>2, <1>a DEF Receive, RestTyped
  <2>4. held' \in [Threads -> SUBSET Ids]
    BY <1>12, <2>2, <1>a DEF Receive, RestTyped
  <2> QED
    BY <1>12, <2>3, <2>4, <1>a DEF Receive, RestTyped, requestVars, replyVars
<1>13. ASSUME NEW t \in Threads, NEW n \in NodeIds, CloseMailbox(t, n)
       PROVE  RestTyped'
  BY <1>13, <1>a DEF CloseMailbox, RestTyped, requestVars, replyVars, holdVars
<1>14. ASSUME NEW i \in Ids, DeadlinePasses(i)
       PROVE  RestTyped'
  BY <1>14, <1>a DEF DeadlinePasses, RestTyped, treeVars, requestVars,
                     replyVars, holdVars
<1>15. ASSUME NEW t \in Threads, NEW i \in Ids, Poll(t, i)
       PROVE  RestTyped'
  BY <1>5, <1>15 DEF Poll
<1> QED
  BY <1>1, <1>2, <1>3, <1>4, <1>6, <1>7, <1>8, <1>9, <1>10, <1>11, <1>12,
     <1>13, <1>14, <1>15 DEF Next, Begin, Continue

LEMMA TypeStep ==
  ASSUME TypeOK, CallOK, [Next]_vars
  PROVE  TypeOK'
<1>1. CASE Next
  <2>1. RestTyped' /\ CallsTyped'
    BY <1>1, CallsStep, RestStep
  <2> QED
    BY <2>1 DEF TypeOK, RestTyped
<1>2. CASE UNCHANGED vars
  BY <1>2 DEF vars, treeVars, requestVars, replyVars, holdVars, callVars,
              TypeOK, CallsTyped
<1> QED
  BY <1>1, <1>2

-----------------------------------------------------------------------------
(* Calls in progress. *)

\* A call that goes on with locals its label allows keeps CallOK.
LEMMA CallKeeps ==
  ASSUME TypeOK, CallOK, Issued \subseteq Issued',
         NEW t \in Threads, NEW label, NEW i, NEW n, NEW ids, NEW a, NEW ns,
         Call(t, label, i, n, ids, a, ns),
         i \in Issued' \cup {NoId},
         label \in {"post", "wait", "expire", "read"} => i \in Issued',
         label \in {"post", "send", "take"} => n \in NodeIds,
         ids # {} => label \in {"publish", "close"}
  PROVE  CallOK'
<1>1. ASSUME NEW u \in Threads \ {t}
      PROVE  /\ pc'[u] = pc[u] /\ arg'[u] = arg[u]
             /\ at'[u] = at[u] /\ batch'[u] = batch[u]
  BY DEF Call, TypeOK, CallsTyped
<1>2. pc'[t] = label /\ arg'[t] = i /\ at'[t] = n /\ batch'[t] = ids
  BY DEF Call, TypeOK, CallsTyped
<1> QED
  BY <1>1, <1>2 DEF CallOK

LEMMA ReturnKeeps ==
  ASSUME TypeOK, CallOK, Issued \subseteq Issued', NEW t \in Threads, Return(t)
  PROVE  CallOK'
<1>1. Call(t, "idle", NoId, NoNode, {}, Unset, {})
  BY DEF Return
<1> QED
  BY <1>1, CallKeeps

LEMMA PublishingKeeps ==
  ASSUME TypeOK, CallOK, Issued \subseteq Issued', NEW t \in Threads,
         NEW ids, NEW a, NEW i \in Issued \cup {NoId}, Publishing(t, ids, a, i)
  PROVE  CallOK'
<1>1. CASE ids # {}
  <2>1. Call(t, "publish", i, NoNode, ids, a, {})
    BY <1>1 DEF Publishing
  <2> QED
    BY <2>1, CallKeeps
<1>2. CASE ids = {} /\ i # NoId
  <2>1. Call(t, "read", i, NoNode, {}, Unset, {})
    BY <1>2 DEF Publishing
  <2> QED
    BY <1>2, <2>1, CallKeeps
<1>3. CASE ids = {} /\ i = NoId
  BY <1>3, ReturnKeeps DEF Publishing
<1> QED
  BY <1>1, <1>2, <1>3

LEMMA CheckKeeps ==
  ASSUME TypeOK, CallOK, NEW t \in Threads, NEW i \in Issued, Check(t, i)
  PROVE  CallOK'
<1>1. Issued' = Issued
  BY DEF Check, requestVars, Issued
<1>2. CASE Return(t)
  BY <1>1, <1>2, ReturnKeeps
<1>3. CASE Call(t, "expire", i, NoNode, {}, Unset, {})
  BY <1>1, <1>3, CallKeeps
<1> QED
  BY <1>2, <1>3 DEF Check

\* An action that leaves the calls in progress and the ids alone.
LEMMA QuietKeeps ==
  ASSUME CallOK, UNCHANGED <<callVars, lastId>>
  PROVE  CallOK'
  BY DEF CallOK, callVars, Issued

LEMMA CallStep ==
  ASSUME TypeOK, CallOK, [Next]_vars
  PROVE  CallOK'
<1>a. \A t \in Threads, p \in Paths : nodes[p] # NoNode => nodes[p] \in NodeIds
  BY DEF TypeOK
<1>1. ASSUME NEW t \in Threads, NEW p \in Paths, Create(t, p)
      PROVE  CallOK'
  BY <1>1, QuietKeeps DEF Create, requestVars
<1>2. ASSUME NEW t \in Threads, NEW p \in Paths,
             Remove(t, p) \/ Send(t, p) \/ Take(t, p)
      PROVE  CallOK'
  <2>1. Issued' = Issued
    BY <1>2 DEF Remove, Send, Take, requestVars, Issued
  <2>2. CASE Call(t, "close", NoId, NoNode, {}, Unset, {nodes[p]})
    BY <2>1, <2>2, CallKeeps
  <2>3. CASE nodes[p] # NoNode /\ Call(t, "send", NoId, nodes[p], {}, Unset, {})
    BY <2>1, <2>3, <1>a, CallKeeps
  <2>4. CASE nodes[p] # NoNode /\ Call(t, "take", NoId, nodes[p], {}, Unset, {})
    BY <2>1, <2>4, <1>a, CallKeeps
  <2> QED
    BY <1>2, <2>2, <2>3, <2>4 DEF Remove, Send, Take
<1>3. ASSUME NEW t \in Threads, NEW p \in Paths, Request(t, p)
      PROVE  CallOK'
  <2>1. lastId' = lastId + 1 /\ lastId \in Nat
    BY <1>3, ThreadRequestsAssumption DEF Request, TypeOK
  <2>2. Issued \subseteq Issued' /\ lastId + 1 \in Issued'
    BY <2>1 DEF Issued
  <2>3. CASE nodes[p] # NoNode /\ Call(t, "post", lastId + 1, nodes[p], {}, Unset, {})
    BY <2>2, <2>3, <1>a, CallKeeps
  <2>4. CASE UNCHANGED callVars
    BY <2>2, <2>4 DEF CallOK, callVars
  <2> QED
    BY <1>3, <2>3, <2>4 DEF Request
<1>4. ASSUME NEW t \in Threads, NEW p \in Paths, RejectPendingFor(t, p)
      PROVE  CallOK'
  <2>1. Publishing(t, {i \in pending : dest[i] = p}, "Unreachable", NoId) /\ Issued' = Issued
    BY <1>4 DEF RejectPendingFor, requestVars, Issued
  <2> QED
    BY <2>1, PublishingKeeps
<1>5. ASSUME NEW t \in Threads, NEW i \in Ids, Wait(t, i)
      PROVE  CallOK'
  <2>1. /\ Call(t, "wait", i, NoNode, {}, Unset, {}) /\ i \in Issued
        /\ Issued' = Issued
    BY <1>5 DEF Wait, Returned, requestVars, Issued
  <2> QED
    BY <2>1, CallKeeps
<1>6. ASSUME NEW t \in Threads, NEW i \in Ids, Poll(t, i)
      PROVE  CallOK'
  BY <1>6, CheckKeeps DEF Poll, Returned
<1>7. ASSUME NEW t \in Threads, WaitCheck(t)
      PROVE  CallOK'
  <2>1. arg[t] \in Issued
    BY <1>7 DEF WaitCheck, CallOK
  <2> QED
    BY <1>7, <2>1, CheckKeeps DEF WaitCheck
<1>8. ASSUME NEW t \in Threads, NEW i \in Ids, Cancel(t, i)
      PROVE  CallOK'
  <2>1. Publishing(t, {i}, "Cancelled", NoId) /\ Issued' = Issued
    BY <1>8 DEF Cancel, requestVars, Issued
  <2> QED
    BY <2>1, PublishingKeeps
<1>9. ASSUME NEW t \in Threads, NEW i \in Ids,
             Reply(t, i) \/ Reject(t, i) \/ Drop(t, i)
      PROVE  CallOK'
  <2>1. Issued' = Issued /\ lastId' = lastId
    BY <1>9 DEF Reply, Reject, Drop, requestVars, Issued
  <2>2. CASE \E a \in {"Ok", "Rejected"} : DeliverReply(t, i, a)
    BY <2>1, <2>2, PublishingKeeps DEF DeliverReply
  <2>3. CASE UNCHANGED callVars
    BY <2>1, <2>3, QuietKeeps
  <2> QED
    BY <1>9, <2>2, <2>3 DEF Reply, Reject, Drop
<1>10. ASSUME NEW t \in Threads, NEW i \in Ids, Defer(t, i)
       PROVE  CallOK'
  BY <1>10, QuietKeeps DEF Defer, requestVars
<1>11. ASSUME NEW t \in Threads, Shutdown(t)
       PROVE  CallOK'
  <2>1. /\ Call(t, "close", NoId, NoNode, pending, "Unreachable",
                {nodes[p] : p \in Paths} \ {NoNode})
        /\ Issued' = Issued
    BY <1>11 DEF Shutdown, requestVars, Issued
  <2> QED
    BY <2>1, CallKeeps
<1>12. ASSUME NEW t \in Threads,
              SendPost(t) \/ RequestPost(t) \/ ReadReply(t) \/ Receive(t)
              \/ ReceiveNothing(t)
       PROVE  CallOK'
  <2>1. Return(t) /\ Issued' = Issued
    BY <1>12 DEF SendPost, RequestPost, ReadReply, Receive, ReceiveNothing,
                 requestVars, Issued
  <2> QED
    BY <2>1, ReturnKeeps
<1>13. ASSUME NEW t \in Threads, Expire(t)
       PROVE  CallOK'
  <2>1. Publishing(t, Claim(arg[t]), "Timeout", arg[t]) /\ Issued' = Issued
    BY <1>13 DEF Expire, requestVars, Issued
  <2>2. arg[t] \in Issued
    BY <1>13 DEF Expire, CallOK
  <2> QED
    BY <2>1, <2>2, PublishingKeeps
<1>14. ASSUME NEW t \in Threads, NEW i \in Ids, Publish(t, i)
       PROVE  CallOK'
  <2>1. Publishing(t, batch[t] \ {i}, ans[t], arg[t]) /\ Issued' = Issued
    BY <1>14 DEF Publish, requestVars, Issued
  <2>2. arg[t] \in Issued \cup {NoId}
    BY DEF CallOK
  <2> QED
    BY <2>1, <2>2, PublishingKeeps
<1>15. ASSUME NEW t \in Threads, NEW n \in NodeIds, CloseMailbox(t, n)
       PROVE  CallOK'
  <2>1. Issued' = Issued
    BY <1>15 DEF CloseMailbox, requestVars, Issued
  <2>2. CASE Publishing(t, batch[t], ans[t], NoId)
    BY <2>1, <2>2, PublishingKeeps
  <2>3. CASE Call(t, "close", NoId, NoNode, batch[t], ans[t], closing[t] \ {n})
    BY <2>1, <2>3, CallKeeps
  <2> QED
    BY <1>15, <2>2, <2>3 DEF CloseMailbox
<1>16. ASSUME NEW i \in Ids, DeadlinePasses(i)
       PROVE  CallOK'
  BY <1>16, QuietKeeps DEF DeadlinePasses, requestVars
<1>17. CASE UNCHANGED vars
  BY <1>17, QuietKeeps DEF vars, requestVars
<1> QED
  BY <1>1, <1>2, <1>3, <1>4, <1>5, <1>6, <1>7, <1>8, <1>9, <1>10, <1>11,
     <1>12, <1>13, <1>14, <1>15, <1>16, <1>17 DEF Next, Begin, Continue

-----------------------------------------------------------------------------
(* One winner. *)

\* What the three ways on do to the batches.
LEMMA BatchAfter ==
  ASSUME TypeOK, NEW t \in Threads, NEW label, NEW i, NEW n, NEW ids, NEW a,
         NEW ns,
         Call(t, label, i, n, ids, a, ns) \/ Publishing(t, ids, a, i)
  PROVE  batch' = [batch EXCEPT ![t] = ids]
  BY DEF Call, Publishing, Return

\* A thread that is between calls, or in a call that erases one entry, holds no
\* batch: ending or continuing such a call loses no request.
LEMMA NoBatch ==
  ASSUME TypeOK, CallOK, NEW t \in Threads, pc[t] \notin {"publish", "close"}
  PROVE  batch[t] = {} /\ batch = [batch EXCEPT ![t] = {}]
  BY DEF TypeOK, CallsTyped, CallOK

\* A call that holds nothing goes on without taking anything.
LEMMA EmptyHanded ==
  ASSUME TypeOK, CallOK, NEW t \in Threads, pc[t] \notin {"publish", "close"},
         NEW label, NEW i, NEW n, NEW a, NEW ns, Call(t, label, i, n, {}, a, ns)
  PROVE  batch' = batch
  BY BatchAfter, NoBatch

\* A step that moves no request.
LEMMA WinnerQuiet ==
  ASSUME OneWinner, UNCHANGED <<lastId, pending, terminal, batch>>
  PROVE  OneWinner'
  BY DEF OneWinner, Issued

\* A thread that holds nothing takes requests out of pending_.
LEMMA WinnerClaim ==
  ASSUME TypeOK, OneWinner, NEW t \in Threads, batch[t] = {},
         NEW V \in SUBSET pending,
         pending' = pending \ V, batch' = [batch EXCEPT ![t] = V],
         UNCHANGED <<lastId, terminal>>
  PROVE  OneWinner'
<1>1. batch'[t] = V /\ \A u \in Threads \ {t} : batch'[u] = batch[u]
  BY DEF TypeOK, CallsTyped
<1>2. Issued' = Issued
  BY DEF Issued
<1>3. \A i \in Issued : i \in pending' \cup terminal' \/ \E u \in Threads : i \in batch'[u]
  BY <1>1 DEF OneWinner
<1> QED
  BY <1>1, <1>2, <1>3 DEF OneWinner

\* A thread publishes one of the requests it holds.
LEMMA WinnerPublish ==
  ASSUME TypeOK, OneWinner, NEW t \in Threads, NEW i \in batch[t],
         terminal' = terminal \cup {i},
         batch' = [batch EXCEPT ![t] = @ \ {i}],
         UNCHANGED <<lastId, pending>>
  PROVE  OneWinner'
<1>1. /\ batch'[t] = batch[t] \ {i}
      /\ \A u \in Threads \ {t} : batch'[u] = batch[u]
  BY DEF TypeOK, CallsTyped
<1>2. Issued' = Issued
  BY DEF Issued
<1> QED
  BY <1>1, <1>2 DEF OneWinner

\* A new request is either pending or already resolved.
LEMMA WinnerIssue ==
  ASSUME TypeOK, OneWinner, lastId' = lastId + 1, UNCHANGED batch,
         \/ pending' = pending \cup {lastId + 1} /\ UNCHANGED terminal
         \/ terminal' = terminal \cup {lastId + 1} /\ UNCHANGED pending
  PROVE  OneWinner'
<1>1. lastId \in Nat
  BY ThreadRequestsAssumption DEF TypeOK
<1>2. Issued' = Issued \cup {lastId + 1} /\ lastId + 1 \notin Issued
  BY <1>1 DEF Issued
<1> QED
  BY <1>2 DEF OneWinner

LEMMA WinnerStep ==
  ASSUME TypeOK, CallOK, OneWinner, [Next]_vars
  PROVE  OneWinner'
<1> USE DEF requestVars, replyVars
<1>1. ASSUME NEW t \in Threads, NEW p \in Paths,
             Create(t, p) \/ Send(t, p) \/ Take(t, p) \/ Remove(t, p)
      PROVE  OneWinner'
  <2>1. batch' = batch
    BY <1>1, EmptyHanded DEF Create, Send, Take, Remove, callVars
  <2> QED
    BY <1>1, <2>1, WinnerQuiet DEF Create, Send, Take, Remove
<1>2. ASSUME NEW t \in Threads, NEW p \in Paths, Request(t, p)
      PROVE  OneWinner'
  <2>1. batch' = batch
    BY <1>2, EmptyHanded DEF Request, callVars
  <2> QED
    BY <1>2, <2>1, WinnerIssue DEF Request
<1>3. ASSUME NEW t \in Threads, NEW p \in Paths, RejectPendingFor(t, p)
      PROVE  OneWinner'
  <2> DEFINE V == {i \in pending : dest[i] = p}
  <2>1. batch' = [batch EXCEPT ![t] = V] /\ batch[t] = {}
    BY <1>3, BatchAfter, NoBatch DEF RejectPendingFor
  <2> QED
    BY <1>3, <2>1, WinnerClaim DEF RejectPendingFor
<1>4. ASSUME NEW t \in Threads, NEW i \in Ids,
             Wait(t, i) \/ Poll(t, i) \/ Defer(t, i)
      PROVE  OneWinner'
  <2>1. batch' = batch
    BY <1>4, EmptyHanded DEF Wait, Poll, Check, Defer, Return, callVars
  <2> QED
    BY <1>4, <2>1, WinnerQuiet DEF Wait, Poll, Check, Defer
<1>5. ASSUME NEW t \in Threads,
             WaitCheck(t) \/ SendPost(t) \/ RequestPost(t) \/ ReadReply(t)
             \/ Receive(t) \/ ReceiveNothing(t)
      PROVE  OneWinner'
  <2>1. batch' = batch
    BY <1>5, EmptyHanded
    DEF WaitCheck, Check, SendPost, RequestPost, ReadReply, Receive,
        ReceiveNothing, Return
  <2> QED
    BY <1>5, <2>1, WinnerQuiet DEF WaitCheck, Check, SendPost, RequestPost,
                                   ReadReply, Receive, ReceiveNothing
<1>6. ASSUME NEW t \in Threads, NEW i \in Ids, Cancel(t, i)
      PROVE  OneWinner'
  <2>1. batch' = [batch EXCEPT ![t] = {i}] /\ batch[t] = {} /\ {i} \in SUBSET pending
    BY <1>6, BatchAfter, NoBatch DEF Cancel
  <2> QED
    BY <1>6, <2>1, WinnerClaim DEF Cancel
<1>7. ASSUME NEW t \in Threads, NEW i \in Ids, NEW a, pc[t] = "idle",
             DeliverReply(t, i, a), UNCHANGED <<requestVars, replyVars>>
      PROVE  OneWinner'
  <2>1. batch' = [batch EXCEPT ![t] = Claim(i)] /\ batch[t] = {}
    BY <1>7, BatchAfter, NoBatch DEF DeliverReply
  <2>2. Claim(i) \in SUBSET pending /\ pending' = pending \ Claim(i)
    BY <1>7 DEF DeliverReply, Claim
  <2> QED
    BY <1>7, <2>1, <2>2, WinnerClaim
<1>8. ASSUME NEW t \in Threads, NEW i \in Ids,
             Reply(t, i) \/ Reject(t, i) \/ Drop(t, i)
      PROVE  OneWinner'
  <2>1. CASE \E a \in {"Ok", "Rejected"} : DeliverReply(t, i, a)
    BY <1>7, <1>8, <2>1 DEF Reply, Reject, Drop
  <2>2. CASE UNCHANGED <<pending, callVars>>
    BY <1>8, <2>2, WinnerQuiet DEF Reply, Reject, Drop, callVars
  <2> QED
    BY <1>8, <2>1, <2>2 DEF Reply, Reject, Drop
<1>9. ASSUME NEW t \in Threads, Shutdown(t)
      PROVE  OneWinner'
  <2>1. batch' = [batch EXCEPT ![t] = pending] /\ batch[t] = {}
    BY <1>9, BatchAfter, NoBatch DEF Shutdown
  <2>2. pending' = pending \ pending /\ UNCHANGED <<lastId, terminal>>
    BY <1>9 DEF Shutdown
  <2> QED
    BY <2>1, <2>2, WinnerClaim
<1>10. ASSUME NEW t \in Threads, Expire(t)
       PROVE  OneWinner'
  <2>1. batch' = [batch EXCEPT ![t] = Claim(arg[t])] /\ batch[t] = {}
    BY <1>10, BatchAfter, NoBatch DEF Expire
  <2>2. Claim(arg[t]) \in SUBSET pending /\ pending' = pending \ Claim(arg[t])
    BY <1>10 DEF Expire, Claim
  <2> QED
    BY <1>10, <2>1, <2>2, WinnerClaim DEF Expire
<1>11. ASSUME NEW t \in Threads, NEW i \in Ids, Publish(t, i)
       PROVE  OneWinner'
  <2>1. batch' = [batch EXCEPT ![t] = @ \ {i}]
    BY <1>11, BatchAfter DEF Publish
  <2> QED
    BY <1>11, <2>1, WinnerPublish DEF Publish
<1>12. ASSUME NEW t \in Threads, NEW n \in NodeIds, CloseMailbox(t, n)
       PROVE  OneWinner'
  <2>1. batch' = [batch EXCEPT ![t] = batch[t]]
    BY <1>12, BatchAfter DEF CloseMailbox
  <2>2. batch' = batch
    BY <2>1 DEF TypeOK, CallsTyped
  <2> QED
    BY <1>12, <2>2, WinnerQuiet DEF CloseMailbox
<1>13. ASSUME NEW i \in Ids, DeadlinePasses(i)
       PROVE  OneWinner'
  BY <1>13, WinnerQuiet DEF DeadlinePasses, callVars
<1>14. CASE UNCHANGED vars
  BY <1>14, WinnerQuiet DEF vars, callVars
<1> QED
  BY <1>1, <1>2, <1>3, <1>4, <1>5, <1>6, <1>8, <1>9, <1>10, <1>11, <1>12,
     <1>13, <1>14 DEF Next, Begin, Continue

-----------------------------------------------------------------------------
(* The theorems. *)

LEMMA InitIInv == Init => IInv
<1> SUFFICES ASSUME Init PROVE IInv
  OBVIOUS
<1> USE ThreadRequestsAssumption DEF Init
<1>1. TypeOK
  BY DEF TypeOK, CallsTyped, NodeIds, NoNode, NoId, Ids, Labels, Answers,
         Statuses, Unset
<1>2. Issued = {}
  BY DEF Issued
<1>3. CallOK
  BY DEF CallOK
<1>4. OneWinner
  BY <1>2 DEF OneWinner
<1> QED
  BY <1>1, <1>3, <1>4 DEF IInv

\* IInv is an inductive invariant of the specification.
THEOREM Inductive == Spec => []IInv
<1>1. IInv /\ [Next]_vars => IInv'
  BY TypeStep, CallStep, WinnerStep DEF IInv
<1> QED
  BY InitIInv, <1>1, PTL DEF Spec

\* ThreadTree's maps, handles and the progress of every call keep their types,
\* whatever the number of threads, paths, requests and nodes.
THEOREM TypeCorrect == Spec => []TypeOK
<1>1. IInv => TypeOK
  BY DEF IInv
<1> QED
  BY Inductive, <1>1, PTL

\* Every issued request is pending, or held by exactly one resolving thread, or
\* resolved: the erase under the tree mutex picks one winner, for any number of
\* threads replying, expiring, cancelling, rejecting and shutting down at once.
THEOREM OneWinnerAlways == Spec => []OneWinner
<1>1. IInv => OneWinner
  BY DEF IInv
<1> QED
  BY Inductive, <1>1, PTL

-----------------------------------------------------------------------------
(* The fates of the requests: what is decided, and by whom. *)

\* The three places where an issued request is, and its fate there.
FateTable ==
  \A i \in Ids :
    /\ i \notin Issued => Fate(i) = "unissued"
    /\ i \in pending => Fate(i) = "open"
    /\ i \in terminal => Fate(i) = reply[i]
    /\ \A t \in Threads : i \in batch[t] => Fate(i) = ans[t]
    /\ i \in Issued \ pending => Fate(i) \in Answers
    /\ Fate(i) = "unissued" => i \notin Issued
    /\ Fate(i) = "open" => i \in pending

LEMMA FateIs == TypeOK /\ OneWinner => FateTable
<1> SUFFICES ASSUME TypeOK, OneWinner, NEW i \in Ids
             PROVE  /\ i \notin Issued => Fate(i) = "unissued"
                    /\ i \in pending => Fate(i) = "open"
                    /\ i \in terminal => Fate(i) = reply[i]
                    /\ \A t \in Threads : i \in batch[t] => Fate(i) = ans[t]
                    /\ i \in Issued \ pending => Fate(i) \in Answers
                    /\ Fate(i) = "unissued" => i \notin Issued
                    /\ Fate(i) = "open" => i \in pending
  BY DEF FateTable
<1>1. "unissued" \notin Answers /\ "open" \notin Answers
  BY DEF Answers, Statuses, Unset
<1>2. CASE i \notin Issued
  <2>1. i \notin pending \cup terminal /\ \A t \in Threads : i \notin batch[t]
    BY <1>2 DEF OneWinner
  <2> QED
    BY <1>2, <2>1 DEF Fate
<1>3. CASE i \in pending
  <2>1. i \in Issued /\ i \notin terminal /\ \A t \in Threads : i \notin batch[t]
    BY <1>3 DEF OneWinner
  <2> QED
    BY <1>3, <2>1 DEF Fate
<1>4. CASE i \in terminal
  <2>1. i \in Issued /\ i \notin pending /\ \A t \in Threads : i \notin batch[t]
    BY <1>4 DEF OneWinner
  <2>2. reply[i] \in Answers
    BY DEF TypeOK
  <2> QED
    BY <1>1, <1>4, <2>1, <2>2 DEF Fate, Outcome
<1>5. ASSUME NEW t \in Threads, i \in batch[t]
      PROVE  Fate(i) = ans[t] /\ i \in Issued \ (pending \cup terminal)
  <2>1. i \in Issued \ (pending \cup terminal) /\ \A u \in Threads : i \in batch[u] => u = t
    BY <1>5 DEF OneWinner
  <2>2. (CHOOSE u \in Threads : i \in batch[u]) = t
    BY <1>5, <2>1
  <2> QED
    BY <1>5, <2>1, <2>2 DEF Fate, Outcome
<1>6. CASE \E t \in Threads : i \in batch[t]
  <2>1. PICK t \in Threads : i \in batch[t]
    BY <1>6
  <2>2. ans[t] \in Answers
    BY DEF TypeOK, CallsTyped
  <2> QED
    BY <1>1, <1>5, <2>1, <2>2
<1> QED
  BY <1>2, <1>3, <1>4, <1>6 DEF OneWinner

LEMMA FateNext ==
  ASSUME TypeOK', OneWinner'
  PROVE  FateTable'
  BY FateIs, PTL

\* Deciding: thread t takes the requests of V out of pending_ with the answer a.
Decides(t, V, a) ==
  /\ V \subseteq pending /\ pending' = pending \ V
  /\ batch[t] = {} /\ batch'[t] = V /\ (V # {} => ans'[t] = a)
  /\ \A u \in Threads \ {t} : batch'[u] = batch[u] /\ ans'[u] = ans[u]
  /\ UNCHANGED <<lastId, terminal, reply>>

\* A step that decides nothing.
Settled ==
  /\ UNCHANGED <<lastId, pending, terminal, reply, batch>>
  /\ \A t \in Threads : batch[t] # {} => ans'[t] = ans[t]

LEMMA DecidesFate ==
  ASSUME TypeOK, OneWinner, TypeOK', OneWinner',
         NEW t \in Threads, NEW V, NEW a, Decides(t, V, a)
  PROVE  \A i \in Ids : Fate(i)' = IF i \in V THEN a ELSE Fate(i)
<1> SUFFICES ASSUME NEW i \in Ids
             PROVE  Fate(i)' = IF i \in V THEN a ELSE Fate(i)
  OBVIOUS
<1>1. FateTable /\ FateTable'
  BY FateIs, FateNext
<1>2. Issued' = Issued
  BY DEF Decides, Issued
<1>3. CASE i \in V
  BY <1>1, <1>3 DEF Decides, FateTable
<1>4. CASE i \notin V /\ i \in batch'[t]
  BY <1>4 DEF Decides
<1>5. CASE i \notin V /\ i \notin batch'[t]
  <2>1. i \in pending' <=> i \in pending
    BY <1>5 DEF Decides
  <2>2. ASSUME NEW u \in Threads, i \in batch[u]
        PROVE  Fate(i)' = Fate(i)
    BY <1>1, <2>2 DEF Decides, FateTable
  <2> QED
    BY <1>1, <1>2, <1>5, <2>1, <2>2 DEF Decides, FateTable, OneWinner
<1> QED
  BY <1>3, <1>4, <1>5

LEMMA SettledFate ==
  ASSUME TypeOK, OneWinner, TypeOK', OneWinner', Settled
  PROVE  \A i \in Ids : Fate(i)' = Fate(i)
<1> SUFFICES ASSUME NEW i \in Ids
             PROVE  Fate(i)' = Fate(i)
  OBVIOUS
<1>1. FateTable /\ FateTable'
  BY FateIs, FateNext
<1>2. Issued' = Issued
  BY DEF Settled, Issued
<1>3. ASSUME NEW u \in Threads, i \in batch[u]
      PROVE  Fate(i)' = Fate(i)
  BY <1>1, <1>3 DEF Settled, FateTable
<1> QED
  BY <1>1, <1>2, <1>3 DEF Settled, FateTable, OneWinner

LEMMA PublishFate ==
  ASSUME TypeOK, CallOK, OneWinner, TypeOK', OneWinner',
         NEW t \in Threads, NEW j \in Ids, Publish(t, j)
  PROVE  \A i \in Ids : Fate(i)' = Fate(i)
<1> SUFFICES ASSUME NEW i \in Ids
             PROVE  Fate(i)' = Fate(i)
  OBVIOUS
<1>1. FateTable /\ FateTable'
  BY FateIs, FateNext
<1>2. Issued' = Issued /\ UNCHANGED pending
  BY DEF Publish, requestVars, Issued
<1>3. /\ j \in batch[t] /\ j \notin terminal
      /\ terminal' = terminal \cup {j} /\ reply' = [reply EXCEPT ![j] = ans[t]]
  BY DEF Publish, OneWinner
<1>4. /\ batch'[t] = batch[t] \ {j}
      /\ batch[t] # {j} => ans'[t] = ans[t]
      /\ \A u \in Threads \ {t} : batch'[u] = batch[u] /\ ans'[u] = ans[u]
  <2>1. Publishing(t, batch[t] \ {j}, ans[t], arg[t])
    BY DEF Publish
  <2>2. batch' = [batch EXCEPT ![t] = batch[t] \ {j}]
    BY <2>1, BatchAfter
  <2>3. \E a : ans' = [ans EXCEPT ![t] = a]
    BY <2>1 DEF Publishing, Call, Return
  <2>4. batch[t] # {j} => ans' = [ans EXCEPT ![t] = ans[t]]
    BY <1>3, <2>1 DEF Publishing, Call
  <2> QED
    BY <2>2, <2>3, <2>4 DEF TypeOK, CallsTyped
<1>5. CASE i = j
  BY <1>1, <1>3, <1>5 DEF FateTable, TypeOK
<1>6. CASE i # j
  <2>1. reply'[i] = reply[i] /\ (i \in terminal' <=> i \in terminal)
    BY <1>3, <1>6 DEF TypeOK
  <2>2. ASSUME NEW u \in Threads, i \in batch[u]
        PROVE  Fate(i)' = Fate(i)
    <3>1. i \in batch'[u] /\ ans'[u] = ans[u]
      BY <1>3, <1>4, <1>6, <2>2
    <3> QED
      BY <1>1, <2>2, <3>1 DEF FateTable
  <2> QED
    BY <1>1, <1>2, <2>1, <2>2 DEF FateTable, OneWinner
<1> QED
  BY <1>5, <1>6

\* A call that holds nothing goes on, and decides nothing.
LEMMA CallSettled ==
  ASSUME TypeOK, CallOK, NEW t \in Threads, pc[t] \notin {"publish", "close"},
         NEW label, NEW i, NEW n, NEW a, NEW ns, Call(t, label, i, n, {}, a, ns),
         UNCHANGED <<lastId, pending, terminal, reply>>
  PROVE  Settled
<1>1. batch' = batch /\ batch[t] = {}
  BY EmptyHanded, NoBatch
<1>2. \A u \in Threads \ {t} : ans'[u] = ans[u]
  BY DEF Call, TypeOK, CallsTyped
<1> QED
  BY <1>1, <1>2 DEF Settled

LEMMA ReturnSettled ==
  ASSUME TypeOK, CallOK, NEW t \in Threads, pc[t] \notin {"publish", "close"}, Return(t),
         UNCHANGED <<lastId, pending, terminal, reply>>
  PROVE  Settled
  BY CallSettled DEF Return

LEMMA PublishingDecides ==
  ASSUME TypeOK, CallOK, NEW t \in Threads, pc[t] \notin {"publish", "close"},
         NEW V \in SUBSET pending, NEW a, NEW i, Publishing(t, V, a, i),
         pending' = pending \ V, UNCHANGED <<lastId, terminal, reply>>
  PROVE  Decides(t, V, a)
<1>1. batch' = [batch EXCEPT ![t] = V] /\ batch[t] = {}
  BY BatchAfter, NoBatch
<1>2. \A u \in Threads \ {t} : ans'[u] = ans[u]
  BY DEF Publishing, Call, Return, TypeOK, CallsTyped
<1>3. V # {} => ans'[t] = a
  BY DEF Publishing, Call, TypeOK, CallsTyped
<1> QED
  BY <1>1, <1>2, <1>3 DEF Decides, TypeOK, CallsTyped

\* A responder's answer: it decides the request if that is still pending.
Delivers(t, i, a) ==
  /\ i \in held[t] /\ Decides(t, Claim(i), a)
  /\ verdict' = [verdict EXCEPT ![i] = a]
  /\ dropped' = IF i \in pending THEN dropped ELSE dropped + 1
  /\ UNCHANGED expired

\* Another end of the requests of V, with the answer a.
Closes(t, V, a) ==
  /\ Decides(t, V, a) /\ UNCHANGED <<verdict, dropped, expired>>
  /\ \/ a = "Timeout" /\ V = Claim(arg[t]) /\ pc[t] = "expire"
     \/ a = "Cancelled" /\ \E i \in pending : V = {i}
     \/ a = "Unreachable"

\* The kinds of steps, as far as the fates of requests are concerned.
FateStep ==
  \/ /\ Settled \/ \E t \in Threads, i \in Ids : Publish(t, i)
     /\ UNCHANGED <<verdict, dropped, expired>>
  \/ \E t \in Threads, p \in Paths : Request(t, p)
  \/ \E t \in Threads, i \in Ids, a \in {"Ok", "Rejected"} : Delivers(t, i, a)
  \/ \E t \in Threads, V \in SUBSET pending, a \in Statuses : Closes(t, V, a)
  \/ \E i \in Ids : DeadlinePasses(i)

LEMMA StepFates ==
  ASSUME TypeOK, CallOK, [Next]_vars
  PROVE  FateStep
<1> USE DEF requestVars, replyVars, callVars
<1>1. ASSUME NEW t \in Threads, NEW p \in Paths,
             Create(t, p) \/ Send(t, p) \/ Take(t, p) \/ Remove(t, p)
      PROVE  FateStep
  <2>1. UNCHANGED <<lastId, pending, terminal, reply, verdict, dropped, expired>>
        /\ pc[t] = "idle"
    BY <1>1 DEF Create, Send, Take, Remove
  <2>2. CASE UNCHANGED callVars
    BY <2>1, <2>2 DEF FateStep, Settled
  <2>3. CASE \E label, n, ns : Call(t, label, NoId, n, {}, Unset, ns)
    BY <2>1, <2>3, CallSettled DEF FateStep
  <2> QED
    BY <1>1, <2>2, <2>3 DEF Create, Send, Take, Remove
<1>2. ASSUME NEW t \in Threads, NEW i \in Ids, Wait(t, i) \/ Defer(t, i)
      PROVE  FateStep
  <2>1. UNCHANGED <<lastId, pending, terminal, reply, verdict, dropped, expired>>
        /\ pc[t] = "idle"
    BY <1>2 DEF Wait, Defer
  <2>2. CASE UNCHANGED callVars
    BY <2>1, <2>2 DEF FateStep, Settled
  <2>3. CASE Call(t, "wait", i, NoNode, {}, Unset, {})
    BY <2>1, <2>3, CallSettled DEF FateStep
  <2> QED
    BY <1>2, <2>2, <2>3 DEF Wait, Defer
<1>3. ASSUME NEW t \in Threads, NEW i, Check(t, i), pc[t] \in {"idle", "wait"}
      PROVE  FateStep
  <2>1. UNCHANGED <<lastId, pending, terminal, reply, verdict, dropped, expired>>
        /\ pc[t] \notin {"publish", "close"}
    BY <1>3 DEF Check
  <2>2. Return(t) \/ Call(t, "expire", i, NoNode, {}, Unset, {})
    BY <1>3 DEF Check
  <2> QED
    BY <2>1, <2>2, ReturnSettled, CallSettled DEF FateStep
<1>4. ASSUME NEW t \in Threads,
             SendPost(t) \/ RequestPost(t) \/ ReadReply(t) \/ Receive(t) \/ ReceiveNothing(t)
      PROVE  FateStep
  <2>1. UNCHANGED <<lastId, pending, terminal, reply, verdict, dropped, expired>>
        /\ pc[t] \notin {"publish", "close"} /\ Return(t)
    BY <1>4 DEF SendPost, RequestPost, ReadReply, Receive, ReceiveNothing
  <2> QED
    BY <2>1, ReturnSettled DEF FateStep
<1>5. ASSUME NEW t \in Threads, NEW p \in Paths, RejectPendingFor(t, p)
      PROVE  FateStep
  <2> DEFINE V == {i \in pending : dest[i] = p}
  <2>1. Decides(t, V, "Unreachable")
    BY <1>5, PublishingDecides DEF RejectPendingFor
  <2>2. V \in SUBSET pending /\ "Unreachable" \in Statuses
    BY DEF Statuses
  <2> QED
    BY <1>5, <2>1, <2>2 DEF RejectPendingFor, FateStep, Closes
<1>6. ASSUME NEW t \in Threads, NEW i \in Ids, Cancel(t, i)
      PROVE  FateStep
  <2>1. Decides(t, {i}, "Cancelled") /\ {i} \in SUBSET pending /\ "Cancelled" \in Statuses
    BY <1>6, PublishingDecides DEF Cancel, Statuses
  <2> QED
    BY <1>6, <2>1 DEF Cancel, FateStep, Closes
<1>7. ASSUME NEW t \in Threads, NEW i \in Ids, Reply(t, i) \/ Reject(t, i) \/ Drop(t, i)
      PROVE  FateStep
  <2>1. /\ pc[t] = "idle" /\ i \in held[t]
        /\ UNCHANGED <<lastId, terminal, reply, expired>>
    BY <1>7 DEF Reply, Reject, Drop
  <2>2. ASSUME NEW a \in {"Ok", "Rejected"}, DeliverReply(t, i, a)
        PROVE  FateStep
    <3>1. Claim(i) \in SUBSET pending /\ pending' = pending \ Claim(i)
      BY <2>2 DEF DeliverReply, Claim
    <3>2. Decides(t, Claim(i), a)
      BY <2>1, <2>2, <3>1, PublishingDecides DEF DeliverReply
    <3> QED
      BY <2>1, <2>2, <3>2 DEF DeliverReply, FateStep, Delivers
  <2>3. CASE UNCHANGED <<pending, dropped, callVars, verdict>>
    BY <2>1, <2>3 DEF FateStep, Settled
  <2> QED
    BY <1>7, <2>2, <2>3 DEF Reply, Reject, Drop
<1>8. ASSUME NEW t \in Threads, Shutdown(t)
      PROVE  FateStep
  <2>1. pc[t] = "idle" /\ UNCHANGED <<lastId, terminal, reply, verdict, dropped, expired>>
    BY <1>8 DEF Shutdown
  <2>2. batch[t] = {} /\ batch' = [batch EXCEPT ![t] = pending]
        /\ ans' = [ans EXCEPT ![t] = "Unreachable"] /\ pending' = {}
    BY <1>8, <2>1, NoBatch DEF Shutdown, Call
  <2>3. Decides(t, pending, "Unreachable")
    BY <2>1, <2>2 DEF Decides, TypeOK, CallsTyped
  <2>4. pending \in SUBSET pending /\ "Unreachable" \in Statuses
    BY DEF Statuses
  <2> QED
    BY <2>1, <2>3, <2>4 DEF FateStep, Closes
<1>9. ASSUME NEW t \in Threads, Expire(t)
      PROVE  FateStep
  <2>1. Claim(arg[t]) \in SUBSET pending /\ pending' = pending \ Claim(arg[t])
    BY <1>9 DEF Expire, Claim
  <2>2. Decides(t, Claim(arg[t]), "Timeout") /\ "Timeout" \in Statuses
    BY <1>9, <2>1, PublishingDecides DEF Expire, Statuses
  <2> QED
    BY <1>9, <2>1, <2>2 DEF Expire, FateStep, Closes
<1>10. ASSUME NEW t \in Threads, NEW i \in Ids, Publish(t, i)
       PROVE  FateStep
  BY <1>10 DEF Publish, FateStep
<1>11. ASSUME NEW t \in Threads, NEW n \in NodeIds, CloseMailbox(t, n)
       PROVE  FateStep
  <2>1. UNCHANGED <<lastId, pending, terminal, reply, verdict, dropped, expired>>
    BY <1>11 DEF CloseMailbox
  <2>2. batch' = [batch EXCEPT ![t] = batch[t]]
    BY <1>11, BatchAfter DEF CloseMailbox
  <2>3. batch' = batch
    BY <2>2 DEF TypeOK, CallsTyped
  <2>4. \A u \in Threads \ {t} : ans'[u] = ans[u]
    BY <1>11 DEF CloseMailbox, Publishing, Return, Call, TypeOK, CallsTyped
  <2>5. batch[t] # {} => ans'[t] = ans[t]
    BY <1>11 DEF CloseMailbox, Publishing, Call, TypeOK, CallsTyped
  <2> QED
    BY <2>1, <2>3, <2>4, <2>5 DEF FateStep, Settled
<1>12. CASE UNCHANGED vars
  BY <1>12 DEF vars, FateStep, Settled
<1> QED
  BY <1>1, <1>2, <1>3, <1>4, <1>5, <1>6, <1>7, <1>8, <1>9, <1>10, <1>11, <1>12
     DEF Next, Begin, Continue, Poll, WaitCheck, FateStep

-----------------------------------------------------------------------------
(* The message of a request is in one place at most. *)

InMail(i, n, k) == k \in DOMAIN mailbox[n] /\ mailbox[n][k] = i
Posting(i, t) == pc[t] = "post" /\ arg[t] = i
Holds(i, t) == i \in held[t]
Nowhere(i) ==
  /\ \A n \in NodeIds, k \in Nat : ~InMail(i, n, k)
  /\ \A t \in Threads : ~Posting(i, t) /\ ~Holds(i, t)

\* One mailbox slot, or one post in progress, or one ThreadRequest.
OnePlace(i) ==
  /\ \A n, m \in NodeIds : \A j, k \in Nat :
       InMail(i, n, j) /\ InMail(i, m, k) => n = m /\ j = k
  /\ \A t, u \in Threads : Posting(i, t) /\ Posting(i, u) => t = u
  /\ \A t, u \in Threads : Holds(i, t) /\ Holds(i, u) => t = u
  /\ \A t, u \in Threads : ~(Posting(i, t) /\ Holds(i, u))
  /\ \A n \in NodeIds, k \in Nat, t \in Threads :
       InMail(i, n, k) => ~Posting(i, t) /\ ~Holds(i, t)

\* The message of a request that was not issued yet, or was answered, is nowhere;
\* that of another one is in one place at most.
Once(i) ==
  /\ i \notin Issued => verdict[i] = Unset
  /\ i \notin Issued \/ verdict[i] # Unset => Nowhere(i)
  /\ OnePlace(i)

OnceOK == \A i \in Ids : Once(i)

LEMMA NowhereOnePlace == ASSUME NEW i, Nowhere(i) PROVE OnePlace(i)
  BY DEF Nowhere, OnePlace

\* The kinds of elements of Copies.
LEMMA CopyKinds ==
  ASSUME TypeOK, NEW i, NEW c \in Copies(i)
  PROVE  \/ \E n \in NodeIds, k \in Nat : InMail(i, n, k) /\ c = <<"mailbox", n, k>>
         \/ \E t \in Threads : Posting(i, t) /\ c = <<"post", t>>
         \/ \E t \in Threads : Holds(i, t) /\ c = <<"held", t>>
<1>1. ASSUME NEW n \in NodeIds
      PROVE  DOMAIN mailbox[n] \subseteq Nat
  BY DEF TypeOK
<1>2. \/ \E n \in NodeIds : c \in {<<"mailbox", n, k>> : k \in {j \in DOMAIN mailbox[n] :
                                                               mailbox[n][j] = i}}
      \/ \E t \in Threads : pc[t] = "post" /\ arg[t] = i /\ c = <<"post", t>>
      \/ \E t \in Threads : i \in held[t] /\ c = <<"held", t>>
  BY Zenon DEF Copies
<1>3. ASSUME NEW n \in NodeIds,
             c \in {<<"mailbox", n, k>> : k \in {j \in DOMAIN mailbox[n] : mailbox[n][j] = i}}
      PROVE  \E k \in Nat : InMail(i, n, k) /\ c = <<"mailbox", n, k>>
  BY <1>1, <1>3 DEF InMail
<1> QED
  BY <1>2, <1>3 DEF Posting, Holds

\* The message of i is in a mailbox, in a post, or with a responder.
Somewhere(i) ==
  \/ \E n \in NodeIds, k \in Nat : InMail(i, n, k)
  \/ \E t \in Threads : Posting(i, t) \/ Holds(i, t)

\* A request that was neither answered nor lost has its message somewhere.
KeptOK ==
  \A i \in Ids : i \in Issued /\ verdict[i] = Unset /\ i \notin lost => Somewhere(i)

\* The history of the lost: a request that is lost was issued, is nowhere, and nobody
\* has answered it.
LostOK == \A i \in Ids : i \in lost => i \in Issued /\ Nowhere(i)

LEMMA SomewhereCopies ==
  ASSUME NEW i, Somewhere(i)
  PROVE  Copies(i) # {}
<1>1. ASSUME NEW n \in NodeIds, NEW k \in Nat, InMail(i, n, k)
      PROVE  Copies(i) # {}
  <2> DEFINE M(h) == {<<"mailbox", h, l>> : l \in {j \in DOMAIN mailbox[h] :
                                                     mailbox[h][j] = i}}
  <2>1. <<"mailbox", n, k>> \in M(n)
    BY <1>1 DEF InMail
  <2>2. UNION {M(h) : h \in NodeIds} \subseteq Copies(i)
    BY DEF Copies
  <2>3. M(n) \in {M(h) : h \in NodeIds}
    OBVIOUS
  <2> HIDE DEF M
  <2> QED
    BY <2>1, <2>2, <2>3
<1>2. ASSUME NEW t \in Threads, Posting(i, t) \/ Holds(i, t)
      PROVE  Copies(i) # {}
  BY <1>2 DEF Copies, Posting, Holds
<1> QED
  BY <1>1, <1>2 DEF Somewhere

LEMMA OnceCounts == TypeOK /\ OnceOK /\ KeptOK /\ LostOK => AnsweredOnce
<1> SUFFICES ASSUME TypeOK, OnceOK, KeptOK, LostOK, NEW i \in Issued
             PROVE  Cardinality(Copies(i)) =
                      (IF verdict[i] = Unset /\ i \notin lost THEN 1 ELSE 0)
  BY DEF AnsweredOnce
<1>1. i \in Ids /\ Once(i)
  BY IssuedIds DEF OnceOK
<1>2. CASE verdict[i] # Unset \/ i \in lost
  <2>1. Nowhere(i)
    BY <1>1, <1>2 DEF Once, LostOK
  <2>2. Copies(i) = {}
    BY <2>1, CopyKinds DEF Nowhere
  <2> QED
    BY <1>2, <2>2, FS_EmptySet
<1>3. CASE verdict[i] = Unset /\ i \notin lost
  <2>1. ASSUME NEW c \in Copies(i), NEW d \in Copies(i)
        PROVE  c = d
    <3>0. OnePlace(i)
      BY <1>1 DEF Once
    <3>1. CASE \E n \in NodeIds, k \in Nat : InMail(i, n, k) /\ c = <<"mailbox", n, k>>
      BY <3>0, <3>1, CopyKinds DEF OnePlace
    <3>2. CASE \E t \in Threads : Posting(i, t) /\ c = <<"post", t>>
      BY <3>0, <3>2, CopyKinds DEF OnePlace
    <3>3. CASE \E t \in Threads : Holds(i, t) /\ c = <<"held", t>>
      BY <3>0, <3>3, CopyKinds DEF OnePlace
    <3> QED
      BY <3>1, <3>2, <3>3, CopyKinds
  <2>2. Copies(i) # {}
    BY <1>1, <1>3, SomewhereCopies DEF KeptOK
  <2>3. PICK c \in Copies(i) : Copies(i) = {c}
    BY <2>1, <2>2
  <2> QED
    BY <1>3, <2>3, FS_Singleton
<1> QED
  BY <1>2, <1>3

\* A step that brings the message of i to no new place.
LEMMA OnceLess ==
  ASSUME NEW i \in Ids, Once(i), i \in Issued' <=> i \in Issued,
         \A n \in NodeIds, k \in Nat : InMail(i, n, k)' => InMail(i, n, k),
         \A t \in Threads : Posting(i, t)' => Posting(i, t),
         \A t \in Threads : Holds(i, t)' => Holds(i, t),
         verdict'[i] = verdict[i] \/ (i \in Issued /\ Nowhere(i)')
  PROVE  Once(i)'
<1>1. Nowhere(i) => Nowhere(i)'
  BY DEF Nowhere
<1>2. OnePlace(i)'
  BY DEF Once, OnePlace
<1> QED
  BY <1>1, <1>2 DEF Once

\* Which posts are in progress stays as it is.
SamePosts == \A i \in Ids, t \in Threads : Posting(i, t)' <=> Posting(i, t)

LEMMA CallSamePosts ==
  ASSUME TypeOK, NEW t \in Threads, pc[t] # "post",
         \/ \E label, i, n, ids, a, ns : label # "post" /\ Call(t, label, i, n, ids, a, ns)
         \/ \E ids, a, i : Publishing(t, ids, a, i)
         \/ Return(t)
  PROVE  SamePosts
<1>1. PICK label, i : /\ label # "post"
                      /\ pc' = [pc EXCEPT ![t] = label] /\ arg' = [arg EXCEPT ![t] = i]
  BY DEF Publishing, Return, Call
<1> QED
  BY <1>1 DEF SamePosts, Posting, TypeOK, CallsTyped

LEMMA EndPost ==
  ASSUME TypeOK, NEW t \in Threads, Return(t)
  PROVE  \A i \in Ids, u \in Threads : Posting(i, u)' <=> Posting(i, u) /\ u # t
  BY DEF Return, Call, Posting, TypeOK, CallsTyped

\* A step that moves no message.
Quiet == SamePosts /\ UNCHANGED <<mailbox, held, lastId, lost, verdict>>

LEMMA OnceQuiet ==
  ASSUME OnceOK, Quiet
  PROVE  OnceOK'
<1> SUFFICES ASSUME NEW i \in Ids
             PROVE  Once(i)'
  BY DEF OnceOK
<1>1. Once(i) /\ Issued' = Issued /\ verdict'[i] = verdict[i]
  BY DEF OnceOK, Issued, Quiet
<1>2. \A n \in NodeIds, k \in Nat : InMail(i, n, k)' => InMail(i, n, k)
  BY DEF InMail, Quiet
<1>3. \A t \in Threads : Holds(i, t)' => Holds(i, t)
  BY DEF Holds, Quiet
<1>4. \A t \in Threads : Posting(i, t)' => Posting(i, t)
  BY DEF SamePosts, Quiet
<1> QED
  BY <1>1, <1>2, <1>3, <1>4, OnceLess

\* request() registers a request and goes on to post its message.
LEMMA OnceRequest ==
  ASSUME TypeOK, OnceOK, NEW t \in Threads, NEW p \in Paths, Request(t, p)
  PROVE  OnceOK'
<1>1. PICK j \in Ids :
         /\ pc[t] = "idle" /\ Issued' = Issued \cup {j} /\ j \notin Issued
         /\ \/ pc' = [pc EXCEPT ![t] = "post"] /\ arg' = [arg EXCEPT ![t] = j]
            \/ UNCHANGED <<pc, arg>>
         /\ UNCHANGED <<mailbox, held, verdict>>
  <2>1. lastId + 1 \in Ids /\ lastId' = lastId + 1 /\ lastId \in Nat
    BY ThreadRequestsAssumption DEF Request, TypeOK
  <2>2. Issued' = Issued \cup {lastId + 1} /\ lastId + 1 \notin Issued
    BY <2>1 DEF Issued
  <2> QED
    BY <2>1, <2>2 DEF Request, Call, callVars, treeVars, holdVars
<1>2. \A i \in Ids, u \in Threads : Posting(i, u)' => Posting(i, u) \/ (i = j /\ u = t)
  BY <1>1 DEF Posting, TypeOK, CallsTyped
<1>3. \A i \in Ids, n \in NodeIds, k \in Nat : InMail(i, n, k)' <=> InMail(i, n, k)
  BY <1>1 DEF InMail
<1>4. \A i \in Ids, u \in Threads : Holds(i, u)' <=> Holds(i, u)
  BY <1>1 DEF Holds
<1>5. ASSUME NEW i \in Ids, i # j
      PROVE  Once(i)'
  BY <1>1, <1>2, <1>3, <1>4, <1>5, OnceLess DEF OnceOK
<1>6. Once(j)'
  <2>1. Nowhere(j) /\ verdict'[j] = Unset /\ j \in Issued'
    BY <1>1 DEF OnceOK, Once
  <2>2. OnePlace(j)'
    BY <1>2, <1>3, <1>4, <2>1 DEF Nowhere, OnePlace
  <2> QED
    BY <2>1, <2>2 DEF Once
<1> QED
  BY <1>5, <1>6 DEF OnceOK

\* What a post adds to the mailboxes.
LEMMA PostAdds ==
  ASSUME TypeOK, NEW m \in NodeIds, NEW x \in Ids \cup {OneWay}, PostTo(m, x)
  PROVE  \A i \in Ids : \A n \in NodeIds, k \in Nat :
           InMail(i, n, k)' =>
             InMail(i, n, k) \/ (i = x /\ n = m /\ k = Len(mailbox[m]) + 1)
<1> SUFFICES ASSUME NEW i \in Ids, NEW n \in NodeIds, NEW k \in Nat, InMail(i, n, k)'
             PROVE  InMail(i, n, k) \/ (i = x /\ n = m /\ k = Len(mailbox[m]) + 1)
  OBVIOUS
<1>1. mailbox[m] \in Seq(Ids \cup {OneWay})
  BY DEF TypeOK
<1>2. CASE mailbox' = mailbox
  BY <1>2 DEF InMail
<1>3. CASE mailbox' = [mailbox EXCEPT ![m] = Append(@, x)]
  <2>1. CASE n # m
    BY <1>3, <2>1 DEF InMail, TypeOK
  <2>2. CASE n = m
    <3>1. mailbox'[m] = Append(mailbox[m], x)
      BY <1>3 DEF TypeOK
    <3>2. k \in 1 .. Len(mailbox[m]) + 1 /\ Append(mailbox[m], x)[k] = i
      BY <1>1, <2>2, <3>1 DEF InMail
    <3>3. CASE k = Len(mailbox[m]) + 1
      BY <1>1, <2>2, <3>2, <3>3
    <3>4. CASE k # Len(mailbox[m]) + 1
      BY <1>1, <2>2, <3>2, <3>4 DEF InMail
    <3> QED
      BY <3>3, <3>4
  <2> QED
    BY <2>1, <2>2
<1> QED
  BY <1>2, <1>3 DEF PostTo

\* The message goes from the call of its sender to the mailbox, or is swallowed.
LEMMA OnceRequestPost ==
  ASSUME TypeOK, CallOK, OnceOK, NEW t \in Threads, RequestPost(t)
  PROVE  OnceOK'
<1>1. PICK j \in Ids, m \in NodeIds : j = arg[t] /\ m = at[t] /\ j \in Issued
  BY IssuedIds DEF RequestPost, CallOK
<1>2. /\ Posting(j, t) /\ PostTo(m, j)
      /\ UNCHANGED <<held, lastId, verdict>> /\ Issued' = Issued
  BY <1>1 DEF RequestPost, Posting, holdVars, requestVars, Issued
<1>3. \A i \in Ids : \A n \in NodeIds, k \in Nat :
        InMail(i, n, k)' => InMail(i, n, k) \/ (i = j /\ n = m /\ k = Len(mailbox[m]) + 1)
  BY <1>2, PostAdds
<1>4. \A i \in Ids, u \in Threads : Posting(i, u)' <=> Posting(i, u) /\ u # t
  BY EndPost DEF RequestPost
<1>5. \A i \in Ids, u \in Threads : Holds(i, u)' <=> Holds(i, u)
  BY <1>2 DEF Holds
<1>6. ASSUME NEW i \in Ids, i # j
      PROVE  Once(i)'
  BY <1>2, <1>3, <1>4, <1>5, <1>6, OnceLess DEF OnceOK
<1>7. Once(j)'
  <2>1. Once(j)
    BY DEF OnceOK
  <2>2. /\ \A n \in NodeIds, k \in Nat : ~InMail(j, n, k)
        /\ \A u \in Threads : ~Holds(j, u) /\ (Posting(j, u) => u = t)
    BY <1>2, <2>1 DEF Once, OnePlace
  <2>3. OnePlace(j)'
    BY <1>3, <1>4, <1>5, <2>2 DEF OnePlace
  <2>4. verdict'[j] = Unset /\ j \in Issued'
    BY <1>1, <1>2, <2>1 DEF Once, Nowhere
  <2> QED
    BY <2>3, <2>4 DEF Once
<1> QED
  BY <1>6, <1>7 DEF OnceOK

\* A one-way message is no request.
LEMMA OnceSendPost ==
  ASSUME TypeOK, CallOK, OnceOK, NEW t \in Threads, SendPost(t)
  PROVE  OnceOK'
<1>1. at[t] \in NodeIds /\ PostTo(at[t], OneWay) /\ pc[t] # "post"
      /\ UNCHANGED <<held, lastId, verdict>> /\ Issued' = Issued
  BY DEF SendPost, CallOK, holdVars, requestVars, Issued
<1>2. \A i \in Ids : \A n \in NodeIds, k \in Nat : InMail(i, n, k)' => InMail(i, n, k)
  <2>1. \A i \in Ids : i # OneWay
    BY DEF Ids, OneWay
  <2> QED
    BY <1>1, <2>1, PostAdds
<1>3. SamePosts
  BY <1>1, CallSamePosts DEF SendPost
<1>4. \A i \in Ids, u \in Threads : Holds(i, u)' <=> Holds(i, u)
  BY <1>1 DEF Holds
<1> QED
  BY <1>1, <1>2, <1>3, <1>4, OnceLess DEF OnceOK, SamePosts

\* What is left of the mailboxes when m has handed out its oldest message.
LEMMA TailShifts ==
  ASSUME TypeOK, NEW m \in NodeIds, mailbox[m] # <<>>,
         mailbox' = [mailbox EXCEPT ![m] = Tail(@)]
  PROVE  \A i \in Ids : \A n \in NodeIds, k \in Nat :
           InMail(i, n, k)' => k # 0 /\ InMail(i, n, IF n = m THEN k + 1 ELSE k)
<1> SUFFICES ASSUME NEW i \in Ids, NEW n \in NodeIds, NEW k \in Nat, InMail(i, n, k)'
             PROVE  k # 0 /\ InMail(i, n, IF n = m THEN k + 1 ELSE k)
  OBVIOUS
<1>1. mailbox[m] \in Seq(Ids \cup {OneWay}) /\ mailbox[n] \in Seq(Ids \cup {OneWay})
  BY DEF TypeOK
<1>2. CASE n # m
  <2>1. mailbox'[n] = mailbox[n]
    BY <1>2 DEF TypeOK
  <2> QED
    BY <1>1, <1>2, <2>1 DEF InMail
<1>3. CASE n = m
  <2>1. mailbox'[m] = Tail(mailbox[m])
    BY DEF TypeOK
  <2>2. k \in 1 .. Len(mailbox[m]) - 1 /\ Tail(mailbox[m])[k] = i
    <3>1. k \in DOMAIN Tail(mailbox[m]) /\ Tail(mailbox[m])[k] = i
      BY <1>3, <2>1 DEF InMail
    <3>2. Tail(mailbox[m]) \in Seq(Ids \cup {OneWay})
          /\ Len(Tail(mailbox[m])) = Len(mailbox[m]) - 1
      BY <1>1
    <3> QED
      BY <3>1, <3>2
  <2>3. Tail(mailbox[m])[k] = mailbox[m][k + 1] /\ k + 1 \in 1 .. Len(mailbox[m])
    BY <1>1, <2>2
  <2> QED
    BY <1>1, <1>3, <2>2, <2>3 DEF InMail
<1> QED
  BY <1>2, <1>3

\* The message goes from the mailbox to the ThreadRequest of the thread that takes it.
LEMMA OnceReceive ==
  ASSUME TypeOK, CallOK, OnceOK, NEW t \in Threads, Receive(t)
  PROVE  OnceOK'
<1>1. PICK m \in NodeIds, x \in Ids \cup {OneWay} :
         /\ m = at[t] /\ mailbox[m] # <<>> /\ x = Head(mailbox[m])
         /\ held' = [held EXCEPT ![t] = IF x = OneWay THEN held[t] ELSE held[t] \cup {x}]
         /\ mailbox' = [mailbox EXCEPT ![m] = Tail(@)]
  <2>1. at[t] \in NodeIds
    BY DEF Receive, CallOK
  <2>2. mailbox[at[t]] # <<>> /\ mailbox[at[t]] \in Seq(Ids \cup {OneWay})
    BY <2>1 DEF Receive, TypeOK
  <2>3. Head(mailbox[at[t]]) \in Ids \cup {OneWay}
    BY <2>2
  <2> QED
    BY <2>1, <2>2, <2>3 DEF Receive
<1>2. pc[t] = "take" /\ UNCHANGED <<lastId, verdict>> /\ Issued' = Issued
  BY DEF Receive, requestVars, Issued
<1>3. SamePosts
  BY <1>2, CallSamePosts DEF Receive
<1>4. \A i \in Ids : \A n \in NodeIds, k \in Nat :
        InMail(i, n, k)' => k # 0 /\ InMail(i, n, IF n = m THEN k + 1 ELSE k)
  BY <1>1, TailShifts
<1>5. InMail(x, m, 1)
  BY <1>1 DEF InMail, TypeOK
<1>6. \A i \in Ids, u \in Threads : Holds(i, u)' => Holds(i, u) \/ (i = x /\ u = t)
  BY <1>1 DEF Holds, TypeOK
<1>7. ASSUME NEW i \in Ids, i # x
      PROVE  Once(i)'
  <2>1. Once(i)
    BY DEF OnceOK
  <2>2. \A u \in Threads : /\ Holds(i, u)' => Holds(i, u)
                           /\ Posting(i, u)' => Posting(i, u)
    BY <1>3, <1>6, <1>7 DEF SamePosts
  <2>3. Nowhere(i) => Nowhere(i)'
    BY <1>4, <2>2 DEF Nowhere
  <2>4. \A n \in NodeIds, k \in Nat : InMail(i, n, k)' => \E j \in Nat : InMail(i, n, j)
    BY <1>4
  <2>5. ASSUME NEW n \in NodeIds, NEW h \in NodeIds, NEW j \in Nat, NEW k \in Nat,
               InMail(i, n, j)', InMail(i, h, k)'
        PROVE  n = h /\ j = k
    <3>1. InMail(i, n, IF n = m THEN j + 1 ELSE j) /\ InMail(i, h, IF h = m THEN k + 1 ELSE k)
      BY <1>4, <2>5
    <3>2. n = h /\ (IF n = m THEN j + 1 ELSE j) = (IF h = m THEN k + 1 ELSE k)
      BY <2>1, <3>1 DEF Once, OnePlace
    <3> QED
      BY <3>2
  <2>6. OnePlace(i)'
    BY <2>1, <2>2, <2>4, <2>5 DEF Once, OnePlace
  <2> QED
    BY <1>2, <2>1, <2>3, <2>6 DEF Once
<1>8. ASSUME x \in Ids
      PROVE  Once(x)'
  <2>1. Once(x)
    BY <1>8 DEF OnceOK
  <2>2. /\ \A n \in NodeIds, k \in Nat : InMail(x, n, k) => n = m /\ k = 1
        /\ \A u \in Threads : ~Posting(x, u) /\ ~Holds(x, u)
    BY <1>5, <2>1 DEF Once, OnePlace
  <2>3. ASSUME NEW n \in NodeIds, NEW k \in Nat
        PROVE  ~InMail(x, n, k)'
    BY <1>4, <1>8, <2>2
  <2>4. \A u \in Threads : ~Posting(x, u)' /\ (Holds(x, u)' => u = t)
    BY <1>3, <1>6, <1>8, <2>2 DEF SamePosts
  <2>5. OnePlace(x)'
    BY <2>3, <2>4 DEF OnePlace
  <2>6. verdict'[x] = Unset /\ x \in Issued'
    BY <1>2, <1>5, <2>1 DEF Once, Nowhere
  <2> QED
    BY <2>5, <2>6 DEF Once
<1> QED
  BY <1>7, <1>8 DEF OnceOK

\* The ThreadRequest of i is released, answered or not.
LEMMA OnceRelease ==
  ASSUME TypeOK, OnceOK, NEW t \in Threads, NEW i \in Ids,
         Reply(t, i) \/ Reject(t, i) \/ Drop(t, i)
  PROVE  OnceOK'
<1>1. /\ pc[t] = "idle" /\ Holds(i, t) /\ held' = [held EXCEPT ![t] = held[t] \ {i}]
      /\ UNCHANGED <<mailbox, lastId>> /\ Issued' = Issued
  BY DEF Reply, Reject, Drop, Release, Holds, treeVars, requestVars, Issued
<1>2. (\E a : DeliverReply(t, i, a)) \/ UNCHANGED <<callVars, verdict>>
  BY DEF Reply, Reject, Drop
<1>3. SamePosts
  <2>1. CASE \E a : DeliverReply(t, i, a)
    <3>1. \E ids, a, j : Publishing(t, ids, a, j)
      BY <2>1 DEF DeliverReply
    <3> QED
      BY <1>1, <3>1, CallSamePosts
  <2>2. CASE UNCHANGED callVars
    BY <2>2 DEF callVars, SamePosts, Posting
  <2> QED
    BY <1>2, <2>1, <2>2
<1>4. \A j \in Ids, n \in NodeIds, k \in Nat : InMail(j, n, k)' <=> InMail(j, n, k)
  BY <1>1 DEF InMail
<1>5. \A j \in Ids, u \in Threads : Holds(j, u)' <=> Holds(j, u) /\ ~(j = i /\ u = t)
  BY <1>1 DEF Holds, TypeOK
<1>6. Nowhere(i)' /\ i \in Issued
  <2>1. Once(i)
    BY DEF OnceOK
  <2>2. /\ \A n \in NodeIds, k \in Nat : ~InMail(i, n, k)
        /\ \A u \in Threads : ~Posting(i, u) /\ (Holds(i, u) => u = t)
    BY <1>1, <2>1 DEF Once, OnePlace
  <2>3. i \in Issued
    BY <1>1, <2>1 DEF Once, Nowhere
  <2> QED
    BY <1>3, <1>4, <1>5, <2>2, <2>3 DEF Nowhere, SamePosts
<1>7. \A j \in Ids : j # i => verdict'[j] = verdict[j]
  BY <1>2 DEF DeliverReply, TypeOK
<1> SUFFICES ASSUME NEW j \in Ids
             PROVE  Once(j)'
  BY DEF OnceOK
<1> QED
  BY <1>1, <1>3, <1>4, <1>5, <1>6, <1>7, OnceLess DEF OnceOK, SamePosts

\* The steps that move a message.
Moves ==
  \E t \in Threads :
    \/ \E p \in Paths : Request(t, p)
    \/ RequestPost(t) \/ SendPost(t) \/ Receive(t)
    \/ \E i \in Ids : Reply(t, i) \/ Reject(t, i) \/ Drop(t, i)

LEMMA MailStep ==
  ASSUME TypeOK, CallOK, [Next]_vars
  PROVE  Quiet \/ Moves
<1>1. ASSUME NEW t \in Threads, NEW p \in Paths,
             Create(t, p) \/ Remove(t, p) \/ Send(t, p) \/ Take(t, p) \/ RejectPendingFor(t, p)
      PROVE  Quiet
  <2>1. UNCHANGED <<mailbox, held, lastId, lost, verdict>> /\ pc[t] = "idle"
    BY <1>1 DEF Create, Remove, Send, Take, RejectPendingFor, treeVars, requestVars, holdVars
  <2>2. \/ UNCHANGED <<pc, arg>>
        \/ \E label, i, n, ids, a, ns : label # "post" /\ Call(t, label, i, n, ids, a, ns)
        \/ \E ids, a, i : Publishing(t, ids, a, i)
    <3>1. CASE Create(t, p)
      BY <3>1 DEF Create, callVars
    <3>2. CASE Remove(t, p)
      BY <3>2 DEF Remove
    <3>3. CASE Send(t, p) \/ Take(t, p)
      BY <3>3 DEF Send, Take
    <3>4. CASE RejectPendingFor(t, p)
      BY <3>4 DEF RejectPendingFor
    <3> QED
      BY <1>1, <3>1, <3>2, <3>3, <3>4
  <2>3. SamePosts
    BY <2>1, <2>2, CallSamePosts DEF SamePosts, Posting
  <2> QED
    BY <2>1, <2>3 DEF Quiet
<1>2. ASSUME NEW t \in Threads, NEW i \in Ids,
             Wait(t, i) \/ Poll(t, i) \/ Cancel(t, i) \/ Publish(t, i)
      PROVE  Quiet
  <2>1. UNCHANGED <<mailbox, held, lastId, lost, verdict>> /\ pc[t] # "post"
    <3>1. CASE Publish(t, i)
      <4>1. pc[t] = "publish"
        BY <3>1 DEF Publish
      <4> QED
        BY <3>1, <4>1 DEF Publish, treeVars, requestVars, holdVars
    <3> QED
      BY <1>2, <3>1 DEF Wait, Poll, Check, Cancel, treeVars, requestVars, holdVars
  <2>2. \/ \E label, j, n, ids, a, ns : label # "post" /\ Call(t, label, j, n, ids, a, ns)
        \/ \E ids, a, j : Publishing(t, ids, a, j)
        \/ Return(t)
    <3>1. CASE Wait(t, i)
      BY <3>1 DEF Wait
    <3>2. CASE Cancel(t, i) \/ Publish(t, i)
      BY <3>2 DEF Cancel, Publish
    <3>3. CASE Poll(t, i)
      BY <3>3 DEF Poll, Check
    <3> QED
      BY <1>2, <3>1, <3>2, <3>3
  <2>3. SamePosts
    BY <2>1, <2>2, CallSamePosts
  <2> QED
    BY <2>1, <2>3 DEF Quiet
<1>3. ASSUME NEW t \in Threads,
             \/ WaitCheck(t) \/ Expire(t) \/ ReadReply(t)
             \/ ReceiveNothing(t) \/ Shutdown(t)
      PROVE  Quiet
  <2>1. UNCHANGED <<mailbox, held, lastId, lost, verdict>> /\ pc[t] # "post"
    BY <1>3 DEF WaitCheck, Check, Expire, ReadReply, ReceiveNothing, Shutdown,
                treeVars, requestVars, holdVars
  <2>2. \/ \E label, j, n, ids, a, ns : label # "post" /\ Call(t, label, j, n, ids, a, ns)
        \/ \E ids, a, j : Publishing(t, ids, a, j)
        \/ Return(t)
    <3>1. CASE Shutdown(t)
      BY <3>1 DEF Shutdown
    <3>2. CASE WaitCheck(t)
      BY <3>2 DEF WaitCheck, Check
    <3> QED
      BY <1>3, <3>1, <3>2 DEF Expire, ReadReply, ReceiveNothing
  <2>3. SamePosts
    BY <2>1, <2>2, CallSamePosts
  <2> QED
    BY <2>1, <2>3 DEF Quiet
<1>4. ASSUME NEW t \in Threads, NEW n \in NodeIds, CloseMailbox(t, n)
      PROVE  Quiet
  <2>1. UNCHANGED <<mailbox, held, lastId, lost, verdict>> /\ pc[t] = "close"
    BY <1>4 DEF CloseMailbox, treeVars, requestVars, holdVars
  <2>2. \/ Publishing(t, batch[t], ans[t], NoId)
        \/ Call(t, "close", NoId, NoNode, batch[t], ans[t], closing[t] \ {n})
    BY <1>4 DEF CloseMailbox
  <2>3. SamePosts
    BY <2>1, <2>2, CallSamePosts
  <2> QED
    BY <2>1, <2>3 DEF Quiet
<1>5. ASSUME NEW t \in Threads, NEW i \in Ids, Defer(t, i)
      PROVE  Quiet
  BY <1>5
     DEF Quiet, Defer, treeVars, requestVars, holdVars, callVars, SamePosts, Posting
<1>6. ASSUME NEW i \in Ids, DeadlinePasses(i)
      PROVE  Quiet
  BY <1>6
     DEF Quiet, DeadlinePasses, treeVars, requestVars, holdVars, callVars, SamePosts, Posting
<1>7. CASE UNCHANGED vars
  BY <1>7 DEF Quiet, vars, treeVars, requestVars, holdVars, callVars, SamePosts, Posting
<1> QED
  BY <1>1, <1>2, <1>3, <1>4, <1>5, <1>6, <1>7, Zenon
     DEF Next, Begin, Continue, Moves

LEMMA OnceStep ==
  ASSUME TypeOK, CallOK, OnceOK, [Next]_vars
  PROVE  OnceOK'
  BY MailStep, OnceQuiet, OnceRequest, OnceRequestPost, OnceSendPost, OnceReceive,
     OnceRelease, Zenon DEF Moves

LEMMA InitOnce == Init => OnceOK
  BY ThreadRequestsAssumption
     DEF Init, OnceOK, Once, OnePlace, Nowhere, InMail, Posting, Holds, Issued

\* The place of every message, throughout.
LEMMA OnceAlways == Spec => []OnceOK
<1>1. IInv /\ OnceOK /\ [Next]_vars => OnceOK'
  BY OnceStep DEF IInv
<1> QED
  BY <1>1, InitOnce, Inductive, PTL DEF Spec

\* A step that moves no message.
LEMMA KeptQuiet ==
  ASSUME KeptOK, LostOK, Quiet
  PROVE  KeptOK' /\ LostOK'
<1>1. Issued' = Issued /\ UNCHANGED <<mailbox, held, lost, verdict>>
  BY DEF Quiet, Issued
<1>2. \A i \in Ids, t \in Threads : Posting(i, t)' <=> Posting(i, t)
  BY DEF Quiet, SamePosts
<1>3. \A i, n, k : InMail(i, n, k)' <=> InMail(i, n, k)
  BY <1>1 DEF InMail
<1>4. \A i, t : Holds(i, t)' <=> Holds(i, t)
  BY <1>1 DEF Holds
<1>5. LostOK'
  BY <1>1, <1>2, <1>3, <1>4 DEF LostOK, Nowhere
<1>6. KeptOK'
  BY <1>1, <1>2, <1>3, <1>4 DEF KeptOK, Somewhere
<1> QED
  BY <1>5, <1>6

\* A request that is registered is posted; one that finds no node is lost.
LEMMA KeptRequest ==
  ASSUME TypeOK, OnceOK, KeptOK, LostOK, NEW t \in Threads, NEW p \in Paths, Request(t, p)
  PROVE  KeptOK' /\ LostOK'
<1>1. PICK j \in Ids :
         /\ pc[t] = "idle" /\ Issued' = Issued \cup {j} /\ j \notin Issued
         /\ \/ pc' = [pc EXCEPT ![t] = "post"] /\ arg' = [arg EXCEPT ![t] = j] /\ lost' = lost
            \/ lost' = lost \cup {j} /\ UNCHANGED <<pc, arg>>
         /\ UNCHANGED <<mailbox, held, verdict>>
  <2>1. lastId + 1 \in Ids /\ lastId' = lastId + 1 /\ lastId \in Nat
    BY ThreadRequestsAssumption DEF Request, TypeOK
  <2>2. Issued' = Issued \cup {lastId + 1} /\ lastId + 1 \notin Issued
    BY <2>1 DEF Issued
  <2> QED
    BY <2>1, <2>2 DEF Request, Call, callVars, treeVars
<1>2. \A i, n, k : InMail(i, n, k)' <=> InMail(i, n, k)
  BY <1>1 DEF InMail
<1>3. \A i, u : Holds(i, u)' <=> Holds(i, u)
  BY <1>1 DEF Holds
<1>4. \A i \in Ids, u \in Threads : i # j => (Posting(i, u)' <=> Posting(i, u))
  BY <1>1 DEF Posting, TypeOK, CallsTyped
<1>5. ASSUME NEW i \in Ids, i # j
      PROVE  /\ i \in Issued' /\ verdict'[i] = Unset /\ i \notin lost' => Somewhere(i)'
             /\ i \in lost' => i \in Issued' /\ Nowhere(i)'
  <2>1. Somewhere(i)' <=> Somewhere(i)
    BY <1>2, <1>3, <1>4, <1>5 DEF Somewhere
  <2>2. Nowhere(i)' <=> Nowhere(i)
    BY <1>2, <1>3, <1>4, <1>5 DEF Nowhere
  <2>3. (i \in Issued' <=> i \in Issued) /\ (i \in lost' <=> i \in lost) /\ verdict' = verdict
    BY <1>1, <1>5
  <2>4. i \in Issued /\ verdict[i] = Unset /\ i \notin lost => Somewhere(i)
    BY DEF KeptOK
  <2>5. i \in lost => i \in Issued /\ Nowhere(i)
    BY DEF LostOK
  <2> QED
    BY <2>1, <2>2, <2>3, <2>4, <2>5
<1>6. j \notin lost' => Somewhere(j)'
  BY <1>1 DEF Somewhere, Posting, TypeOK, CallsTyped
<1>7. j \in lost' => j \in Issued' /\ Nowhere(j)'
  <2>1. j \notin lost /\ Nowhere(j)
    BY <1>1 DEF LostOK, OnceOK, Once
  <2>2. j \in lost' => UNCHANGED <<pc, arg>>
    BY <1>1, <2>1
  <2> QED
    BY <1>1, <1>2, <1>3, <2>1, <2>2 DEF Nowhere, Posting
<1> QED
  BY <1>5, <1>6, <1>7 DEF KeptOK, LostOK

\* A post to an open mailbox puts the message there, and keeps the others.
LEMMA PostKeeps ==
  ASSUME TypeOK, NEW m \in NodeIds, NEW x \in Ids \cup {OneWay}, PostTo(m, x)
  PROVE  /\ \A i \in Ids, n \in NodeIds, k \in Nat : InMail(i, n, k) => InMail(i, n, k)'
         /\ m \notin closed => \E k \in Nat : InMail(x, m, k)'
<1>1. mailbox[m] \in Seq(Ids \cup {OneWay})
  BY DEF TypeOK
<1>2. CASE m \in closed
  BY <1>2 DEF PostTo, InMail
<1>3. CASE m \notin closed
  <2>1. mailbox'[m] = Append(mailbox[m], x)
        /\ \A n \in NodeIds : n # m => mailbox'[n] = mailbox[n]
    BY <1>3 DEF PostTo, TypeOK
  <2>2. \E k \in Nat : InMail(x, m, k)'
    <3>1. PICK k \in Nat : k = Len(mailbox[m]) + 1
      BY <1>1
    <3>2. k \in DOMAIN Append(mailbox[m], x) /\ Append(mailbox[m], x)[k] = x
      BY <1>1, <3>1
    <3> QED
      BY <2>1, <3>2 DEF InMail
  <2>3. ASSUME NEW i \in Ids, NEW n \in NodeIds, NEW k \in Nat, InMail(i, n, k)
        PROVE  InMail(i, n, k)'
    <3>1. CASE n = m
      <4>1. k \in 1 .. Len(mailbox[m]) /\ mailbox[m][k] = i
        BY <1>1, <2>3, <3>1 DEF InMail
      <4>2. k \in 1 .. Len(mailbox[m]) + 1 /\ Append(mailbox[m], x)[k] = i
        BY <1>1, <4>1
      <4>3. DOMAIN Append(mailbox[m], x) = 1 .. Len(mailbox[m]) + 1
        BY <1>1
      <4> QED
        BY <2>1, <3>1, <4>2, <4>3 DEF InMail
    <3>2. CASE n # m
      BY <2>1, <2>3, <3>2 DEF InMail
    <3> QED
      BY <3>1, <3>2
  <2> QED
    BY <2>2, <2>3
<1> QED
  BY <1>2, <1>3

LEMMA KeptRequestPost ==
  ASSUME TypeOK, CallOK, OnceOK, KeptOK, LostOK, NEW t \in Threads, RequestPost(t)
  PROVE  KeptOK' /\ LostOK'
<1>1. PICK j \in Ids, m \in NodeIds : j = arg[t] /\ m = at[t] /\ j \in Issued
  BY IssuedIds DEF RequestPost, CallOK
<1>2. /\ Posting(j, t) /\ PostTo(m, j)
      /\ lost' = IF m \in closed THEN lost \cup {j} ELSE lost
      /\ UNCHANGED <<held, lastId, verdict>> /\ Issued' = Issued
  BY <1>1 DEF RequestPost, Posting, requestVars, Issued
<1>3. \A i \in Ids, u \in Threads : Posting(i, u)' <=> Posting(i, u) /\ u # t
  BY EndPost DEF RequestPost
<1>4. \A i, u : Holds(i, u)' <=> Holds(i, u)
  BY <1>2 DEF Holds
<1>5. \A i \in Ids : Posting(i, t) => i = j
  BY <1>2 DEF Posting
<1>6. ASSUME NEW i \in Ids, i # j
      PROVE  Somewhere(i) => Somewhere(i)'
  BY <1>2, <1>3, <1>4, <1>5, <1>6, PostKeeps DEF Somewhere
<1>7. m \notin closed => Somewhere(j)'
  BY <1>2, PostKeeps DEF Somewhere
<1>8. ASSUME NEW i \in Ids, i # j, Nowhere(i)
      PROVE  Nowhere(i)'
  <2>1. \A n \in NodeIds, k \in Nat : InMail(i, n, k)' => InMail(i, n, k)
    BY <1>2, <1>8, PostAdds
  <2> QED
    BY <1>3, <1>4, <1>8, <2>1 DEF Nowhere
<1>9. j \notin lost
  BY <1>2 DEF LostOK, Nowhere
<1>10. m \in closed => Nowhere(j)'
  <2>1. Once(j)
    BY DEF OnceOK
  <2>2. /\ \A n \in NodeIds, k \in Nat : ~InMail(j, n, k)
        /\ \A u \in Threads : ~Holds(j, u) /\ (Posting(j, u) => u = t)
    BY <1>2, <2>1 DEF Once, OnePlace
  <2>3. m \in closed => mailbox' = mailbox
    BY <1>2 DEF PostTo
  <2> QED
    BY <1>3, <1>4, <2>2, <2>3 DEF Nowhere, InMail
<1>11. KeptOK'
  BY <1>2, <1>6, <1>7 DEF KeptOK
<1>12. LostOK'
  BY <1>1, <1>2, <1>8, <1>9, <1>10 DEF LostOK
<1> QED
  BY <1>11, <1>12

LEMMA KeptSendPost ==
  ASSUME TypeOK, CallOK, KeptOK, LostOK, NEW t \in Threads, SendPost(t)
  PROVE  KeptOK' /\ LostOK'
<1>1. at[t] \in NodeIds /\ PostTo(at[t], OneWay) /\ pc[t] # "post"
      /\ UNCHANGED <<held, lastId, lost, verdict>> /\ Issued' = Issued
  BY DEF SendPost, CallOK, holdVars, requestVars, Issued
<1>2. \A i \in Ids, n \in NodeIds, k \in Nat : InMail(i, n, k)' <=> InMail(i, n, k)
  <2>1. \A i \in Ids : i # OneWay
    BY DEF Ids, OneWay
  <2>2. \A i \in Ids, n \in NodeIds, k \in Nat : InMail(i, n, k) => InMail(i, n, k)'
    BY <1>1, PostKeeps
  <2>3. \A i \in Ids, n \in NodeIds, k \in Nat : InMail(i, n, k)' => InMail(i, n, k)
    BY <1>1, <2>1, PostAdds
  <2> QED
    BY <2>2, <2>3
<1>3. \A i \in Ids, u \in Threads : Posting(i, u)' <=> Posting(i, u)
  BY <1>1, CallSamePosts DEF SendPost, SamePosts
<1>4. \A i, u : Holds(i, u)' <=> Holds(i, u)
  BY <1>1 DEF Holds
<1>5. KeptOK'
  BY <1>1, <1>2, <1>3, <1>4 DEF KeptOK, Somewhere
<1>6. LostOK'
  BY <1>1, <1>2, <1>3, <1>4 DEF LostOK, Nowhere
<1> QED
  BY <1>5, <1>6

\* The oldest message of a mailbox goes to the responder, the others stay.
LEMMA KeptReceive ==
  ASSUME TypeOK, CallOK, KeptOK, LostOK, NEW t \in Threads, Receive(t)
  PROVE  KeptOK' /\ LostOK'
<1>1. PICK m \in NodeIds, x \in Ids \cup {OneWay} :
         /\ m = at[t] /\ mailbox[m] # <<>> /\ x = Head(mailbox[m])
         /\ held' = [held EXCEPT ![t] = IF x = OneWay THEN held[t] ELSE held[t] \cup {x}]
         /\ mailbox' = [mailbox EXCEPT ![m] = Tail(@)]
  <2>1. at[t] \in NodeIds
    BY DEF Receive, CallOK
  <2>2. mailbox[at[t]] # <<>> /\ mailbox[at[t]] \in Seq(Ids \cup {OneWay})
    BY <2>1 DEF Receive, TypeOK
  <2>3. Head(mailbox[at[t]]) \in Ids \cup {OneWay}
    BY <2>2
  <2> QED
    BY <2>1, <2>2, <2>3 DEF Receive
<1>2. pc[t] = "take" /\ UNCHANGED <<lastId, lost, verdict>> /\ Issued' = Issued
  BY DEF Receive, requestVars, Issued
<1>3. \A i \in Ids, u \in Threads : Posting(i, u)' <=> Posting(i, u)
  BY <1>2, CallSamePosts DEF Receive, SamePosts
<1>4. \A i \in Ids, u \in Threads : Holds(i, u) => Holds(i, u)'
  BY <1>1 DEF Holds, TypeOK
<1>5. x \in Ids => Holds(x, t)'
  BY <1>1 DEF Holds, TypeOK, Ids, OneWay
<1>6. ASSUME NEW i \in Ids, i # x, NEW n \in NodeIds, NEW k \in Nat, InMail(i, n, k)
      PROVE  \E l \in Nat : InMail(i, n, l)'
  <2>1. CASE n # m
    BY <1>1, <1>6, <2>1 DEF InMail, TypeOK
  <2>2. CASE n = m
    <3>1. mailbox[m] \in Seq(Ids \cup {OneWay}) /\ mailbox'[m] = Tail(mailbox[m])
      BY <1>1 DEF TypeOK
    <3>2. k \in 1 .. Len(mailbox[m]) /\ mailbox[m][k] = i
      BY <1>6, <2>2, <3>1 DEF InMail
    <3>3. k # 1
      BY <1>1, <1>6, <3>1, <3>2
    <3>4. k - 1 \in 1 .. Len(mailbox[m]) - 1 /\ Tail(mailbox[m])[k - 1] = i
      BY <3>1, <3>2, <3>3
    <3>5. DOMAIN Tail(mailbox[m]) = 1 .. Len(mailbox[m]) - 1
      BY <1>1, <3>1
    <3>6. InMail(i, m, k - 1)' /\ k - 1 \in Nat
      BY <3>1, <3>4, <3>5 DEF InMail
    <3> QED
      BY <2>2, <3>6
  <2> QED
    BY <2>1, <2>2
<1>7. ASSUME NEW i \in Ids, Somewhere(i)
      PROVE  Somewhere(i)'
  BY <1>3, <1>4, <1>5, <1>6, <1>7 DEF Somewhere
<1>8. ASSUME NEW i \in Ids, Nowhere(i)
      PROVE  Nowhere(i)'
  <2>1. i # x
    <3>1. InMail(x, m, 1)
      BY <1>1 DEF InMail, TypeOK
    <3> QED
      BY <1>8, <3>1 DEF Nowhere
  <2>2. ASSUME NEW n \in NodeIds, NEW k \in Nat
        PROVE  ~InMail(i, n, k)'
    <3>1. InMail(i, n, k)' => InMail(i, n, IF n = m THEN k + 1 ELSE k)
      BY <1>1, TailShifts
    <3>2. (IF n = m THEN k + 1 ELSE k) \in Nat
      OBVIOUS
    <3> QED
      BY <1>8, <3>1, <3>2 DEF Nowhere
  <2>3. \A u \in Threads : ~Holds(i, u)'
    BY <1>1, <1>8, <2>1 DEF Nowhere, Holds, TypeOK
  <2> QED
    BY <1>3, <1>8, <2>2, <2>3 DEF Nowhere
<1>9. KeptOK'
  BY <1>2, <1>7 DEF KeptOK
<1>10. LostOK'
  BY <1>2, <1>8 DEF LostOK
<1> QED
  BY <1>9, <1>10

\* A responder lets go of a request: it answered, or the request was deferred.
LEMMA KeptRelease ==
  ASSUME TypeOK, OnceOK, KeptOK, LostOK, NEW t \in Threads, NEW i \in Ids,
         Reply(t, i) \/ Reject(t, i) \/ Drop(t, i)
  PROVE  KeptOK' /\ LostOK'
<1>1. /\ pc[t] = "idle" /\ Holds(i, t) /\ held' = [held EXCEPT ![t] = held[t] \ {i}]
      /\ UNCHANGED <<mailbox, lastId>> /\ Issued' = Issued
  BY DEF Reply, Reject, Drop, Release, Holds, treeVars, requestVars, Issued
<1>2. \/ lost' = lost /\ \E a \in {"Ok", "Rejected"} : DeliverReply(t, i, a)
      \/ lost' = lost \cup {i} /\ UNCHANGED <<callVars, verdict>>
  BY DEF Reply, Reject, Drop
<1>3. SamePosts
  <2>1. CASE \E a \in {"Ok", "Rejected"} : DeliverReply(t, i, a)
    <3>1. \E ids, a, j : Publishing(t, ids, a, j)
      BY <2>1 DEF DeliverReply
    <3> QED
      BY <1>1, <3>1, CallSamePosts
  <2>2. CASE UNCHANGED callVars
    BY <2>2 DEF callVars, SamePosts, Posting
  <2> QED
    BY <1>2, <2>1, <2>2
<1>4. \A j, n, k : InMail(j, n, k)' <=> InMail(j, n, k)
  BY <1>1 DEF InMail
<1>5. \A j \in Ids, u \in Threads : Holds(j, u)' <=> Holds(j, u) /\ ~(j = i /\ u = t)
  BY <1>1 DEF Holds, TypeOK
<1>6. Nowhere(i)' /\ i \in Issued
  <2>1. Once(i)
    BY DEF OnceOK
  <2>2. /\ \A n \in NodeIds, k \in Nat : ~InMail(i, n, k)
        /\ \A u \in Threads : ~Posting(i, u) /\ (Holds(i, u) => u = t)
    BY <1>1, <2>1 DEF Once, OnePlace
  <2>3. i \in Issued
    BY <1>1, <2>1 DEF Once, Nowhere
  <2> QED
    BY <1>3, <1>4, <1>5, <2>2, <2>3 DEF Nowhere, SamePosts
<1>7. \A j \in Ids : j # i => verdict'[j] = verdict[j] /\ (j \in lost' <=> j \in lost)
  BY <1>2 DEF DeliverReply, TypeOK
<1>8. verdict'[i] # Unset \/ i \in lost'
  BY <1>2 DEF DeliverReply, TypeOK, Unset
<1>9. \A j \in Ids : j # i => (Somewhere(j)' <=> Somewhere(j)) /\ (Nowhere(j)' <=> Nowhere(j))
  BY <1>3, <1>4, <1>5 DEF Somewhere, Nowhere, SamePosts
<1>10. KeptOK'
  BY <1>1, <1>7, <1>8, <1>9 DEF KeptOK
<1>11. LostOK'
  BY <1>1, <1>6, <1>7, <1>9 DEF LostOK
<1> QED
  BY <1>10, <1>11

LEMMA KeptStep ==
  ASSUME TypeOK, CallOK, OnceOK, KeptOK, LostOK, [Next]_vars
  PROVE  KeptOK' /\ LostOK'
  BY MailStep, KeptQuiet, KeptRequest, KeptRequestPost, KeptSendPost, KeptReceive,
     KeptRelease, Zenon DEF Moves

LEMMA InitKept == Init => KeptOK /\ LostOK
  BY ThreadRequestsAssumption DEF Init, KeptOK, LostOK, Issued

\* Until it is answered a request is in one place, the call that posts it, a mailbox or
\* its one responder; an answered one is nowhere, so that no reply is given twice; and
\* only those that met no open mailbox, or were deferred and destroyed, vanish
\* unanswered (ThreadRequest, Mailbox::post, ThreadTree::take).
THEOREM AnsweredOnceAlways == Spec => []AnsweredOnce
<1>1. IInv /\ OnceOK /\ KeptOK /\ LostOK => AnsweredOnce
  BY OnceCounts DEF IInv
<1>2. IInv /\ OnceOK /\ (KeptOK /\ LostOK) /\ [Next]_vars => (KeptOK /\ LostOK)'
  BY KeptStep DEF IInv
<1> QED
  BY <1>1, <1>2, InitKept, OnceAlways, Inductive, PTL DEF Spec

-----------------------------------------------------------------------------
(* What the callers are told. *)

\* A caller reads the reply without looking at terminal after its deadline only.
LateOK ==
  \A t \in Threads :
    pc[t] \in {"expire", "read"} \/ (pc[t] = "publish" /\ arg[t] # NoId) => arg[t] \in expired

\* Answers that wait() and poll() gave for one request are its terminal reply, but for
\* the unset reply that a caller past its deadline may have read.
AnswersAgree ==
  \A i \in Issued : \A a \in seen[i] :
    \/ i \in terminal /\ a = reply[i]
    \/ i \in expired /\ a = Unset

\* A reply is the unset one until it is published; only issued requests have been
\* asked about.
ToldOK ==
  /\ expired \subseteq Issued
  /\ \A i \in Ids : i \notin terminal => reply[i] = Unset
  /\ \A i \in Ids : i \notin Issued => seen[i] = {}
  /\ AnswersAgree

LEMMA CallLate ==
  ASSUME TypeOK, LateOK, expired \subseteq expired',
         NEW t \in Threads, NEW label, NEW i, NEW n, NEW ids, NEW a, NEW ns,
         Call(t, label, i, n, ids, a, ns),
         \/ label \in {"idle", "post", "send", "take", "wait", "close"}
         \/ label = "publish" /\ i = NoId
         \/ i \in expired
  PROVE  LateOK'
<1>1. /\ pc' = [pc EXCEPT ![t] = label] /\ arg' = [arg EXCEPT ![t] = i]
  BY DEF Call
<1> QED
  BY <1>1 DEF LateOK, TypeOK, CallsTyped

LEMMA PublishingLate ==
  ASSUME TypeOK, LateOK, expired \subseteq expired',
         NEW t \in Threads, NEW ids, NEW a, NEW i, Publishing(t, ids, a, i),
         i = NoId \/ i \in expired
  PROVE  LateOK'
<1>1. CASE ids # {}
  <2>1. Call(t, "publish", i, NoNode, ids, a, {})
    BY <1>1 DEF Publishing
  <2> QED
    BY <2>1, CallLate
<1>2. CASE ids = {} /\ i # NoId
  <2>1. Call(t, "read", i, NoNode, {}, Unset, {})
    BY <1>2 DEF Publishing
  <2> QED
    BY <1>2, <2>1, CallLate
<1>3. CASE ids = {} /\ i = NoId
  <2>1. Call(t, "idle", NoId, NoNode, {}, Unset, {})
    BY <1>3 DEF Publishing, Return
  <2> QED
    BY <2>1, CallLate
<1> QED
  BY <1>1, <1>2, <1>3

LEMMA ReturnLate ==
  ASSUME TypeOK, LateOK, expired \subseteq expired', NEW t \in Threads, Return(t)
  PROVE  LateOK'
  BY CallLate DEF Return

LEMMA LateQuiet ==
  ASSUME LateOK, expired \subseteq expired', UNCHANGED <<pc, arg>>
  PROVE  LateOK'
  BY DEF LateOK

LEMMA CheckLate ==
  ASSUME TypeOK, LateOK, NEW t \in Threads, NEW i, Check(t, i)
  PROVE  LateOK'
<1>1. expired' = expired
  BY DEF Check
<1>2. CASE Return(t)
  BY <1>1, <1>2, ReturnLate
<1>3. CASE i \in expired /\ Call(t, "expire", i, NoNode, {}, Unset, {})
  BY <1>1, <1>3, CallLate
<1> QED
  BY <1>2, <1>3 DEF Check, Lapsed

LEMMA LateStep ==
  ASSUME TypeOK, CallOK, LateOK, [Next]_vars
  PROVE  LateOK'
<1>1. ASSUME NEW t \in Threads, NEW p \in Paths,
             \/ Create(t, p) \/ Remove(t, p) \/ Send(t, p) \/ Take(t, p)
             \/ Request(t, p) \/ RejectPendingFor(t, p)
      PROVE  LateOK'
  <2>1. expired' = expired
    BY <1>1 DEF Create, Remove, Send, Take, Request, RejectPendingFor
  <2>2. CASE Create(t, p)
    BY <2>1, <2>2, LateQuiet DEF Create, callVars
  <2>3. CASE Remove(t, p)
    BY <2>1, <2>3, CallLate DEF Remove
  <2>4. CASE Send(t, p)
    BY <2>1, <2>4, CallLate DEF Send
  <2>5. CASE Take(t, p)
    BY <2>1, <2>5, CallLate DEF Take
  <2>6. CASE Request(t, p)
    <3>1. CASE Call(t, "post", lastId + 1, nodes[p], {}, Unset, {})
      BY <2>1, <3>1, CallLate
    <3>2. CASE UNCHANGED callVars
      BY <2>1, <3>2, LateQuiet DEF callVars
    <3> QED
      BY <2>6, <3>1, <3>2 DEF Request
  <2>7. CASE RejectPendingFor(t, p)
    BY <2>1, <2>7, PublishingLate DEF RejectPendingFor
  <2> QED
    BY <1>1, <2>2, <2>3, <2>4, <2>5, <2>6, <2>7
<1>2. ASSUME NEW t \in Threads, NEW i \in Ids,
             \/ Wait(t, i) \/ Cancel(t, i) \/ Publish(t, i) \/ Defer(t, i)
             \/ Reply(t, i) \/ Reject(t, i) \/ Drop(t, i)
      PROVE  LateOK'
  <2>1. expired' = expired
    BY <1>2 DEF Wait, Cancel, Publish, Defer, Reply, Reject, Drop
  <2>2. CASE Wait(t, i)
    BY <2>1, <2>2, CallLate DEF Wait
  <2>3. CASE Cancel(t, i)
    BY <2>1, <2>3, PublishingLate DEF Cancel
  <2>4. CASE Publish(t, i)
    <3>1. arg[t] = NoId \/ arg[t] \in expired
      BY <2>4 DEF Publish, LateOK
    <3> QED
      BY <2>1, <2>4, <3>1, PublishingLate DEF Publish
  <2>5. CASE UNCHANGED callVars
    BY <2>1, <2>5, LateQuiet DEF callVars
  <2>6. ASSUME NEW a, DeliverReply(t, i, a)
        PROVE  LateOK'
    BY <2>1, <2>6, PublishingLate DEF DeliverReply
  <2> QED
    BY <1>2, <2>2, <2>3, <2>4, <2>5, <2>6 DEF Defer, Reply, Reject, Drop
<1>3. ASSUME NEW t \in Threads,
             \/ SendPost(t) \/ RequestPost(t) \/ ReadReply(t) \/ Receive(t)
             \/ ReceiveNothing(t)
      PROVE  LateOK'
  BY <1>3, ReturnLate DEF SendPost, RequestPost, ReadReply, Receive, ReceiveNothing
<1>4. ASSUME NEW t \in Threads, NEW n \in NodeIds, CloseMailbox(t, n)
      PROVE  LateOK'
  <2>1. expired' = expired
    BY <1>4 DEF CloseMailbox
  <2>2. CASE Publishing(t, batch[t], ans[t], NoId)
    BY <2>1, <2>2, PublishingLate
  <2>3. CASE Call(t, "close", NoId, NoNode, batch[t], ans[t], closing[t] \ {n})
    BY <2>1, <2>3, CallLate
  <2> QED
    BY <1>4, <2>2, <2>3 DEF CloseMailbox
<1>5. ASSUME NEW t \in Threads, Expire(t)
      PROVE  LateOK'
  <2>1. arg[t] \in expired /\ expired' = expired
    BY <1>5 DEF Expire, LateOK
  <2> QED
    BY <1>5, <2>1, PublishingLate DEF Expire
<1>6. ASSUME NEW t \in Threads, Shutdown(t)
      PROVE  LateOK'
  <2>1. expired' = expired
    BY <1>6 DEF Shutdown
  <2> QED
    BY <1>6, <2>1, CallLate DEF Shutdown
<1>7. ASSUME NEW i \in Ids, DeadlinePasses(i)
      PROVE  LateOK'
  BY <1>7, LateQuiet DEF DeadlinePasses, callVars
<1>8. CASE UNCHANGED vars
  BY <1>8, LateQuiet DEF vars, callVars
<1> QED
  BY <1>1, <1>2, <1>3, <1>4, <1>5, <1>6, <1>7, <1>8, CheckLate
     DEF Next, Begin, Continue, Poll, WaitCheck

\* What a step does to the answers: it issues a request, publishes the reply of an
\* erased one, hands one out, or passes a deadline.
LEMMA ToldQuiet ==
  ASSUME ToldOK, UNCHANGED <<lastId, terminal, reply, expired, seen>>
  PROVE  ToldOK'
  BY DEF ToldOK, AnswersAgree, Issued

LEMMA ToldRequest ==
  ASSUME TypeOK, OneWinner, ToldOK, NEW t \in Threads, NEW p \in Paths, Request(t, p)
  PROVE  ToldOK'
<1>1. PICK j \in Ids :
         /\ Issued' = Issued \cup {j} /\ j \notin Issued
         /\ \/ UNCHANGED <<terminal, reply>>
            \/ /\ terminal' = terminal \cup {j}
               /\ reply' = [reply EXCEPT ![j] = "Unreachable"]
         /\ UNCHANGED <<expired, seen>>
  <2>1. lastId + 1 \in Ids /\ lastId' = lastId + 1 /\ lastId \in Nat
    BY ThreadRequestsAssumption DEF Request, TypeOK
  <2>2. Issued' = Issued \cup {lastId + 1} /\ lastId + 1 \notin Issued
    BY <2>1 DEF Issued
  <2> QED
    BY <2>1, <2>2 DEF Request, replyVars
<1>2. j \notin terminal /\ seen[j] = {}
  BY <1>1 DEF OneWinner, ToldOK
<1>3. \A i \in Ids : i # j => reply'[i] = reply[i] /\ (i \in terminal' <=> i \in terminal)
  BY <1>1 DEF TypeOK
<1>4. \A i \in Ids : i \notin terminal' => reply'[i] = Unset
  BY <1>1, <1>3 DEF ToldOK
<1>5. AnswersAgree'
  <2>1. Issued \subseteq Ids
    BY IssuedIds
  <2> QED
    BY <1>1, <1>2, <1>3, <2>1 DEF ToldOK, AnswersAgree
<1> QED
  BY <1>1, <1>4, <1>5 DEF ToldOK

LEMMA ToldPublish ==
  ASSUME TypeOK, OneWinner, ToldOK, NEW t \in Threads, NEW j \in Ids, Publish(t, j)
  PROVE  ToldOK'
<1>1. j \notin terminal /\ j \in Issued /\ Issued' = Issued
      /\ terminal' = terminal \cup {j} /\ reply' = [reply EXCEPT ![j] = ans[t]]
      /\ UNCHANGED <<expired, seen>>
  BY DEF Publish, OneWinner, requestVars, Issued
<1>2. \A i \in Ids : i # j => reply'[i] = reply[i]
  BY <1>1 DEF TypeOK
<1>3. \A i \in Ids : i \in terminal => reply'[i] = reply[i] /\ i \in terminal'
  BY <1>1, <1>2
<1>4. AnswersAgree'
  BY <1>1, <1>3, IssuedIds DEF ToldOK, AnswersAgree
<1> QED
  BY <1>1, <1>2, <1>4 DEF ToldOK

\* A reply is handed out that is terminal, or that the caller takes for one late.
LEMMA ToldSeen ==
  ASSUME TypeOK, ToldOK, NEW i \in Issued, i \in terminal \cup expired,
         seen' = [seen EXCEPT ![i] = @ \cup {reply[i]}],
         UNCHANGED <<lastId, terminal, reply, expired>>
  PROVE  ToldOK'
<1>1. i \in Ids /\ Issued' = Issued
  BY IssuedIds DEF Issued
<1>2. \A j \in Ids : seen'[j] = IF j = i THEN seen[i] \cup {reply[i]} ELSE seen[j]
  BY <1>1 DEF TypeOK
<1>3. i \in terminal \/ (i \in expired /\ reply[i] = Unset)
  BY <1>1 DEF ToldOK
<1>4. AnswersAgree'
  BY <1>1, <1>2, <1>3, IssuedIds DEF ToldOK, AnswersAgree
<1> QED
  BY <1>1, <1>2, <1>4 DEF ToldOK

LEMMA ToldStep ==
  ASSUME TypeOK, CallOK, OneWinner, LateOK, ToldOK, [Next]_vars
  PROVE  ToldOK'
<1>1. ASSUME NEW t \in Threads, NEW p \in Paths,
             \/ Create(t, p) \/ Remove(t, p) \/ Send(t, p) \/ Take(t, p)
             \/ RejectPendingFor(t, p)
      PROVE  ToldOK'
  BY <1>1, ToldQuiet DEF Create, Remove, Send, Take, RejectPendingFor, requestVars, replyVars
<1>2. ASSUME NEW t \in Threads, NEW i \in Ids,
             \/ Wait(t, i) \/ Cancel(t, i) \/ Defer(t, i)
             \/ Reply(t, i) \/ Reject(t, i) \/ Drop(t, i)
      PROVE  ToldOK'
  BY <1>2, ToldQuiet DEF Wait, Cancel, Defer, Reply, Reject, Drop, requestVars, replyVars
<1>3. ASSUME NEW t \in Threads,
             \/ SendPost(t) \/ RequestPost(t) \/ Receive(t)
             \/ ReceiveNothing(t) \/ Expire(t) \/ Shutdown(t)
      PROVE  ToldOK'
  BY <1>3, ToldQuiet DEF SendPost, RequestPost, Receive, ReceiveNothing, Expire, Shutdown,
                         requestVars, replyVars
<1>4. ASSUME NEW t \in Threads, NEW n \in NodeIds, CloseMailbox(t, n)
      PROVE  ToldOK'
  BY <1>4, ToldQuiet DEF CloseMailbox, requestVars, replyVars
<1>5. ASSUME NEW t \in Threads, NEW i \in Issued, Check(t, i)
      PROVE  ToldOK'
  <2>1. UNCHANGED <<lastId, terminal, reply, expired>>
    BY <1>5 DEF Check, requestVars, replyVars
  <2>2. CASE i \in terminal /\ seen' = [seen EXCEPT ![i] = @ \cup {reply[i]}]
    BY <2>1, <2>2, ToldSeen
  <2>3. CASE UNCHANGED seen
    BY <2>1, <2>3, ToldQuiet
  <2> QED
    BY <1>5, <2>2, <2>3 DEF Check
<1>6. ASSUME NEW t \in Threads, ReadReply(t)
      PROVE  ToldOK'
  <2>1. arg[t] \in Issued /\ arg[t] \in expired
    BY <1>6 DEF ReadReply, CallOK, LateOK
  <2>2. /\ seen' = [seen EXCEPT ![arg[t]] = @ \cup {reply[arg[t]]}]
        /\ UNCHANGED <<lastId, terminal, reply, expired>>
    BY <1>6 DEF ReadReply, requestVars, replyVars
  <2> QED
    BY <2>1, <2>2, ToldSeen
<1>7. ASSUME NEW i \in Ids, DeadlinePasses(i)
      PROVE  ToldOK'
  BY <1>7 DEF DeadlinePasses, requestVars, replyVars, ToldOK, AnswersAgree, Issued
<1>8. CASE UNCHANGED vars
  BY <1>8, ToldQuiet DEF vars, requestVars, replyVars
<1>9. ASSUME NEW t \in Threads, NEW i \in Ids, Poll(t, i)
      PROVE  ToldOK'
  BY <1>5, <1>9 DEF Poll, Returned
<1>10. ASSUME NEW t \in Threads, WaitCheck(t)
       PROVE  ToldOK'
  BY <1>5, <1>10 DEF WaitCheck, CallOK
<1> QED
  BY <1>1, <1>2, <1>3, <1>4, <1>6, <1>7, <1>8, <1>9, <1>10, ToldRequest, ToldPublish, Zenon
     DEF Next, Begin, Continue

LEMMA InitTold == Init => LateOK /\ ToldOK
  BY DEF Init, LateOK, ToldOK, AnswersAgree, Issued

LEMMA ToldAlways == Spec => [](LateOK /\ ToldOK)
<1>1. IInv /\ (LateOK /\ ToldOK) /\ [Next]_vars => (LateOK /\ ToldOK)'
  BY LateStep, ToldStep DEF IInv
<1> QED
  BY <1>1, InitTold, Inductive, PTL DEF Spec

\* No two callers are handed different outcomes of one request, and none is handed one
\* before it is terminal, but for the default-constructed reply that a caller past its
\* deadline reads when the winner has not published yet: the defect that the run of
\* AnswersAreTerminal shows is the only one (PendingReply::poll, PendingReply::wait).
THEOREM CallersAlwaysAgree == Spec => []AnswersAgree
<1>1. ToldOK => AnswersAgree
  BY DEF ToldOK
<1> QED
  BY <1>1, ToldAlways, PTL

-----------------------------------------------------------------------------
(* The promise about each request, step by step. *)

\* What a step does to the fates, the answers and the deadlines: nothing, or one
\* step of OneShotReply.
Issues(j) ==
  /\ Fate(j) = "unissued" /\ Fate(j)' \in {"open", "Unreachable"}
  /\ \A i \in Ids \ {j} : Fate(i)' = Fate(i)
  /\ UNCHANGED <<verdict, dropped, expired>>
AnswersOnce(j, a) ==
  /\ Fate(j) # "unissued" /\ verdict[j] = Unset
  /\ \A i \in Ids : Fate(i)' = IF i = j /\ Fate(j) = "open" THEN a ELSE Fate(i)
  /\ verdict' = [verdict EXCEPT ![j] = a]
  /\ dropped' = IF Fate(j) = "open" THEN dropped ELSE dropped + 1
  /\ UNCHANGED expired
Ends(V, a) ==
  /\ \A i \in V : Fate(i) = "open"
  /\ \A i \in Ids : Fate(i)' = IF i \in V THEN a ELSE Fate(i)
  /\ UNCHANGED <<verdict, dropped, expired>>
  /\ \/ a = "Timeout" /\ \E i \in expired : V = {i}
     \/ a = "Cancelled" /\ \E i \in Ids : V = {i}
     \/ a = "Unreachable"
Lapses(j) ==
  /\ Fate(j) # "unissued" /\ expired' = expired \cup {j}
  /\ \A i \in Ids : Fate(i)' = Fate(i)
  /\ UNCHANGED <<verdict, dropped>>

PromiseStep ==
  \/ (\A i \in Ids : Fate(i)' = Fate(i)) /\ UNCHANGED <<verdict, dropped, expired>>
  \/ \E j \in Ids : Issues(j) \/ Lapses(j)
  \/ \E j \in Ids, a \in {"Ok", "Rejected"} : AnswersOnce(j, a)
  \/ \E V \in SUBSET Ids, a \in Statuses : Ends(V, a)

LEMMA RequestFate ==
  ASSUME TypeOK, CallOK, OneWinner, TypeOK', OneWinner',
         NEW t \in Threads, NEW p \in Paths, Request(t, p)
  PROVE  \E j \in Ids : Issues(j)
<1>1. FateTable /\ FateTable'
  BY FateIs, FateNext
<1>2. PICK j \in Ids :
         /\ Issued' = Issued \cup {j} /\ j \notin Issued
         /\ \/ pending' = pending \cup {j} /\ UNCHANGED <<terminal, reply>>
            \/ /\ terminal' = terminal \cup {j} /\ UNCHANGED pending
               /\ reply' = [reply EXCEPT ![j] = "Unreachable"]
         /\ UNCHANGED <<verdict, dropped, expired>>
  <2>1. lastId + 1 \in Ids /\ lastId' = lastId + 1 /\ lastId \in Nat
    BY ThreadRequestsAssumption DEF Request, TypeOK
  <2>2. Issued' = Issued \cup {lastId + 1} /\ lastId + 1 \notin Issued
    BY <2>1 DEF Issued
  <2> QED
    BY <2>1, <2>2 DEF Request, replyVars
<1>3. /\ batch' = batch
      /\ \A u \in Threads : batch[u] # {} => ans'[u] = ans[u]
  <2>1. pc[t] \notin {"publish", "close"}
    BY DEF Request
  <2>2. CASE Call(t, "post", lastId + 1, nodes[p], {}, Unset, {})
    <3>1. batch' = batch /\ batch[t] = {}
      BY <2>1, <2>2, EmptyHanded, NoBatch
    <3>2. \A u \in Threads \ {t} : ans'[u] = ans[u]
      BY <2>2 DEF Call, TypeOK, CallsTyped
    <3> QED
      BY <3>1, <3>2
  <2>3. CASE UNCHANGED callVars
    BY <2>3 DEF callVars
  <2> QED
    BY <2>2, <2>3 DEF Request
<1>4. Fate(j) = "unissued"
  BY <1>1, <1>2 DEF FateTable
<1>5. Fate(j)' \in {"open", "Unreachable"}
  <2>1. CASE j \in pending'
    BY <1>1, <2>1 DEF FateTable
  <2>2. CASE j \in terminal' /\ reply'[j] = "Unreachable"
    BY <1>1, <2>2 DEF FateTable
  <2> QED
    BY <1>2, <2>1, <2>2 DEF TypeOK
<1>6. ASSUME NEW i \in Ids \ {j}
      PROVE  Fate(i)' = Fate(i)
  <2>1. /\ i \in Issued' <=> i \in Issued
        /\ i \in pending' <=> i \in pending
        /\ i \in terminal' <=> i \in terminal
        /\ reply'[i] = reply[i]
    BY <1>2 DEF TypeOK
  <2>2. ASSUME NEW u \in Threads, i \in batch[u]
        PROVE  Fate(i)' = Fate(i)
    BY <1>1, <1>3, <2>2 DEF FateTable
  <2> QED
    BY <1>1, <2>1, <2>2 DEF FateTable, OneWinner
<1> QED
  BY <1>2, <1>4, <1>5, <1>6 DEF Issues

LEMMA StepPromises ==
  ASSUME IInv, IInv', OnceOK, LateOK, [Next]_vars
  PROVE  PromiseStep
<1> USE DEF IInv
<1>1. FateTable
  BY FateIs
<1>2. CASE /\ Settled \/ \E t \in Threads, i \in Ids : Publish(t, i)
           /\ UNCHANGED <<verdict, dropped, expired>>
  BY <1>2, SettledFate, PublishFate DEF PromiseStep
<1>3. ASSUME NEW t \in Threads, NEW p \in Paths, Request(t, p)
      PROVE  PromiseStep
  BY <1>3, RequestFate DEF PromiseStep
<1>4. ASSUME NEW t \in Threads, NEW i \in Ids, NEW a \in {"Ok", "Rejected"}, Delivers(t, i, a)
      PROVE  PromiseStep
  <2>1. i \in Issued /\ verdict[i] = Unset
    BY <1>4 DEF Delivers, OnceOK, Once, Nowhere, Holds
  <2>2. Fate(i) # "unissued" /\ (Fate(i) = "open" <=> i \in pending)
    BY <1>1, <2>1 DEF FateTable
  <2>3. Decides(t, Claim(i), a)
    BY <1>4 DEF Delivers
  <2>4. \A k \in Ids : Fate(k)' = IF k \in Claim(i) THEN a ELSE Fate(k)
    BY <2>3, DecidesFate
  <2>5. \A k : k \in Claim(i) <=> k = i /\ Fate(i) = "open"
    BY <2>2 DEF Claim
  <2>6. AnswersOnce(i, a)
    BY <1>4, <2>1, <2>2, <2>4, <2>5 DEF Delivers, AnswersOnce
  <2> QED
    BY <2>6 DEF PromiseStep
<1>5. ASSUME NEW t \in Threads, NEW V \in SUBSET pending, NEW a \in Statuses, Closes(t, V, a)
      PROVE  PromiseStep
  <2>1. Decides(t, V, a) /\ UNCHANGED <<verdict, dropped, expired>>
    BY <1>5 DEF Closes
  <2>2. \A i \in Ids : Fate(i)' = IF i \in V THEN a ELSE Fate(i)
    BY <2>1, DecidesFate
  <2>3. V \in SUBSET Ids /\ \A i \in V : Fate(i) = "open"
    BY <1>1 DEF TypeOK, FateTable
  <2>4. CASE V = {}
    BY <2>1, <2>2, <2>4 DEF PromiseStep
  <2>5. CASE V # {}
    <3>1. \/ a = "Timeout" /\ \E i \in expired : V = {i}
          \/ a = "Cancelled" /\ \E i \in Ids : V = {i}
          \/ a = "Unreachable"
      <4>1. CASE a = "Timeout" /\ V = Claim(arg[t]) /\ pc[t] = "expire"
        <5>1. arg[t] \in expired
          BY <4>1 DEF LateOK
        <5>2. V = {arg[t]}
          BY <2>5, <4>1 DEF Claim
        <5> QED
          BY <4>1, <5>1, <5>2
      <4> QED
        BY <1>5, <2>3, <4>1 DEF Closes
    <3>2. Ends(V, a)
      BY <2>1, <2>2, <2>3, <3>1 DEF Ends
    <3> QED
      BY <2>3, <3>2 DEF PromiseStep
  <2> QED
    BY <2>4, <2>5
<1>6. ASSUME NEW j \in Ids, DeadlinePasses(j)
      PROVE  PromiseStep
  <2>1. Settled
    BY <1>6 DEF DeadlinePasses, requestVars, replyVars, callVars, Settled
  <2>2. \A i \in Ids : Fate(i)' = Fate(i)
    BY <2>1, SettledFate
  <2>3. Fate(j) # "unissued"
    BY <1>1, <1>6 DEF DeadlinePasses, FateTable
  <2>4. Lapses(j)
    BY <1>6, <2>2, <2>3 DEF DeadlinePasses, Lapses
  <2> QED
    BY <2>4 DEF PromiseStep
<1>7. FateStep
  BY StepFates
<1> QED
  BY <1>2, <1>3, <1>4, <1>5, <1>6, <1>7 DEF FateStep

LEMMA InitPromise ==
  ASSUME Init
  PROVE  Promise!Init
<1>1. \A i \in Ids : Fate(i) = "unissued"
  BY DEF Init, Fate, Issued
<1> QED
  BY <1>1 DEF Init, Promise!Init, Unset

\* A step of the threads is a step of the promise, or none.
LEMMA PromiseKept ==
  ASSUME TypeOK, PromiseStep
  PROVE  [Promise!Next]_(Promise!vars)
<1>1. CASE (\A i \in Ids : Fate(i)' = Fate(i)) /\ UNCHANGED <<verdict, expired>>
  BY <1>1 DEF Promise!vars
<1>2. ASSUME NEW j \in Ids, Issues(j)
      PROVE  Promise!Next
  <2>1. Promise!Issue(j)
    BY <1>2 DEF Issues, Promise!Issue
  <2> QED
    BY <2>1 DEF Promise!Next
<1>3. ASSUME NEW j \in Ids, Lapses(j)
      PROVE  Promise!Next
  <2>1. Promise!Lapse(j)
    BY <1>3 DEF Lapses, Promise!Lapse
  <2> QED
    BY <2>1 DEF Promise!Next
<1>4. ASSUME NEW j \in Ids, NEW a \in {"Ok", "Rejected"}, AnswersOnce(j, a)
      PROVE  Promise!Next
  <2>1. Promise!Answer(j)
    BY <1>4 DEF AnswersOnce, Promise!Answer, Unset
  <2> QED
    BY <2>1 DEF Promise!Next
<1>5. ASSUME NEW V \in SUBSET Ids, NEW a \in Statuses, Ends(V, a)
      PROVE  Promise!Next
  <2>1. CASE a = "Timeout" /\ \E i \in expired : V = {i}
    <3>1. PICK j \in expired : V = {j}
      BY <2>1
    <3>2. j \in Ids /\ Fate(j) = "open"
      BY <1>5, <3>1 DEF Ends
    <3>3. Promise!TimeOut(j)
      BY <1>5, <2>1, <3>1, <3>2 DEF Ends, Promise!TimeOut
    <3> QED
      BY <3>2, <3>3 DEF Promise!Next
  <2>2. CASE a = "Cancelled" /\ \E i \in Ids : V = {i}
    <3>1. PICK j \in Ids : V = {j}
      BY <2>2
    <3>2. Promise!Cancel(j)
      BY <1>5, <2>2, <3>1 DEF Ends, Promise!Cancel
    <3> QED
      BY <3>2 DEF Promise!Next
  <2>3. CASE a = "Unreachable"
    <3>1. Promise!Abandon(V)
      BY <1>5, <2>3 DEF Ends, Promise!Abandon
    <3> QED
      BY <3>1 DEF Promise!Next
  <2> QED
    BY <1>5, <2>1, <2>2, <2>3 DEF Ends
<1> QED
  BY <1>1, <1>2, <1>3, <1>4, <1>5 DEF PromiseStep

\* The threads, locks and mailboxes of ThreadTree keep the promise about each
\* request: it is open until one end is decided, which happened and is never revised.
THEOREM KeepsPromise == Spec => ImplementsPromise
<1>1. IInv /\ IInv' /\ OnceOK /\ (LateOK /\ ToldOK) /\ [Next]_vars
      => [Promise!Next]_(Promise!vars)
  BY StepPromises, PromiseKept DEF IInv
<1>2. Init => Promise!Init
  BY InitPromise
<1> QED
  BY <1>1, <1>2, Inductive, OnceAlways, ToldAlways, PTL
     DEF Spec, ImplementsPromise, Promise!Spec

-----------------------------------------------------------------------------
(* droppedReplies() counts what it should. *)

\* An open request has no answer yet; one decided by its responder has that answer.
VerdictOK ==
  \A i \in Ids :
    /\ Fate(i) \in {"unissued", "open"} => verdict[i] = Unset
    /\ Fate(i) \in {"Ok", "Rejected"} => verdict[i] = Fate(i)

Lost == {i \in Ids : verdict[i] \notin {Unset, Fate(i)}}

CountOK == VerdictOK /\ dropped = Cardinality(Lost)

LEMMA CountCounts == TypeOK /\ OneWinner /\ CountOK => DroppedAccounting
<1> SUFFICES ASSUME TypeOK, OneWinner, CountOK
             PROVE  {i \in Issued : verdict[i] \notin {Unset, Outcome(i)}} = Lost
  BY DEF DroppedAccounting, CountOK
<1>1. FateTable
  BY FateIs
<1>2. ASSUME NEW i \in Ids
      PROVE  i \in Issued /\ verdict[i] \notin {Unset, Outcome(i)}
             <=> verdict[i] \notin {Unset, Fate(i)}
  <2>1. CASE i \notin Issued
    BY <1>1, <2>1 DEF FateTable, CountOK, VerdictOK
  <2>2. CASE i \in pending
    BY <1>1, <2>2 DEF FateTable, CountOK, VerdictOK
  <2>3. CASE i \in Issued \ pending
    BY <2>3 DEF Fate
  <2> QED
    BY <2>1, <2>2, <2>3
<1> QED
  BY <1>2, IssuedIds DEF Lost

LEMMA LostFinite == IsFiniteSet(Lost)
<1>1. IsFiniteSet(Ids)
  BY FS_Interval, ThreadRequestsAssumption DEF Ids
<1> QED
  BY <1>1, FS_Subset DEF Lost

LEMMA CountStep ==
  ASSUME TypeOK, PromiseStep, CountOK
  PROVE  CountOK'
<1> USE DEF CountOK
<1>1. CASE /\ verdict' = verdict /\ dropped' = dropped
           /\ \A i \in Ids : \/ Fate(i)' = Fate(i)
                             \/ /\ Fate(i) \in {"unissued", "open"}
                                /\ Fate(i)' \notin {"Ok", "Rejected"}
  <2>1. VerdictOK'
    BY <1>1 DEF VerdictOK
  <2>2. Lost' = Lost
    BY <1>1 DEF VerdictOK, Lost
  <2> QED
    BY <1>1, <2>1, <2>2
<1>2. ASSUME NEW j \in Ids, Issues(j)
      PROVE  CountOK'
  BY <1>1, <1>2 DEF Issues
<1>3. ASSUME NEW j \in Ids, Lapses(j)
      PROVE  CountOK'
  BY <1>1, <1>3 DEF Lapses
<1>4. ASSUME NEW V \in SUBSET Ids, NEW a \in Statuses, Ends(V, a)
      PROVE  CountOK'
  <2>1. a \notin {"Ok", "Rejected"}
    BY <1>4 DEF Ends
  <2> QED
    BY <1>1, <1>4, <2>1 DEF Ends
<1>5. ASSUME NEW j \in Ids, NEW a \in {"Ok", "Rejected"}, AnswersOnce(j, a)
      PROVE  CountOK'
  <2>1. /\ verdict'[j] = a /\ verdict[j] = Unset /\ Fate(j) # "unissued"
        /\ \A i \in Ids \ {j} : verdict'[i] = verdict[i] /\ Fate(i)' = Fate(i)
        /\ Fate(j)' = IF Fate(j) = "open" THEN a ELSE Fate(j)
    BY <1>5 DEF AnswersOnce, TypeOK
  <2>2. Fate(j) \notin {"Ok", "Rejected"}
    BY <2>1 DEF VerdictOK, Unset
  <2>3. VerdictOK'
    BY <2>1, <2>2 DEF VerdictOK
  <2>4. CASE Fate(j) = "open"
    <3>1. Lost' = Lost
      BY <2>1, <2>4 DEF Lost
    <3> QED
      BY <1>5, <2>3, <2>4, <3>1 DEF AnswersOnce
  <2>5. CASE Fate(j) # "open"
    <3>1. Lost' = Lost \cup {j} /\ j \notin Lost
      BY <2>1, <2>2, <2>5 DEF Lost, Unset
    <3>2. Cardinality(Lost') = Cardinality(Lost) + 1
      BY <3>1, LostFinite, FS_AddElement
    <3> QED
      BY <1>5, <2>3, <2>5, <3>2 DEF AnswersOnce
  <2> QED
    BY <2>4, <2>5
<1> QED
  BY <1>1, <1>2, <1>3, <1>4, <1>5 DEF PromiseStep

LEMMA InitCount == Init => CountOK
<1> SUFFICES ASSUME Init PROVE CountOK
  OBVIOUS
<1>1. \A i \in Ids : Fate(i) = "unissued" /\ verdict[i] = Unset
  BY DEF Init, Fate, Issued
<1>2. Lost = {} /\ dropped = 0
  BY <1>1 DEF Lost, Init
<1> QED
  BY <1>1, <1>2, FS_EmptySet DEF CountOK, VerdictOK

\* droppedReplies() counts exactly the replies and rejections that lost to another
\* outcome of their request (ThreadTree::deliverReply).
THEOREM DroppedAlwaysAccounted == Spec => []DroppedAccounting
<1>1. IInv /\ IInv' /\ OnceOK /\ (LateOK /\ ToldOK) /\ CountOK /\ [Next]_vars => CountOK'
  BY StepPromises, CountStep DEF IInv
<1>2. Spec => []CountOK
  BY <1>1, InitCount, Inductive, OnceAlways, ToldAlways, PTL DEF Spec
<1>3. IInv /\ CountOK => DroppedAccounting
  BY CountCounts DEF IInv
<1> QED
  BY <1>2, <1>3, Inductive, PTL
=============================================================================
