-------------------------- MODULE EventLoopProofs --------------------------
(***************************************************************************)
(* Proofs about EventLoop for every set of engines and operations: type      *)
(* correctness, the keep-alive count and the silence of cancelled timers;     *)
(* and, for the engine that has the AsyncHost to itself, what its end means.  *)
(***************************************************************************)
EXTENDS EventLoop, TLAPS, FiniteSetTheorems

\* Where a completion is.
Queued(o, i) == i \in DOMAIN queue /\ queue[i] = o
Held(o, e, i) == i \in DOMAIN batch[e] /\ batch[e][i] = o
Waiting(o) ==
  \/ \E i \in Nat : Queued(o, i)
  \/ \E e \in Engines, i \in Nat : Held(o, e, i)

\* An operation has an owner from its start on; a timer is open until its closed
\* flag is set, which the worker sets at the end of a timeout and a cancellation
\* at any time.
OpOK ==
  \A o \in Ops :
    /\ op[o] = "new" <=> owner[o] = Nobody
    /\ op[o] = "new" => o \notin open /\ o \notin timerClosed
    /\ o \in Timers /\ op[o] # "new" => (o \in open <=> o \notin timerClosed)
    /\ op[o] = "posted" => o \in Timeouts
    /\ op[o] \in {"new", "armed", "posted"} /\ o \in timerClosed => o \in cancelled
    /\ o \in Intervals /\ o \in timerClosed => o \in cancelled

\* The completion of a promise operation is in one place at most, and its operation
\* is open until it runs.
Single(o) ==
  /\ \A i, j \in Nat : Queued(o, i) /\ Queued(o, j) => i = j
  /\ \A e, f \in Engines : \A i, j \in Nat : Held(o, e, i) /\ Held(o, f, j) => e = f /\ i = j
  /\ \A e \in Engines : \A i, j \in Nat : ~(Queued(o, i) /\ Held(o, e, j))

PlaceOK ==
  /\ \A o \in Ops : Waiting(o) => op[o] # "new"
  /\ \A o \in Promises :
       /\ Single(o)
       /\ Waiting(o) => op[o] = "done"
       /\ op[o] = "armed" \/ Waiting(o) => o \in open

Over == {"ended", "hooks", "drain", "final", "gone", "crashed"}

\* An engine holds completions while it runs them; it has an outcome at its end.
LabelOK ==
  \A e \in Engines :
    /\ batch[e] # <<>> => \/ pc[e] \in {"run", "final", "crashed"}
                          \/ pc[e] = "js" /\ ret[e] = "run"
    /\ pc[e] \notin Over => outcome[e] = "running"

\* What the worker has done with an operation is not lost before the last drain.
KeptOK ==
  pc[Main] \notin {"final", "gone", "crashed"} =>
    \A o \in Ops : op[o] \in {"posted", "done"} => Waiting(o) \/ o \in delivered \cup cancelled

IInv == TypeOK /\ OpOK /\ PlaceOK /\ CountMatches /\ LabelOK /\ KeptOK

\* What an engine that has the host to itself found when it decided to leave.
LeaveOK ==
  \A e \in Engines :
    /\ pc[e] \in {"queue", "idleQueue"} => outstanding = 0
    /\ pc[e] = "leave" /\ e \notin cancel => outstanding = 0 /\ queue = <<>>

\* Its jobs come from the completions that it runs; its end has an outcome.
JobsOK ==
  \A e \in Engines :
    /\ e \in jobs => \/ pc[e] \in {"run", "jobs", "crashed"}
                     \/ pc[e] = "js" /\ ret[e] = "run"
    /\ pc[e] \in Over \ {"crashed"} => outcome[e] # "running"

\* A top-level promise that no pending job can move on awaits what is coming, or
\* what was cancelled.
TopOK ==
  \A e \in Engines :
    pc[e] # "js" /\ e \notin jobs \cup cancel /\ outcome[e] = "running" /\ top[e] \in Ops =>
      Coming(top[e]) \/ top[e] \in cancelled

AloneInv == LeaveOK /\ JobsOK /\ TopOK /\ NothingLeft /\ StalledIsStuck

-----------------------------------------------------------------------------
(* Where completions go. *)

LEMMA InBatch ==
  ASSUME TypeOK, NEW e \in Engines
  PROVE  /\ batch[e] \in Seq(Ops)
         /\ \A o, i : Held(o, e, i) => i \in Nat /\ i # 0 /\ o \in Ops
  BY DEF TypeOK, Held

LEMMA InQueue ==
  ASSUME TypeOK
  PROVE  \A o, i : Queued(o, i) => i \in Nat /\ i # 0 /\ o \in Ops
  BY DEF TypeOK, Queued

LEMMA QuietPlaces ==
  ASSUME UNCHANGED <<queue, batch>>
  PROVE  /\ \A o, i : Queued(o, i)' <=> Queued(o, i)
         /\ \A o, e, i : Held(o, e, i)' <=> Held(o, e, i)
         /\ \A o : Waiting(o)' <=> Waiting(o)
         /\ \A o : Single(o)' <=> Single(o)
  BY DEF Queued, Held, Waiting, Single

\* The worker posts the completion of o.
LEMMA PostPlaces ==
  ASSUME TypeOK, NEW o \in Ops, queue' = Append(queue, o), batch' = batch
  PROVE  /\ \A p, i : Queued(p, i)' <=> Queued(p, i) \/ (p = o /\ i = Len(queue) + 1)
         /\ \A p, e, i : Held(p, e, i)' <=> Held(p, e, i)
         /\ \A p : Waiting(p)' <=> Waiting(p) \/ p = o
         /\ \A p : p # o \/ ~Waiting(o) => (Single(p) => Single(p)')
<1>1. queue \in Seq(Ops) /\ Len(queue) + 1 \in Nat
  BY DEF TypeOK
<1>2. \A p, i : Queued(p, i)' <=> Queued(p, i) \/ (p = o /\ i = Len(queue) + 1)
  <2> SUFFICES ASSUME NEW p, NEW i
               PROVE  Queued(p, i)' <=> Queued(p, i) \/ (p = o /\ i = Len(queue) + 1)
    OBVIOUS
  <2>1. DOMAIN queue = 1 .. Len(queue) /\ DOMAIN queue' = 1 .. Len(queue) + 1
    BY <1>1
  <2>2. \A k \in DOMAIN queue : queue'[k] = queue[k]
    BY <1>1
  <2>3. queue'[Len(queue) + 1] = o
    BY <1>1
  <2>4. i \in DOMAIN queue' <=> i \in DOMAIN queue \/ i = Len(queue) + 1
    BY <1>1, <2>1
  <2>5. Len(queue) + 1 \notin DOMAIN queue
    BY <1>1, <2>1
  <2> QED
    BY <2>2, <2>3, <2>4, <2>5 DEF Queued
<1>3. \A p, e, i : Held(p, e, i)' <=> Held(p, e, i)
  BY DEF Held
<1>4. \A p : Waiting(p)' <=> Waiting(p) \/ p = o
  BY <1>1, <1>2, <1>3 DEF Waiting
<1>5. \A p : p # o \/ ~Waiting(o) => (Single(p) => Single(p)')
  <2> SUFFICES ASSUME NEW p, p # o \/ ~Waiting(o), Single(p)
               PROVE  Single(p)'
    OBVIOUS
  <2>1. CASE p # o
    BY <1>2, <1>3, <2>1 DEF Single
  <2>2. CASE p = o
    BY <1>2, <1>3, <2>2 DEF Single, Waiting
  <2> QED
    BY <2>1, <2>2
<1> QED
  BY <1>2, <1>3, <1>4, <1>5

\* Engine e swaps the queue out.
LEMMA DrainPlaces ==
  ASSUME TypeOK, NEW e \in Engines, batch[e] = <<>>,
         batch' = [batch EXCEPT ![e] = queue], queue' = <<>>
  PROVE  /\ \A o : Waiting(o)' <=> Waiting(o)
         /\ \A o : Single(o) => Single(o)'
<1>1. \A o, i : ~Queued(o, i)'
  BY DEF Queued
<1>2. \A o, f, i : f \in Engines =>
        (Held(o, f, i)' <=> (f # e /\ Held(o, f, i)) \/ (f = e /\ Queued(o, i)))
  BY DEF Held, Queued, TypeOK
<1>3. \A o, i : ~Held(o, e, i)
  BY DEF Held
<1>4. \A o : Waiting(o)' <=> Waiting(o)
  BY <1>1, <1>2, <1>3 DEF Waiting
<1>5. \A o : Single(o) => Single(o)'
  BY <1>1, <1>2, <1>3 DEF Single
<1> QED
  BY <1>4, <1>5

\* Engine e takes the next completion of its batch.
LEMMA RunPlaces ==
  ASSUME TypeOK, NEW e \in Engines, batch[e] # <<>>,
         batch' = [batch EXCEPT ![e] = Tail(@)], queue' = queue
  PROVE  /\ Head(batch[e]) \in Ops /\ Waiting(Head(batch[e]))
         /\ \A o : Waiting(o)' => Waiting(o)
         /\ \A o : Waiting(o) => Waiting(o)' \/ o = Head(batch[e])
         /\ \A o : Single(o) => Single(o)'
         /\ \A o : o = Head(batch[e]) /\ Single(o) => ~Waiting(o)'
<1>1. batch[e] \in Seq(Ops) /\ batch'[e] = Tail(batch[e]) /\ 1 \in Nat
  BY DEF TypeOK
<1>2. PICK h \in Ops : h = Head(batch[e]) /\ Held(h, e, 1)
  BY <1>1 DEF Held
<1>3. \A o, i : Queued(o, i)' <=> Queued(o, i)
  BY DEF Queued
<1>4. \A o, f, i : f \in Engines /\ f # e => (Held(o, f, i)' <=> Held(o, f, i))
  BY DEF Held, TypeOK
<1>5. \A o : \A i \in Nat : Held(o, e, i)' <=> i # 0 /\ Held(o, e, i + 1)
  <2> SUFFICES ASSUME NEW o, NEW i \in Nat
               PROVE  Held(o, e, i)' <=> i # 0 /\ Held(o, e, i + 1)
    OBVIOUS
  <2>1. Tail(batch[e]) \in Seq(Ops) /\ Len(Tail(batch[e])) = Len(batch[e]) - 1
        /\ Len(batch[e]) \in Nat
    BY <1>1
  <2>2. i \in DOMAIN Tail(batch[e]) <=> i # 0 /\ i + 1 \in DOMAIN batch[e]
    BY <1>1, <2>1
  <2>3. i \in DOMAIN Tail(batch[e]) => Tail(batch[e])[i] = batch[e][i + 1]
    BY <1>1, <2>1
  <2> QED
    BY <1>1, <2>2, <2>3 DEF Held
<1>6. \A o : Waiting(o)' => Waiting(o)
  BY <1>3, <1>4, <1>5 DEF Waiting
<1>7. ASSUME NEW o, Waiting(o), o # h
      PROVE  Waiting(o)'
  <2>1. CASE \E i \in Nat : Held(o, e, i)
    <3>1. PICK i \in Nat : Held(o, e, i)
      BY <2>1
    <3>2. i # 0 /\ i # 1
      BY <1>2, <1>7, <3>1, InBatch DEF Held
    <3>3. i - 1 \in Nat /\ i - 1 # 0 /\ (i - 1) + 1 = i
      BY <3>2
    <3>4. Held(o, e, i - 1)'
      BY <1>5, <3>1, <3>3
    <3> QED
      BY <3>3, <3>4 DEF Waiting
  <2> QED
    BY <1>3, <1>4, <1>7, <2>1 DEF Waiting
<1>8. ASSUME NEW o, Single(o)
      PROVE  Single(o)'
  <2>1. \A f \in Engines : \A i \in Nat : Held(o, f, i)' =>
          \E k \in Nat : Held(o, f, k) /\ k = IF f = e THEN i + 1 ELSE i
    BY <1>4, <1>5
  <2>2. ASSUME NEW f \in Engines, NEW g \in Engines, NEW i \in Nat, NEW j \in Nat,
               Held(o, f, i)', Held(o, g, j)'
        PROVE  f = g /\ i = j
    <3>1. /\ Held(o, f, IF f = e THEN i + 1 ELSE i)
          /\ Held(o, g, IF g = e THEN j + 1 ELSE j)
      BY <1>4, <1>5, <2>2
    <3>2. f = g /\ (IF f = e THEN i + 1 ELSE i) = (IF g = e THEN j + 1 ELSE j)
      BY <1>8, <3>1 DEF Single
    <3> QED
      BY <3>2
  <2> QED
    BY <1>3, <1>8, <2>1, <2>2 DEF Single
<1>9. Single(h) => ~Waiting(h)'
  <2> SUFFICES ASSUME Single(h), Waiting(h)'
               PROVE  FALSE
    OBVIOUS
  <2>1. \A i \in Nat : ~Queued(h, i)
    BY <1>2 DEF Single
  <2>2. \A f \in Engines : \A i \in Nat : Held(h, f, i) => f = e /\ i = 1
    BY <1>1, <1>2 DEF Single
  <2>3. PICK f \in Engines, i \in Nat : Held(h, f, i)'
    BY <1>3, <2>1 DEF Waiting
  <2>4. CASE f # e
    BY <1>4, <2>2, <2>3, <2>4
  <2>5. CASE f = e
    <3>1. i # 0 /\ Held(h, e, i + 1)
      BY <1>5, <2>3, <2>5
    <3>2. i + 1 \in Nat /\ i + 1 # 1
      BY <3>1
    <3> QED
      BY <2>2, <3>1, <3>2
  <2> QED
    BY <2>4, <2>5
<1>10. Waiting(h)
  BY <1>1, <1>2 DEF Waiting
<1> QED
  BY <1>2, <1>6, <1>7, <1>8, <1>9, <1>10

-----------------------------------------------------------------------------
(* Types. *)

\* The steps that only move a thread, and where to.
MoveStep(e) ==
  \/ EnterLoop(e) \/ LoopTest(e) \/ LoopTestQueue(e) \/ Break(e) \/ BatchDone(e)
  \/ JobsDone(e) \/ IdleTest(e) \/ IdleTestQueue(e) \/ Wake(e) \/ (e = Main /\ Gone)

LEMMA MoveIs ==
  ASSUME NEW e \in Engines, MoveStep(e)
  PROVE  /\ \E label \in Labels : Goto(e, label)
         /\ UNCHANGED <<ret, ran, jsVars, batch, opVars, hostVars, open, delivered>>
<1>1. ASSUME NEW from, NEW to \in Labels, Move(e, from, to)
      PROVE  /\ \E label \in Labels : Goto(e, label)
             /\ UNCHANGED <<ret, ran, jsVars, batch, opVars, hostVars, open, delivered>>
  BY <1>1 DEF Move
<1>2. {"top", "body", "queue", "leave", "jobs", "idle", "wait", "idleQueue", "gone"}
      \subseteq Labels
  BY DEF Labels
<1> QED
  BY <1>1, <1>2 DEF MoveStep, EnterLoop, LoopTest, LoopTestQueue, Break, BatchDone, JobsDone,
     IdleTest, IdleTestQueue, Wake, Gone

LEMMA GotoTyped ==
  ASSUME TypeOK, NEW e, NEW label \in Labels, Goto(e, label)
  PROVE  pc' \in [Engines -> Labels]
  BY DEF Goto, TypeOK

LEMMA Members0 ==
  ASSUME NEW s \in Seq(Ops)
  PROVE  Members(s) \subseteq Ops
  BY DEF Members

LEMMA TurnTyped ==
  ASSUME TypeOK, NEW e \in Engines, Turn(e)
  PROVE  TypeOK'
<1> USE DEF loopVars, jsVars, opVars, hostVars
<1>1. ASSUME EndTurn(e)
      PROVE  TypeOK'
  <2>1. Awaitable(e) \subseteq Ops \cup {Settled, Never}
    BY DEF Awaitable, TypeOK
  <2>2. top' \in [Engines -> Ops \cup {Settled, Never}]
    BY <1>1, <2>1 DEF EndTurn, TypeOK
  <2>3. (IF ret[e] = "start" THEN "jobs0" ELSE ret[e]) \in Labels
    BY DEF TypeOK, Labels
  <2>4. pc' \in [Engines -> Labels]
    BY <1>1, <2>3, GotoTyped DEF EndTurn
  <2> QED
    BY <1>1, <2>2, <2>4 DEF EndTurn, TypeOK
<1>2. ASSUME EvalThrows(e)
      PROVE  TypeOK'
  <2>1. pc' \in [Engines -> Labels]
    BY <1>2, GotoTyped DEF EvalThrows, Labels
  <2> QED
    BY <1>2, <2>1 DEF EvalThrows, TypeOK
<1>3. ASSUME NEW o \in Ops, Begin(e, o)
      PROVE  TypeOK'
  BY <1>3 DEF Begin, TypeOK
<1>4. ASSUME NEW t \in Timers, CancelTimer(e, t)
      PROVE  TypeOK'
  <2>1. Timers \subseteq Ops
    BY DEF Ops
  <2>2. outstanding' \in Nat /\ open' \subseteq Ops
    BY <1>4 DEF CancelTimer, Decremented, TypeOK
  <2> QED
    BY <1>4, <2>1, <2>2 DEF CancelTimer, TypeOK
<1> QED
  BY <1>1, <1>2, <1>3, <1>4 DEF Turn

LEMMA RunTyped ==
  ASSUME TypeOK, OpOK, PlaceOK, NEW e \in Engines, RunCompletion(e)
  PROVE  TypeOK'
<1> USE DEF loopVars, jsVars, opVars, hostVars
<1>1. /\ batch[e] # <<>> /\ batch[e] \in Seq(Ops)
      /\ batch' = [batch EXCEPT ![e] = Tail(@)] /\ queue' = queue
      /\ UNCHANGED <<ran, top, cancel, outcome, op, owner, cancelled, timerClosed,
                     working, down>>
  BY DEF RunCompletion, TypeOK
<1>2. batch' \in [Engines -> Seq(Ops)]
  BY <1>1 DEF TypeOK
<1>3. PICK o \in Ops : o = Head(batch[e]) /\ owner[o] \in Engines
  <2>1. Head(batch[e]) \in Ops /\ Waiting(Head(batch[e]))
    BY <1>1, RunPlaces
  <2> QED
    BY <2>1 DEF PlaceOK, OpOK, TypeOK
<1>4. /\ pc' \in [Engines -> Labels]
      /\ ret' \in [Engines -> {"start", "jobs0", "run", "jobs"}]
      /\ jobs' \subseteq Engines /\ delivered' \subseteq Ops
      /\ outstanding' \in Nat /\ open' \subseteq Ops
  <2>1. CASE o \in Promises /\ SettlePromise(o) /\ UNCHANGED loopVars
    BY <1>3, <2>1 DEF SettlePromise, Decremented, TypeOK
  <2>2. CASE o \in Timers /\ UNCHANGED <<loopVars, jobs, delivered, outstanding, open>>
    BY <2>2 DEF TypeOK
  <2>3. CASE /\ delivered' = delivered \cup {o} /\ ret' = [ret EXCEPT ![e] = "run"]
             /\ Goto(e, "js") /\ UNCHANGED <<ran, jobs, outstanding, open>>
    <3>1. pc' \in [Engines -> Labels]
      BY <2>3, GotoTyped DEF Labels
    <3> QED
      BY <1>3, <2>3, <3>1 DEF TypeOK
  <2> QED
    BY <1>3, <2>1, <2>2, <2>3 DEF RunCompletion
<1> QED
  BY <1>1, <1>2, <1>4 DEF TypeOK

LEMMA LoopTyped ==
  ASSUME TypeOK, OpOK, PlaceOK, NEW e \in Engines, LoopStep(e)
  PROVE  TypeOK'
<1> USE DEF loopVars, jsVars, opVars, hostVars
<1>1. CASE MoveStep(e)
  <2>1. pc' \in [Engines -> Labels]
    BY <1>1, MoveIs, GotoTyped
  <2>2. UNCHANGED <<ret, ran, jsVars, batch, opVars, hostVars, open, delivered>>
    BY <1>1, MoveIs
  <2> QED
    BY <2>1, <2>2 DEF TypeOK
<1>2. CASE RunJobs(e)
  <2>1. pc' \in [Engines -> Labels]
    BY <1>2, GotoTyped DEF RunJobs, Labels
  <2> QED
    BY <1>2, <2>1 DEF RunJobs, TypeOK
<1>3. CASE Drain(e)
  <2>1. pc' \in [Engines -> Labels]
    BY <1>3, GotoTyped DEF Drain, Labels
  <2>2. batch' \in [Engines -> Seq(Ops)] /\ queue' \in Seq(Ops)
    BY <1>3 DEF Drain, TypeOK
  <2> QED
    BY <1>3, <2>1, <2>2 DEF Drain, TypeOK
<1>4. CASE Leave(e)
  <2>1. pc' \in [Engines -> Labels]
    BY <1>4, GotoTyped DEF Leave, Labels
  <2>2. outcome' \in [Engines -> {"running", "failed", "interrupted", "stalled", "settled"}]
    BY <1>4 DEF Leave, TypeOK
  <2> QED
    BY <1>4, <2>1, <2>2 DEF Leave, TypeOK
<1> QED
  BY <1>1, <1>2, <1>3, <1>4, RunTyped DEF LoopStep, MoveStep

LEMMA HostTyped ==
  ASSUME TypeOK, Shutdown \/ StopWorker \/ FinalDrain \/ FinalCompletion \/ Gone
  PROVE  TypeOK'
<1> USE EventLoopAssumption DEF loopVars, jsVars, opVars, hostVars
<1>1. CASE Shutdown
  <2>1. pc' \in [Engines -> Labels]
    BY <1>1, GotoTyped DEF Shutdown, Labels
  <2> QED
    BY <1>1, <2>1 DEF Shutdown, TypeOK
<1>2. CASE StopWorker
  <2>1. pc' \in [Engines -> Labels]
    BY <1>2, GotoTyped DEF StopWorker, Labels
  <2> QED
    BY <1>2, <2>1 DEF StopWorker, TypeOK
<1>3. CASE FinalDrain
  <2>1. pc' \in [Engines -> Labels]
    BY <1>3, GotoTyped DEF FinalDrain, Labels
  <2>2. batch' \in [Engines -> Seq(Ops)] /\ queue' \in Seq(Ops)
    BY <1>3 DEF FinalDrain, TypeOK
  <2> QED
    BY <1>3, <2>1, <2>2 DEF FinalDrain, TypeOK
<1>4. CASE FinalCompletion
  <2>1. batch[Main] \in Seq(Ops) /\ batch[Main] # <<>>
    BY <1>4 DEF FinalCompletion, TypeOK
  <2>2. batch' \in [Engines -> Seq(Ops)]
    BY <1>4, <2>1 DEF FinalCompletion, TypeOK
  <2>3. outstanding' \in Nat /\ open' \subseteq Ops
    BY <1>4 DEF FinalCompletion, Decremented, TypeOK
  <2> QED
    BY <1>4, <2>2, <2>3 DEF FinalCompletion, TypeOK
<1>5. CASE Gone
  <2>1. MoveStep(Main)
    BY <1>5 DEF MoveStep
  <2>2. pc' \in [Engines -> Labels]
    BY <2>1, MoveIs, GotoTyped
  <2>3. UNCHANGED <<ret, ran, jsVars, batch, opVars, hostVars, open, delivered>>
    BY <2>1, MoveIs
  <2> QED
    BY <2>2, <2>3 DEF TypeOK
<1> QED
  BY <1>1, <1>2, <1>3, <1>4, <1>5

LEMMA WorkerTyped ==
  ASSUME TypeOK, NEW o \in Ops,
         \/ o \in Promises /\ Complete(o)
         \/ o \in Timers /\ (Fire(o) \/ Abort(o) \/ CloseTimeout(o))
  PROVE  TypeOK'
<1> USE DEF loopVars, jsVars, opVars, hostVars
<1>1. CASE Complete(o) \/ Fire(o)
  <2>1. queue' \in Seq(Ops)
    <3>1. queue \in Seq(Ops) /\ queue' = Append(queue, o)
      BY <1>1 DEF Complete, Fire, TypeOK
    <3> QED
      BY <3>1
  <2>2. op' \in [Ops -> {"new", "armed", "posted", "done"}]
    <3>1. \E s \in {"armed", "posted", "done"} : op' = [op EXCEPT ![o] = s]
      BY <1>1 DEF Complete, Fire
    <3> QED
      BY <3>1 DEF TypeOK
  <2> QED
    BY <1>1, <2>1, <2>2 DEF Complete, Fire, TypeOK
<1>2. CASE Abort(o)
  BY <1>2 DEF Abort, TypeOK
<1>3. CASE o \in Timers /\ CloseTimeout(o)
  <2>1. outstanding' \in Nat /\ open' \subseteq Ops
    BY <1>3 DEF CloseTimeout, Decremented, TypeOK
  <2> QED
    BY <1>3, <2>1 DEF CloseTimeout, TypeOK
<1> QED
  BY <1>1, <1>2, <1>3

LEMMA TypeStep ==
  ASSUME TypeOK, OpOK, PlaceOK, [Next]_vars
  PROVE  TypeOK'
<1>1. ASSUME NEW e \in Engines, Interrupt(e)
      PROVE  TypeOK'
  BY <1>1 DEF Interrupt, TypeOK, loopVars, opVars, hostVars
<1>2. ASSUME NEW e \in Engines, Crash(e)
      PROVE  TypeOK'
  <2>1. pc' \in [Engines -> Labels]
    BY <1>2 DEF Crash, Labels
  <2> QED
    BY <1>2, <2>1 DEF Crash, TypeOK, jsVars, opVars
<1>3. CASE UNCHANGED vars
  BY <1>3 DEF vars, TypeOK, loopVars, jsVars, opVars, hostVars
<1>4. Timers \subseteq Ops /\ Promises \subseteq Ops
  BY DEF Ops
<1> QED
  BY <1>1, <1>2, <1>3, <1>4, TurnTyped, LoopTyped, HostTyped, WorkerTyped DEF Next, TimerStep

-----------------------------------------------------------------------------
(* Operations, completions and the count. *)

\* A step that does nothing to operations and completions.
Still == UNCHANGED <<opVars, queue, batch, outstanding, open>>

\* The two ways in which the count follows the operations.
Begins(o) == o \notin open /\ open' = open \cup {o} /\ outstanding' = outstanding + 1
Finishes(o) == o \in open /\ open' = open \ {o} /\ outstanding' = Decremented

LEMMA OpenFinite == TypeOK => IsFiniteSet(open)
  BY EventLoopAssumption, FS_Subset DEF TypeOK

LEMMA CountBegins ==
  ASSUME TypeOK, CountMatches, NEW o, Begins(o)
  PROVE  CountMatches'
  BY OpenFinite, FS_AddElement DEF Begins, CountMatches

LEMMA CountFinishes ==
  ASSUME TypeOK, CountMatches, NEW o, Finishes(o)
  PROVE  CountMatches'
<1>1. IsFiniteSet(open) /\ Cardinality(open \ {o}) = Cardinality(open) - 1
  BY OpenFinite, FS_RemoveElement DEF Finishes
<1>2. Cardinality(open) # 0
  BY <1>1, FS_EmptySet DEF Finishes
<1>3. outstanding > 0
  BY <1>2 DEF CountMatches, TypeOK
<1> QED
  BY <1>1, <1>3 DEF Finishes, CountMatches, Decremented

LEMMA OpStill ==
  ASSUME Still
  PROVE  /\ OpOK => OpOK'
         /\ PlaceOK => PlaceOK'
         /\ CountMatches => CountMatches'
<1>1. OpOK => OpOK'
  BY DEF Still, OpOK, opVars
<1>2. /\ \A o : Waiting(o)' <=> Waiting(o)
      /\ \A o : Single(o)' <=> Single(o)
  BY QuietPlaces DEF Still
<1>3. PlaceOK => PlaceOK'
  BY <1>2 DEF Still, PlaceOK, opVars
<1>4. CountMatches => CountMatches'
  BY DEF Still, CountMatches
<1> QED
  BY <1>1, <1>3, <1>4

LEMMA OpBegin ==
  ASSUME TypeOK, OpOK, PlaceOK, CountMatches, NEW e \in Engines, NEW o \in Ops, Begin(e, o)
  PROVE  OpOK' /\ PlaceOK' /\ CountMatches'
<1>1. /\ op[o] = "new" /\ op' = [op EXCEPT ![o] = "armed"]
      /\ owner' = [owner EXCEPT ![o] = e] /\ open' = open \cup {o}
      /\ outstanding' = outstanding + 1
      /\ UNCHANGED <<queue, batch, cancelled, timerClosed>>
  BY DEF Begin
<1>2. o \notin open /\ o \notin timerClosed
  BY <1>1 DEF OpOK
<1>3. \A p \in Ops : op'[p] = (IF p = o THEN "armed" ELSE op[p])
                     /\ owner'[p] = (IF p = o THEN e ELSE owner[p])
  BY <1>1 DEF TypeOK
<1>4. OpOK'
  BY <1>1, <1>2, <1>3, EventLoopAssumption DEF OpOK
<1>5. /\ \A p : Waiting(p)' <=> Waiting(p)
      /\ \A p : Single(p)' <=> Single(p)
  BY <1>1, QuietPlaces
<1>6. ~Waiting(o)
  BY <1>1 DEF PlaceOK
<1>7. PlaceOK'
  BY <1>1, <1>3, <1>5, <1>6 DEF PlaceOK, Ops
<1>8. CountMatches'
  BY <1>1, <1>2, CountBegins DEF Begins
<1> QED
  BY <1>4, <1>7, <1>8

LEMMA OpCancel ==
  ASSUME TypeOK, OpOK, PlaceOK, CountMatches,
         NEW e \in Engines, NEW t \in Timers, CancelTimer(e, t)
  PROVE  OpOK' /\ PlaceOK' /\ CountMatches'
<1>1. /\ owner[t] # Nobody /\ cancelled' = cancelled \cup {t}
      /\ timerClosed' = timerClosed \cup {t}
      /\ UNCHANGED <<op, owner, queue, batch>>
  BY EventLoopAssumption DEF CancelTimer
<1>2. t \in Ops /\ op[t] # "new" /\ (t \in open <=> t \notin timerClosed)
  BY <1>1 DEF OpOK, Ops
<1>3. IF t \in timerClosed THEN UNCHANGED <<outstanding, open>> ELSE Finishes(t)
  BY <1>2 DEF CancelTimer, Finishes
<1>4. t \notin open' /\ \A p \in Ops \ {t} : p \in open' <=> p \in open
  BY <1>2, <1>3 DEF Finishes
<1>5. OpOK'
  BY <1>1, <1>2, <1>4 DEF OpOK
<1>6. /\ \A p : Waiting(p)' <=> Waiting(p)
      /\ \A p : Single(p)' <=> Single(p)
  BY <1>1, QuietPlaces
<1>7. PlaceOK'
  BY <1>1, <1>4, <1>6, EventLoopAssumption DEF PlaceOK, Ops
<1>8. CountMatches'
  <2>1. CASE t \in timerClosed
    BY <1>3, <2>1 DEF CountMatches
  <2>2. CASE t \notin timerClosed
    BY <1>3, <2>2, CountFinishes
  <2> QED
    BY <2>1, <2>2
<1> QED
  BY <1>5, <1>7, <1>8

LEMMA OpClose ==
  ASSUME TypeOK, OpOK, PlaceOK, CountMatches, NEW t \in Timers, CloseTimeout(t)
  PROVE  OpOK' /\ PlaceOK' /\ CountMatches'
<1>1. /\ op[t] = "posted" /\ op' = [op EXCEPT ![t] = "done"]
      /\ timerClosed' = timerClosed \cup {t}
      /\ UNCHANGED <<cancelled, owner, queue, batch>>
  BY DEF CloseTimeout
<1>2. t \in Ops /\ t \in Timeouts /\ (t \in open <=> t \notin timerClosed)
  BY <1>1 DEF OpOK, Ops
<1>3. IF t \in timerClosed THEN UNCHANGED <<outstanding, open>> ELSE Finishes(t)
  BY <1>2 DEF CloseTimeout, Finishes
<1>4. t \notin open' /\ \A p \in Ops \ {t} : p \in open' <=> p \in open
  BY <1>2, <1>3 DEF Finishes
<1>5. \A p \in Ops : op'[p] = IF p = t THEN "done" ELSE op[p]
  BY <1>1 DEF TypeOK
<1>6. OpOK'
  BY <1>1, <1>2, <1>4, <1>5, EventLoopAssumption DEF OpOK
<1>7. /\ \A p : Waiting(p)' <=> Waiting(p)
      /\ \A p : Single(p)' <=> Single(p)
  BY <1>1, QuietPlaces
<1>8. PlaceOK'
  BY <1>1, <1>4, <1>5, <1>7, EventLoopAssumption DEF PlaceOK, Ops
<1>9. CountMatches'
  <2>1. CASE t \in timerClosed
    BY <1>3, <2>1 DEF CountMatches
  <2>2. CASE t \notin timerClosed
    BY <1>3, <2>2, CountFinishes
  <2> QED
    BY <2>1, <2>2
<1> QED
  BY <1>6, <1>8, <1>9

LEMMA OpPost ==
  ASSUME TypeOK, OpOK, PlaceOK, CountMatches, NEW o \in Ops,
         \/ o \in Promises /\ Complete(o)
         \/ o \in Timers /\ Fire(o)
  PROVE  OpOK' /\ PlaceOK' /\ CountMatches'
<1>1. /\ op[o] = "armed" /\ queue' = Append(queue, o)
      /\ UNCHANGED <<owner, cancelled, timerClosed, batch, outstanding, open>>
  BY DEF Complete, Fire
<1>2. PICK s \in {"armed", "posted", "done"} :
         /\ op' = [op EXCEPT ![o] = s]
         /\ o \in Promises => s = "done"
         /\ o \in Timers => s = IF o \in Timeouts THEN "posted" ELSE "armed"
  BY EventLoopAssumption DEF Complete, Fire
<1>3. \A p \in Ops : op'[p] = IF p = o THEN s ELSE op[p]
  BY <1>2 DEF TypeOK
<1>4. OpOK'
  BY <1>1, <1>2, <1>3, EventLoopAssumption DEF OpOK, Ops
<1>5. /\ \A p : Waiting(p)' <=> Waiting(p) \/ p = o
      /\ \A p : p # o \/ ~Waiting(o) => (Single(p) => Single(p)')
  BY <1>1, PostPlaces
<1>6. o \in Promises => ~Waiting(o) /\ o \in open
  BY <1>1 DEF PlaceOK
<1>7. PlaceOK'
  <2>1. \A p \in Ops : Waiting(p)' => op'[p] # "new"
    BY <1>2, <1>3, <1>5 DEF PlaceOK
  <2>2. ASSUME NEW p \in Promises
        PROVE  Single(p)' /\ (Waiting(p)' => op'[p] = "done")
               /\ (op'[p] = "armed" \/ Waiting(p)' => p \in open')
    <3>1. p \in Ops
      BY DEF Ops
    <3>2. CASE p = o
      BY <1>1, <1>2, <1>3, <1>5, <1>6, <2>2, <3>1, <3>2 DEF PlaceOK
    <3>3. CASE p # o
      BY <1>1, <1>3, <1>5, <2>2, <3>1, <3>3 DEF PlaceOK
    <3> QED
      BY <3>2, <3>3
  <2> QED
    BY <2>1, <2>2 DEF PlaceOK
<1>8. CountMatches'
  BY <1>1 DEF CountMatches
<1> QED
  BY <1>4, <1>7, <1>8

LEMMA OpAbort ==
  ASSUME TypeOK, OpOK, PlaceOK, CountMatches, NEW t \in Timers, Abort(t)
  PROVE  OpOK' /\ PlaceOK' /\ CountMatches'
<1>1. /\ op[t] = "armed" /\ op' = [op EXCEPT ![t] = "done"] /\ t \in cancelled
      /\ UNCHANGED <<owner, cancelled, timerClosed, queue, batch, outstanding, open>>
  BY DEF Abort, hostVars
<1>2. \A p \in Ops : op'[p] = IF p = t THEN "done" ELSE op[p]
  BY <1>1 DEF TypeOK
<1>3. OpOK'
  BY <1>1, <1>2 DEF OpOK
<1>4. /\ \A p : Waiting(p)' <=> Waiting(p)
      /\ \A p : Single(p)' <=> Single(p)
  BY <1>1, QuietPlaces
<1>5. PlaceOK'
  BY <1>1, <1>2, <1>4, EventLoopAssumption DEF PlaceOK, Ops
<1>6. CountMatches'
  BY <1>1 DEF CountMatches
<1> QED
  BY <1>3, <1>5, <1>6

LEMMA OpDrain ==
  ASSUME TypeOK, OpOK, PlaceOK, CountMatches, LabelOK,
         \/ \E e \in Engines : Drain(e)
         \/ FinalDrain
  PROVE  OpOK' /\ PlaceOK' /\ CountMatches'
<1>1. PICK e \in Engines :
         /\ pc[e] \in {"body", "drain"}
         /\ batch' = [batch EXCEPT ![e] = queue] /\ queue' = <<>>
  BY EventLoopAssumption DEF Drain, FinalDrain
<1>2. UNCHANGED <<opVars, outstanding, open>>
  BY DEF Drain, FinalDrain, jsVars
<1>3. batch[e] = <<>>
  BY <1>1 DEF LabelOK
<1>4. /\ \A p : Waiting(p)' <=> Waiting(p)
      /\ \A p : Single(p) => Single(p)'
  BY <1>1, <1>3, DrainPlaces
<1>5. PlaceOK'
  BY <1>2, <1>4 DEF PlaceOK, opVars
<1> QED
  BY <1>2, <1>5 DEF OpOK, CountMatches, opVars

\* A completion leaves the batch; it ends a promise operation or nothing.
LEMMA OpRun ==
  ASSUME TypeOK, OpOK, PlaceOK, CountMatches,
         \/ \E e \in Engines : RunCompletion(e)
         \/ FinalCompletion
  PROVE  OpOK' /\ PlaceOK' /\ CountMatches'
<1>1. PICK e \in Engines :
         /\ batch[e] # <<>> /\ batch' = [batch EXCEPT ![e] = Tail(@)] /\ queue' = queue
         /\ UNCHANGED opVars
         /\ \/ /\ Head(batch[e]) \in Promises
               /\ outstanding' = Decremented /\ open' = open \ {Head(batch[e])}
            \/ /\ Head(batch[e]) \notin Promises
               /\ UNCHANGED <<outstanding, open>>
  BY EventLoopAssumption DEF RunCompletion, FinalCompletion, SettlePromise
<1>2. PICK o \in Ops : o = Head(batch[e]) /\ Waiting(o)
  BY <1>1, RunPlaces
<1>3. /\ \A p : Waiting(p)' => Waiting(p)
      /\ \A p : Single(p) => Single(p)'
      /\ o \in Promises => ~Waiting(o)'
  BY <1>1, <1>2, RunPlaces DEF PlaceOK
<1>4. o \in Promises => o \in open /\ op[o] = "done"
  BY <1>2 DEF PlaceOK
<1>5. \/ o \in Promises /\ Finishes(o)
      \/ o \notin Promises /\ UNCHANGED <<outstanding, open>>
  BY <1>1, <1>2, <1>4 DEF Finishes
<1>6. \A p \in Ops : p \in open' <=> p \in open /\ ~(p = o /\ o \in Promises)
  BY <1>5 DEF Finishes
<1>7. OpOK'
  BY <1>1, <1>4, <1>6, EventLoopAssumption DEF OpOK, opVars, Ops
<1>8. PlaceOK'
  BY <1>1, <1>3, <1>4, <1>6 DEF PlaceOK, opVars, Ops
<1>9. CountMatches'
  <2>1. CASE Finishes(o)
    BY <2>1, CountFinishes
  <2>2. CASE UNCHANGED <<outstanding, open>>
    BY <2>2 DEF CountMatches
  <2> QED
    BY <1>5, <2>1, <2>2
<1> QED
  BY <1>7, <1>8, <1>9

LEMMA OpStep ==
  ASSUME TypeOK, OpOK, PlaceOK, CountMatches, LabelOK, [Next]_vars
  PROVE  OpOK' /\ PlaceOK' /\ CountMatches'
<1>1. ASSUME NEW e \in Engines,
             \/ EndTurn(e) \/ EvalThrows(e) \/ Interrupt(e) \/ MoveStep(e) \/ RunJobs(e)
             \/ Leave(e) \/ Crash(e)
      PROVE  Still
  <2>1. CASE MoveStep(e)
    BY <2>1, MoveIs DEF Still, hostVars
  <2> QED
    BY <1>1, <2>1 DEF Still, EndTurn, EvalThrows, Interrupt, RunJobs, Leave, Crash, hostVars
<1>2. ASSUME Shutdown \/ StopWorker \/ Gone
      PROVE  Still
  BY <1>2 DEF Still, Shutdown, StopWorker, Gone, Move, hostVars
<1>3. CASE UNCHANGED vars
  BY <1>3, OpStill DEF vars, Still, hostVars
<1>4. CASE Still
  BY <1>4, OpStill
<1>5. Timers \subseteq Ops /\ Promises \subseteq Ops
  BY DEF Ops
<1>6. ASSUME NEW e \in Engines, LoopStep(e)
      PROVE  OpOK' /\ PlaceOK' /\ CountMatches'
  BY <1>1, <1>4, <1>6, OpDrain, OpRun DEF LoopStep, MoveStep
<1>7. ASSUME NEW e \in Engines, Turn(e)
      PROVE  OpOK' /\ PlaceOK' /\ CountMatches'
  BY <1>1, <1>4, <1>7, OpBegin, OpCancel DEF Turn
<1>8. ASSUME TimerStep \/ \E o \in Promises : Complete(o)
      PROVE  OpOK' /\ PlaceOK' /\ CountMatches'
  BY <1>5, <1>8, OpPost, OpAbort, OpClose DEF TimerStep
<1> QED
  BY <1>1, <1>2, <1>3, <1>4, <1>6, <1>7, <1>8, OpDrain, OpRun DEF Next

-----------------------------------------------------------------------------
(* Labels. *)

\* The thread of e goes to a label, with what it holds there.
LEMMA LabelGo ==
  ASSUME TypeOK, LabelOK, NEW e \in Engines, NEW label, Goto(e, label),
         \A f \in Engines \ {e} : /\ batch'[f] = batch[f] /\ ret'[f] = ret[f]
                                  /\ outcome'[f] = outcome[f],
         \/ batch'[e] = <<>>
         \/ label \in {"run", "final"}
         \/ label = "js" /\ ret'[e] = "run",
         label \notin Over => outcome'[e] = "running"
  PROVE  LabelOK'
<1>1. \A f \in Engines : pc'[f] = IF f = e THEN label ELSE pc[f]
  BY DEF Goto, TypeOK
<1> SUFFICES ASSUME NEW f \in Engines
             PROVE  /\ batch'[f] # <<>> => \/ pc'[f] \in {"run", "final", "crashed"}
                                           \/ pc'[f] = "js" /\ ret'[f] = "run"
                    /\ pc'[f] \notin Over => outcome'[f] = "running"
  BY DEF LabelOK
<1>2. CASE f = e
  BY <1>1, <1>2
<1>3. CASE f # e
  BY <1>1, <1>3 DEF LabelOK
<1> QED
  BY <1>2, <1>3

LEMMA LabelQuiet ==
  ASSUME LabelOK, UNCHANGED <<pc, ret, batch, outcome>>
  PROVE  LabelOK'
  BY DEF LabelOK

\* From where a thread moves on, and what is known there.
LEMMA MoveFrom ==
  ASSUME TypeOK, LabelOK, NEW e \in Engines, MoveStep(e)
  PROVE  /\ batch[e] = <<>>
         /\ \E label \in Labels :
              /\ Goto(e, label)
              /\ \/ label \notin Over \cup {"js"} /\ pc[e] \notin Over
                 \/ label = "gone"
         /\ pc[e] # "js"
<1>1. ASSUME NEW from \in {"jobs0", "top", "queue", "body", "jobs", "idle", "idleQueue", "wait"},
             NEW to \in {"top", "body", "queue", "leave", "idle", "wait", "idleQueue"},
             Move(e, from, to)
      PROVE  /\ batch[e] = <<>> /\ to \in Labels /\ Goto(e, to)
             /\ to \notin Over \cup {"js"} /\ pc[e] \notin Over \cup {"js"}
  BY <1>1 DEF Move, LabelOK, Labels, Over
<1>2. CASE BatchDone(e)
  BY <1>2 DEF BatchDone, Move, Labels, Over
<1>3. CASE e = Main /\ Gone
  BY <1>3 DEF Gone, Move, Labels, Over
<1>4. CASE EnterLoop(e) \/ LoopTest(e) \/ LoopTestQueue(e) \/ Break(e)
  BY <1>1, <1>4 DEF EnterLoop, LoopTest, LoopTestQueue, Break
<1>5. CASE JobsDone(e) \/ IdleTest(e) \/ IdleTestQueue(e) \/ Wake(e)
  BY <1>1, <1>5 DEF JobsDone, IdleTest, IdleTestQueue, Wake
<1> QED
  BY <1>2, <1>3, <1>4, <1>5 DEF MoveStep

LEMMA LabelStep ==
  ASSUME TypeOK, LabelOK, [Next]_vars
  PROVE  LabelOK'
<1> USE DEF loopVars, jsVars
<1>1. ASSUME NEW e \in Engines, MoveStep(e)
      PROVE  LabelOK'
  <2>1. UNCHANGED <<ret, batch, outcome>>
    BY <1>1, MoveIs
  <2>2. PICK label \in Labels :
          /\ Goto(e, label)
          /\ \/ label \notin Over \cup {"js"} /\ pc[e] \notin Over
             \/ label = "gone"
    BY <1>1, MoveFrom
  <2>3. batch[e] = <<>>
    BY <1>1, MoveFrom
  <2>4. label \notin Over => outcome[e] = "running"
    BY <2>2 DEF LabelOK, Over
  <2> QED
    BY <2>1, <2>2, <2>3, <2>4, LabelGo
<1>2. ASSUME NEW e \in Engines, EndTurn(e)
      PROVE  LabelOK'
  <2>1. /\ pc[e] = "js" /\ UNCHANGED <<ret, batch, outcome>>
        /\ Goto(e, IF ret[e] = "start" THEN "jobs0" ELSE ret[e])
    BY <1>2 DEF EndTurn
  <2>2. outcome[e] = "running" /\ (batch[e] # <<>> => ret[e] = "run")
    BY <2>1 DEF LabelOK, Over
  <2> QED
    BY <2>1, <2>2, LabelGo
<1>3. ASSUME NEW e \in Engines, EvalThrows(e)
      PROVE  LabelOK'
  <2>1. /\ pc[e] = "js" /\ ret[e] = "start" /\ UNCHANGED <<ret, batch>> /\ Goto(e, "ended")
        /\ \A f \in Engines \ {e} : outcome'[f] = outcome[f]
    BY <1>3 DEF EvalThrows, TypeOK
  <2>2. batch[e] = <<>> /\ "ended" \in Over
    BY <2>1 DEF LabelOK, Over
  <2> QED
    BY <2>1, <2>2, LabelGo
<1>4. ASSUME NEW e \in Engines, RunJobs(e)
      PROVE  LabelOK'
  <2>1. /\ pc[e] \in {"jobs0", "jobs"} /\ UNCHANGED <<batch, outcome>> /\ Goto(e, "js")
        /\ \A f \in Engines \ {e} : ret'[f] = ret[f]
    BY <1>4 DEF RunJobs, TypeOK
  <2>2. batch[e] = <<>> /\ outcome[e] = "running"
    BY <2>1 DEF LabelOK, Over
  <2> QED
    BY <2>1, <2>2, LabelGo
<1>5. ASSUME NEW e \in Engines, Drain(e)
      PROVE  LabelOK'
  <2>1. /\ pc[e] = "body" /\ UNCHANGED <<ret, outcome>> /\ Goto(e, "run")
        /\ \A f \in Engines \ {e} : batch'[f] = batch[f]
    BY <1>5 DEF Drain, TypeOK
  <2>2. outcome[e] = "running"
    BY <2>1 DEF LabelOK, Over
  <2> QED
    BY <2>1, <2>2, LabelGo
<1>6. ASSUME NEW e \in Engines, RunCompletion(e)
      PROVE  LabelOK'
  <2>1. /\ pc[e] = "run" /\ UNCHANGED outcome
        /\ \A f \in Engines \ {e} : batch'[f] = batch[f]
    BY <1>6 DEF RunCompletion, TypeOK
  <2>2. outcome[e] = "running"
    BY <2>1 DEF LabelOK, Over
  <2>3. CASE UNCHANGED loopVars
    BY <2>1, <2>2, <2>3 DEF LabelOK, Over
  <2>4. CASE ret' = [ret EXCEPT ![e] = "run"] /\ Goto(e, "js")
    <3>1. ret'[e] = "run" /\ \A f \in Engines \ {e} : ret'[f] = ret[f]
      BY <2>4 DEF TypeOK
    <3> QED
      BY <2>1, <2>2, <2>4, <3>1, LabelGo
  <2> QED
    BY <1>6, <2>3, <2>4 DEF RunCompletion
<1>7. ASSUME NEW e \in Engines, Leave(e)
      PROVE  LabelOK'
  <2>1. /\ pc[e] = "leave" /\ UNCHANGED <<ret, batch>> /\ Goto(e, "ended")
        /\ \A f \in Engines \ {e} : outcome'[f] = outcome[f]
    BY <1>7 DEF Leave, TypeOK
  <2>2. batch[e] = <<>> /\ "ended" \in Over
    BY <2>1 DEF LabelOK, Over
  <2> QED
    BY <2>1, <2>2, LabelGo
<1>8. ASSUME NEW e \in Engines, Crash(e)
      PROVE  LabelOK'
  <2>1. \A f \in Engines : pc'[f] = "crashed"
    BY <1>8 DEF Crash
  <2> QED
    BY <2>1 DEF LabelOK, Over
<1>9. CASE Shutdown \/ StopWorker
  <2>1. PICK label \in {"hooks", "drain"} : Goto(Main, label)
    BY <1>9 DEF Shutdown, StopWorker
  <2>2. pc[Main] \in {"ended", "hooks"} /\ UNCHANGED <<ret, batch, outcome>>
    BY <1>9 DEF Shutdown, StopWorker
  <2>3. batch[Main] = <<>>
    BY <2>2, EventLoopAssumption DEF LabelOK
  <2> QED
    BY <2>1, <2>2, <2>3, LabelGo, EventLoopAssumption DEF Over
<1>10. CASE FinalDrain
  <2>1. /\ UNCHANGED <<ret, outcome>> /\ Goto(Main, "final")
        /\ \A f \in Engines \ {Main} : batch'[f] = batch[f]
    BY <1>10 DEF FinalDrain, TypeOK
  <2> QED
    BY <2>1, LabelGo, EventLoopAssumption DEF Over
<1>11. CASE FinalCompletion
  <2>1. /\ pc[Main] = "final" /\ UNCHANGED <<pc, ret, outcome>>
        /\ \A f \in Engines \ {Main} : batch'[f] = batch[f]
    BY <1>11 DEF FinalCompletion, TypeOK
  <2> QED
    BY <2>1 DEF LabelOK
<1>12. CASE \/ \E e \in Engines : \/ Interrupt(e) \/ \E o \in Ops : Begin(e, o)
                                  \/ \E t \in Timers : CancelTimer(e, t)
            \/ TimerStep \/ \E o \in Promises : Complete(o)
            \/ UNCHANGED vars
  BY <1>12, LabelQuiet
     DEF Interrupt, Begin, CancelTimer, TimerStep, Fire, Abort, CloseTimeout, Complete, vars
<1>13. CASE Gone
  BY <1>1, <1>13, EventLoopAssumption DEF MoveStep
<1> QED
  BY <1>1, <1>2, <1>3, <1>4, <1>5, <1>6, <1>7, <1>8, <1>9, <1>10, <1>11, <1>12, <1>13
     DEF Next, Turn, LoopStep, MoveStep

-----------------------------------------------------------------------------
(* Completions are not lost. *)

LEMMA KeptQuiet ==
  ASSUME KeptOK, UNCHANGED <<op, queue, batch>>,
         pc[Main] \in {"final", "gone", "crashed"} => pc'[Main] \in {"final", "gone", "crashed"},
         cancelled \subseteq cancelled', delivered \subseteq delivered'
  PROVE  KeptOK'
<1>1. \A o : Waiting(o)' <=> Waiting(o)
  BY QuietPlaces
<1> QED
  BY <1>1 DEF KeptOK

\* The end of Main's thread is not left again.
LEMMA LastLabels ==
  ASSUME TypeOK, LabelOK, [Next]_vars, pc[Main] \in {"final", "gone", "crashed"}
  PROVE  pc'[Main] \in {"final", "gone", "crashed"}
<1> USE EventLoopAssumption DEF loopVars, jsVars
<1>1. ASSUME NEW e \in Engines, NEW label, Goto(e, label), e # Main
      PROVE  pc'[Main] = pc[Main]
  BY <1>1 DEF Goto, TypeOK
<1>2. ASSUME NEW label, Goto(Main, label)
      PROVE  pc'[Main] = label
  BY <1>2 DEF Goto, TypeOK
<1>3. ASSUME NEW e \in Engines, MoveStep(e)
      PROVE  pc'[Main] \in {"final", "gone", "crashed"}
  <2>1. PICK label : Goto(e, label) /\ (pc[e] \notin Over \/ label = "gone")
    BY <1>3, MoveFrom
  <2> QED
    BY <1>1, <1>2, <2>1 DEF Over
<1>4. ASSUME NEW e \in Engines,
             EndTurn(e) \/ EvalThrows(e) \/ RunJobs(e) \/ Drain(e) \/ Leave(e)
      PROVE  pc'[Main] \in {"final", "gone", "crashed"}
  <2>1. e # Main /\ \E label : Goto(e, label)
    BY <1>4 DEF EndTurn, EvalThrows, RunJobs, Drain, Leave
  <2> QED
    BY <1>1, <2>1
<1>5. ASSUME NEW e \in Engines, RunCompletion(e)
      PROVE  pc'[Main] \in {"final", "gone", "crashed"}
  <2>1. e # Main /\ (pc' = pc \/ Goto(e, "js"))
    BY <1>5 DEF RunCompletion
  <2> QED
    BY <1>1, <2>1
<1>6. ASSUME NEW e \in Engines, Crash(e)
      PROVE  pc'[Main] \in {"final", "gone", "crashed"}
  BY <1>6 DEF Crash
<1>7. CASE \/ \E e \in Engines : \/ Interrupt(e) \/ \E o \in Ops : Begin(e, o)
                                 \/ \E t \in Timers : CancelTimer(e, t)
           \/ TimerStep \/ \E o \in Promises : Complete(o)
           \/ FinalCompletion \/ UNCHANGED vars
  BY <1>7 DEF Interrupt, Begin, CancelTimer, TimerStep, Fire, Abort, CloseTimeout, Complete,
              FinalCompletion, vars
<1>8. CASE Gone \/ Shutdown \/ StopWorker \/ FinalDrain
  BY <1>2, <1>8 DEF Gone, Move, Shutdown, StopWorker, FinalDrain
<1> QED
  BY <1>3, <1>4, <1>5, <1>6, <1>7, <1>8 DEF Next, Turn, LoopStep, MoveStep

LEMMA KeptStep ==
  ASSUME TypeOK, OpOK, PlaceOK, LabelOK, KeptOK, [Next]_vars
  PROVE  KeptOK'
<1> USE DEF loopVars, jsVars, opVars, hostVars
<1>1. ASSUME UNCHANGED <<op, queue, batch>>,
             cancelled \subseteq cancelled', delivered \subseteq delivered'
      PROVE  KeptOK'
  BY <1>1, KeptQuiet, LastLabels
<1>2. ASSUME NEW e \in Engines,
             \/ EndTurn(e) \/ EvalThrows(e) \/ Interrupt(e) \/ RunJobs(e) \/ Leave(e)
             \/ Crash(e) \/ \E t \in Timers : CancelTimer(e, t)
      PROVE  KeptOK'
  BY <1>1, <1>2 DEF EndTurn, EvalThrows, Interrupt, RunJobs, Leave, Crash, CancelTimer
<1>3. ASSUME NEW e \in Engines, MoveStep(e)
      PROVE  KeptOK'
  BY <1>1, <1>3, MoveIs
<1>4. CASE Shutdown \/ StopWorker \/ Gone \/ UNCHANGED vars
  BY <1>1, <1>4 DEF Shutdown, StopWorker, Gone, Move, vars
<1>5. ASSUME NEW e \in Engines, NEW o \in Ops, Begin(e, o)
      PROVE  KeptOK'
  <2>1. /\ UNCHANGED <<pc, queue, batch, cancelled, delivered>>
        /\ \A p \in Ops : op'[p] \in {"posted", "done"} => op[p] \in {"posted", "done"}
    BY <1>5 DEF Begin, TypeOK
  <2>2. \A p : Waiting(p)' <=> Waiting(p)
    BY <2>1, QuietPlaces
  <2> QED
    BY <2>1, <2>2 DEF KeptOK
<1>6. ASSUME NEW t \in Ops, Abort(t) \/ CloseTimeout(t)
      PROVE  KeptOK'
  <2>1. /\ UNCHANGED <<pc, queue, batch, cancelled, delivered>>
        /\ \A p \in Ops : op'[p] \in {"posted", "done"} =>
             op[p] \in {"posted", "done"} \/ p \in cancelled
    BY <1>6 DEF Abort, CloseTimeout, TypeOK
  <2>2. \A p : Waiting(p)' <=> Waiting(p)
    BY <2>1, QuietPlaces
  <2> QED
    BY <2>1, <2>2 DEF KeptOK
<1>7. ASSUME NEW o \in Ops, Complete(o) \/ Fire(o)
      PROVE  KeptOK'
  <2>1. /\ UNCHANGED <<pc, batch, cancelled, delivered>> /\ queue' = Append(queue, o)
        /\ \A p \in Ops : p # o => op'[p] = op[p]
    BY <1>7 DEF Complete, Fire, TypeOK
  <2>2. \A p : Waiting(p)' <=> Waiting(p) \/ p = o
    BY <2>1, PostPlaces
  <2> QED
    BY <2>1, <2>2 DEF KeptOK
<1>8. ASSUME NEW e \in Engines, Drain(e)
      PROVE  KeptOK'
  <2>1. /\ UNCHANGED <<op, cancelled, delivered>> /\ batch[e] = <<>>
        /\ batch' = [batch EXCEPT ![e] = queue] /\ queue' = <<>>
    BY <1>8 DEF Drain, LabelOK
  <2>2. \A p : Waiting(p)' <=> Waiting(p)
    BY <2>1, DrainPlaces
  <2> QED
    BY <2>1, <2>2, LastLabels DEF KeptOK
<1>9. ASSUME NEW e \in Engines, RunCompletion(e)
      PROVE  KeptOK'
  <2>1. /\ batch[e] # <<>> /\ batch' = [batch EXCEPT ![e] = Tail(@)] /\ queue' = queue
        /\ UNCHANGED <<op, cancelled>>
    BY <1>9 DEF RunCompletion
  <2>2. delivered \subseteq delivered' /\ Head(batch[e]) \in delivered' \cup cancelled'
    BY <1>9 DEF RunCompletion, SettlePromise, Suppressed
  <2>3. \A p : Waiting(p) => Waiting(p)' \/ p = Head(batch[e])
    BY <2>1, RunPlaces
  <2> QED
    BY <2>1, <2>2, <2>3, LastLabels DEF KeptOK
<1>10. CASE FinalDrain \/ FinalCompletion
  <2>1. pc'[Main] = "final"
    BY <1>10, EventLoopAssumption DEF FinalDrain, FinalCompletion, Goto, TypeOK
  <2> QED
    BY <2>1 DEF KeptOK
<1>11. Timers \subseteq Ops /\ Promises \subseteq Ops
  BY DEF Ops
<1> QED
  BY <1>2, <1>3, <1>4, <1>5, <1>6, <1>7, <1>8, <1>9, <1>10, <1>11
     DEF Next, Turn, LoopStep, MoveStep, TimerStep

-----------------------------------------------------------------------------
(* The theorems for every number of engines. *)

LEMMA InitIInv == Init => IInv
<1> SUFFICES ASSUME Init PROVE IInv
  OBVIOUS
<1>1. TypeOK
  <2>1. /\ pc \in [Engines -> Labels]
        /\ ret \in [Engines -> {"start", "jobs0", "run", "jobs"}]
        /\ outcome \in [Engines -> {"running", "failed", "interrupted", "stalled", "settled"}]
        /\ op \in [Ops -> {"new", "armed", "posted", "done"}]
    BY DEF Init, Labels
  <2>2. /\ top \in [Engines -> Ops \cup {Settled, Never}]
        /\ batch \in [Engines -> Seq(Ops)]
        /\ owner \in [Ops -> Engines \cup {Nobody}]
        /\ queue \in Seq(Ops)
    BY DEF Init
  <2>3. /\ ran = {} /\ jobs = {} /\ cancel = {} /\ cancelled = {} /\ timerClosed = {}
        /\ open = {} /\ delivered = {} /\ outstanding = 0
        /\ working = FALSE /\ down = FALSE
    BY DEF Init
  <2> QED
    BY <2>1, <2>2, <2>3 DEF TypeOK
<1>2. \A o : ~Waiting(o) /\ Single(o)
  BY DEF Init, Waiting, Single, Queued, Held
<1>3. OpOK /\ PlaceOK /\ LabelOK /\ KeptOK
  BY <1>2, EventLoopAssumption DEF Init, OpOK, PlaceOK, LabelOK, KeptOK, Ops
<1>4. CountMatches
  BY FS_EmptySet DEF Init, CountMatches
<1> QED
  BY <1>1, <1>3, <1>4 DEF IInv

THEOREM Inductive == Spec => []IInv
<1>1. IInv /\ [Next]_vars => IInv'
  BY TypeStep, OpStep, LabelStep, KeptStep DEF IInv
<1> QED
  BY <1>1, InitIInv, PTL DEF Spec

\* Every variable of the loop, the host and the worker keeps its type.
THEOREM TypeCorrect == Spec => []TypeOK
<1>1. IInv => TypeOK
  BY DEF IInv
<1> QED
  BY <1>1, Inductive, PTL

\* beginOperation and endOperation are called in pairs, so that the floor of
\* endOperation is never needed, whatever engines and timers do (async_host.cpp).
THEOREM CountAlwaysMatches == Spec => []CountMatches
<1>1. IInv => CountMatches
  BY DEF IInv
<1> QED
  BY <1>1, Inductive, PTL

-----------------------------------------------------------------------------
(* The engine that has the AsyncHost to itself.  With a second engine on the *)
(* same host both facts are false: the completions swapped out by one engine  *)
(* are then invisible to the other, and settle promises in its context.       *)

Alone == Engines = {Main}

\* The callback of o is to come, or o was cancelled.
Reachable(o) == op[o] = "armed" \/ Waiting(o) \/ o \in cancelled

LEMMA ComingIs == TypeOK => \A o : Coming(o) \/ o \in cancelled <=> Reachable(o)
<1> SUFFICES ASSUME TypeOK, NEW o
             PROVE  Coming(o) \/ o \in cancelled <=> Reachable(o)
  OBVIOUS
<1>1. o \in Members(queue) <=> \E i \in Nat : Queued(o, i)
  BY InQueue DEF Members, Queued
<1>2. \A e \in Engines : o \in Members(batch[e]) <=> \E i \in Nat : Held(o, e, i)
  BY InBatch DEF Members, Held
<1> QED
  BY <1>1, <1>2 DEF Coming, Reachable, Waiting

\* An outstanding count of zero means that no operation is in flight.
LEMMA NoneOpen ==
  ASSUME IInv, outstanding = 0
  PROVE  /\ open = {}
         /\ \A o \in Ops : op[o] = "armed" => o \in cancelled
         /\ \A o \in Ops : op[o] = "posted" => o \in timerClosed
<1>1. open = {}
  BY OpenFinite, FS_EmptySet DEF IInv, CountMatches
<1>2. \A o \in Ops : op[o] = "armed" => o \in Timers /\ o \in timerClosed /\ o \in cancelled
  BY <1>1 DEF IInv, OpOK, PlaceOK, Ops
<1>3. \A o \in Ops : op[o] = "posted" => o \in timerClosed
  BY <1>1 DEF IInv, OpOK, Timers
<1> QED
  BY <1>1, <1>2, <1>3

\* At the end of its loop the engine has nothing to run and nothing to wait for.
LEMMA NothingAtLeave ==
  ASSUME Alone, IInv, LeaveOK, pc[Main] = "leave", Main \notin cancel
  PROVE  \A o \in Ops : ~Waiting(o) /\ (op[o] = "armed" => o \in cancelled)
<1>1. outstanding = 0 /\ queue = <<>>
  BY EventLoopAssumption DEF LeaveOK
<1>2. batch[Main] = <<>>
  BY EventLoopAssumption DEF IInv, LabelOK
<1>3. \A o : ~Waiting(o)
  BY <1>1, <1>2 DEF Waiting, Queued, Held, Alone
<1> QED
  BY <1>1, <1>3, NoneOpen

\* Which steps change what: the thread's label moves to a known place.
LEMMA LeaveStep ==
  ASSUME Alone, IInv, LeaveOK, [Next]_vars
  PROVE  LeaveOK'
<1> USE EventLoopAssumption DEF loopVars, jsVars, hostVars
<1>1. TypeOK /\ pc \in [Engines -> Labels] /\ outstanding \in Nat /\ Main \in Engines
  BY DEF IInv, TypeOK
<1>2. /\ pc[Main] \in {"queue", "idleQueue"} => outstanding = 0
      /\ pc[Main] = "leave" /\ Main \notin cancel => outstanding = 0 /\ queue = <<>>
  BY DEF LeaveOK
<1> SUFFICES /\ pc'[Main] \in {"queue", "idleQueue"} => outstanding' = 0
             /\ pc'[Main] = "leave" /\ Main \notin cancel' => outstanding' = 0 /\ queue' = <<>>
  BY DEF LeaveOK, Alone
<1>3. ASSUME NEW label, Goto(Main, label)
      PROVE  pc'[Main] = label
  BY <1>1, <1>3 DEF Goto
<1>4. ASSUME NEW label \in Labels \ {"queue", "idleQueue", "leave"}, Goto(Main, label)
      PROVE  pc'[Main] \notin {"queue", "idleQueue", "leave"}
  BY <1>3, <1>4
<1>5. ASSUME pc' = pc, outstanding = 0 => outstanding' = 0,
             outstanding = 0 /\ queue = <<>> => queue' = <<>>, cancel \subseteq cancel'
      PROVE  /\ pc'[Main] \in {"queue", "idleQueue"} => outstanding' = 0
             /\ pc'[Main] = "leave" /\ Main \notin cancel' => outstanding' = 0 /\ queue' = <<>>
  BY <1>2, <1>5
<1>6. CASE \E e \in Engines : MoveStep(e)
  <2>1. MoveStep(Main) /\ UNCHANGED <<cancel, outstanding, queue>>
    BY <1>6, MoveIs DEF Alone
  <2>2. CASE LoopTest(Main) \/ IdleTest(Main)
    <3>1. outstanding # 0 => pc'[Main] \notin {"queue", "idleQueue", "leave"}
      <4>1. outstanding # 0 => outstanding > 0
        BY <1>1
      <4>2. outstanding > 0 => HostReads[1]
        BY DEF HostReads
      <4>3. HostReads[1] => Goto(Main, "body") \/ Goto(Main, "wait")
        BY <2>2 DEF LoopTest, IdleTest, Move
      <4> QED
        BY <1>3, <4>1, <4>2, <4>3
    <3>2. pc'[Main] # "leave"
      BY <1>3, <2>2 DEF LoopTest, IdleTest, Move
    <3> QED
      BY <2>1, <3>1, <3>2
  <2>3. CASE LoopTestQueue(Main) \/ IdleTestQueue(Main)
    <3>1. outstanding = 0
      BY <1>2, <2>3 DEF LoopTestQueue, IdleTestQueue, Move
    <3>2. pc'[Main] = "leave" => queue = <<>>
      BY <1>3, <2>3 DEF LoopTestQueue, IdleTestQueue, Move, HostReads
    <3> QED
      BY <2>1, <3>1, <3>2
  <2>4. CASE Break(Main)
    BY <1>3, <2>1, <2>4 DEF Break, Move
  <2>5. CASE \/ EnterLoop(Main) \/ BatchDone(Main) \/ JobsDone(Main) \/ Wake(Main) \/ Gone
    BY <1>3, <2>5 DEF EnterLoop, BatchDone, JobsDone, Wake, Gone, Move
  <2> QED
    BY <2>1, <2>2, <2>3, <2>4, <2>5 DEF MoveStep
<1>7. CASE EndTurn(Main)
  <2>1. (IF ret[Main] = "start" THEN "jobs0" ELSE ret[Main]) \notin {"queue", "idleQueue", "leave"}
    BY <1>1 DEF TypeOK
  <2> QED
    BY <1>3, <1>7, <2>1 DEF EndTurn
<1>8. CASE EvalThrows(Main) \/ RunJobs(Main) \/ Drain(Main) \/ Leave(Main)
  BY <1>3, <1>8 DEF EvalThrows, RunJobs, Drain, Leave
<1>9. CASE Shutdown \/ StopWorker \/ FinalDrain
  BY <1>3, <1>9 DEF Shutdown, StopWorker, FinalDrain
<1>10. CASE Crash(Main)
  BY <1>10 DEF Crash
<1>11. CASE RunCompletion(Main) \/ FinalCompletion
  <2>1. pc'[Main] \in {"run", "js", "final"}
    BY <1>3, <1>11 DEF RunCompletion, FinalCompletion
  <2> QED
    BY <2>1
<1>12. CASE \E o \in Ops : Begin(Main, o)
  BY <1>12 DEF Begin
<1>13. CASE \E t \in Timers : CancelTimer(Main, t)
  BY <1>13 DEF CancelTimer
<1>14. CASE Interrupt(Main) \/ UNCHANGED vars
  BY <1>5, <1>14 DEF Interrupt, vars
<1>15. CASE \E o \in Promises : Complete(o)
  <2>1. PICK o \in Promises : Complete(o)
    BY <1>15
  <2>2. outstanding # 0
    BY <2>1, NoneOpen DEF Complete, IInv, PlaceOK, Ops
  <2> QED
    BY <1>5, <2>1, <2>2 DEF Complete
<1>16. CASE TimerStep
  <2>1. PICK t \in Timers : Fire(t) \/ Abort(t) \/ CloseTimeout(t)
    BY <1>16 DEF TimerStep
  <2>2. t \in Ops
    BY DEF Ops
  <2>3. CASE Fire(t)
    <3>1. outstanding # 0
      BY <2>2, <2>3, NoneOpen DEF Fire
    <3> QED
      BY <1>5, <2>3, <3>1 DEF Fire
  <2>4. CASE Abort(t)
    BY <1>5, <2>4 DEF Abort
  <2>5. CASE CloseTimeout(t)
    BY <1>1, <1>5, <2>5 DEF CloseTimeout, Decremented
  <2> QED
    BY <2>1, <2>3, <2>4, <2>5
<1> QED
  BY <1>6, <1>7, <1>8, <1>9, <1>10, <1>11, <1>12, <1>13, <1>14, <1>15, <1>16
     DEF Next, Turn, LoopStep, MoveStep, Alone

\* Its jobs come from the completions it runs.
LEMMA JobsStep ==
  ASSUME Alone, IInv, JobsOK, [Next]_vars
  PROVE  JobsOK'
<1> USE EventLoopAssumption DEF loopVars, jsVars
<1>1. /\ TypeOK /\ pc[Main] \in Labels /\ Main \in Engines
      /\ pc[Main] \notin Over => outcome[Main] = "running"
  BY DEF IInv, TypeOK, LabelOK
<1>2. /\ Main \in jobs => \/ pc[Main] \in {"run", "jobs", "crashed"}
                          \/ pc[Main] = "js" /\ ret[Main] = "run"
      /\ pc[Main] \in Over \ {"crashed"} => outcome[Main] # "running"
  BY DEF JobsOK
<1> SUFFICES /\ Main \in jobs' => \/ pc'[Main] \in {"run", "jobs", "crashed"}
                                  \/ pc'[Main] = "js" /\ ret'[Main] = "run"
             /\ pc'[Main] \in Over \ {"crashed"} => outcome'[Main] # "running"
  BY DEF JobsOK, Alone
<1>3. ASSUME NEW label, Goto(Main, label)
      PROVE  pc'[Main] = label
  BY <1>1, <1>3 DEF Goto, TypeOK
<1>4. ASSUME NEW e \in Engines, MoveStep(e)
      PROVE  /\ e = Main /\ UNCHANGED <<jobs, ret, outcome>>
             /\ Main \in jobs => pc'[Main] \in {"run", "jobs", "crashed"}
             /\ pc'[Main] \in Over => pc[Main] \in Over \ {"crashed"}
  <2>1. e = Main /\ UNCHANGED <<jobs, ret, outcome>>
    BY <1>4, MoveIs DEF Alone
  <2>2. CASE BatchDone(Main) \/ JobsDone(Main)
    BY <1>3, <2>1, <2>2 DEF BatchDone, JobsDone, Move, Over
  <2>3. CASE EnterLoop(Main) \/ LoopTest(Main) \/ LoopTestQueue(Main) \/ Break(Main)
    BY <1>2, <1>3, <2>1, <2>3 DEF EnterLoop, LoopTest, LoopTestQueue, Break, Move, Over
  <2>4. CASE IdleTest(Main) \/ IdleTestQueue(Main) \/ Wake(Main)
    BY <1>2, <1>3, <2>1, <2>4 DEF IdleTest, IdleTestQueue, Wake, Move, Over
  <2>5. CASE Gone
    BY <1>2, <1>3, <2>1, <2>5 DEF Gone, Move, Over
  <2> QED
    BY <1>4, <2>1, <2>2, <2>3, <2>4, <2>5 DEF MoveStep
<1>5. CASE EndTurn(Main)
  <2>1. pc'[Main] = IF ret[Main] = "start" THEN "jobs0" ELSE ret[Main]
    BY <1>3, <1>5 DEF EndTurn
  <2>2. ret[Main] \in {"start", "jobs0", "run", "jobs"}
    BY <1>1 DEF TypeOK
  <2>3. pc[Main] = "js" /\ UNCHANGED <<jobs, ret, outcome>>
    BY <1>5 DEF EndTurn
  <2> QED
    BY <1>2, <2>1, <2>2, <2>3 DEF Over
<1>6. CASE EvalThrows(Main)
  <2>1. outcome'[Main] = "failed" /\ Main \notin jobs'
    BY <1>1, <1>2, <1>6 DEF EvalThrows, TypeOK
  <2> QED
    BY <2>1
<1>7. CASE RunJobs(Main)
  <2>1. pc'[Main] = "js" /\ Main \notin jobs'
    BY <1>3, <1>7 DEF RunJobs
  <2> QED
    BY <2>1 DEF Over
<1>8. CASE Drain(Main)
  BY <1>3, <1>8 DEF Drain, Over
<1>9. CASE RunCompletion(Main)
  <2>1. \/ pc' = pc
        \/ ret' = [ret EXCEPT ![Main] = "run"] /\ Goto(Main, "js")
    BY <1>9 DEF RunCompletion
  <2>2. ret' = [ret EXCEPT ![Main] = "run"] => ret'[Main] = "run"
    BY <1>1 DEF TypeOK
  <2>3. pc[Main] = "run"
    BY <1>9 DEF RunCompletion
  <2>4. \/ pc'[Main] = "run"
        \/ pc'[Main] = "js" /\ ret'[Main] = "run"
    <3>1. CASE pc' = pc
      BY <2>3, <3>1
    <3>2. CASE ret' = [ret EXCEPT ![Main] = "run"] /\ Goto(Main, "js")
      BY <1>3, <2>2, <3>2
    <3> QED
      BY <2>1, <3>1, <3>2
  <2> QED
    BY <2>4 DEF Over
<1>10. CASE Leave(Main)
  <2>1. outcome'[Main] # "running"
    BY <1>1, <1>10 DEF Leave, TypeOK
  <2>2. pc[Main] = "leave" /\ jobs' = jobs
    BY <1>10 DEF Leave
  <2> QED
    BY <1>2, <2>1, <2>2
<1>11. CASE Crash(Main)
  BY <1>11 DEF Crash
<1>12. CASE Shutdown \/ StopWorker \/ FinalDrain
  <2>1. pc[Main] \in {"ended", "hooks", "drain"} /\ UNCHANGED <<jobs, outcome>>
    BY <1>12 DEF Shutdown, StopWorker, FinalDrain
  <2> QED
    BY <1>2, <2>1 DEF Over
<1>13. CASE \/ Interrupt(Main) \/ \E o \in Ops : Begin(Main, o)
            \/ \E t \in Timers : CancelTimer(Main, t)
            \/ TimerStep \/ \E o \in Promises : Complete(o)
            \/ FinalCompletion \/ UNCHANGED vars
  <2>1. UNCHANGED <<pc, ret, jobs, outcome>>
    BY <1>13 DEF Interrupt, Begin, CancelTimer, TimerStep, Fire, Abort, CloseTimeout, Complete,
                 FinalCompletion, vars
  <2> QED
    BY <1>2, <2>1
<1>14. CASE \E e \in Engines : MoveStep(e)
  BY <1>2, <1>4, <1>14
<1> QED
  BY <1>5, <1>6, <1>7, <1>8, <1>9, <1>10, <1>11, <1>12, <1>13, <1>14
     DEF Next, Turn, LoopStep, MoveStep, Alone

\* What the thread of the engine does to a promise or timer that is to call back.
LEMMA ReachableRun ==
  ASSUME IInv, NEW o \in Ops, Reachable(o), RunCompletion(Main), Alone
  PROVE  Reachable(o)' \/ Main \in jobs' \/ pc'[Main] = "js"
<1> USE EventLoopAssumption DEF opVars
<1>1. /\ TypeOK /\ batch[Main] # <<>> /\ batch' = [batch EXCEPT ![Main] = Tail(@)]
      /\ queue' = queue /\ UNCHANGED <<op, cancelled>>
  BY DEF RunCompletion, IInv
<1>2. Waiting(o) => Waiting(o)' \/ o = Head(batch[Main])
  BY <1>1, RunPlaces
<1>3. CASE o # Head(batch[Main])
  BY <1>1, <1>2, <1>3 DEF Reachable
<1>4. CASE o = Head(batch[Main])
  <2>1. Waiting(o)
    BY <1>1, <1>4, RunPlaces
  <2>2. owner[o] = Main
    BY <1>1, <2>1 DEF IInv, PlaceOK, OpOK, TypeOK, Alone
  <2>3. CASE o \in Promises
    <3>1. o \notin Timers
      BY <2>3
    <3> QED
      BY <1>4, <2>2, <2>3, <3>1 DEF RunCompletion, SettlePromise
  <2>4. CASE o \in Timers /\ Suppressed(o)
    BY <1>1, <2>4 DEF Suppressed, Reachable
  <2>5. CASE o \in Timers /\ ~Suppressed(o)
    <3>1. Goto(Main, "js")
      BY <1>4, <2>5 DEF RunCompletion
    <3> QED
      BY <1>1, <3>1 DEF Goto, TypeOK
  <2> QED
    BY <2>3, <2>4, <2>5 DEF Ops
<1> QED
  BY <1>3, <1>4

\* The top-level promise awaits nothing that the loop has forgotten.
LEMMA TopStep ==
  ASSUME Alone, IInv, JobsOK, TopOK, [Next]_vars
  PROVE  TopOK'
<1> USE EventLoopAssumption DEF loopVars, jsVars, opVars, hostVars
<1>1. TypeOK /\ Main \in Engines /\ Timers \subseteq Ops /\ Promises \subseteq Ops
  BY DEF IInv, Ops
<1>2. TypeOK'
  BY TypeStep DEF IInv
<1>3. \A o : Coming(o) \/ o \in cancelled <=> Reachable(o)
  BY <1>1, ComingIs
<1>4. (TypeOK => \A o : Coming(o) \/ o \in cancelled <=> Reachable(o))'
  BY ComingIs, PTL
<1>5. pc[Main] # "js" /\ Main \notin jobs \cup cancel /\ outcome[Main] = "running"
      /\ top[Main] \in Ops => Reachable(top[Main])
  BY <1>3 DEF TopOK
<1> SUFFICES ASSUME NEW o \in Ops, o = top'[Main], pc'[Main] # "js",
                    Main \notin jobs' \cup cancel', outcome'[Main] = "running"
             PROVE  Reachable(o)'
  BY <1>2, <1>4 DEF TopOK, Alone
<1>6. ASSUME NEW label, Goto(Main, label)
      PROVE  pc'[Main] = label
  BY <1>1, <1>6 DEF Goto, TypeOK
<1>7. ASSUME pc[Main] # "js", UNCHANGED <<top, jobs, outcome>>, cancel \subseteq cancel'
      PROVE  Reachable(o)
  BY <1>5, <1>7
<1>8. ASSUME UNCHANGED <<op, queue, batch, cancelled>>
      PROVE  Reachable(o)' <=> Reachable(o)
  BY <1>8, QuietPlaces DEF Reachable
<1>9. CASE \/ \E e \in Engines : MoveStep(e)
           \/ Leave(Main) \/ Crash(Main) \/ Shutdown \/ StopWorker
  <2>1. UNCHANGED <<top, jobs, cancel, op, queue, batch, cancelled>>
    BY <1>9, MoveIs DEF Leave, Crash, Shutdown, StopWorker
  <2>2. outcome[Main] = "running" /\ (outcome' = outcome)
    BY <1>1, <1>9, MoveIs DEF Leave, Crash, Shutdown, StopWorker, TypeOK
  <2>3. pc[Main] # "js"
    BY <1>9, MoveFrom DEF Leave, Crash, Shutdown, StopWorker, Alone, IInv
  <2> QED
    BY <1>7, <1>8, <2>1, <2>2, <2>3
<1>10. CASE EndTurn(Main)
  <2>1. /\ pc[Main] = "js" /\ UNCHANGED <<jobs, cancel, op, queue, batch, cancelled>>
        /\ o \in Awaitable(Main)
    BY <1>1, <1>10 DEF EndTurn, TypeOK
  <2>2. Coming(o)
    BY <2>1 DEF Awaitable
  <2> QED
    BY <1>3, <1>8, <2>1, <2>2
<1>11. CASE EvalThrows(Main)
  BY <1>1, <1>11 DEF EvalThrows, TypeOK
<1>12. CASE RunJobs(Main)
  BY <1>6, <1>12 DEF RunJobs
<1>13. CASE \/ \E p \in Ops : Begin(Main, p)
            \/ \E t \in Timers : CancelTimer(Main, t)
  <2>1. pc[Main] = "js" /\ pc' = pc
    BY <1>13 DEF Begin, CancelTimer
  <2> QED
    BY <2>1
<1>14. CASE Interrupt(Main) \/ UNCHANGED vars
  <2>1. /\ UNCHANGED <<pc, top, jobs, outcome, op, queue, batch, cancelled>>
        /\ cancel \subseteq cancel'
    BY <1>14 DEF Interrupt, vars
  <2> QED
    BY <1>7, <1>8, <2>1
<1>15. CASE Drain(Main)
  <2>1. /\ pc[Main] = "body" /\ UNCHANGED <<op, cancelled, top, jobs, cancel, outcome>>
        /\ batch[Main] = <<>> /\ batch' = [batch EXCEPT ![Main] = queue] /\ queue' = <<>>
    BY <1>15 DEF Drain, LabelOK, IInv
  <2>2. Waiting(o)' <=> Waiting(o)
    BY <1>1, <2>1, DrainPlaces
  <2> QED
    BY <1>7, <2>1, <2>2 DEF Reachable
<1>16. CASE RunCompletion(Main)
  <2>1. /\ pc[Main] = "run" /\ jobs \subseteq jobs' /\ UNCHANGED <<top, cancel, outcome>>
    BY <1>16 DEF RunCompletion, SettlePromise
  <2>2. Reachable(o)
    BY <1>5, <2>1
  <2> QED
    BY <1>16, <2>2, ReachableRun
<1>17. CASE FinalDrain \/ FinalCompletion
  <2>1. pc[Main] \in {"drain", "final"} /\ outcome' = outcome
    BY <1>17 DEF FinalDrain, FinalCompletion
  <2> QED
    BY <2>1 DEF JobsOK, Over
<1>18. ASSUME NEW p \in Ops, Complete(p) \/ Fire(p)
       PROVE  Reachable(o)'
  <2>1. /\ UNCHANGED <<pc, top, jobs, cancel, outcome, cancelled>>
        /\ queue' = Append(queue, p) /\ batch' = batch
        /\ \A q \in Ops : q # p => op'[q] = op[q]
    BY <1>1, <1>18 DEF Complete, Fire, TypeOK
  <2>2. Waiting(o)' <=> Waiting(o) \/ o = p
    BY <1>1, <2>1, PostPlaces
  <2> QED
    BY <1>7, <2>1, <2>2 DEF Reachable
<1>19. ASSUME NEW t \in Ops, Abort(t) \/ CloseTimeout(t)
       PROVE  Reachable(o)'
  <2>1. /\ UNCHANGED <<pc, top, jobs, cancel, outcome, cancelled, queue, batch>>
        /\ \A q \in Ops : op[q] = "armed" => op'[q] = "armed" \/ q \in cancelled
    BY <1>1, <1>19 DEF Abort, CloseTimeout, TypeOK
  <2>2. Waiting(o)' <=> Waiting(o)
    BY <2>1, QuietPlaces
  <2> QED
    BY <1>7, <2>1, <2>2 DEF Reachable
<1> QED
  BY <1>1, <1>9, <1>10, <1>11, <1>12, <1>13, <1>14, <1>15, <1>16, <1>17, <1>18, <1>19
     DEF Next, Turn, LoopStep, MoveStep, TimerStep, Alone

LEMMA LeftStep ==
  ASSUME Alone, IInv, LeaveOK, NothingLeft, [Next]_vars
  PROVE  NothingLeft'
<1> USE EventLoopAssumption DEF loopVars, jsVars, opVars, hostVars
<1>1. TypeOK /\ Main \in Engines /\ Timers \subseteq Ops /\ Promises \subseteq Ops
  BY DEF IInv, Ops
<1>2. pc[Main] \notin Over => outcome[Main] = "running"
  BY <1>1 DEF IInv, LabelOK
<1> SUFFICES ASSUME NEW o \in Ops, outcome'[Main] \in {"settled", "stalled"}, owner'[o] = Main
             PROVE  o \in delivered' \cup cancelled'
  BY DEF NothingLeft, Alone
<1>3. ASSUME outcome' = outcome, owner' = owner,
             delivered \subseteq delivered', cancelled \subseteq cancelled'
      PROVE  o \in delivered' \cup cancelled'
  BY <1>1, <1>3 DEF NothingLeft
<1>4. CASE Leave(Main)
  <2>1. /\ pc[Main] = "leave" /\ Main \notin cancel
        /\ UNCHANGED <<owner, op, delivered, cancelled>>
    BY <1>1, <1>4 DEF Leave, TypeOK
  <2>2. ~Waiting(o) /\ (op[o] = "armed" => o \in cancelled)
    BY <2>1, NothingAtLeave
  <2>3. op[o] # "new"
    BY <2>1 DEF IInv, OpOK
  <2>4. op[o] \in {"posted", "done"} => o \in delivered \cup cancelled
    BY <2>1, <2>2 DEF IInv, KeptOK
  <2> QED
    BY <1>1, <2>1, <2>2, <2>3, <2>4 DEF TypeOK
<1>5. CASE EvalThrows(Main)
  BY <1>1, <1>5 DEF EvalThrows, TypeOK
<1>6. CASE \E p \in Ops : Begin(Main, p)
  <2>1. pc[Main] = "js" /\ outcome' = outcome
    BY <1>6 DEF Begin
  <2> QED
    BY <1>2, <2>1 DEF Over
<1>7. CASE \E e \in Engines : MoveStep(e)
  BY <1>3, <1>7, MoveIs
<1>8. CASE \/ EndTurn(Main) \/ Interrupt(Main) \/ RunJobs(Main) \/ Drain(Main) \/ Crash(Main)
           \/ \E t \in Timers : CancelTimer(Main, t)
  BY <1>3, <1>8 DEF EndTurn, Interrupt, RunJobs, Drain, Crash, CancelTimer
<1>9. CASE RunCompletion(Main)
  BY <1>3, <1>9 DEF RunCompletion, SettlePromise
<1>10. CASE \/ TimerStep \/ \E p \in Promises : Complete(p)
            \/ Shutdown \/ StopWorker \/ FinalDrain \/ FinalCompletion \/ UNCHANGED vars
  BY <1>3, <1>10 DEF TimerStep, Fire, Abort, CloseTimeout, Complete, Shutdown, StopWorker,
                     FinalDrain, FinalCompletion, vars
<1> QED
  BY <1>4, <1>5, <1>6, <1>7, <1>8, <1>9, <1>10
     DEF Next, Turn, LoopStep, MoveStep, Alone

LEMMA StalledStep ==
  ASSUME Alone, IInv, LeaveOK, JobsOK, TopOK, StalledIsStuck, [Next]_vars
  PROVE  StalledIsStuck'
<1> USE EventLoopAssumption DEF loopVars, jsVars, opVars, hostVars
<1>1. TypeOK /\ Main \in Engines
  BY DEF IInv
<1>2. pc[Main] \notin Over => outcome[Main] = "running"
  BY <1>1 DEF IInv, LabelOK
<1>3. \A o : Coming(o) \/ o \in cancelled <=> Reachable(o)
  BY <1>1, ComingIs
<1> SUFFICES ASSUME outcome'[Main] = "stalled"
             PROVE  top'[Main] \in cancelled' \cup {Never}
  BY DEF StalledIsStuck, Alone
<1>4. ASSUME outcome' = outcome, top' = top, cancelled \subseteq cancelled'
      PROVE  top'[Main] \in cancelled' \cup {Never}
  BY <1>1, <1>4 DEF StalledIsStuck
<1>5. CASE Leave(Main)
  <2>1. /\ pc[Main] = "leave" /\ Main \notin cancel /\ top[Main] # Settled
        /\ UNCHANGED <<top, cancelled>>
    BY <1>1, <1>5 DEF Leave, TypeOK
  <2>2. Main \notin jobs /\ outcome[Main] = "running"
    BY <1>1, <1>2, <2>1 DEF JobsOK, Over
  <2>3. top[Main] \in Ops \cup {Never}
    BY <1>1, <2>1 DEF TypeOK
  <2>4. top[Main] \in Ops => Reachable(top[Main])
    BY <1>3, <2>1, <2>2 DEF TopOK
  <2>5. \A o \in Ops : Reachable(o) => o \in cancelled
    BY <2>1, NothingAtLeave DEF Reachable
  <2> QED
    BY <2>1, <2>3, <2>4, <2>5
<1>6. CASE EvalThrows(Main)
  BY <1>1, <1>6 DEF EvalThrows, TypeOK
<1>7. CASE EndTurn(Main)
  <2>1. pc[Main] = "js" /\ outcome' = outcome
    BY <1>7 DEF EndTurn
  <2> QED
    BY <1>2, <2>1 DEF Over
<1>8. CASE \E e \in Engines : MoveStep(e)
  BY <1>4, <1>8, MoveIs
<1>9. CASE \/ Interrupt(Main) \/ RunJobs(Main) \/ Drain(Main) \/ Crash(Main)
           \/ \E o \in Ops : Begin(Main, o)
           \/ \E t \in Timers : CancelTimer(Main, t)
  BY <1>4, <1>9 DEF Interrupt, RunJobs, Drain, Crash, Begin, CancelTimer
<1>10. CASE RunCompletion(Main)
  BY <1>4, <1>10 DEF RunCompletion
<1>11. CASE \/ TimerStep \/ \E p \in Promises : Complete(p)
            \/ Shutdown \/ StopWorker \/ FinalDrain \/ FinalCompletion \/ UNCHANGED vars
  BY <1>4, <1>11 DEF TimerStep, Fire, Abort, CloseTimeout, Complete, Shutdown, StopWorker,
                     FinalDrain, FinalCompletion, vars
<1> QED
  BY <1>5, <1>6, <1>7, <1>8, <1>9, <1>10, <1>11
     DEF Next, Turn, LoopStep, MoveStep, Alone

LEMMA AloneInductive ==
  ASSUME Alone
  PROVE  Spec => [](IInv /\ AloneInv)
<1>1. Init => IInv /\ AloneInv
  <2> SUFFICES ASSUME Init PROVE AloneInv
    BY InitIInv
  <2>1. /\ \A e \in Engines : pc[e] = "js" /\ top[e] = Never /\ outcome[e] = "running"
        /\ jobs = {}
    BY DEF Init
  <2> QED
    BY <2>1 DEF AloneInv, LeaveOK, JobsOK, TopOK, NothingLeft, StalledIsStuck, Over
<1>2. IInv /\ AloneInv /\ [Next]_vars => (IInv /\ AloneInv)'
  <2> SUFFICES ASSUME IInv, AloneInv, [Next]_vars
               PROVE  IInv' /\ AloneInv'
    OBVIOUS
  <2>1. IInv'
    BY TypeStep, OpStep, LabelStep, KeptStep DEF IInv
  <2> QED
    BY <2>1, LeaveStep, JobsStep, TopStep, LeftStep, StalledStep DEF AloneInv
<1> QED
  BY <1>1, <1>2, PTL DEF Spec

\* runModule of an engine that has the host to itself returns by itself only when
\* each of its operations has called back or was cancelled (quickjs_engine.cpp).
THEOREM NothingIsLeft ==
  ASSUME Engines = {Main}
  PROVE  Spec => []NothingLeft
<1>1. IInv /\ AloneInv => NothingLeft
  BY DEF AloneInv
<1>2. Spec => [](IInv /\ AloneInv)
  BY AloneInductive DEF Alone
<1> QED
  BY <1>1, <1>2, PTL

\* It reports "quickjs_module_stalled" only for a top-level promise that nothing
\* settles any more (quickjs_engine.cpp).
THEOREM StalledIsReallyStuck ==
  ASSUME Engines = {Main}
  PROVE  Spec => []StalledIsStuck
<1>1. IInv /\ AloneInv => StalledIsStuck
  BY DEF AloneInv
<1>2. Spec => [](IInv /\ AloneInv)
  BY AloneInductive DEF Alone
<1> QED
  BY <1>1, <1>2, PTL
=============================================================================
