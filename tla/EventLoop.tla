------------------------------ MODULE EventLoop ------------------------------
(***************************************************************************)
(* wl2::AsyncHost (async_host.cpp), the JavaScript engines that share the    *)
(* one host of a Runtime (the event loop of QuickJsEngine::runModule), and    *)
(* the operations of wl2:asio on its one worker thread (wl2_asio.cpp).       *)
(*                                                                          *)
(* An engine is the OS thread that runs it.  A step is one read or update of *)
(* the host, one completion, or one turn of JavaScript: between two native   *)
(* calls only its effects on the host and on the top-level promise matter.   *)
(* An operation is a promise of connect, read, write or accept ("promise     *)
(* operation"), a setTimeout timer, or a setInterval timer; each object is   *)
(* begun at most once.                                                       *)
(***************************************************************************)
EXTENDS Naturals, Sequences, FiniteSets

CONSTANTS
  Engines,        \* threads that run an engine on the shared Runtime
  Main,           \* the engine of the thread that owns the Runtime
  Interruptible,  \* the engines whose runModule was given a cancel flag
  Promises,       \* promise operations
  Timeouts,       \* one-shot timers
  Intervals,      \* repeating timers
  Settled, Never, \* values of top that are not operations
  Nobody,         \* no engine
  MaxQueue        \* bound: completions queued when an interval fires

Timers == Timeouts \cup Intervals
Ops == Promises \cup Timers

ASSUME EventLoopAssumption ==
  /\ Main \in Engines /\ Interruptible \subseteq Engines
  /\ Nobody \notin Engines
  /\ Settled \notin Ops /\ Never \notin Ops /\ Settled # Never
  /\ Promises \cap Timers = {} /\ Timeouts \cap Intervals = {}
  /\ IsFiniteSet(Ops)
  /\ MaxQueue \in Nat

\* Where an engine's thread is.  "js": in a turn of JavaScript.  The event loop
\* is "jobs0", the drain_jobs before it; "top" and "queue", the two parts of its
\* condition; "body", "run" and "jobs", a turn of the loop; "idle", "idleQueue"
\* and "wait", when the turn ran nothing; "leave" after it.  "ended": runModule
\* has returned and the context is freed.  The thread of Main then destroys the
\* Runtime: "hooks", "drain" and "final", in AsyncHost::shutdown, and "gone".
\* "crashed" is the end of the process.
Labels == {"js", "jobs0", "top", "queue", "body", "run", "jobs", "idle",
           "idleQueue", "wait", "leave", "ended", "hooks", "drain", "final",
           "gone", "crashed"}

VARIABLES
  pc,           \* engine -> label
  ret,          \* engine -> where the turn of JavaScript returns to, or "start"
  ran,          \* engines whose turn of the loop ran a completion or a job
  top,          \* engine -> the operation its top-level promise awaits, Never
                \* when nothing settles that promise, or Settled
  jobs,         \* engines with a pending job
  batch,        \* engine -> completions swapped out of the queue, not yet run
  cancel,       \* engines whose cancel flag is set
  outcome,      \* engine -> what runModule returned
  op,           \* operation -> its state on the worker's side
  owner,        \* operation -> the engine that began it, or Nobody
  cancelled,    \* timers whose cancelled flag is set
  timerClosed,  \* timers whose closed flag is set
  queue,        \* completions_
  outstanding,  \* outstanding_
  working,      \* the asio worker thread runs
  down,         \* shuttingDown_
  open,         \* history: operations begun and not ended
  delivered     \* history: operations whose promise or callback was called

loopVars == <<pc, ret, ran>>
jsVars == <<top, jobs, cancel, outcome>>
opVars == <<op, owner, cancelled, timerClosed>>
hostVars == <<queue, outstanding, working, down>>
vars == <<loopVars, jsVars, batch, opVars, hostVars, open, delivered>>

Init ==
  /\ pc = [e \in Engines |-> "js"]
  /\ ret = [e \in Engines |-> "start"]
  /\ ran = {}
  /\ top = [e \in Engines |-> Never]
  /\ jobs = {}
  /\ batch = [e \in Engines |-> <<>>]
  /\ cancel = {}
  /\ outcome = [e \in Engines |-> "running"]
  /\ op = [o \in Ops |-> "new"]
  /\ owner = [o \in Ops |-> Nobody]
  /\ cancelled = {} /\ timerClosed = {}
  /\ queue = <<>> /\ outstanding = 0
  /\ working = FALSE /\ down = FALSE
  /\ open = {} /\ delivered = {}

Goto(e, label) == pc' = [pc EXCEPT ![e] = label]
Members(s) == {s[i] : i \in DOMAIN s}

\* endOperation: the compare-and-swap loop stops at zero.
Decremented == IF outstanding > 0 THEN outstanding - 1 ELSE 0

-----------------------------------------------------------------------------
(* A turn of JavaScript. *)

\* An operation starts: beginOperation, then asio::post to the worker, which
\* ensure_io() has started.
Begin(e, o) ==
  /\ pc[e] = "js" /\ op[o] = "new"
  /\ op' = [op EXCEPT ![o] = "armed"]
  /\ owner' = [owner EXCEPT ![o] = e]
  /\ outstanding' = outstanding + 1
  /\ open' = open \cup {o}
  /\ working' = TRUE
  /\ UNCHANGED <<loopVars, jsVars, batch, cancelled, timerClosed, queue, down,
                 delivered>>

\* cancel_timer_handle: the first to set closed ends the operation.
CancelTimer(e, t) ==
  /\ pc[e] = "js" /\ owner[t] = e /\ t \notin cancelled
  /\ cancelled' = cancelled \cup {t}
  /\ timerClosed' = timerClosed \cup {t}
  /\ IF t \in timerClosed
     THEN UNCHANGED <<outstanding, open>>
     ELSE outstanding' = Decremented /\ open' = open \ {t}
  /\ UNCHANGED <<loopVars, jsVars, batch, op, owner, queue, working, down,
                 delivered>>

\* The callback of o is still to be called.
Coming(o) ==
  /\ o \notin cancelled
  /\ \/ op[o] = "armed" \/ o \in Members(queue)
     \/ \E e \in Engines : o \in Members(batch[e])

\* What the top-level promise of e may await when a turn ends: while a job is
\* pending, or was aborted by an interrupt, also what it awaited before.
Awaitable(e) ==
  IF top[e] = Settled THEN {Settled}
  ELSE {Settled, Never} \cup {o \in Ops : owner[o] = e /\ Coming(o)}
         \cup (IF e \in jobs \cup cancel THEN {top[e]} ELSE {})

\* The turn returns to native code.
EndTurn(e) ==
  /\ pc[e] = "js"
  /\ \E w \in Awaitable(e) : top' = [top EXCEPT ![e] = w]
  /\ Goto(e, IF ret[e] = "start" THEN "jobs0" ELSE ret[e])
  /\ UNCHANGED <<ret, ran, jobs, cancel, outcome, batch, opVars, hostVars,
                 open, delivered>>

\* JS_Eval throws: runModule frees the context without running the loop.
EvalThrows(e) ==
  /\ pc[e] = "js" /\ ret[e] = "start"
  /\ outcome' = [outcome EXCEPT ![e] = "failed"]
  /\ Goto(e, "ended")
  /\ UNCHANGED <<ret, ran, top, jobs, cancel, batch, opVars, hostVars, open,
                 delivered>>

Interrupt(e) ==
  /\ e \in Interruptible \ cancel
  /\ cancel' = cancel \cup {e}
  /\ UNCHANGED <<loopVars, top, jobs, outcome, batch, opVars, hostVars, open,
                 delivered>>

-----------------------------------------------------------------------------
(* The event loop. *)

\* A step that only moves the thread of e.
Move(e, from, to) ==
  /\ pc[e] = from
  /\ Goto(e, to)
  /\ UNCHANGED <<ret, ran, jsVars, batch, opVars, hostVars, open, delivered>>

\* drain_jobs and the job loop: a turn of JavaScript runs every pending job.
RunJobs(e) ==
  /\ pc[e] \in {"jobs0", "jobs"} /\ e \in jobs
  /\ jobs' = jobs \ {e}
  /\ ret' = [ret EXCEPT ![e] = pc[e]]
  /\ ran' = ran \cup {e}
  /\ Goto(e, "js")
  /\ UNCHANGED <<top, cancel, outcome, batch, opVars, hostVars, open, delivered>>

EnterLoop(e) == e \notin jobs /\ Move(e, "jobs0", "top")

\* Mutant of HostReads: the queue is looked at before the counter.
SwappedReads == <<queue # <<>>, outstanding > 0>>

\* The two reads of hasPendingWork(): the counter, then, if that is zero, the
\* queue; between them the host may change.
HostReads == <<outstanding > 0, queue # <<>>>>

\* The loop's condition, topPending() || hasPendingWork().
LoopTest(e) ==
  Move(e, "top", IF top[e] # Settled \/ HostReads[1] THEN "body" ELSE "queue")

LoopTestQueue(e) == Move(e, "queue", IF HostReads[2] THEN "body" ELSE "leave")

\* A set cancel flag breaks out of the loop.
Break(e) == e \in cancel /\ Move(e, "body", "leave")

\* Mutant of Drain: the swapped-out completions are lost.
DrainLoses(e) ==
  /\ pc[e] = "body" /\ e \notin cancel
  /\ queue' = <<>>
  /\ ran' = IF queue = <<>> THEN ran \ {e} ELSE ran \cup {e}
  /\ Goto(e, "run")
  /\ UNCHANGED <<ret, jsVars, batch, opVars, outstanding, working, down, open,
                 delivered>>

\* AsyncHost::drain: the queue is swapped out under the mutex.
Drain(e) ==
  /\ pc[e] = "body" /\ e \notin cancel
  /\ batch' = [batch EXCEPT ![e] = queue]
  /\ queue' = <<>>
  /\ ran' = IF queue = <<>> THEN ran \ {e} ELSE ran \cup {e}
  /\ Goto(e, "run")
  /\ UNCHANGED <<ret, jsVars, opVars, outstanding, working, down, open, delivered>>

\* The completion of a promise operation: resolve or reject, then endOperation.
SettlePromise(o) ==
  /\ jobs' = jobs \cup {owner[o]}
  /\ delivered' = delivered \cup {o}
  /\ outstanding' = Decremented
  /\ open' = open \ {o}

\* The completion of a timer tests the cancelled flag again.
Suppressed(t) == t \in cancelled

\* The next completion of the batch runs, on the thread that drained it; the
\* callback of a timer is a turn of JavaScript.
RunCompletion(e) ==
  /\ pc[e] = "run" /\ batch[e] # <<>>
  /\ batch' = [batch EXCEPT ![e] = Tail(@)]
  /\ LET o == Head(batch[e]) IN
       \/ /\ o \in Promises
          /\ SettlePromise(o)
          /\ UNCHANGED <<loopVars>>
       \/ /\ o \in Timers /\ Suppressed(o)
          /\ UNCHANGED <<loopVars, jobs, delivered, outstanding, open>>
       \/ /\ o \in Timers /\ ~Suppressed(o)
          /\ delivered' = delivered \cup {o}
          /\ ret' = [ret EXCEPT ![e] = "run"]
          /\ Goto(e, "js")
          /\ UNCHANGED <<ran, jobs, outstanding, open>>
  /\ UNCHANGED <<top, cancel, outcome, opVars, queue, working, down>>

BatchDone(e) == batch[e] = <<>> /\ Move(e, "run", "jobs")

JobsDone(e) == e \notin jobs /\ Move(e, "jobs", IF e \in ran THEN "top" ELSE "idle")

\* Nothing ran: hasPendingWork() again decides between waiting and leaving.
IdleTest(e) == Move(e, "idle", IF HostReads[1] THEN "wait" ELSE "idleQueue")

IdleTestQueue(e) == Move(e, "idleQueue", IF HostReads[2] THEN "wait" ELSE "leave")

\* Mutant of Wake: the wait has no timeout.
WakeOnWork(e) == (queue # <<>> \/ down) /\ Move(e, "wait", "top")

\* waitForWork(25 ms) returns: with work, at shutdown, or after the timeout.
Wake(e) == Move(e, "wait", "top")

\* The end of runModule.  A module that was interrupted here returns 0, as one
\* that settled.
Leave(e) ==
  /\ pc[e] = "leave"
  /\ outcome' = [outcome EXCEPT ![e] =
       IF e \in cancel THEN "interrupted"
       ELSE IF top[e] # Settled THEN "stalled" ELSE "settled"]
  /\ Goto(e, "ended")
  /\ UNCHANGED <<ret, ran, top, jobs, cancel, batch, opVars, hostVars, open,
                 delivered>>

-----------------------------------------------------------------------------
(* The worker thread of wl2:asio.  op is "posted" between post() and what the *)
(* handler of a timeout does next.                                          *)

WorkerIdle == \A o \in Ops : op[o] # "posted"

\* The handler of promise operation o posts its completion; the claim of done
\* by the result, the timeout or the close leaves one of them to do so.
Complete(o) ==
  /\ working /\ WorkerIdle /\ o \in Promises /\ op[o] = "armed"
  /\ op' = [op EXCEPT ![o] = "done"]
  /\ queue' = Append(queue, o)
  /\ UNCHANGED <<loopVars, jsVars, batch, owner, cancelled, timerClosed,
                 outstanding, working, down, open, delivered>>

\* The wait handler of a timer: a timer that is not cancelled posts its
\* completion, and an interval is armed again.
Fire(t) ==
  /\ working /\ WorkerIdle /\ t \in Timers /\ op[t] = "armed"
  /\ t \in Intervals => Len(queue) < MaxQueue
  /\ t \notin cancelled
  /\ op' = [op EXCEPT ![t] = IF t \in Timeouts THEN "posted" ELSE "armed"]
  /\ queue' = Append(queue, t)
  /\ UNCHANGED <<loopVars, jsVars, batch, owner, cancelled, timerClosed,
                 outstanding, working, down, open, delivered>>

\* The wait of a cancelled timer is aborted, or its handler sees the flag.
Abort(t) ==
  /\ working /\ WorkerIdle /\ op[t] = "armed" /\ t \in cancelled
  /\ op' = [op EXCEPT ![t] = "done"]
  /\ UNCHANGED <<loopVars, jsVars, batch, owner, cancelled, timerClosed,
                 hostVars, open, delivered>>

\* Mutant of CloseTimeout: the closed flag is not exchanged but set.
CloseAlways(t) ==
  /\ op[t] = "posted"
  /\ op' = [op EXCEPT ![t] = "done"]
  /\ timerClosed' = timerClosed \cup {t}
  /\ outstanding' = Decremented /\ open' = open \ {t}
  /\ UNCHANGED <<loopVars, jsVars, batch, owner, cancelled, queue, working,
                 down, delivered>>

\* The end of a timeout's handler: unless cancel() closed it, it ends the
\* operation.
CloseTimeout(t) ==
  /\ op[t] = "posted"
  /\ op' = [op EXCEPT ![t] = "done"]
  /\ timerClosed' = timerClosed \cup {t}
  /\ IF t \in timerClosed
     THEN UNCHANGED <<outstanding, open>>
     ELSE outstanding' = Decremented /\ open' = open \ {t}
  /\ UNCHANGED <<loopVars, jsVars, batch, owner, cancelled, queue, working,
                 down, delivered>>

-----------------------------------------------------------------------------
(* ~Runtime, on the thread of Main: AsyncHost::shutdown. *)

Shutdown ==
  /\ pc[Main] = "ended"
  /\ down' = TRUE
  /\ Goto(Main, "hooks")
  /\ UNCHANGED <<ret, ran, jsVars, batch, opVars, queue, outstanding, working,
                 open, delivered>>

\* The hook of wl2:asio stops the io_context and joins the worker.
StopWorker ==
  /\ pc[Main] = "hooks" /\ WorkerIdle
  /\ working' = FALSE
  /\ Goto(Main, "drain")
  /\ UNCHANGED <<ret, ran, jsVars, batch, opVars, queue, outstanding, down,
                 open, delivered>>

FinalDrain ==
  /\ pc[Main] = "drain"
  /\ batch' = [batch EXCEPT ![Main] = queue]
  /\ queue' = <<>>
  /\ Goto(Main, "final")
  /\ UNCHANGED <<ret, ran, jsVars, opVars, outstanding, working, down, open,
                 delivered>>

\* The last completions: those of a promise operation end it.  The context they
\* use was freed when Main ended, so that nothing is called, or see Crash.
FinalCompletion ==
  /\ pc[Main] = "final" /\ batch[Main] # <<>>
  /\ batch' = [batch EXCEPT ![Main] = Tail(@)]
  /\ LET o == Head(batch[Main]) IN
       IF o \in Promises
       THEN /\ outstanding' = Decremented
            /\ open' = open \ {o}
       ELSE UNCHANGED <<outstanding, open>>
  /\ UNCHANGED <<loopVars, jsVars, opVars, queue, working, down, delivered>>

\* Undefined behaviour: a completion uses the context of an engine that has ended,
\* or the one of an engine that runs on another thread.  It may do what
\* RunCompletion and FinalCompletion say, or end the process.
Crash(e) ==
  /\ pc[e] \in {"run", "final"} /\ batch[e] # <<>>
  /\ LET o == Head(batch[e]) IN
       /\ owner[o] # e \/ pc[e] = "final"
       /\ ~(o \in Timers /\ o \in cancelled)
  /\ pc' = [f \in Engines |-> "crashed"]
  /\ working' = FALSE
  /\ UNCHANGED <<ret, ran, jsVars, batch, opVars, queue, outstanding, down, open,
                 delivered>>

Gone ==
  /\ batch[Main] = <<>>
  /\ Move(Main, "final", "gone")

-----------------------------------------------------------------------------
LoopStep(e) ==
  \/ EnterLoop(e) \/ RunJobs(e) \/ LoopTest(e) \/ LoopTestQueue(e)
  \/ Break(e) \/ Drain(e) \/ RunCompletion(e) \/ BatchDone(e) \/ JobsDone(e)
  \/ IdleTest(e) \/ IdleTestQueue(e) \/ Wake(e) \/ Leave(e)

Turn(e) ==
  \/ EndTurn(e) \/ EvalThrows(e)
  \/ \E o \in Ops : Begin(e, o)
  \/ \E t \in Timers : CancelTimer(e, t)

TimerStep == \E t \in Timers : Fire(t) \/ Abort(t) \/ CloseTimeout(t)

Next ==
  \/ \E e \in Engines : Turn(e) \/ Interrupt(e) \/ LoopStep(e) \/ Crash(e)
  \/ TimerStep \/ \E o \in Promises : Complete(o)
  \/ Shutdown \/ StopWorker \/ FinalDrain \/ FinalCompletion \/ Gone

Spec == Init /\ [][Next]_vars

\* Threads are scheduled, a wait has a timeout, and the clock passes the
\* deadline of every timer.  A turn of JavaScript may last forever, and a promise
\* operation may never complete.
Fairness ==
  /\ \A e \in Engines : WF_vars(LoopStep(e))
  /\ \A t \in Timers : WF_vars(Fire(t) \/ Abort(t) \/ CloseTimeout(t))

FairSpec == Spec /\ Fairness

-----------------------------------------------------------------------------
(* Properties *)

TypeOK ==
  /\ pc \in [Engines -> Labels]
  /\ ret \in [Engines -> {"start", "jobs0", "run", "jobs"}]
  /\ ran \subseteq Engines
  /\ top \in [Engines -> Ops \cup {Settled, Never}]
  /\ jobs \subseteq Engines
  /\ batch \in [Engines -> Seq(Ops)]
  /\ cancel \subseteq Interruptible
  /\ outcome \in [Engines -> {"running", "failed", "interrupted", "stalled",
                              "settled"}]
  /\ op \in [Ops -> {"new", "armed", "posted", "done"}]
  /\ owner \in [Ops -> Engines \cup {Nobody}]
  /\ cancelled \subseteq timerClosed /\ timerClosed \subseteq Timers
  /\ queue \in Seq(Ops)
  /\ outstanding \in Nat
  /\ working \in BOOLEAN /\ down \in BOOLEAN
  /\ open \subseteq Ops /\ delivered \subseteq Ops

\* Every beginOperation is matched by one endOperation: the counter is the number
\* of operations in flight, so the floor in endOperation, which would hide a
\* second end, is never needed.  A timer's handler and cancel() race to end it.
CountMatches == outstanding = Cardinality(open)

\* runModule returns by itself only when every operation of its engine has
\* called back or was cancelled: no completion is lost between the two reads of
\* hasPendingWork, the post and the end of an operation.
NothingLeft ==
  \A e \in Engines, o \in Ops :
    outcome[e] \in {"settled", "stalled"} /\ owner[o] = e
      => o \in delivered \cup cancelled

\* "quickjs_module_stalled" is reported only when the top-level promise awaits
\* what nothing settles any more.
StalledIsStuck ==
  \A e \in Engines : outcome[e] = "stalled" => top[e] \in cancelled \cup {Never}

\* The thread of e is in its loop with nothing left to run or to wait for.
Quiet(e) ==
  /\ pc[e] \notin {"js", "ended", "hooks", "drain", "final", "gone", "crashed"}
  /\ e \notin jobs /\ batch[e] = <<>> /\ queue = <<>> /\ open = {}

\* A loop with nothing left ends, also when the last operation ended after the
\* last completion ran and no notification follows.
LoopEnds ==
  \A e \in Engines : Quiet(e) ~> (outcome[e] # "running" \/ pc[e] = "crashed")

\* A timer that is armed is called, unless it is cancelled or its engine stops
\* running its loop: the engine ends, or stays in a turn of JavaScript.
TimerFires ==
  \A e \in Engines, t \in Timers :
    (owner[t] = e /\ op[t] = "armed") ~>
      \/ t \in delivered \cup cancelled
      \/ outcome[e] # "running" \/ pc[e] = "crashed" \/ [](pc[e] = "js")

\* AsyncHost::post queues "a completion to run on the JavaScript thread": the one
\* whose context the completion captured.
OnItsThread ==
  \A e \in Engines :
    pc[e] = "run" => \A o \in Members(batch[e]) : owner[o] = e
=============================================================================
