---------------------------- MODULE ScriptThreads ----------------------------
(***************************************************************************)
(* The lifecycle half of wl2::ThreadTree: ScriptThread objects from spawn()  *)
(* to join(), the worker handles of wl2.thread (quickjs_engine.cpp), failure *)
(* policies, shutdown() and the destruction of the tree.                     *)
(*                                                                          *)
(* An actor is an OS thread that runs JavaScript: the main thread or a       *)
(* script thread.  stage says where it is; one action is one critical        *)
(* section or one blocking wait.  Messages and requests are module           *)
(* ThreadRequests's: the exit message, the rejection of pending requests and *)
(* the closing of mailboxes change nothing here.                             *)
(***************************************************************************)
EXTENDS Naturals, FiniteSets

CONSTANTS
  Scripts,         \* ScriptThread objects; each is spawned at most once
  MainThread,      \* the main thread
  ThreadPaths,     \* tree paths other than "/main"
  Under,           \* <<p, q>> \in Under: p is a descendant of q
  None,            \* no script, no path, no actor
  ShutdownCallers  \* bound: the actors whose script calls wl2.thread.shutdown

ASSUME ScriptThreadsAssumption ==
  /\ MainThread \notin Scripts
  /\ None \notin Scripts \cup {MainThread} \cup ThreadPaths
  /\ Under \subseteq ThreadPaths \X ThreadPaths
  /\ ShutdownCallers \subseteq Scripts \cup {MainThread}

Actors == Scripts \cup {MainThread}

\* Where an actor is.  Script threads: "none" before spawn(); "created", in the
\* tree but without an OS thread; "run", in its script or in a native call that
\* is bounded by a timeout; "teardown", freeing its engine; "exiting", with
\* finished_ set and onExit to run; "ended".  Any running actor may be in
\* "spawn", "close", "remove", or the "grace", "force" and "join" passes of
\* shutdown().  The main thread ends with "teardown"; "exiting", before
\* ~ThreadTree; the passes of shutdown() in it; "members", after them; and
\* "gone".  "aborted" is the end of the process.
ThreadLabels == {"none", "created", "run", "spawn", "close", "remove", "grace",
                 "force", "join", "teardown", "exiting", "ended", "members",
                 "gone", "aborted"}

VARIABLES
  stage,          \* actor -> label
  target,         \* actor -> the script it spawns, closes or joins, or None
  collected,      \* actor -> the threads its shutdown() took and has not joined
  occupied,       \* the paths of nodes_
  list,           \* scriptThreads_
  path,           \* script -> its path, or None
  owner,          \* script -> the actor that holds the worker handle, or None
  policy,         \* scripts spawned with ThreadFailurePolicy::ShutdownSubtree
  failed,         \* scripts that ended with an error
  cancel,         \* scripts whose cancel_ is set
  joined,         \* scripts whose std::thread has been joined
  closedHandles,  \* scripts whose worker handle is closed
  dying           \* the main thread is in ~ThreadTree

threadVars == <<stage, target, collected, occupied, list, path, owner, policy, failed,
                cancel, joined, closedHandles, dying>>

ThreadsInit ==
  /\ stage = [a \in Actors |-> IF a = MainThread THEN "run" ELSE "none"]
  /\ target = [a \in Actors |-> None]
  /\ collected = [a \in Actors |-> {}]
  /\ occupied = {} /\ list = {}
  /\ path = [s \in Scripts |-> None]
  /\ owner = [s \in Scripts |-> None]
  /\ policy = {} /\ failed = {} /\ cancel = {} /\ joined = {} /\ closedHandles = {}
  /\ dying = FALSE

Goto(a, label) == stage' = [stage EXCEPT ![a] = label]
Finished(s) == stage[s] \in {"exiting", "ended"}
Started(s) == stage[s] \notin {"none", "created"}
Live(s) == stage[s] \notin {"none", "ended", "aborted"}

\* std::thread::joinable() of script s, seen by another thread.
Joinable(s) == Started(s) /\ s \notin joined

-----------------------------------------------------------------------------
(* Spawning. *)

\* ThreadTree::spawn under the tree mutex: an occupied path is an error, which
\* changes nothing.
Spawn(a, s, p) ==
  /\ stage[a] = "run" /\ stage[s] = "none" /\ p \notin occupied
  /\ occupied' = occupied \cup {p}
  /\ list' = list \cup {s}
  /\ path' = [path EXCEPT ![s] = p]
  /\ policy' \in {policy, policy \cup {s}}
  /\ stage' = [stage EXCEPT ![a] = "spawn", ![s] = "created"]
  /\ target' = [target EXCEPT ![a] = s]
  /\ UNCHANGED <<collected, owner, failed, cancel, joined, closedHandles, dying>>

\* ScriptThread::start and the worker handle, after the mutex is released.
Start(a) ==
  /\ stage[a] = "spawn"
  /\ stage' = [stage EXCEPT ![a] = "run", ![target[a]] = "run"]
  /\ owner' = [owner EXCEPT ![target[a]] = a]
  /\ target' = [target EXCEPT ![a] = None]
  /\ UNCHANGED <<collected, occupied, list, path, policy, failed, cancel, joined,
                 closedHandles, dying>>

-----------------------------------------------------------------------------
(* The end of a script. *)

\* Threads that only the handle of s keeps alive: deleting the handle runs
\* ~ScriptThread, which joins.
Orphans(a) ==
  {s \in Scripts : /\ owner[s] = a /\ Joinable(s)
                   /\ s \notin list /\ \A b \in Actors : s \notin collected[b]}

\* The script of s returns or throws, or is interrupted at a checkpoint; an
\* interrupted event loop is left without an error (runModule).
ScriptEnds(s, error) ==
  /\ stage[s] = "run"
  /\ Goto(s, "teardown")
  /\ failed' = IF error THEN failed \cup {s} ELSE failed
  /\ UNCHANGED <<target, collected, occupied, list, path, owner, policy, cancel,
                 joined, closedHandles, dying>>

Interrupted(s) == s \in cancel /\ \E e \in BOOLEAN : ScriptEnds(s, e)

\* The script of the main thread ends.
MainEnds ==
  /\ stage[MainThread] = "run"
  /\ Goto(MainThread, "teardown")
  /\ UNCHANGED <<target, collected, occupied, list, path, owner, policy, failed, cancel,
                 joined, closedHandles, dying>>

\* The engine frees the handles of a; then start() sets finished_ of a script
\* thread, and runModule() of the main thread returns.
Finish(a) ==
  /\ stage[a] = "teardown"
  /\ \A s \in Orphans(a) : stage[s] = "ended"
  /\ joined' = joined \cup Orphans(a)
  /\ owner' = [s \in Scripts |-> IF owner[s] = a THEN None ELSE owner[s]]
  /\ Goto(a, "exiting")
  /\ UNCHANGED <<target, collected, occupied, list, path, policy, failed, cancel,
                 closedHandles, dying>>

\* interruptSubtree: the threads of scriptThreads_ below the path of s.
Descendants(s) == {u \in list : <<path[u], path[s]>> \in Under}

\* The onExit callback of spawn(); then the OS thread ends.
Exit(s) ==
  /\ stage[s] = "exiting"
  /\ cancel' = IF s \in failed \cap policy THEN cancel \cup Descendants(s)
               ELSE cancel
  /\ Goto(s, "ended")
  /\ UNCHANGED <<target, collected, occupied, list, path, owner, policy, failed,
                 joined, closedHandles, dying>>

-----------------------------------------------------------------------------
(* worker.close(). *)

\* thread_worker_close: interrupt an unfinished thread, then go and join it.
Close(a, s) ==
  /\ stage[a] = "run" /\ owner[s] = a /\ s \notin closedHandles
  /\ cancel' = IF Finished(s) THEN cancel ELSE cancel \cup {s}
  /\ target' = [target EXCEPT ![a] = s]
  /\ Goto(a, IF Joinable(s) THEN "close" ELSE "remove")
  /\ UNCHANGED <<collected, occupied, list, path, owner, policy, failed, joined,
                 closedHandles, dying>>

\* Mutant of Joined: detaches instead of waiting for the end.
Detached(s) == joined' = joined \cup {s}

\* std::thread::join returns when s has ended.
Joined(s) == stage[s] = "ended" /\ joined' = joined \cup {s}

CloseJoin(a) ==
  /\ stage[a] = "close"
  /\ Joined(target[a])
  /\ Goto(a, "remove")
  /\ UNCHANGED <<target, collected, occupied, list, path, owner, policy, failed,
                 cancel, closedHandles, dying>>

\* ThreadTree::remove(path), and the handle is closed.
CloseRemove(a) ==
  /\ stage[a] = "remove"
  /\ occupied' = occupied \ {path[target[a]]}
  /\ closedHandles' = closedHandles \cup {target[a]}
  /\ target' = [target EXCEPT ![a] = None]
  /\ Goto(a, "run")
  /\ UNCHANGED <<collected, list, path, owner, policy, failed, cancel, joined,
                 dying>>

-----------------------------------------------------------------------------
(* shutdown(), and the destruction of the tree. *)

\* Mutant of Collect: the list is emptied, of the calling thread too.
CollectEmpties(a) ==
  /\ collected' = [collected EXCEPT ![a] = list \ {a}]
  /\ list' = {}
  /\ Goto(a, "grace")
  /\ UNCHANGED <<target, occupied, path, owner, policy, failed, cancel, joined,
                 closedHandles>>

\* The snapshot under the tree mutex: a script thread leaves itself in the list.
Collect(a) ==
  /\ collected' = [collected EXCEPT ![a] = list \ {a}]
  /\ list' = list \cap {a}
  /\ Goto(a, "grace")
  /\ UNCHANGED <<target, occupied, path, owner, policy, failed, cancel, joined,
                 closedHandles>>

ShutdownTree(a) ==
  stage[a] = "run" /\ a \in ShutdownCallers /\ Collect(a) /\ UNCHANGED dying

\* The runtime is destroyed once the main script has ended: ~ThreadTree calls
\* shutdown().
Destroy == stage[MainThread] = "exiting" /\ dying' = TRUE /\ Collect(MainThread)

\* The grace period elapses, or every collected thread has finished.
GraceOver(a) ==
  /\ stage[a] = "grace"
  /\ Goto(a, "force")
  /\ UNCHANGED <<target, collected, occupied, list, path, owner, policy, failed,
                 cancel, joined, closedHandles, dying>>

\* Mutant of Stragglers: only threads that have an OS thread yet.
StartedStragglers(a) == {s \in collected[a] : Started(s) /\ ~Finished(s)}

Stragglers(a) == {s \in collected[a] : ~Finished(s)}

\* The forced pass: interrupt the stragglers.
ForcePass(a) ==
  /\ stage[a] = "force"
  /\ cancel' = cancel \cup Stragglers(a)
  /\ Goto(a, "join")
  /\ UNCHANGED <<target, collected, occupied, list, path, owner, policy, failed,
                 joined, closedHandles, dying>>

\* The join pass takes up the next thread, or passes over one that cannot be
\* joined.
JoinNext(a, s) ==
  /\ stage[a] = "join" /\ target[a] = None /\ s \in collected[a]
  /\ \/ /\ Joinable(s)
        /\ target' = [target EXCEPT ![a] = s]
        /\ UNCHANGED collected
     \/ /\ ~Joinable(s)
        /\ collected' = [collected EXCEPT ![a] = @ \ {s}]
        /\ UNCHANGED target
  /\ UNCHANGED <<stage, occupied, list, path, owner, policy, failed, cancel, joined,
                 closedHandles, dying>>

Join(a) ==
  /\ stage[a] = "join" /\ target[a] # None
  /\ Joined(target[a])
  /\ collected' = [collected EXCEPT ![a] = @ \ {target[a]}]
  /\ target' = [target EXCEPT ![a] = None]
  /\ UNCHANGED <<stage, occupied, list, path, owner, policy, failed, cancel, closedHandles,
                 dying>>

\* When another thread has joined the target since joinable() was tested, join()
\* is undefined: it may return, as above, or throw, which ends the process.
JoinThrows(a) ==
  /\ stage[a] \in {"close", "join"} /\ target[a] # None /\ target[a] \in joined
  /\ stage' = [b \in Actors |-> "aborted"]
  /\ UNCHANGED <<target, collected, occupied, list, path, owner, policy, failed,
                 cancel, joined, closedHandles, dying>>

ShutdownDone(a) ==
  /\ stage[a] = "join" /\ collected[a] = {}
  /\ Goto(a, IF a = MainThread /\ dying THEN "members" ELSE "run")
  /\ UNCHANGED <<target, collected, occupied, list, path, owner, policy, failed,
                 cancel, joined, closedHandles, dying>>

\* The members of the tree are destroyed: each thread left in scriptThreads_ is
\* joined by ~ScriptThread, and not interrupted.
DestroyMember(s) ==
  /\ stage[MainThread] = "members" /\ s \in list
  /\ Joinable(s) => stage[s] = "ended"
  /\ list' = list \ {s}
  /\ joined' = IF Joinable(s) THEN joined \cup {s} ELSE joined
  /\ UNCHANGED <<stage, target, collected, occupied, path, owner, policy, failed, cancel,
                 closedHandles, dying>>

Destroyed ==
  /\ stage[MainThread] = "members" /\ list = {}
  /\ Goto(MainThread, "gone")
  /\ UNCHANGED <<target, collected, occupied, list, path, owner, policy, failed,
                 cancel, joined, closedHandles, dying>>

-----------------------------------------------------------------------------
\* A step of actor a that it does not choose: a call in progress goes on.
KeepOn(a) ==
  \/ Start(a) \/ CloseJoin(a) \/ CloseRemove(a) \/ Finish(a)
  \/ GraceOver(a) \/ ForcePass(a) \/ Join(a) \/ ShutdownDone(a)
  \/ \E s \in Scripts : JoinNext(a, s)

\* A step of script thread s on its way out.
Leave(s) == Interrupted(s) \/ Exit(s)

ThreadsNext ==
  \/ \E a \in Actors : \/ KeepOn(a) \/ JoinThrows(a) \/ ShutdownTree(a)
                       \/ \E s \in Scripts, p \in ThreadPaths : Spawn(a, s, p)
                       \/ \E s \in Scripts : Close(a, s)
  \/ \E s \in Scripts : \/ Leave(s) \/ DestroyMember(s)
                        \/ \E e \in BOOLEAN : ScriptEnds(s, e)
  \/ MainEnds \/ Destroy \/ Destroyed

ThreadsSpec == ThreadsInit /\ [][ThreadsNext]_threadVars

\* Threads are scheduled, grace periods are finite, and a script that has been
\* interrupted reaches a checkpoint although it may enter and leave more native
\* calls before (strong fairness); a script that has not may run forever.
ThreadsFairness ==
  /\ \A a \in Actors : WF_threadVars(KeepOn(a))
  /\ \A s \in Scripts : WF_threadVars(Leave(s)) /\ SF_threadVars(Interrupted(s))

ThreadsFairSpec == ThreadsSpec /\ ThreadsFairness

-----------------------------------------------------------------------------
(* Properties *)

ThreadsTypeOK ==
  /\ stage \in [Actors -> ThreadLabels]
  /\ target \in [Actors -> Scripts \cup {None}]
  /\ \A a \in Actors : stage[a] \in {"spawn", "close", "remove"} => target[a] # None
  /\ \A a \in Actors : target[a] # None =>
       stage[a] \in {"spawn", "close", "remove", "join", "aborted"}
  /\ collected \in [Actors -> SUBSET Scripts]
  /\ occupied \subseteq ThreadPaths
  /\ list \subseteq Scripts
  /\ path \in [Scripts -> ThreadPaths \cup {None}]
  /\ owner \in [Scripts -> Actors \cup {None}]
  /\ policy \subseteq Scripts /\ failed \subseteq Scripts
  /\ cancel \subseteq Scripts
  /\ joined \subseteq Scripts /\ closedHandles \subseteq Scripts
  /\ dying \in BOOLEAN

\* A path names at most one live script thread, and a live thread stays
\* addressable by it: spawn() refuses an occupied path, and worker.close() frees
\* it only after the join.
OnePathOneThread ==
  \A s \in Scripts : Live(s) =>
    /\ path[s] \in occupied
    /\ \A u \in Scripts \ {s} : Live(u) => path[u] # path[s]

\* Until the members of the tree are destroyed, every live script thread is in
\* scriptThreads_, or collected by a shutdown() that has still to join it, or has
\* been told to stop: concurrent shutdowns, closes and spawns forget none.  The
\* destruction itself can: a thread that was spawned after the last snapshot, and
\* that nobody interrupts, may spawn another, whose ScriptThread is destroyed
\* before start() has given it anything to join.
NoForgottenThread ==
  stage[MainThread] \notin {"members", "gone"} =>
    \A s \in Scripts : Live(s) =>
      s \in list \/ s \in cancel \/ \E a \in Actors : s \in collected[a]

\* a is blocked until script thread s ends.
WaitsFor(a, s) ==
  \/ stage[a] \in {"close", "join"} /\ target[a] = s
  \/ stage[a] = "teardown" /\ s \in Orphans(a)

Blocked(a) == \E s \in Scripts : WaitsFor(a, s) /\ stage[s] # "ended"

\* A closed walk of threads that wait for each other.
JoinCycle ==
  \E S \in SUBSET Scripts \ {{}} : \A s \in S : \E u \in S : WaitsFor(s, u)

\* Every join of worker.close(), of shutdown() and of a freed handle ends, though
\* scripts may run forever: whoever is waited for was told to stop.  The one
\* exception is threads that wait for each other in a cycle.
JoinsEnd ==
  \A a \in Actors : Blocked(a) ~> (~Blocked(a) \/ JoinCycle)
=============================================================================
