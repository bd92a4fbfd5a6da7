# winglib2: specifications, model checking and proofs

TLA+ modules that model the core of winglib2 (`wl2`): its threads, event loop,
servers, stores and permissions, the TLC runs
that check them on small instances, and theorems about them that TLAPS checks
for every value of the constants. Source paths below are relative to the
repository. `PROJECT.json` lists, by definition, the lines each definition
stands for, and the hazards the properties are for.

## 1. The system

A `Runtime` hosts JavaScript engines. The main thread runs one; every script
thread spawned with `wl2.thread.spawn` runs another on an OS thread of its own.
Engines talk through the `ThreadTree`; native modules give results back to
JavaScript through the `AsyncHost`.

| Part | State it keeps | Operations | Interacts with |
|---|---|---|---|
| `ThreadTree`, messages and requests (`src/core/thread_tree.cpp`) | nodes, mailboxes, `pending_`, `nextId_`, `droppedReplies_`; one `PendingReplyState` per request | create, remove, send, request, take, reply, reject, defer, wait, poll, cancel, rejectPendingFor, shutdown | any thread |
| Script threads (same file) | `scriptThreads_`, per thread `finished_`, `succeeded_`, `cancel_`, the `std::thread` | spawn, start, interrupt, wait, join, shutdown, interruptSubtree, destruction | the tree's requests (exit rejects them), the engine (`cancel_`) |
| `AsyncHost` (`src/core/async_host.cpp`) | `completions_`, `outstanding_`, `shuttingDown_`, hooks | post, beginOperation, endOperation, drain, waitForWork, shutdown | every engine of the Runtime; workers of native modules |
| QuickJS engine (`src/js/quickjs_engine.cpp`) | the context, its job queue, the top-level promise | runModule with its event loop; the bindings of `wl2.thread` | host, tree, `cancel_` |
| `wl2:asio` (`modules/wl2_asio`) | one `io_context` and worker thread; sockets, servers, timers | connect, listen, accept, read, write, close, setTimeout, setInterval, cancel | host (posts completions, counts operations), permissions |
| `wl2:http` (`modules/wl2_restinio`) | one io thread per server; the server's flags, routes and open streams; per stream `closed`, `responded`, `bufferedBytes`, its builder; per WebSocket `closed`, `bufferedBytes` | listen, close, handlers, respond, write, end, onClose; upgrade, send, close and the callbacks of a WebSocket | host, external RESTinio |
| `wl2:webrtc` (`modules/wl2_webrtc`) | the hub's clients and their sessions (JavaScript); peer connections, tracks, signaling sockets | hub: onMessage, onClose, close; session: start, pump, close | `wl2:http` (sends on a connection), external libdatachannel |
| Runtime permissions (`src/core/runtime.cpp`) | static, dynamic and interactive allow-lists | authorize*, requestPermissions | called from every thread |
| Trust store (`src/core/trust_store.cpp`, `app/wl2/main.cpp`) | one JSON file per user | match, update, revoke, clear, save | every `wl2` process of the user |
| Module resolver (`src/core/module_resolver.cpp`) | selected providers, `visiting`, `visited`, the order | resolve | stores, lockfile |
| Module store, app store | directories, metadata, launchers, an index per scope | install, uninstall, scan, verify | file system, other processes |
| Module loader, lockfile, resources, manifest, buffers, hashes | values | load, parse, look up, convert | file system |
| Message bus (`src/core/membus.cpp`) | handles of an external shared-memory library | wrappers | external library |
| Crash report | a fixed table of thread names | register, report | signal handlers |
| Other native modules (gstreamer, onvif, ffmpeg, slint, 3d, uv, curl, ...) | handles of external libraries | bindings | host, permissions |
| `wl2` command line (`app/wl2/main.cpp`) | – | run, build, package, install, trust | all of the above |

Hard behaviour, and what makes each part correct:

* **Requests.** Every resolution erases the entry of `pending_` under one mutex
  and publishes the outcome under another. Reply, rejection, timeout,
  cancellation, exit and shutdown race. Correct: one winner, a winner that
  really happened, callers who are handed it, one responder per request, exact
  accounting of dropped replies, no caller who waits for ever.
* **Script threads.** spawn, close, shutdown, failure policy and destruction run
  on several threads and block in `join()`. Correct: a path names one live
  thread, no live thread is forgotten, joins end.
* **The event loop.** Its condition is read in parts while a worker posts and
  ends operations; timers are ended by two parties. Correct: the keep-alive
  count is exact, the loop never leaves work behind nor hangs, a cancelled timer
  is silent, a stall is reported only for a promise nothing can settle, and a
  completion runs on the thread of its own engine.
* **Sockets.** An operation's result, its deadline and `close()` race, and a
  deadline cancels a whole socket. Correct: each promise is settled once,
  operations of one kind do not overlap, no data is lost unnoticed, a socket that
  was handed out is open, and what has a deadline or is closed settles.
* **The HTTP server.** JavaScript thread and io thread share the flags of server and
  streams; writes, ends, failed flushes, a lost client and the server's close
  meet in any order. Correct: the keep-alive operation is handed from request to
  stream to cleanup and never lost, `bufferedBytes` returns to what is really
  outstanding, nothing is sent to the client out of order, callbacks are made,
  and a close ends every stream and releases everything.
* **WebSockets and the signaling hub.** `send()` and `close()` decide on one thread
  and take effect on another; hellos, restarts, failing application hooks, stop,
  a lost connection and `hub.close()` meet. Correct: frames and callbacks keep
  their order, and no media session outlives the connection it serves.
* **Stores.** Sequences of file operations of processes that take no lock and may
  crash. Correct: what is recorded is installed, a completed command leaves what
  it says, the index follows.
* **Trust and permissions.** Records written by one process approve runs of
  another; requests are granted item by item. Correct: no script is trusted
  but by a decision of the user about what it holds, or reaches more than what was
  approved.
* **Resolver.** A depth-first walk with early returns and a memo. Correct: the
  closure, in dependency order, with a cycle reported only where there is one.

## 2. Modules

| Module | Models | Proofs |
|---|---|---|
| `ThreadRequests` | requests, mailboxes and nodes of `ThreadTree` | `ThreadRequestsProofs` |
| `OneShotReply` | what the tree promises about each request, without locks | refined in `ThreadRequestsProofs` |
| `ScriptThreads` | script threads, worker handles, shutdown, destruction | `ScriptThreadsProofs` |
| `EventLoop` | `AsyncHost`, the loop of `runModule`, `wl2:asio`'s worker and timers, `~Runtime` | `EventLoopProofs` |
| `AsioSockets` | sockets and servers of `wl2:asio`: operations, deadlines, `close()` | `AsioSocketsProofs` |
| `HttpServer` | a server of `wl2:http`: listen, close, requests, streaming responses | `HttpServerProofs` |
| `WebSockets` | its WebSocket connections, as actions to compose | `SignalingHubProofs` |
| `SignalingHub` | hub and media sessions of `wl2:webrtc`, composed with `WebSockets` | `SignalingHubProofs` |
| `PackageStores` | module store and app store | `PackagesProofs` |
| `TrustedRuns` | trust store, approval of a run, its permissions | `TrustedRunsProofs` |
| `ModuleResolver` | the resolution of a graph of modules | `PackagesProofs` |
| `MC*` | instances for TLC | – |

### ThreadRequests

One action is one critical section. A call that takes several locks is a
sequence of actions of one thread: `pc` says where it is, `arg` (request), `at`
(node), `batch` and `ans` (entries it erased from `pending_` and the outcome it
will publish) and `closing` (mailboxes it will close) are its locals. So
`Expire`, `Cancel`, `DeliverReply`, `RejectPendingFor` and `Shutdown` are the
erase under the tree mutex, and `Publish` is `resolve_state`, later and
separately; `Request` registers and `RequestPost` posts; `Remove` and
`CloseMailbox` likewise. `ReadReply` returns `reply` as the code does, without
looking at `terminal`: before it is published it reads `Unset`, the
default-constructed reply. A message is the id of its request or `OneWay`; a
deadline is the event `DeadlinePasses`. `verdict` and `seen` are history: what a
responder passed on and what callers were handed; `lost` are the requests whose message
is gone unanswered. The bounded `wait(timeout)`
keeps nothing between its checks and is a series of `Poll`s. The waiting of
`shutdown()` for threads is in `ScriptThreads`.

### OneShotReply

Each request has a `fate`: unissued, open, or one decided outcome. A decision is
never revised; `Ok` and `Rejected` are what the responder offered, `Timeout`
needs a deadline that has passed. `ThreadRequests!ImplementsPromise` maps `fate`
to the outcome that is decided when the entry leaves `pending_`, even while it
is still unpublished.

### ScriptThreads

An actor is an OS thread that runs JavaScript. `Spawn` registers path and thread
under the mutex, `Start` creates the `std::thread` after it; `ScriptEnds`,
`Finish` (the engine is freed, with the worker handles it has, which may join;
`finished_`) and `Exit` (the callback) end it. The main thread ends likewise
(`MainEnds`, `Finish`), and `Destroy` begins `~ThreadTree` after that.
`Close`, `CloseJoin`, `CloseRemove` are `worker.close()`. `Collect`, `GraceOver`,
`ForcePass`, `JoinNext`, `Join`, `ShutdownDone` are the passes of `shutdown()`. The
test `joinable()` and the call `join()` are two steps; when another thread has
joined in between the C++ call is undefined and the model lets it return
(`Join`, `CloseJoin`) or end the process (`JoinThrows`). `DestroyMember` is the
destruction of `scriptThreads_` after the destructor's shutdown. A script that
nobody interrupts may run for ever.

### EventLoop

`pc` of an engine follows `runModule`: a turn of JavaScript (`js`), the condition
of the loop in the two reads the code makes, the drain, each completion, the
jobs, the idle test and the wait. Of a script only its effects on the host and
the operation its top-level promise awaits are kept. `Begin`, `CancelTimer` are
its calls; `Complete`, `Fire`, `Abort`, `CloseTimeout` are handlers on the asio
worker, where the handler of a timeout is two steps (post, then end the
operation). `Shutdown`, `StopWorker`, `FinalDrain`, `FinalCompletion` are
`AsyncHost::shutdown` in `~Runtime`. A completion that uses a freed context, or
a context that runs on another thread, is undefined: it may end the process
(`Crash`). Promise operations are one kind here; `AsioSockets` has them in detail.
Relaxed atomics are modelled as sequentially consistent.

### AsioSockets

A handle with its `closed` and in-flight flags (`busy`) belongs to the JavaScript
thread: `Call` (connect, read, accept, write), `CloseHandle`, and `Settle`, the
completion that clears the flag and settles the promise. The rest is the worker:
`tasks` are functions posted to it and run in order (`RunStart`, `RunClose`);
handlers run when they are ready, in any order (`HandleResolved`, `HandleIo`,
`HandleTimer`). `done` is the flag of the operation with which the first handler
claims it (`Claim`). `accept()` on a server is the same code as `read()` on a
socket, with a connection for a chunk, and is modelled by `Reads`. Asio is
external and modelled from its use: `Answer`, `Resolved` and `DeadlinePasses` make
a handler ready, `Cancel` aborts what is pending on a handle. A composed
`async_write` has instants between two of its parts at which it is not pending:
a deadline's cancel then misses it (the set `W` of `GiveUp`), a close lets it fail
with another error (the set `F` of `RunClose`). `arrived`, `taken` and `got` are
history: the stream of a handle and what the script has read of it. The keep-alive
count, which follows each settled promise, is in `EventLoop`; arguments that are
rejected before an operation exists, and `listen()`, which is synchronous, are
left out.

### HttpServer

One server, its JavaScript thread (`JsCalls`, and `Loop`: the completions it runs)
and its io thread (`Worker`: the functions posted to it, in order). A request is
dispatched to its handler, whose promise settles later; a streaming one adopts
the request's keep-alive operation (`alive`). `ended`, `responded`, `cleanup` are
the atomic flags of a stream, claimed by `exchange` in the code. The closing of a
server is several steps of one function: `RunClose` takes the snapshot of
`streams`, `Finish` and `Finished` end each of them, then `CloseListener` and `CloseDone`;
streams opened meanwhile (`late`, history) are in `streams` but not in `batch`. `listen()` in flight
and `close()` overlap as in the code, which looks at `listening` only. RESTinio is
external: a flush calls back with success or an error at any later time. `wire` is
history: what one client receives.

### WebSockets and SignalingHub

`WebSockets` has the actions of the io thread (`Upgrade`, frames, the end of a
connection, the functions posted by `send()` and `close()`) and the calls of
JavaScript. `jobs` are the posted callbacks; each is at the same time its
keep-alive operation, as the code takes one per callback and releases it after.
RESTinio ends a connection with one close frame, whether the client sent it or was
lost. A `send()` has an opcode, and may send a close frame without marking the
connection closed; so do the reply to a message too big and the echo of the client's
close frame. `parted` (history) says which close frames RESTinio was given. `say` is
what the callback in progress still has to call: a callback
computes its effects in one step, as JavaScript does, and its calls follow one by
one while the io thread goes on.

`SignalingHub` extends it with the records of the hub (`known`, `authed`,
`session`) and the sessions (`life`, `owner`, `offer`). A handler of the hub is the
dispatch of a WebSocket callback together with its effect on the hub, wired as
`modules/wl2_webrtc/docs/api.md` shows. The application's hooks may accept,
refuse, throw or close the session; a peer connection is external: it may fail to
be created, and its description becomes ready at any time.

### PackageStores

One process runs one command at a time, as a sequence of file operations: what
`remove_all` removes goes file by file and may fail, a file that is being written
is torn until it is complete, and a process may be killed between any two steps
(`Crash`). `kind` chooses the store: both have the same course, and differ in
what `install` removes first, in checksum, launcher and cache, and in the errors
that are ignored. `done`, `mixed` and `stale` are history: what the last command on a
place left, where two commands overlapped, and which scopes changed since a
command had them alone.

### TrustedRuns

A process runs a script or edits the store. The file of a script may be changed by
someone else at any time (`Change`), and a run reads it three times: for what it
declares (`StartRun`), for its hash (`Hash`), and for the text that is executed
(`Execute`: `FirstRun`, and `Rerun` with `--watch`, which keeps the approval of the
first time). In between are the lookup in the store, the prompt and the save (`load`,
`ask`, `write`, `rename`). A process keeps the copy of the store it loaded, so that a
save may bring back what another one changed (`stale`). A save is a temporary file and
a rename; it may fail or be cut short. `AuthorizeConsole` and `AuthorizeEach` are
`authorize*()`: static and dynamic lists, then the prompt; `RequestPermissions` grants
item by item, and each run has a runtime of its own, which `Exit` drops. A permission is
an atom; UI, graphics and shared memory are decided by one prompt (`Console`).
`decided` and `book` are history: the user's decisions, and the store as completed
commands leave it one after the other.

### ModuleResolver

The recursive `visit()` as a machine with an explicit stack: one step for a call,
a return, or the end of a loop. A choice among providers of equal rank is free,
as the order of the code's list is. `firm` and `cyclic` are history. The specification is
`ResolverSpec`, so that `PackagesProofs` can extend this module next to `PackageStores`.

## 3. Runs

| Run | Instance | Checks |
|---|---|---|
| `requests` | 2 threads; 2 requests to 1 node, or 1 request while a second node comes and goes | `OneWinner`, `DroppedAccounting`, `AnsweredOnce` |
| `answers` | the same | violated: `AnswersAreTerminal` |
| `thread_tree` | requests: 2 threads, 2 paths, 1 request, 2 node objects; threads: main, 2 scripts, a path and a path below it; fair | `ImplementsPromise`, `EveryWaitReturns`; `OnePathOneThread`, `NoForgottenThread`, `JoinsEnd` |
| `asio` | loop: main engine, 1 promise operation, 1 timeout, 1 interval; sockets: 1 handle, connect, 2 reads, 1 write; fair | `CountMatches`, `NothingLeft`, `StalledIsStuck`, `LoopEnds`, `TimerFires`; `SettledOnce`, `ReadsDoNotOverlap`, `OnlyTimeoutsLose`, `ConnectedIsOpen`, `Settles` |
| `shared_host` | main and one script engine, 1 promise operation | violated: `OnItsThread` |
| `own_timeouts` | 1 handle: a read without a deadline, a write with one | violated: `OwnTimeoutsOnly` |
| `http` | 1 listen, 1 close, 1 stream, 2 writes, room for 1, fair | `KeepAliveExact`, `BufferMatches`, `WireWellFormed`, `NoCallbackLost`, `CloseFindsStreams`, `PromptCloseReleases`, `EverythingEnds` |
| `http_close` | the same | violated: `CloseEndsStreams` |
| `hub` | 1 connection, 4 frames, 2 sessions, fair | `NoGhostSession`, `InOrder`, `SessionsFollow` |
| `programs` | stores: 3 places in 2 scopes, 2 versions, 2 processes, 3 commands, 1 mishap; trust: 2 processes, 1 script with 3 contents, 3 permissions, 2 commands, 1 mishap, 1 change of the file; resolver: every graph of up to 3 modules with up to 2 dependencies, and graphs with 2 releases | `RecordsAreTrue`, `DoneIsDone`, `IndexCurrent`; `NoSilentTrust`, `WithinApproval`, `StoreIsBook`; `RequiredFirst`, `CyclesAreReal` |
| `resolver_required` | the same | violated: `RequiredComplete` |
| `trusted_contents` | the same | violated: `TrustedContentsRun` |

**Several modules in one run.** `MCThreadTree`, `MCAsio` and `MCPrograms` extend two or
three modules that have no variable in common. The first state chooses one of them
(`part`), and the others stay at their beginning: a run is the union of the instances, not
their product.

**Types.** Every module states a type invariant, which is proved (section 4). It is not
among the properties of a run, which are kept for what is harder to see.

**Bounds.** `MaxRequests`, `MaxNodes`, `MaxMail` bound ids, node objects and the
mailbox length at which a sender of one-way messages pauses. Two threads suffice
for every race over one request (each race is between two erasers, or an eraser
and a reader); two requests are needed for batches. `Small`, a constraint
of `MCThreadRequests`, keeps the product of two requests and two nodes out, which is
too large. `MayLapse` of
`ThreadRequests` names the requests whose deadline passes: one is enough, since
deadlines of different requests do not interact. `MaxNodes = 2` is one node
besides the root, or its replacement. Two scripts, one below the other, let a
child shut down its parent, and a policy reach a descendant; `ShutdownCallers`, the actors
whose script calls `shutdown()`, are one script and main, so that two shutdowns overlap.
The theorems are about any; two scripts in `shutdown()` join each other, which is one of
the cycles that `JoinsEnd` excepts, and the run has the one of a shutdown and a close. `MaxQueue` bounds completions queued when an interval fires again; two
let one be queued behind another. In `AsioSockets` one handle is enough: handles
share only the worker's queue. Two reads are needed for a read after one that was
given up. In `HttpServer` two writes and room for one chunk let one overflow while
the other is posted, flushing or given up; streams of a server share only the
snapshot of `close()`, and one that is opened before, during and after it has every
order. In `SignalingHub` four frames are hello, start, restart and one more, two
sessions are one and its replacement, and connections share nothing but the
server's end. `MaxCommands = 3` of the stores lets a command follow two that
overlapped, or one that was cut short; one mishap is one crash or one failed file
operation, and three places are two packages of one scope and one of another. Two
commands on the trust store are a decision and the run, or the edit, that meets it;
`--watch` runs a script any number of times, and one change of its file (`MaxChanges`)
comes anywhere between them.
Processes, versions and contents are symmetric. Every graph of three modules
holds cycles through each other, diamonds without a fourth, and requirements
reached both as required and as optional.
Deadlock is not checked: threads may all return and nothing be called any more,
servers may have nothing to do, and commands and programs end.

**Fairness.** A call in progress is scheduled (weak fairness of `Continue`, `KeepOn`,
`LoopStep`, `Leave`): OS threads run. Deadlines, grace periods and timers pass:
every timeout in the code is finite. An interrupted script reaches a checkpoint
(strong fairness of `Interrupted`: it may enter native calls before); QuickJS
calls the handler periodically. The worker of `wl2:asio`, the io thread of a server
and the event loop run (weak fairness of `Worker`, `Settle`, `Loop`, `Calls`); a
flush calls back, as RESTinio's connections have timeouts. The handlers of the hub
are strongly fair: callbacks run from a queue in order, and each waits for the
calls of the one before. No fairness is assumed of scripts that nobody interrupts,
of turns of JavaScript, of promise operations, responders, applications or
clients.

**What the violations show.** Each is a sentence of the repository that the code does not
keep; `findings` in `PROJECT.json` quotes it. What holds around it bounds the defect.

* `AnswersAreTerminal`: a caller past its deadline is handed a default-constructed
  reply, whose status is `Ok`, while another thread is between erasing the entry and
  publishing. Nothing else is ever handed out, and nothing before the deadline
  (`CallersAlwaysAgree`, section 4).
* `OnItsThread`: engines that share the host run each other's completions.
* `OwnTimeoutsOnly`: `socket.cancel()` at the deadline of one operation aborts the others
  of the socket, which report a timeout although they have no deadline. A timeout is
  reported only when some deadline passed on the handle (`TimeoutsAreCaused`, section 4).
* `CloseEndsStreams`: a stream that is opened between the snapshot of `close_server()` and
  its last flag is never ended by a close, and its `onClose` is not called.
  `CloseFindsStreams`, which holds, says that the streams opened before are ended.
* `RequiredComplete`: a module that was completed below an optional requirement, where a
  missing dependency is forgiven, later satisfies a required one; the plan lacks what the
  required module requires. `RequiredFirst` and `CyclesAreReal`, which hold, bound the
  defect: a chain that was required from the start is complete. So do two theorems
  (section 4): every plan has the required roots, and where no requirement is optional it
  is complete.
* `TrustedContentsRun`: the file of a script may change between its hash and its
  execution, and with `--watch` it is run again with the approval of what it held at
  first. `NoSilentTrust`, which holds, is about the contents whose hash was looked up.

**Behaviours worth knowing, which no run singles out.** The models contain them;
the properties named exclude them.

* Two script threads in `shutdown()` join each other; `JoinsEnd`: a cycle of joins is
  the only way one hangs. A thread spawned after the snapshot of `shutdown()` is
  not stopped; when it spawns another while the tree's members are being destroyed, that
  one's `ScriptThread` may be destroyed before it is started. `NoForgottenThread`: until the
  destruction begins, every live thread is listed, interrupted or about to be joined.
* A write given up between two parts of its data goes on while the next runs
  (`modules/wl2_asio/docs/api.md:58`); `ReadsDoNotOverlap`: reads do not.
* `close()` of an HTTP server during `listen()` resolves and leaves the server
  listening (`modules/wl2_restinio/docs/api.md:180-185`); a second `listen()` before the
  first has completed takes a lifetime operation that nothing releases.
  `PromptCloseReleases`: otherwise `close()` releases all. A `respond()` that races the
  server's close sends a head that nobody ends: `WireWellFormed` says that what a client
  has received is the beginning of one response, not that its end comes.
* Messages may follow the close frames that `send()` of the opcode `close`, a message too
  big or the client's close frame cause; `InOrder`: not the one of `close()`.
* The handlers of WebSockets open at `server.close()` are not told: their callbacks are
  skipped once the server is closed, and the sessions live until `hub.close()`. An
  answer to an earlier offer is applied to the session that replaced it. The
  table of clients of `SignalingServer` is pruned by a later `send()`, not when
  a client disconnects.
* `AppStore::uninstall` ignores the error of `remove_all` and reports success
  (`docs/apps.md:39`); an uninstall refuses a place whose metadata is missing, which a
  crash can leave; a failed write of a metadata file goes unnoticed; two commands in
  one scope may leave an index without one of them, until the next.
* A prompt of `wl2 run` is open between load and save of the trust store: another
  process's change meanwhile is lost, and a revoked record may return. `StoreIsBook`:
  only such overlaps do it. A yes to UI also authorizes graphics and shared memory.

## 4. Proofs

Every invariant and action property of the passing runs is proved for every value of the
constants; so is every type invariant, and the refinement of `OneShotReply`. Each component has one inductive invariant of named parts: the type
invariant, the properties, and what the properties need to be inductive. A lemma per
part (`...Step`) goes through the actions, or through what an action does to a few
variables (`Quiet`, `Posts`, `Moves`, ...) where many actions do the same. TLC checked each
inductive invariant on the instance of its run before it was proved.

**`ThreadRequestsProofs`**, for any sets of threads and paths and any bounds.

* `TypeCorrect`, `OneWinnerAlways`. `CallOK` says what the calls in progress hold: a
  call that posts, waits, expires or reads names an issued request, a call that
  posts or takes has a node, and only one that publishes or closes mailboxes holds
  erased entries. So a call that begins or goes back to idle drops no entry
  (`EmptyHanded`), `Publish` moves one from one hand to `terminal`
  (`WinnerPublish`), every erase moves entries from `pending_` to one hand
  (`WinnerClaim`), and `Request` adds one (`WinnerIssue`).
* `AnsweredOnceAlways`: until it is answered a request is at exactly one place (`Once`): being
  posted by one thread, at one position of one mailbox, or held by one responder; an
  answered one is at none. None vanishes but those of `lost`: it found no open
  mailbox, or its responder deferred and then destroyed it.
* `CallersAlwaysAgree`: who was handed a reply was handed the terminal one, or an unset one
  late (`ToldOK`), and only a request whose deadline has passed is read unpublished
  (`LateOK`). That is what holds of `AnswersAreTerminal`.
* `KeepsPromise`: `Spec => ImplementsPromise`. `FateStep` says how each action changes the
  fate of each request (not at all, from unissued to open, or from open to one end),
  `PromiseStep` which action of `OneShotReply` that is.
* `DroppedAlwaysAccounted`: `dropped` is the cardinality of the set of requests whose answer
  lost; a request enters it once, as it has one responder.

**`ScriptThreadsProofs`**, for any scripts and paths: `TypeCorrect`, `OnePathOneThreadAlways`,
`NoThreadForgotten`. `HandleOK`: two actors never work for one handle, and a path
is removed when its thread has ended; `PathOK`: a path stays in `nodes_`, for its
thread alone, until then; `BatchOK`: a shutdown that joins has interrupted what it
collected.

**`EventLoopProofs`**, for any engines, promises, timers and queue bounds.

* `TypeCorrect`, `CountAlwaysMatches`. A completion of a promise is in one place, the queue
  or the batch of one engine (`PlaceOK`); an engine has a batch only while it runs it
  (`LabelOK`); what the worker has posted is queued, in a batch, delivered or cancelled
  (`KeptOK`).
* `NothingIsLeft` and `StalledIsReallyStuck` assume `Engines = {Main}`: the engine has the
  host to itself, as one without script threads has. With two they are false
  (TLC shows it): an engine swaps out the completion that the other's promise awaits, and
  the other finds queue and count empty. It is the same sharing that `shared_host`
  shows. `LeaveOK` says what the loop has found out on the way to its end, `TopOK`
  that a promise which no job moves on awaits what is coming.

**`AsioSocketsProofs`**, for any handles and any finite set of operations: `TypeCorrect`,
`SettledOnceAlways`, `ReadsNeverOverlap`, `DeadlinesAloneLose`, `ConnectedStaysOpen`,
`TimeoutsAreCaused`. `OnceOK` is the promise of the `done` flag without counting: an
operation is done exactly when it has one completion queued or was settled once.
`FlagOK` ties the reading flag to the one unsettled read of its handle; a read that
was given up is Asio's no longer. `GotOK` and `LostOK` follow a chunk from the handler
to the script or to the deadline that claimed the read first.

**`HttpServerProofs`**, for any calls, requests, streams and writes and any buffer limit:
`TypeCorrect`, `KeepAliveIsExact`, `BufferAlwaysMatches`, `WireAlwaysFormed`,
`CallbacksNeverLost`, `CloseFindsItsStreams`, `PromptCloseAlwaysReleases`.

* `CallsOK`: a call is in one place: posted, being flushed, or about to be settled. With
  it each step changes each of the sums of `KeepAliveExact` (promises, handlers,
  streams, the server) by what it does to `outstanding`, and of `BufferMatches` by what it
  does to `bufferedBytes`.
* The types of both counters are part of the result: that `outstanding` never goes
  below zero needs `LifetimeOK`, which says that `close()` releases no more than
  `listen()` has taken.
* `WireOK`: who claims `responded` sends the beginning, who has the builder the rest.
  `SeenOK`, `StepOK`, `EndOK` keep streams, the snapshot of `close()` and the flags together.
* `CloseFindsItsStreams`: a stream that has not ended is in the map or in the snapshot
  (`NoForgottenStream`), so that while the closing is under way it is in the snapshot, or
  was opened since (`ClosingOK`).
* `ServerOK` and `PromptOK`: when no `listen()` was in flight at a `close()`, a closed server
  opens again only for a second `listen()`, and the operation of the first is
  found by the close that resolves.

**`SignalingHubProofs`**, for any connections, sessions and bounds: `TypeCorrect`,
`NoGhosts`, and the action property `AlwaysInOrder`. `OwnedOK`: a session that runs is
the one its owner's record names; `CallbacksOK`: a connection that is gone and that
the hub knows has an `onClose` queued behind its other callbacks, unless the server
is closed; `PartedOK`: nothing is posted behind the close frame of `close()`, or of a `send()`
over the limit, which mark the connection closed first; `FlowOK`: `bufferedBytes` is
what is posted and what flies.

**`PackagesProofs`**, first part, about `PackageStores`, for any places, versions, processes,
commands and mishaps: `TypeCorrect`, `RecordsAreAlwaysTrue`, `DoneIsAlwaysDone`,
`IndexAlwaysCurrent`. `ShareOK` relates the history to who shares a place; `CopyOK`, `CleanOK`,
`WholeOK` say, step by step, what a command that has its place to itself has achieved,
what it may assume when the old files were removed, and what when nothing
failed; `RecordTrue` is the property for a place nobody mixed, with the checksum
that makes it inductive.

**`PackagesProofs`**, second part, about `ModuleResolver`, for any set of well-formed
requests: `ResolverTypeCorrect`, `AlwaysRequiredFirst`, `CyclesAlwaysReal`, and two
results that no run names, `PlansHoldRoots` and `PlainPlansClosed`. `FrameOK`: what a
frame has left is an end of its provider's dependencies, and if it counts on what it
requires (`Strict`), the required ones it has passed are visited. `From` ties each
frame, and the call in progress, to the next dependency of the frame below it, so that
an answer (`AnswerOK`) is about that dependency; a strict frame takes "true" from
nothing else than a module that was visited, and gives up on "false". `SelectedOK`: a
module has its provider from the moment it is visited, so that what it requires does not
change.

`CycleOK` is about the modules that stay in `visiting` when they are given up, where a
later visit may find them. A module is given up when a requirement that counts failed.
Either a provider is missing for it; then everything under way counts too (`RootOK`), the
walk is `Doomed`, down to the error of the root being resolved, and visits nothing more. Or a cycle
was found below, and then the module leads into it. So what is found in `visiting` is on
the stack, and the frames above it close a cycle (`CallCloses`), or was given up for one.
A way into a cycle is stated without lengths of paths: a set of modules each of which needs
one of the set (`LeadsIntoCycle`).

`RootsOK` and `PlainOK` say what a plan has although `RequiredComplete` is false: each required
root, as the outermost frame takes "true" for nothing but a visited module; and
everything, where nothing is optional, as every `visit()` then counts and what is visited
was completed for a required chain (`firm`).

**`TrustedRunsProofs`**, for any processes, scripts, permissions, grants and declarations
and any number of commands and mishaps: `TypeCorrect`, `TrustIsTheUsers`,
`StaysWithinApproval`, `StoreIsTheBook`. Every record of the file is a decision of the user
(`Known`), the file is the book unless an outdated copy was saved, and every process
is `Sound`: its copy of the store has only decisions, what it obtained is bounded by
its grants and approval, a run approved from a record has a decision about its path and
the contents whose hash was looked up, and a copy
that nobody has outdated is the book with the change of the command that holds
it. The last clause makes a rename keep the file equal to the book.

**Assumptions.** Each is named in the module that declares the constants, and TLC
evaluates it in the run of that module. They say that sets which stand for
different things are disjoint (kinds of calls and operations, and the names of
calls against the labels and markers the models put beside them), that sets over
which is summed are finite, that bounds are natural numbers, and that maps
(`On`, `Under`, `Order`) are over what they are said to be. `RequestsAssumption` says that
requests are well formed: providers are finitely many, roots and dependencies are
sequences of requirements, each required or optional. None restricts the system.
`EventLoop`'s `Engines = {Main}` is a hypothesis of two theorems, not an assumption.

**What the proofs changed.** `NoForgottenThread` was stated without its
first line. It is not inductive then, and a larger instance than that of the run
refutes it: main destroys `scriptThreads_` (`thread_tree.h`, the members of
`ThreadTree`) while a thread that was spawned after the last snapshot, and that
nobody interrupts, spawns another; the new one is destroyed before `start()`. The
property now ends where that destruction begins; what happens to threads that are spawned
later is in the model, and no property is about it. (`JoinsEnd` is about the calls
that wait, and does not cover a cycle of them either, which it excludes.) `EventLoop`'s two results on leaving need the engine to be alone, as said
above. The remaining changes were of form: `CyclesAreReal` speaks of a set instead of a
recursive function, alternatives of a `CASE` overlapped, and assumptions keep names of
constants apart.

**Model-checked only.**

* Liveness: `EveryWaitReturns`, `JoinsEnd`, `LoopEnds`, `TimerFires`, `Settles`, `EverythingEnds`,
  `SessionsFollow`. They rest on fairness, and the prover handles neither fairness nor
  ENABLED.
* The counterexamples: those of the six violated runs, and the leaving of one of two
  engines, which this section names.

## 5. Not modelled

Listed with reasons under `components` in `PROJECT.json`. In short:

* Value conversions and parsing: the bindings of the native modules and of
  `wl2.thread`, manifest, lockfile, version ranges, buffers, hashes, JSON of records
  and stores, the text of HTTP requests and responses.
* Wrappers of external libraries, whose protocols are not in the repository: the
  message bus, gstreamer, ffmpeg, onvif, slint, 3d, uv, curl, and the tracks, data
  channels and signaling sockets of webrtc.
* Platform I/O and packaging: resources, crash report, static files and uploads of
  `wl2:http`, and the commands of `wl2` besides `run`'s approval and `trust`.
* Data races below the level of the models (undefined behaviour): the vector of routes
  that is cleared while the io thread may read it, and the allow-lists that are
  appended to without a lock. The matching of endpoints and paths, with the truncation of
  a port to 16 bits, is left out as permissions are atoms.

These are most of the repository's lines: the models stand for the parts whose
correctness depends on order, failure or concurrency.

## 6. Plan

1. Proofs: the invariant of `EventLoop` for several engines, with what each may take of the
   others (the two theorems on leaving assume one).
2. More of the system: a composition of `ThreadRequests` and `ScriptThreads` for the exit
   callback against a reused path; the sessions, subscriptions and streams of
   `wl2:onvif`; the signaling sockets and the track pump of `wl2:webrtc`; the
   registration of modules by the loader; endpoints and paths in permissions.
