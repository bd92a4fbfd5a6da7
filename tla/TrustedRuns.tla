---------------------------- MODULE TrustedRuns ----------------------------
(***************************************************************************)
(* Who may do what.  `wl2 run` approves the permissions a script declares  *)
(* (src/app/wl2/main.cpp, approve_declared_permissions) from a flag, from  *)
(* the trust store that all `wl2` processes of a user share                *)
(* (src/src/core/trust_store.cpp), or by asking; the runtime of an         *)
(* approved script then authorizes each access                             *)
(* (src/src/core/runtime.cpp) from the command line's grants, from those   *)
(* the script obtains with requestPermissions(), or by asking.  `wl2 trust *)
(* revoke` and `clear` edit the same store.  The file of a script is read  *)
(* three times: for what it declares, for its hash, and to be run; with    *)
(* --watch it is read and run again as often as it changes.  A permission  *)
(* is an atom here: how one endpoint or path covers another is left out.   *)
(***************************************************************************)
EXTENDS Naturals, Sequences, FiniteSets

CONSTANTS Runners,      \* wl2 processes
          Paths,        \* canonical paths of scripts
          Contents,     \* what a script's file may hold, up to its hash
          Declares,     \* contents -> the permissions they declare
          Order,        \* the permissions, in the order requestPermissions() takes them
          Console,      \* those one prompt per run decides: UI, graphics, shared memory
          Grants,       \* sets of permissions the command line grants
          Asks,         \* sets of permissions scripts ask for as they run
          MaxTrustCommands, \* bound: commands begun in a behaviour
          MaxTrustMishaps,  \* bound: processes killed and saves that fail
          MaxChanges        \* bound: times the file of a script is changed

Permissions == {Order[i] : i \in DOMAIN Order}

ASSUME OrderAssumption == Order \in Seq(Permissions)
ASSUME ConsoleAssumption == Console \subseteq Permissions
ASSUME SetsAssumption ==
    /\ Declares \in [Contents -> SUBSET Permissions]
    /\ Grants \cup Asks \subseteq SUBSET Permissions
ASSUME TrustBoundsAssumption ==
    MaxTrustCommands \in Nat /\ MaxTrustMishaps \in Nat /\ MaxChanges \in Nat

VARIABLES file,      \* path -> the contents of the file
          trust,     \* trust.json: the permissions a record holds for a script
          proc,      \* what a process is doing
          allowance, \* what remains of the bounds
          decided,   \* history: the permissions the user chose to trust a script with
          book,      \* history: the store as it were if commands ran one by one
          crossed    \* history: a store was saved that was loaded before another save

trustVars == <<file, trust, proc, allowance, decided, book, crossed>>
trustHistory == <<decided, book, crossed>>

NoRecord == {"no record"}
Scripts == Paths \X Contents     \* a record's id stands for a path and a hash
Stores == [Scripts -> (SUBSET Permissions) \cup {NoRecord}]

Empty == [s \in Scripts |-> NoRecord]

Idle == [at |-> "idle"]
Flags == {"none", "allow", "trust"}   \* --allow-declared, --trust-declared

\* A process that runs a script: the path with the contents that were read last
\* before the approval, which are those of the hash once it is taken; what it was
\* started with; its copy of the store; its runtime, and the text this runs.
Run == [at : {"hash", "load", "ask", "write", "rename", "start", "running", "watching"},
        script : Scripts, declared : SUBSET Permissions, flag : Flags,
        interactive : BOOLEAN, static : Grants, watch : BOOLEAN,
        store : Stores, approved : BOOLEAN, dynamic : SUBSET Permissions,
        prompted : BOOLEAN, yes : BOOLEAN, allowed : SUBSET Permissions,
        from : {"user", "record"}, stale : BOOLEAN, text : Contents]

\* A process that edits the store: `wl2 trust revoke` of a script's record,
\* `wl2 trust clear`.
Edit == [at : {"load", "ask", "write", "rename"}, erase : {{s} : s \in Scripts} \cup {Scripts},
         store : Stores, stale : BOOLEAN]

TrustTypeOK ==
    /\ file \in [Paths -> Contents]
    /\ trust \in Stores /\ book \in Stores
    /\ \A p \in Runners : proc[p] \in {Idle} \/ proc[p] \in Run \/ proc[p] \in Edit
    /\ decided \subseteq Scripts \X SUBSET Permissions
    /\ crossed \in BOOLEAN

TrustInit ==
    /\ file \in [Paths -> Contents]
    /\ trust = Empty
    /\ proc = [p \in Runners |-> Idle]
    /\ allowance = [commands |-> MaxTrustCommands, mishaps |-> MaxTrustMishaps,
                    changes |-> MaxChanges]
    /\ decided = {}
    /\ book = trust
    /\ crossed = FALSE

At(p, step) == proc[p].at = step
Edits(p) == "erase" \in DOMAIN proc[p]
Become(p, state) == proc' = [proc EXCEPT ![p] = state]

StartCommand(p, state) ==
    /\ At(p, "idle")
    /\ allowance.commands > 0
    /\ allowance' = [allowance EXCEPT !.commands = @ - 1]
    /\ Become(p, state)
    /\ UNCHANGED <<file, trust, trustHistory>>

TrustMishap ==
    /\ allowance.mishaps > 0
    /\ allowance' = [allowance EXCEPT !.mishaps = @ - 1]

-----------------------------------------------------------------------------
(* Approval *)

\* The file of a script is changed by someone else.
Change(path, contents) ==
    /\ file[path] # contents
    /\ allowance.changes > 0
    /\ allowance' = [allowance EXCEPT !.changes = @ - 1]
    /\ file' = [file EXCEPT ![path] = contents]
    /\ UNCHANGED <<trust, proc, trustHistory>>

\* load_declared_permissions(): the file is read for what it declares; a script
\* that declares nothing needs no approval.
StartRun(p) ==
    \E path \in Paths, f \in Flags, i \in BOOLEAN, g \in Grants, w \in BOOLEAN :
        LET d == Declares[file[path]]
        IN  StartCommand(p,
                [at |-> IF d = {} THEN "start" ELSE "hash",
                 script |-> <<path, file[path]>>, declared |-> d,
                 flag |-> f, interactive |-> i, static |-> g, watch |-> w,
                 store |-> Empty, approved |-> FALSE,
                 dynamic |-> {}, prompted |-> FALSE, yes |-> FALSE, allowed |-> {},
                 from |-> "user", stale |-> FALSE, text |-> file[path]])

\* approve_declared_permissions(): the file is read for its hash; --allow-declared
\* approves without touching the store.
Hash(p) ==
    LET r == proc[p]
        path == r.script[1]
    IN  /\ At(p, "hash")
        /\ Become(p, [r EXCEPT !.at = IF r.flag = "allow" THEN "start" ELSE "load",
                               !.approved = (r.flag = "allow"),
                               !.script = <<path, file[path]>>])
        /\ UNCHANGED <<file, trust, allowance, trustHistory>>

\* trust_revoke_command(), trust_clear_command().
StartEdit(p) ==
    \E e \in {{s} : s \in Scripts} \cup {Scripts} :
        StartCommand(p, [at |-> "load", erase |-> e, store |-> Empty, stale |-> FALSE])

\* Mutant: the hash is not compared.
ExactByPath(store, s, d) ==
    \E t \in Scripts : t[1] = s[1] /\ store[t] # NoRecord /\ d \subseteq store[t]

\* TrustStore::match(): a record of the same path and hash that contains what is
\* declared.  The other matches only change what is printed.
Exact(store, s, d) == store[s] # NoRecord /\ d \subseteq store[s]

\* TrustStore::addOrUpdate(): the record of the same script is replaced.
addOrUpdate(store, s, d) == [store EXCEPT ![s] = d]

\* The store is loaded and the script looked up in it: an exact record approves
\* without asking; else --trust-declared adds a record, a run nobody can be
\* asked about is refused, and another asks.
LoadForRun(p) ==
    LET r == proc[p]
        loaded == [r EXCEPT !.store = trust]
    IN  /\ At(p, "load") /\ ~Edits(p)
        /\ Become(p,
             CASE Exact(trust, r.script, r.declared) ->
                    [r EXCEPT !.at = "start", !.approved = TRUE, !.from = "record"]
               [] ~Exact(trust, r.script, r.declared) /\ r.flag = "trust" ->
                    [loaded EXCEPT !.at = "write",
                                   !.store = addOrUpdate(trust, r.script, r.declared)]
               [] OTHER -> IF r.interactive THEN [loaded EXCEPT !.at = "ask"] ELSE Idle)
        /\ decided' = IF ~Exact(trust, r.script, r.declared) /\ r.flag = "trust"
                      THEN decided \cup {<<r.script, r.declared>>} ELSE decided
        /\ UNCHANGED <<file, trust, allowance, book, crossed>>

\* The run may start, its copy of the store is dropped.
Approved(r) ==
    [r EXCEPT !.at = "start", !.approved = TRUE, !.store = Empty, !.stale = FALSE]

\* The user answers the question about the declared permissions: yes for this
\* run, always, or no.
Answer(p) ==
    LET r == proc[p]
    IN  /\ At(p, "ask") /\ ~Edits(p)
        /\ \/ /\ Become(p, Approved(r))
              /\ UNCHANGED decided
           \/ /\ Become(p, [r EXCEPT !.at = "write",
                                     !.store = addOrUpdate(r.store, r.script, r.declared)])
              /\ decided' = decided \cup {<<r.script, r.declared>>}
           \/ /\ Become(p, Idle)
              /\ UNCHANGED decided
        /\ UNCHANGED <<file, trust, allowance, book, crossed>>

\* The store without the records to erase; an error when there is none.
LoadForEdit(p) ==
    LET e == proc[p]
        found == \E s \in e.erase : trust[s] # NoRecord
        rest == [s \in Scripts |-> IF s \in e.erase THEN NoRecord ELSE trust[s]]
    IN  /\ At(p, "load") /\ Edits(p)
        /\ Become(p, IF ~found THEN Idle
                     ELSE [e EXCEPT !.at = IF e.erase = Scripts THEN "ask" ELSE "write",
                                    !.store = rest])
        /\ UNCHANGED <<file, trust, allowance, trustHistory>>

\* `wl2 trust clear` asks, unless it is told --yes.
Confirm(p) ==
    /\ At(p, "ask") /\ Edits(p)
    /\ \/ Become(p, [proc[p] EXCEPT !.at = "write"])
       \/ Become(p, Idle)
    /\ UNCHANGED <<file, trust, allowance, trustHistory>>

\* Mutant: the text goes to the file itself, which is empty meanwhile.
WriteInPlace(p) ==
    /\ At(p, "write")
    /\ Become(p, [proc[p] EXCEPT !.at = "rename"])
    /\ trust' = Empty
    /\ UNCHANGED <<file, allowance, trustHistory>>

\* write_text_atomic(): the text goes to a temporary file first.
WriteTemp(p) ==
    /\ At(p, "write")
    /\ Become(p, [proc[p] EXCEPT !.at = "rename"])
    /\ UNCHANGED <<file, trust, allowance, trustHistory>>

\* What the book says after the command of p.
Entered(p) ==
    IF Edits(p)
    THEN [s \in Scripts |-> IF s \in proc[p].erase THEN NoRecord ELSE book[s]]
    ELSE addOrUpdate(book, proc[p].script, proc[p].declared)

\* The temporary file replaces the store.  A run goes on, approved.
Rename(p) ==
    /\ At(p, "rename")
    /\ trust' = proc[p].store
    /\ proc' = [q \in Runners |->
          IF q = p
          THEN IF Edits(p) THEN Idle ELSE Approved(proc[p])
          ELSE IF proc[q].at \in {"ask", "write", "rename"} THEN [proc[q] EXCEPT !.stale = TRUE]
          ELSE proc[q]]
    /\ book' = Entered(p)
    /\ crossed' = (crossed \/ proc[p].stale)
    /\ UNCHANGED <<file, allowance, decided>>

\* The store cannot be saved: the command fails, a run is refused.
SaveFails(p) ==
    /\ proc[p].at \in {"write", "rename"}
    /\ TrustMishap
    /\ Become(p, Idle)
    /\ UNCHANGED <<file, trust, trustHistory>>

-----------------------------------------------------------------------------
(* The runtime *)

\* run_script(): a new runtime reads the file and runs what it holds now.
Execute(p) ==
    LET r == proc[p]
    IN  /\ Become(p, [r EXCEPT !.at = "running", !.text = file[r.script[1]]])
        /\ UNCHANGED <<file, trust, allowance, trustHistory>>

FirstRun(p) == At(p, "start") /\ Execute(p)

\* watch_run(): one of the files it polls has changed, and the script is run again
\* with the approval of the first time.
Rerun(p) == At(p, "watching") /\ Execute(p)

\* What requestPermissions() may grant.
Envelope(r) == r.static \cup r.dynamic \cup IF r.approved THEN r.declared ELSE {}

\* What is authorized without asking.
Reach(r) ==
    r.static \cup r.dynamic \cup r.allowed \cup IF r.yes THEN Console ELSE {}

\* Mutant: the item that is refused is granted as well.
RequestPermissionsPast(p, items) ==
    LET r == proc[p]
        denied == {i \in DOMAIN Order : Order[i] \in items \ Envelope(r)}
        granted == {Order[i] : i \in {j \in DOMAIN Order :
                        Order[j] \in items /\ \A k \in denied : j <= k}}
    IN  /\ At(p, "running")
        /\ Become(p, [r EXCEPT !.dynamic = @ \cup granted])
        /\ UNCHANGED <<file, trust, allowance, trustHistory>>

\* requestPermissions(): item by item, each granted at once, up to the first
\* that is outside the envelope.
RequestPermissions(p, items) ==
    LET r == proc[p]
        denied == {i \in DOMAIN Order : Order[i] \in items \ Envelope(r)}
        granted == {Order[i] : i \in {j \in DOMAIN Order :
                        Order[j] \in items /\ \A k \in denied : j < k}}
    IN  /\ At(p, "running")
        /\ Become(p, [r EXCEPT !.dynamic = @ \cup granted])
        /\ UNCHANGED <<file, trust, allowance, trustHistory>>

\* authorizeUi(), authorizeGraphics(), authorizeSharedMemory() of something not
\* authorized yet: the first asks, and its answer is the answer to the others.
AuthorizeConsole(p, x) ==
    LET r == proc[p]
    IN  /\ At(p, "running") /\ r.interactive
        /\ x \in Console \ Reach(r)
        /\ ~r.prompted
        /\ \E yes \in BOOLEAN :
              Become(p, [r EXCEPT !.prompted = TRUE, !.yes = yes])
        /\ UNCHANGED <<file, trust, allowance, trustHistory>>

\* authorizeNetworkConnect(), authorizeNetworkListen() and the file system
\* checks: each asks about what it is given.
AuthorizeEach(p, x) ==
    LET r == proc[p]
    IN  /\ At(p, "running") /\ r.interactive
        /\ x \in Permissions \ (Console \cup Reach(r))
        /\ Become(p, [r EXCEPT !.allowed = @ \cup {x}])
        /\ UNCHANGED <<file, trust, allowance, trustHistory>>

\* The script ends and its runtime with it; with --watch the process goes on polling.
Exit(p) ==
    /\ At(p, "running")
    /\ Become(p, IF proc[p].watch
                 THEN [proc[p] EXCEPT !.at = "watching", !.dynamic = {}, !.allowed = {},
                                      !.prompted = FALSE, !.yes = FALSE]
                 ELSE Idle)
    /\ UNCHANGED <<file, trust, allowance, trustHistory>>

\* The process is killed.
Killed(p) ==
    /\ ~At(p, "idle")
    /\ TrustMishap
    /\ Become(p, Idle)
    /\ UNCHANGED <<file, trust, trustHistory>>

Step(p) ==
    \/ StartRun(p) \/ Hash(p) \/ StartEdit(p)
    \/ LoadForRun(p) \/ Answer(p) \/ LoadForEdit(p) \/ Confirm(p)
    \/ WriteTemp(p) \/ Rename(p) \/ SaveFails(p)
    \/ FirstRun(p) \/ Rerun(p)
    \/ \E items \in Asks : RequestPermissions(p, items)
    \/ \E x \in Permissions : AuthorizeConsole(p, x) \/ AuthorizeEach(p, x)
    \/ Exit(p) \/ Killed(p)

TrustNext ==
    \/ \E path \in Paths, contents \in Contents : Change(path, contents)
    \/ \E p \in Runners : Step(p)

TrustSpec == TrustInit /\ [][TrustNext]_trustVars

-----------------------------------------------------------------------------
(* Properties *)

Runs(p) == At(p, "running")

\* A run that was approved from the store was approved by a decision of the user
\* about the same path, the contents whose hash was looked up, and at least the
\* permissions the run has, whatever happened to the file and to the store in
\* between: overlapping commands, saves that fail, processes killed
\* (approve_declared_permissions() and TrustStore::match(), main.cpp:1109-1116).
\* That the contents that run are those of the hash is TrustedContentsRun.
NoSilentTrust ==
    \A p \in Runners :
        Runs(p) /\ proc[p].from = "record" =>
            \E d \in decided : d[1] = proc[p].script /\ proc[p].declared \subseteq d[2]

\* What runs by a record of the store is what the record is about: "A trusted script
\* auto-approves on later runs only when both its path and content hash still match",
\* and "Changed content [...] re-prompt" (README.md:383-386).  The code violates it: the
\* file may change between its hash and its execution, and with --watch it is run again
\* with the approval of what it held at first.
TrustedContentsRun ==
    \A p \in Runners :
        Runs(p) /\ proc[p].from = "record" => proc[p].text = proc[p].script[2]

\* A running script reaches nothing but what its command line grants, what it
\* declares and was approved, and what the user said yes to, through any sequence
\* of requests, also the denied ones that grant a part (runtime.cpp:469-579).
WithinApproval ==
    \A p \in Runners :
        Runs(p) =>
            LET r == proc[p]
                said == r.allowed \cup IF r.yes THEN Console ELSE {}
            IN  /\ Reach(r) \subseteq
                      r.static \cup said \cup IF r.approved THEN r.declared ELSE {}
                /\ ~r.interactive => said = {}
                /\ r.approved /\ r.from = "user" /\ r.flag = "none" => r.interactive

\* The store holds what the commands that were completed say, one after the
\* other, although each of them loads, changes and saves the whole of it, fails
\* or is killed anywhere, as long as no command saves a copy it loaded before
\* another one's save (trust_store.cpp:107-133 makes the save one step).
StoreIsBook == crossed \/ trust = book
=============================================================================
