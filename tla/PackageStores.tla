--------------------------- MODULE PackageStores ---------------------------
(***************************************************************************)
(* The directories in which `wl2 module install` and `wl2 app install`     *)
(* keep packages (src/src/core/module_store.cpp, app_store.cpp).  A        *)
(* package has a directory in a scope, holding its library or executable   *)
(* and a metadata file; an app has a launcher as well; a scope has an      *)
(* index written from a scan of its directories.  Commands run in          *)
(* processes of their own, take no lock, and may crash between any two     *)
(* file operations.                                                        *)
(***************************************************************************)
EXTENDS Naturals, FiniteSets

CONSTANTS Places,      \* pairs <<scope, name>>: where packages may be installed
          Versions,    \* versions (contents) of the packages
          Procs,       \* processes that run a command
          MaxCommands, \* bound: commands begun in a behaviour
          MaxMishaps   \* bound: processes killed in the middle of a command and
                       \* file operations that fail

ASSUME PlacesAssumption == \A pl \in Places : pl = <<pl[1], pl[2]>>
ASSUME BoundsAssumption == {MaxCommands, MaxMishaps} \subseteq Nat

VARIABLES kind,      \* which store this is: ModuleStore or AppStore
          dirs,      \* places whose directory exists
          payload,   \* the library or executable of a place
          meta,      \* the metadata file of a place
          launchers, \* places whose launcher exists (apps only)
          cache,     \* places whose cached artifact exists
          index,     \* the index file of a scope
          job,       \* what a process is doing
          budget,    \* what remains of the bounds
          done,      \* history: what the last command on a place left there,
                     \* when it ended without crash, fault or overlap
          mixed,     \* history: places that may hold files of two commands: they
                     \* overlapped, or old files of an app could not be removed
          stale      \* history: scopes whose last command was not alone and whole

disk == <<dirs, payload, meta, launchers, cache, index>>
history == <<done, mixed, stale>>
vars == <<kind, dirs, payload, meta, launchers, cache, index, job, budget, done, mixed, stale>>

None == "none"          \* no such file; nothing installed
Torn == "torn"          \* a file whose contents were not all written
Unknown == "unknown"    \* history: the last command on a place was cut short

ASSUME VersionsAssumption == Versions \cap {None, Torn, Unknown} = {}

Scopes == {pl[1] : pl \in Places}
Commands == {"install", "uninstall"}
Steps == {"clear", "mkdir", "copy", "copying", "sum", "meta", "writing", "cache",
          "launch", "unlaunch", "purge", "scan", "index", "indexing"}

Metadata == [version : Versions, sum : Versions \cup {None, Torn}]
Entries == [name : {pl[2] : pl \in Places}, version : Versions \cup {None}]
Jobs == [command : Commands, at : Steps, place : Places, version : Versions \cup {None},
         sum : Versions \cup {None, Torn}, seen : SUBSET Entries,
         whole : BOOLEAN,  \* history: no file operation of the command has failed
         sole : BOOLEAN,   \* history: no other command was on the place meanwhile
         alone : BOOLEAN]  \* history: ... nor in the scope

TypeOK ==
    /\ kind \in {"module", "app"}
    /\ dirs \subseteq Places /\ launchers \subseteq Places /\ cache \subseteq Places
    /\ payload \in [Places -> Versions \cup {None, Torn}]
    /\ meta \in [Places -> Metadata \cup {[version |-> None], [version |-> Torn]}]
    /\ index \in [Scopes -> [torn : BOOLEAN, entries : SUBSET Entries]]
    /\ job \in [Procs -> Jobs \cup {[at |-> None]}]
    /\ done \in [Places -> Versions \cup {None, Unknown}]
    /\ mixed \subseteq Places /\ stale \subseteq Scopes
    /\ kind = "module" => launchers = {}

\* An empty store, before any command.
Init ==
    /\ kind \in {"module", "app"}
    /\ dirs = {} /\ launchers = {} /\ cache = {}
    /\ payload = [pl \in Places |-> None]
    /\ meta = [pl \in Places |-> [version |-> None]]
    /\ index = [s \in Scopes |-> [torn |-> FALSE, entries |-> {}]]
    /\ job = [p \in Procs |-> [at |-> None]]
    /\ budget = [commands |-> MaxCommands, mishaps |-> MaxMishaps]
    /\ done = [pl \in Places |-> None]
    /\ mixed = {} /\ stale = {}

Running(p) == job[p].at # None
On(pl) == {p \in Procs : Running(p) /\ job[p].place = pl}
In(s) == {p \in Procs : Running(p) /\ job[p].place[1] = s}
Place(p) == job[p].place
Listed(pl) == meta[pl].version # None

\* scanScope(): a record for every directory with a metadata file.  A metadata
\* file that is torn gives a record under the directory's name, with no version.
scanScope(s) ==
    {[name |-> pl[2], version |-> IF meta[pl].version = Torn THEN None ELSE meta[pl].version] :
        pl \in {q \in Places : q[1] = s /\ Listed(q)}}

\* verifyInstalled(): the library is there and its checksum is the recorded one.
verifyInstalled(pl) ==
    /\ meta[pl].version \in Versions
    /\ payload[pl] # None
    /\ meta[pl].sum = payload[pl]

-----------------------------------------------------------------------------
\* A process goes on with another file operation.
Goto(p, step) == job' = [job EXCEPT ![p].at = step]

\* A process starts a command on a place.  The history notes who it shares the
\* place and the scope with.
Begin(p, command, pl, v, step) ==
    /\ ~Running(p)
    /\ budget.commands > 0
    /\ budget' = [budget EXCEPT !.commands = @ - 1]
    /\ job' = [q \in Procs |->
          IF q = p
          THEN [command |-> command, at |-> step, place |-> pl, version |-> v, sum |-> None,
                seen |-> {}, whole |-> TRUE, sole |-> On(pl) = {}, alone |-> In(pl[1]) = {}]
          ELSE IF q \in In(pl[1])
          THEN [job[q] EXCEPT !.alone = FALSE, !.sole = @ /\ job[q].place # pl]
          ELSE job[q]]
    /\ done' = [done EXCEPT ![pl] = Unknown]
    /\ mixed' = IF On(pl) # {} THEN mixed \cup {pl} ELSE mixed
    /\ stale' = stale \cup {pl[1]}
    /\ UNCHANGED <<kind, disk>>

\* The command of p returns.  What it leaves on the place is known when every
\* file operation of it succeeded and no other command was working there.
Return(p) ==
    LET j == job[p]
    IN  /\ job' = [job EXCEPT ![p] = [at |-> None]]
        /\ done' = IF j.whole /\ j.sole THEN [done EXCEPT ![j.place] = j.version] ELSE done
        /\ mixed' = IF j.whole /\ j.sole THEN mixed \ {j.place} ELSE mixed
        /\ stale' = IF j.whole /\ j.alone THEN stale \ {j.place[1]} ELSE stale

\* The command returns an error, or its process is killed: what it did remains.
Stop(p) ==
    /\ job' = [job EXCEPT ![p] = [at |-> None]]
    /\ UNCHANGED history

Mishap ==
    /\ budget.mishaps > 0
    /\ budget' = [budget EXCEPT !.mishaps = @ - 1]

\* An error the code reports ends the command, one it does not look at lets it
\* go on.
FaultReported(p) == Mishap /\ Stop(p)
FaultIgnored(p, step) ==
    /\ Mishap
    /\ job' = [job EXCEPT ![p].at = step, ![p].whole = FALSE]
    /\ mixed' = IF job[p].at = "clear" /\ kind = "app" THEN mixed \cup {Place(p)} ELSE mixed
    /\ UNCHANGED <<done, stale>>

-----------------------------------------------------------------------------
\* Mutant: the old files are not removed first.
InstallOver(p, pl, v) == Begin(p, "install", pl, v, "mkdir")

\* install(): the source was found and, for a module, inspected.
Install(p, pl, v) == Begin(p, "install", pl, v, "clear")

\* uninstall(): the package must have a metadata file in the scope asked for, or
\* in one scope only when none was asked for.
Uninstall(p, pl, scoped) ==
    /\ Listed(pl)
    /\ scoped \/ \A q \in Places : q[2] = pl[2] /\ Listed(q) => q = pl
    /\ Begin(p, "uninstall", pl, None, "clear")

\* Mutant: an app's launcher is left behind.
AfterClearForgets(p) == IF job[p].command = "install" THEN "mkdir" ELSE "purge"

AfterClear(p) ==
    IF job[p].command = "install" THEN "mkdir"
    ELSE IF kind = "app" THEN "unlaunch" ELSE "purge"

\* remove_all(): the files one by one, in the order the directory lists them.
RemoveFile(p) ==
    /\ job[p].at = "clear"
    /\ \/ /\ payload[Place(p)] # None
          /\ payload' = [payload EXCEPT ![Place(p)] = None]
          /\ UNCHANGED meta
       \/ /\ Listed(Place(p))
          /\ meta' = [meta EXCEPT ![Place(p)] = [version |-> None]]
          /\ UNCHANGED payload
    /\ UNCHANGED <<kind, dirs, launchers, cache, index, job, budget, history>>

\* remove_all(): the directory, when it is empty.
RemoveDir(p) ==
    /\ job[p].at = "clear"
    /\ payload[Place(p)] = None /\ ~Listed(Place(p))
    /\ dirs' = dirs \ {Place(p)}
    /\ Goto(p, AfterClear(p))
    /\ UNCHANGED <<kind, payload, meta, launchers, cache, index, budget, history>>

\* remove_all() fails.  ModuleStore::uninstall() reports it; install(), where
\* create_directories() overwrites the error, and AppStore::uninstall() go on.
RemoveFails(p) ==
    /\ job[p].at = "clear"
    /\ IF job[p].command = "uninstall" /\ kind = "module"
       THEN FaultReported(p)
       ELSE FaultIgnored(p, AfterClear(p))
    /\ UNCHANGED <<kind, disk>>

MakeDir(p) ==
    /\ job[p].at = "mkdir"
    /\ dirs' = dirs \cup {Place(p)}
    /\ Goto(p, "copy")
    /\ UNCHANGED <<kind, payload, meta, launchers, cache, index, budget, history>>

MakeDirFails(p) ==
    /\ job[p].at = "mkdir"
    /\ FaultReported(p)
    /\ UNCHANGED <<kind, disk>>

\* copy_file(): the file is created or truncated, then filled.
CopyOpen(p) ==
    /\ job[p].at = "copy"
    /\ Place(p) \in dirs
    /\ payload' = [payload EXCEPT ![Place(p)] = Torn]
    /\ Goto(p, "copying")
    /\ UNCHANGED <<kind, dirs, meta, launchers, cache, index, budget, history>>

\* Another command has removed the directory: copy_file() fails.
CopyNowhere(p) ==
    /\ job[p].at = "copy"
    /\ Place(p) \notin dirs
    /\ Stop(p)
    /\ UNCHANGED <<kind, disk, budget>>

\* A copy whose file was unlinked meanwhile fills a file nobody sees; the file
\* another installer created in its place may be what it writes over.
CopyEnd(p) ==
    /\ job[p].at = "copying"
    /\ \E content \in IF payload[Place(p)] = None THEN {None}
                      ELSE IF job[p].sole THEN {job[p].version}
                      ELSE {payload[Place(p)], Torn, job[p].version} :
          payload' = [payload EXCEPT ![Place(p)] = content]
    /\ Goto(p, IF kind = "module" THEN "sum" ELSE "meta")
    /\ UNCHANGED <<kind, dirs, meta, launchers, cache, index, budget, history>>

CopyFails(p) ==
    /\ job[p].at \in {"copy", "copying"}
    /\ FaultReported(p)
    /\ UNCHANGED <<kind, disk>>

\* sha256File() of the installed copy.
Checksum(p) ==
    /\ job[p].at = "sum"
    /\ IF payload[Place(p)] = None
       THEN Stop(p)
       ELSE /\ job' = [job EXCEPT ![p].at = "meta", ![p].sum = payload[Place(p)]]
            /\ UNCHANGED history
    /\ UNCHANGED <<kind, disk, budget>>

\* The metadata stream is opened; nobody looks whether that worked.
MetaOpen(p) ==
    /\ job[p].at = "meta"
    /\ meta' = IF Place(p) \in dirs
               THEN [meta EXCEPT ![Place(p)] = [version |-> Torn]] ELSE meta
    /\ Goto(p, "writing")
    /\ UNCHANGED <<kind, dirs, payload, launchers, cache, index, budget, history>>

\* The metadata reach the file when the stream is closed, if it still has its name.
MetaEnd(p) ==
    /\ job[p].at = "writing"
    /\ \E keep \in IF job[p].sole THEN {FALSE} ELSE BOOLEAN :
          meta' = IF keep \/ ~Listed(Place(p)) THEN meta
                  ELSE [meta EXCEPT ![Place(p)] = [version |-> job[p].version, sum |-> job[p].sum]]
    /\ Goto(p, "cache")
    /\ UNCHANGED <<kind, dirs, payload, launchers, cache, index, budget, history>>

\* The metadata are not written, and nothing notices.
MetaFails(p) ==
    /\ job[p].at \in {"meta", "writing"}
    /\ FaultIgnored(p, "cache")
    /\ UNCHANGED <<kind, disk>>

\* The artifact is kept in the cache as well.
Cache(p) ==
    /\ job[p].at = "cache"
    /\ cache' = cache \cup {Place(p)}
    /\ Goto(p, IF kind = "app" THEN "launch" ELSE "scan")
    /\ UNCHANGED <<kind, dirs, payload, meta, launchers, index, budget, history>>

\* write_launcher().
Launch(p) ==
    /\ job[p].at = "launch"
    /\ launchers' = launchers \cup {Place(p)}
    /\ Goto(p, "scan")
    /\ UNCHANGED <<kind, dirs, payload, meta, cache, index, budget, history>>

LaunchFails(p) ==
    /\ job[p].at = "launch"
    /\ FaultReported(p)
    /\ UNCHANGED <<kind, disk>>

\* AppStore::uninstall() removes the launcher, and ignores an error.
Unlaunch(p) ==
    /\ job[p].at = "unlaunch"
    /\ launchers' = launchers \ {Place(p)}
    /\ Goto(p, "purge")
    /\ UNCHANGED <<kind, dirs, payload, meta, cache, index, budget, history>>

UnlaunchFails(p) ==
    /\ job[p].at = "unlaunch"
    /\ FaultIgnored(p, "purge")
    /\ UNCHANGED <<kind, disk>>

\* purgeCache, when the command asks for it.
Purge(p) ==
    /\ job[p].at = "purge"
    /\ cache' \in {cache, cache \ {Place(p)}}
    /\ Goto(p, "scan")
    /\ UNCHANGED <<kind, dirs, payload, meta, launchers, index, budget, history>>

\* Mutant: it is always the same scope that is scanned.
ScanOne(p) ==
    /\ job[p].at = "scan"
    /\ job' = [job EXCEPT ![p].at = "index", ![p].seen = scanScope(CHOOSE s \in Scopes : TRUE)]
    /\ UNCHANGED <<kind, disk, budget, history>>

\* write_index(scanScope()): the scope is read, then its index is written anew.
Scan(p) ==
    /\ job[p].at = "scan"
    /\ job' = [job EXCEPT ![p].at = "index", ![p].seen = scanScope(Place(p)[1])]
    /\ UNCHANGED <<kind, disk, budget, history>>

IndexOpen(p) ==
    /\ job[p].at = "index"
    /\ index' = [index EXCEPT ![Place(p)[1]] = [torn |-> TRUE, entries |-> {}]]
    /\ Goto(p, "indexing")
    /\ UNCHANGED <<kind, dirs, payload, meta, launchers, cache, budget, history>>

IndexEnd(p) ==
    /\ job[p].at = "indexing"
    /\ index' = [index EXCEPT ![Place(p)[1]] = [torn |-> FALSE, entries |-> job[p].seen]]
    /\ Return(p)
    /\ UNCHANGED <<kind, dirs, payload, meta, launchers, cache, budget>>

Crash(p) ==
    /\ Running(p)
    /\ Mishap
    /\ Stop(p)
    /\ UNCHANGED <<kind, disk>>

Next == \E p \in Procs :
    \/ \E pl \in Places, v \in Versions : Install(p, pl, v)
    \/ \E pl \in Places, scoped \in BOOLEAN : Uninstall(p, pl, scoped)
    \/ RemoveFile(p) \/ RemoveDir(p) \/ RemoveFails(p)
    \/ MakeDir(p) \/ MakeDirFails(p)
    \/ CopyOpen(p) \/ CopyNowhere(p) \/ CopyEnd(p) \/ CopyFails(p)
    \/ Checksum(p)
    \/ MetaOpen(p) \/ MetaEnd(p) \/ MetaFails(p)
    \/ Cache(p) \/ Launch(p) \/ LaunchFails(p)
    \/ Unlaunch(p) \/ UnlaunchFails(p) \/ Purge(p)
    \/ Scan(p) \/ IndexOpen(p) \/ IndexEnd(p)
    \/ Crash(p)

Spec == Init /\ [][Next]_vars
-----------------------------------------------------------------------------
(* Properties *)

\* What is installed under a record is what the record says, although installs
\* and removals are cut short at any file operation: a module whose recorded
\* checksum verifies has the recorded version (module_store.cpp:322-344, where
\* the checksum is taken of the copy, and the old files are removed before it),
\* and so has an app whose executable is whole (app_store.cpp:262-295).  Only
\* two commands at work on the same package, or an app's old files that cannot
\* be removed, can mix the files of two versions.
RecordsAreTrue ==
    \A pl \in Places \ mixed :
        /\ meta[pl].version \in Versions
        /\ IF kind = "module" THEN verifyInstalled(pl) ELSE payload[pl] \in Versions
        => payload[pl] = meta[pl].version

\* A command that was whole and had the place to itself leaves exactly what it
\* says, whatever earlier commands, crashes and failures left there and whatever
\* other commands do in the scope: an installed package is complete, listed and
\* (for an app) launchable, an uninstalled one has no file left but the cached
\* artifact.
DoneIsDone ==
    \A pl \in Places :
        /\ done[pl] \in Versions =>
              /\ meta[pl].version = done[pl] /\ payload[pl] = done[pl]
              /\ kind = "module" => verifyInstalled(pl)
              /\ kind = "app" => pl \in launchers
        /\ done[pl] = None =>
              pl \notin dirs \cup launchers /\ ~Listed(pl) /\ payload[pl] = None

\* The index of a scope tells what is installed there once a whole command had
\* the scope to itself, and until the next command begins: the index is written
\* from a scan made after the last change (write_index(scanScope())).
IndexCurrent ==
    \A s \in Scopes \ stale : index[s] = [torn |-> FALSE, entries |-> scanScope(s)]
=============================================================================
