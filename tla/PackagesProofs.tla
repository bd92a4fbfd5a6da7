--------------------------- MODULE PackagesProofs ---------------------------
(***************************************************************************)
(* Theorems about packages: how they are stored, and how the modules of a  *)
(* program are resolved.                                                   *)
(*                                                                         *)
(* The stores (PackageStores), for any places, versions, processes and     *)
(* numbers of commands and mishaps: what a record says is what is          *)
(* installed, a whole command leaves what it says, and the index of a      *)
(* scope is current once a whole command had the scope to itself.          *)
(*                                                                         *)
(* The resolver (ModuleResolver), for any set of requests: what was        *)
(* required firmly is loaded first, a cycle is reported only where there   *)
(* is one, and what a plan has.                                            *)
(***************************************************************************)
EXTENDS PackageStores, ModuleResolver, TLAPS

\* A command is made of the steps of its kind, and only an installation has a
\* version to leave.
StepOK ==
    \A p \in Procs : Running(p) =>
        /\ job[p].command = "install" =>
              job[p].version \in Versions /\ job[p].at \notin {"unlaunch", "purge"}
        /\ job[p].command = "uninstall" =>
              /\ job[p].version = None
              /\ job[p].at \in {"clear", "unlaunch", "purge", "scan", "index", "indexing"}
        /\ job[p].at = "sum" => kind = "module"
        /\ job[p].at \in {"launch", "unlaunch"} => kind = "app"

\* The history notes who shares a place and a scope: a command under way makes
\* its place unknown and its scope stale, and one that is not the only one on its
\* place has mixed it.
ShareOK ==
    /\ \A p \in Procs : Running(p) =>
          /\ done[Place(p)] = Unknown
          /\ Place(p)[1] \in stale
          /\ ~job[p].sole => ~job[p].alone /\ Place(p) \in mixed
    /\ \A p, q \in Procs : p # q /\ Running(p) /\ Running(q) =>
          /\ Place(p) = Place(q) => ~job[p].sole
          /\ Place(p)[1] = Place(q)[1] => ~job[p].alone

Copied == {"sum", "meta", "writing", "cache", "launch", "scan", "index", "indexing"}
Written == {"cache", "launch", "scan", "index", "indexing"}

\* An installation that has its place to itself has copied its own version and
\* taken the checksum of that, also when the old files could not be removed.
CopyOK(p) ==
    Running(p) /\ job[p].sole /\ job[p].command = "install" =>
        /\ job[p].at = "copying" => payload[Place(p)] = Torn
        /\ job[p].at \in Copied => payload[Place(p)] = job[p].version
        /\ job[p].at \in {"meta", "writing"} /\ kind = "module" => job[p].sum = job[p].version

\* A command that has its place to itself and did remove the old files ...
Clean(p) ==
    /\ Running(p) /\ job[p].sole
    /\ job[p].whole \/ (kind = "app" /\ Place(p) \notin mixed)

\* ... finds no file of an earlier command.
CleanOK(p) ==
    Clean(p) =>
        /\ job[p].at \in {"mkdir", "copy"} => payload[Place(p)] = None
        /\ job[p].at \in {"mkdir", "copy", "copying", "sum", "meta"} => ~Listed(Place(p))
        /\ job[p].at = "writing" => meta[Place(p)].version \notin Versions
        /\ /\ job[p].command = "install" /\ job[p].at \in Written
           /\ meta[Place(p)].version \in Versions
           => meta[Place(p)].version = job[p].version

\* What a whole command that has its place to itself has done so far.
WholeOK(p) ==
    Running(p) /\ job[p].sole /\ job[p].whole =>
        /\ job[p].command = "install" /\ job[p].at \notin {"clear", "mkdir"} => Place(p) \in dirs
        /\ job[p].at = "writing" => Listed(Place(p))
        /\ job[p].command = "install" /\ job[p].at \in Written =>
              /\ meta[Place(p)].version = job[p].version
              /\ kind = "module" => meta[Place(p)].sum = job[p].version
        /\ job[p].command = "install" /\ kind = "app" /\ job[p].at \in {"scan", "index", "indexing"}
              => Place(p) \in launchers
        /\ job[p].command = "uninstall" /\ job[p].at # "clear" =>
              Place(p) \notin dirs /\ ~Listed(Place(p)) /\ payload[Place(p)] = None
        /\ job[p].command = "uninstall" /\ job[p].at \in {"purge", "scan", "index", "indexing"}
              => Place(p) \notin launchers

ProgressOK == \A p \in Procs : CopyOK(p) /\ CleanOK(p) /\ WholeOK(p)

\* A command that has the scope to itself saw what is there.
SeenOK ==
    \A p \in Procs : Running(p) /\ job[p].alone /\ job[p].at \in {"index", "indexing"} =>
        job[p].seen = scanScope(Place(p)[1])

\* A record is true: the checksum recorded with a version is that of the version,
\* and what is installed and verifies is of the version.
RecordTrue(pl) ==
    /\ kind = "module" /\ meta[pl].version \in Versions => meta[pl].sum = meta[pl].version
    /\ /\ meta[pl].version \in Versions
       /\ IF kind = "module" THEN verifyInstalled(pl) ELSE payload[pl] \in Versions
       => payload[pl] = meta[pl].version

RecordsOK == \A pl \in Places \ mixed : RecordTrue(pl)

IInv ==
    /\ TypeOK /\ StepOK /\ ShareOK /\ ProgressOK /\ SeenOK /\ RecordsOK
    /\ DoneIsDone /\ IndexCurrent

-----------------------------------------------------------------------------
(* What the steps of a process do to the jobs. *)

\* The command of p goes on, and no other process notices.
Moves(p) ==
    /\ job' \in [Procs -> Jobs \cup {[at |-> None]}]
    /\ Running(p) /\ Running(p)'
    /\ \A q \in Procs \ {p} : job'[q] = job[q]
    /\ job'[p].command = job[p].command /\ job'[p].place = job[p].place
    /\ job'[p].version = job[p].version
    /\ job'[p].sole = job[p].sole /\ job'[p].alone = job[p].alone

\* The command of p ends, and no other process notices.
Ends(p) ==
    /\ job' \in [Procs -> Jobs \cup {[at |-> None]}]
    /\ Running(p) /\ ~Running(p)'
    /\ \A q \in Procs \ {p} : job'[q] = job[q]

LEMMA JobTyped ==
  ASSUME TypeOK, NEW p \in Procs, Running(p)
  PROVE  job[p] \in Jobs
  BY DEF TypeOK, Running

LEMMA GotoMoves ==
  ASSUME TypeOK, NEW p \in Procs, Running(p), NEW step \in Steps, Goto(p, step)
  PROVE  /\ Moves(p)
         /\ job'[p].at = step /\ job'[p].whole = job[p].whole
         /\ job'[p].sum = job[p].sum /\ job'[p].seen = job[p].seen
<1>1. job[p] \in Jobs
  BY JobTyped
<1>2. step # None
  BY DEF Steps, None
<1>3. job'[p] = [job[p] EXCEPT !.at = step] /\ \A q \in Procs \ {p} : job'[q] = job[q]
  BY DEF Goto, TypeOK
<1>4. [job[p] EXCEPT !.at = step] \in Jobs
  BY <1>1 DEF Jobs
<1>5. job' \in [Procs -> Jobs \cup {[at |-> None]}]
  BY <1>4 DEF Goto, TypeOK
<1> QED
  BY <1>1, <1>2, <1>3, <1>5 DEF Moves, Running, Jobs

LEMMA StopEnds ==
  ASSUME TypeOK, NEW p \in Procs, Running(p), job' = [job EXCEPT ![p] = [at |-> None]]
  PROVE  Ends(p)
  BY DEF Ends, Running, TypeOK

LEMMA IgnoredMoves ==
  ASSUME TypeOK, NEW p \in Procs, Running(p), NEW step \in Steps, FaultIgnored(p, step)
  PROVE  /\ Moves(p)
         /\ job'[p].at = step /\ job'[p].whole = FALSE
         /\ job'[p].sum = job[p].sum /\ job'[p].seen = job[p].seen
<1>1. job[p] \in Jobs
  BY JobTyped
<1>2. step # None
  BY DEF Steps, None
<1>3. /\ job'[p] = [job[p] EXCEPT !.at = step, !.whole = FALSE]
      /\ \A q \in Procs \ {p} : job'[q] = job[q]
  BY DEF FaultIgnored, TypeOK
<1>4. [job[p] EXCEPT !.at = step, !.whole = FALSE] \in Jobs
  BY <1>1 DEF Jobs
<1>5. job' \in [Procs -> Jobs \cup {[at |-> None]}]
  BY <1>4 DEF FaultIgnored, TypeOK
<1> QED
  BY <1>1, <1>2, <1>3, <1>5 DEF Moves, Running, Jobs

\* A command begins: those in the same scope are no longer alone there, and one
\* on the same place no longer has it to itself.
LEMMA BeginsJob ==
  ASSUME TypeOK, NEW p \in Procs, NEW command \in Commands, NEW pl \in Places,
         NEW v \in Versions \cup {None}, NEW step \in Steps, Begin(p, command, pl, v, step)
  PROVE  /\ job' \in [Procs -> Jobs \cup {[at |-> None]}]
         /\ ~Running(p) /\ Running(p)'
         /\ job'[p].command = command /\ job'[p].at = step /\ job'[p].place = pl
         /\ job'[p].version = v /\ job'[p].whole
         /\ job'[p].sole <=> On(pl) = {}
         /\ job'[p].alone <=> In(pl[1]) = {}
         /\ \A q \in Procs \ {p} :
               /\ Running(q)' <=> Running(q)
               /\ Running(q) =>
                     /\ job'[q].at = job[q].at /\ job'[q].command = job[q].command
                     /\ job'[q].place = job[q].place /\ job'[q].version = job[q].version
                     /\ job'[q].sum = job[q].sum /\ job'[q].seen = job[q].seen
                     /\ job'[q].whole = job[q].whole
                     /\ job'[q].sole <=> job[q].sole /\ job[q].place # pl
                     /\ job'[q].alone <=> job[q].alone /\ job[q].place[1] # pl[1]
<1> DEFINE new == [command |-> command, at |-> step, place |-> pl, version |-> v, sum |-> None,
                   seen |-> {}, whole |-> TRUE, sole |-> On(pl) = {}, alone |-> In(pl[1]) = {}]
           other(q) == [job[q] EXCEPT !.alone = FALSE, !.sole = @ /\ job[q].place # pl]
<1>1. step # None
  BY DEF Steps, None
<1>2. job'[p] = new
  BY DEF Begin
<1>3. new \in Jobs
  BY DEF Jobs, Entries
<1>4. ~Running(p)
  BY DEF Begin
<1>5. /\ Running(p)'
      /\ job'[p].command = command /\ job'[p].at = step /\ job'[p].place = pl
      /\ job'[p].version = v /\ job'[p].whole
      /\ job'[p].sole <=> On(pl) = {}
      /\ job'[p].alone <=> In(pl[1]) = {}
  <2>1. new.at = step /\ new.command = command /\ new.place = pl /\ new.version = v
    OBVIOUS
  <2>2. new.whole /\ new.sole = (On(pl) = {}) /\ new.alone = (In(pl[1]) = {})
    OBVIOUS
  <2> HIDE DEF new
  <2> QED
    BY <1>1, <1>2, <2>1, <2>2 DEF Running
<1>6. ASSUME NEW q \in Procs \ {p}, Running(q)
      PROVE  /\ job'[q] \in Jobs
             /\ Running(q)'
             /\ job'[q].at = job[q].at /\ job'[q].command = job[q].command
             /\ job'[q].place = job[q].place /\ job'[q].version = job[q].version
             /\ job'[q].sum = job[q].sum /\ job'[q].seen = job[q].seen
             /\ job'[q].whole = job[q].whole
             /\ job'[q].sole <=> job[q].sole /\ job[q].place # pl
             /\ job'[q].alone <=> job[q].alone /\ job[q].place[1] # pl[1]
  <2>1. job[q] \in Jobs
    BY <1>6, JobTyped
  <2>2. CASE job[q].place[1] = pl[1]
    <3>1. q \in In(pl[1])
      BY <1>6, <2>2 DEF In
    <3>2. job'[q] = other(q)
      BY <1>6, <3>1 DEF Begin
    <3>3. other(q) \in Jobs
      BY <2>1 DEF Jobs
    <3> QED
      BY <1>6, <2>1, <2>2, <3>2, <3>3 DEF Jobs, Running
  <2>3. CASE job[q].place[1] # pl[1]
    <3>1. q \notin In(pl[1])
      BY <2>3 DEF In
    <3>2. job'[q] = job[q]
      BY <1>6, <3>1 DEF Begin
    <3>3. job[q].place # pl
      BY <2>3
    <3> QED
      BY <1>6, <2>1, <2>3, <3>2, <3>3 DEF Running
  <2> QED
    BY <2>2, <2>3
<1>7. ASSUME NEW q \in Procs \ {p}, ~Running(q)
      PROVE  job'[q] = job[q]
  <2>1. q \notin In(pl[1])
    BY <1>7 DEF In
  <2> QED
    BY <1>7, <2>1 DEF Begin
<1>8. job' \in [Procs -> Jobs \cup {[at |-> None]}]
  <2>1. \A q \in Procs : job'[q] \in Jobs \cup {[at |-> None]}
    BY <1>2, <1>3, <1>6, <1>7 DEF TypeOK
  <2>2. job' = [q \in Procs |-> job'[q]]
    BY DEF Begin
  <2> QED
    BY <2>1, <2>2
<1> QED
  BY <1>4, <1>5, <1>6, <1>7, <1>8 DEF Running

-----------------------------------------------------------------------------
(* The kinds of steps. *)

SameAt(pl) ==
    /\ payload'[pl] = payload[pl] /\ meta'[pl] = meta[pl]
    /\ pl \in dirs' <=> pl \in dirs
    /\ pl \in launchers' <=> pl \in launchers

Begins(p) ==
    \E command \in Commands, pl \in Places, v \in Versions \cup {None} :
        /\ Begin(p, command, pl, v, "clear")
        /\ command = "install" <=> v \in Versions

Quits(p) == Ends(p) /\ UNCHANGED <<kind, disk, history>>

\* A file operation of p fails, and p goes on.
Ignores(p) ==
    \/ /\ job[p].at = "clear" /\ ~(job[p].command = "uninstall" /\ kind = "module")
       /\ FaultIgnored(p, AfterClear(p))
       /\ UNCHANGED <<kind, disk>>
    \/ MetaFails(p) \/ UnlaunchFails(p)

\* A file operation of p succeeds.
Work(p) ==
    \/ RemoveFile(p) \/ RemoveDir(p) \/ MakeDir(p) \/ CopyOpen(p) \/ CopyEnd(p)
    \/ Checksum(p) /\ payload[Place(p)] # None
    \/ MetaOpen(p) \/ MetaEnd(p) \/ Cache(p) \/ Launch(p) \/ Unlaunch(p) \/ Purge(p)
    \/ Scan(p) \/ IndexOpen(p)

LEMMA StepKinds ==
  ASSUME TypeOK, Next
  PROVE  \E p \in Procs : Begins(p) \/ Quits(p) \/ Ignores(p) \/ Work(p) \/ IndexEnd(p)
<1> SUFFICES ASSUME NEW p \in Procs,
              \/ \E pl \in Places, v \in Versions : Install(p, pl, v)
              \/ \E pl \in Places, scoped \in BOOLEAN : Uninstall(p, pl, scoped)
              \/ RemoveFile(p) \/ RemoveDir(p) \/ RemoveFails(p)
              \/ MakeDir(p) \/ MakeDirFails(p)
              \/ CopyOpen(p) \/ CopyNowhere(p) \/ CopyEnd(p) \/ CopyFails(p)
              \/ Checksum(p)
              \/ MetaOpen(p) \/ MetaEnd(p) \/ MetaFails(p)
              \/ Cache(p) \/ Launch(p) \/ LaunchFails(p)
              \/ Unlaunch(p) \/ UnlaunchFails(p) \/ Purge(p)
              \/ Scan(p) \/ IndexOpen(p) \/ IndexEnd(p)
              \/ Crash(p)
             PROVE  Begins(p) \/ Quits(p) \/ Ignores(p) \/ Work(p) \/ IndexEnd(p)
  BY Zenon DEF Next
<1>1. ASSUME NEW pl \in Places, NEW v \in Versions, Install(p, pl, v)
      PROVE  Begins(p)
  BY <1>1 DEF Install, Begins, Commands
<1>2. ASSUME NEW pl \in Places, NEW scoped \in BOOLEAN, Uninstall(p, pl, scoped)
      PROVE  Begins(p)
  <2>1. None \notin Versions
    BY VersionsAssumption
  <2> QED
    BY <1>2, <2>1 DEF Uninstall, Begins, Commands
<1>3. ASSUME Stop(p), UNCHANGED <<kind, disk>>, Running(p)
      PROVE  Quits(p)
  BY <1>3, StopEnds DEF Stop, Quits
<1>4. CASE RemoveFails(p)
  <2>1. Running(p)
    BY <1>4 DEF RemoveFails, Running, None
  <2> QED
    BY <1>3, <1>4, <2>1, Zenon DEF RemoveFails, FaultReported, Ignores
<1>5. CASE MakeDirFails(p) \/ CopyNowhere(p) \/ CopyFails(p) \/ LaunchFails(p) \/ Crash(p)
  <2>1. Running(p)
    BY <1>5 DEF MakeDirFails, CopyNowhere, CopyFails, LaunchFails, Crash, Running, None
  <2> QED
    BY <1>3, <1>5, <2>1, Zenon
       DEF MakeDirFails, CopyNowhere, CopyFails, LaunchFails, Crash, FaultReported
<1>6. CASE Checksum(p)
  <2>1. Running(p)
    BY <1>6 DEF Checksum, Running, None
  <2> QED
    BY <1>3, <1>6, <2>1, Zenon DEF Checksum, Work
<1> QED
  BY <1>1, <1>2, <1>4, <1>5, <1>6, Zenon DEF Ignores, Work

\* A file operation touches the place of its own command only.
LEMMA WorkMoves ==
  ASSUME TypeOK, StepOK, NEW p \in Procs, Work(p)
  PROVE  /\ Moves(p) /\ job'[p].whole = job[p].whole
         /\ UNCHANGED <<kind, history>>
<1> USE DEF Steps, history
<1>1. Running(p)
  BY DEF Work, RemoveFile, RemoveDir, MakeDir, CopyOpen, CopyEnd, Checksum, MetaOpen, MetaEnd,
         Cache, Launch, Unlaunch, Purge, Scan, IndexOpen, Running, None
<1>2. job[p] \in Jobs
  BY <1>1, JobTyped
<1>3. CASE RemoveFile(p)
  <2>1. UNCHANGED <<kind, history, job>>
    BY <1>3 DEF RemoveFile
  <2> QED
    BY <1>1, <2>1 DEF Moves, TypeOK, Running
<1>4. CASE RemoveDir(p)
  BY <1>1, <1>4, GotoMoves DEF RemoveDir, AfterClear
<1>5. CASE MakeDir(p)
  BY <1>1, <1>5, GotoMoves DEF MakeDir
<1>6. CASE CopyOpen(p)
  BY <1>1, <1>6, GotoMoves DEF CopyOpen
<1>7. CASE CopyEnd(p)
  BY <1>1, <1>7, GotoMoves DEF CopyEnd
<1>8. CASE Checksum(p) /\ payload[Place(p)] # None
  <2> DEFINE new == [job[p] EXCEPT !.at = "meta", !.sum = payload[Place(p)]]
  <2>1. /\ job' = [job EXCEPT ![p] = new]
        /\ UNCHANGED <<kind, history>>
    BY <1>8 DEF Checksum
  <2>2. payload[Place(p)] \in Versions \cup {None, Torn}
    BY <1>2 DEF TypeOK, Jobs, Place
  <2>3. new \in Jobs
    BY <1>2, <2>2 DEF Jobs
  <2>4. job'[p] = new /\ \A q \in Procs \ {p} : job'[q] = job[q]
    BY <2>1 DEF TypeOK
  <2>5. job' \in [Procs -> Jobs \cup {[at |-> None]}]
    BY <2>1, <2>3 DEF TypeOK
  <2>6. /\ new.at = "meta" /\ new.command = job[p].command /\ new.place = job[p].place
        /\ new.version = job[p].version /\ new.sole = job[p].sole /\ new.alone = job[p].alone
        /\ new.whole = job[p].whole
    BY <1>2 DEF Jobs
  <2> HIDE DEF new
  <2> QED
    BY <1>1, <2>1, <2>4, <2>5, <2>6 DEF Moves, Running, None
<1>9. CASE MetaOpen(p)
  BY <1>1, <1>9, GotoMoves DEF MetaOpen
<1>10. CASE MetaEnd(p)
  BY <1>1, <1>10, GotoMoves DEF MetaEnd
<1>11. CASE Cache(p)
  BY <1>1, <1>11, GotoMoves DEF Cache
<1>12. CASE Launch(p)
  BY <1>1, <1>12, GotoMoves DEF Launch
<1>13. CASE Unlaunch(p)
  BY <1>1, <1>13, GotoMoves DEF Unlaunch
<1>14. CASE Purge(p)
  BY <1>1, <1>14, GotoMoves DEF Purge
<1>15. CASE Scan(p)
  <2> DEFINE new == [job[p] EXCEPT !.at = "index", !.seen = scanScope(Place(p)[1])]
  <2>1. /\ job' = [job EXCEPT ![p] = new]
        /\ UNCHANGED <<kind, history>>
    BY <1>15 DEF Scan
  <2>2. scanScope(Place(p)[1]) \subseteq Entries
    <3>1. \A pl \in Places : Listed(pl) => meta[pl].version \in Versions \cup {Torn}
      BY DEF TypeOK, Listed, Metadata
    <3> QED
      BY <3>1 DEF scanScope, Entries
  <2>3. new \in Jobs
    BY <1>2, <2>2 DEF Jobs
  <2>4. job'[p] = new /\ \A q \in Procs \ {p} : job'[q] = job[q]
    BY <2>1 DEF TypeOK
  <2>5. job' \in [Procs -> Jobs \cup {[at |-> None]}]
    BY <2>1, <2>3 DEF TypeOK
  <2>6. /\ new.at = "index" /\ new.command = job[p].command /\ new.place = job[p].place
        /\ new.version = job[p].version /\ new.sole = job[p].sole /\ new.alone = job[p].alone
        /\ new.whole = job[p].whole
    BY <1>2 DEF Jobs
  <2> HIDE DEF new
  <2> QED
    BY <1>1, <2>1, <2>4, <2>5, <2>6 DEF Moves, Running, None
<1>16. CASE IndexOpen(p)
  BY <1>1, <1>16, GotoMoves DEF IndexOpen
<1> QED
  BY <1>3, <1>4, <1>5, <1>6, <1>7, <1>8, <1>9, <1>10, <1>11, <1>12, <1>13, <1>14, <1>15, <1>16,
     Zenon DEF Work

\* The rest of the types, and the files of the other places.
LEMMA WorkTouches ==
  ASSUME TypeOK, StepOK, NEW p \in Procs, Work(p)
  PROVE  /\ dirs' \subseteq Places /\ launchers' \subseteq Places /\ cache' \subseteq Places
         /\ payload' \in [Places -> Versions \cup {None, Torn}]
         /\ meta' \in [Places -> Metadata \cup {[version |-> None], [version |-> Torn]}]
         /\ index' \in [Scopes -> [torn : BOOLEAN, entries : SUBSET Entries]]
         /\ kind = "module" => launchers' = launchers
         /\ \A pl \in Places \ {Place(p)} : SameAt(pl)
         /\ \A s \in Scopes \ {Place(p)[1]} : index'[s] = index[s]
<1> USE DEF SameAt
<1>1. Running(p)
  BY WorkMoves DEF Moves
<1>2. job[p] \in Jobs
  BY <1>1, JobTyped
<1>a. Place(p) \in Places /\ Place(p)[1] \in Scopes
  BY <1>2 DEF Place, Jobs, Scopes
<1>b. UNCHANGED <<dirs, launchers, cache, payload, meta, index>> =>
        /\ dirs' \subseteq Places /\ launchers' \subseteq Places /\ cache' \subseteq Places
        /\ payload' \in [Places -> Versions \cup {None, Torn}]
        /\ meta' \in [Places -> Metadata \cup {[version |-> None], [version |-> Torn]}]
        /\ index' \in [Scopes -> [torn : BOOLEAN, entries : SUBSET Entries]]
  BY DEF TypeOK
<1>3. CASE RemoveFile(p)
  BY <1>a, <1>3 DEF RemoveFile, TypeOK
<1>4. CASE RemoveDir(p) \/ MakeDir(p)
  BY <1>a, <1>4 DEF RemoveDir, MakeDir, TypeOK
<1>6. CASE CopyOpen(p)
  BY <1>a, <1>6 DEF CopyOpen, TypeOK
<1>7. CASE CopyEnd(p)
  <2>1. job[p].command = "install"
    BY <1>1, <1>2, <1>7 DEF CopyEnd, StepOK, Jobs, Commands
  <2>2. job[p].version \in Versions /\ payload[Place(p)] \in Versions \cup {None, Torn}
    BY <1>1, <1>a, <2>1 DEF StepOK, TypeOK
  <2>3. PICK content \in Versions \cup {None, Torn} :
          payload' = [payload EXCEPT ![Place(p)] = content]
    BY <1>7, <2>2 DEF CopyEnd
  <2> QED
    BY <1>a, <1>7, <2>3 DEF CopyEnd, TypeOK
<1>8. CASE Checksum(p) \/ Scan(p)
  BY <1>8, <1>b DEF Checksum, Scan, disk, TypeOK
<1>9. CASE MetaOpen(p)
  BY <1>a, <1>9 DEF MetaOpen, TypeOK
<1>10. CASE MetaEnd(p)
  <2> DEFINE record == [version |-> job[p].version, sum |-> job[p].sum]
  <2>1. job[p].command = "install"
    BY <1>1, <1>2, <1>10 DEF MetaEnd, StepOK, Jobs, Commands
  <2>2. record \in Metadata
    BY <1>1, <1>2, <2>1 DEF StepOK, Jobs, Metadata
  <2>3. meta' = meta \/ meta' = [meta EXCEPT ![Place(p)] = record]
    BY <1>10 DEF MetaEnd
  <2> QED
    BY <1>a, <1>10, <2>2, <2>3 DEF MetaEnd, TypeOK
<1>11. CASE Cache(p) \/ Purge(p)
  BY <1>a, <1>11 DEF Cache, Purge, TypeOK
<1>12. CASE Launch(p) \/ Unlaunch(p)
  <2>1. kind = "app"
    BY <1>1, <1>12 DEF Launch, Unlaunch, StepOK
  <2> QED
    BY <1>a, <1>12, <2>1 DEF Launch, Unlaunch, TypeOK
<1>16. CASE IndexOpen(p)
  BY <1>a, <1>16 DEF IndexOpen, TypeOK
<1> QED
  BY <1>3, <1>4, <1>6, <1>7, <1>8, <1>9, <1>10, <1>11, <1>12, <1>16, Zenon DEF Work

\* The history that IndexEnd writes, and the index.
LEMMA IndexEndEnds ==
  ASSUME TypeOK, NEW p \in Procs, IndexEnd(p)
  PROVE  /\ Ends(p) /\ job[p] \in Jobs /\ Place(p) \in Places /\ job[p].at = "indexing"
         /\ UNCHANGED <<kind, dirs, payload, meta, launchers, cache>>
         /\ index' = [index EXCEPT ![Place(p)[1]] = [torn |-> FALSE, entries |-> job[p].seen]]
         /\ done' = IF job[p].whole /\ job[p].sole
                    THEN [done EXCEPT ![Place(p)] = job[p].version] ELSE done
         /\ mixed' = IF job[p].whole /\ job[p].sole THEN mixed \ {Place(p)} ELSE mixed
         /\ stale' = IF job[p].whole /\ job[p].alone THEN stale \ {Place(p)[1]} ELSE stale
<1>1. Running(p)
  BY DEF IndexEnd, Running, None
<1>2. job[p] \in Jobs
  BY <1>1, JobTyped
<1>3. Ends(p)
  BY <1>1, StopEnds DEF IndexEnd, Return
<1> QED
  BY <1>2, <1>3 DEF IndexEnd, Return, Place, Jobs

LEMMA IgnoresMoves ==
  ASSUME TypeOK, NEW p \in Procs, Ignores(p)
  PROVE  /\ Moves(p) /\ job'[p].whole = FALSE
         /\ UNCHANGED <<kind, disk, done, stale>>
         /\ mixed' = IF job[p].at = "clear" /\ kind = "app" THEN mixed \cup {Place(p)} ELSE mixed
         /\ job'[p].at = IF job[p].at = "clear" THEN AfterClear(p)
                         ELSE IF job[p].at = "unlaunch" THEN "purge" ELSE "cache"
         /\ job[p].at \in {"clear", "meta", "writing", "unlaunch"}
<1>1. Running(p)
  BY DEF Ignores, MetaFails, UnlaunchFails, Running, None
<1>2. AfterClear(p) \in Steps /\ "cache" \in Steps /\ "purge" \in Steps
  BY DEF AfterClear, Steps
<1>3. CASE job[p].at = "clear" /\ FaultIgnored(p, AfterClear(p)) /\ UNCHANGED <<kind, disk>>
  <2>1. UNCHANGED <<done, stale>>
        /\ mixed' = IF job[p].at = "clear" /\ kind = "app" THEN mixed \cup {Place(p)} ELSE mixed
    BY <1>3 DEF FaultIgnored
  <2>2. Moves(p) /\ job'[p].at = AfterClear(p) /\ job'[p].whole = FALSE
    BY <1>1, <1>2, <1>3, IgnoredMoves
  <2> QED
    BY <1>3, <2>1, <2>2
<1>4. CASE MetaFails(p)
  <2>1. /\ FaultIgnored(p, "cache") /\ UNCHANGED <<kind, disk>>
        /\ job[p].at \in {"meta", "writing"}
    BY <1>4 DEF MetaFails
  <2>2. job[p].at # "clear" /\ job[p].at # "unlaunch"
    BY <2>1
  <2>3. UNCHANGED <<done, stale>> /\ mixed' = mixed
    BY <2>1, <2>2 DEF FaultIgnored
  <2>4. Moves(p) /\ job'[p].at = "cache" /\ job'[p].whole = FALSE
    BY <1>1, <1>2, <2>1, IgnoredMoves
  <2> QED
    BY <2>1, <2>2, <2>3, <2>4
<1>5. CASE UnlaunchFails(p)
  <2>1. /\ FaultIgnored(p, "purge") /\ UNCHANGED <<kind, disk>>
        /\ job[p].at = "unlaunch"
    BY <1>5 DEF UnlaunchFails
  <2>2. UNCHANGED <<done, stale>> /\ mixed' = mixed
    BY <2>1 DEF FaultIgnored
  <2>3. Moves(p) /\ job'[p].at = "purge" /\ job'[p].whole = FALSE
    BY <1>1, <1>2, <2>1, IgnoredMoves
  <2> QED
    BY <2>1, <2>2, <2>3
<1> QED
  BY <1>3, <1>4, <1>5, Zenon DEF Ignores

\* The step that follows each file operation.
LEMMA WorkAt ==
  ASSUME TypeOK, StepOK, NEW p \in Procs, Work(p)
  PROVE  LET at == job[p].at
             next == job'[p].at
         IN  \/ at = "clear" /\ next \in {"clear", AfterClear(p)}
             \/ at = "mkdir" /\ next = "copy"
             \/ at = "copy" /\ next = "copying"
             \/ at = "copying" /\ next = IF kind = "module" THEN "sum" ELSE "meta"
             \/ at = "sum" /\ next = "meta"
             \/ at = "meta" /\ next = "writing"
             \/ at = "writing" /\ next = "cache"
             \/ at = "cache" /\ next = IF kind = "app" THEN "launch" ELSE "scan"
             \/ at \in {"launch", "purge"} /\ next = "scan"
             \/ at = "unlaunch" /\ next = "purge"
             \/ at = "scan" /\ next = "index"
             \/ at = "index" /\ next = "indexing"
<1>1. Running(p) /\ job[p] \in Jobs
  BY WorkMoves, JobTyped DEF Moves
<1>2. \A step : Goto(p, step) => job'[p].at = step
  BY <1>1 DEF Goto, TypeOK, Jobs
<1>3. CASE RemoveFile(p)
  BY <1>3 DEF RemoveFile
<1>4. CASE RemoveDir(p) \/ MakeDir(p) \/ CopyOpen(p) \/ CopyEnd(p) \/ MetaOpen(p) \/ MetaEnd(p)
  BY <1>2, <1>4 DEF RemoveDir, MakeDir, CopyOpen, CopyEnd, MetaOpen, MetaEnd
<1>5. CASE Cache(p) \/ Launch(p) \/ Unlaunch(p) \/ Purge(p) \/ IndexOpen(p)
  BY <1>2, <1>5 DEF Cache, Launch, Unlaunch, Purge, IndexOpen
<1>6. CASE Checksum(p) /\ payload[Place(p)] # None
  BY <1>1, <1>6 DEF Checksum, TypeOK, Jobs
<1>7. CASE Scan(p)
  BY <1>1, <1>7 DEF Scan, TypeOK, Jobs
<1> QED
  BY <1>3, <1>4, <1>5, <1>6, <1>7, Zenon DEF Work

-----------------------------------------------------------------------------
(* Types, and the steps of a command. *)

LEMMA TypeInit == Init => TypeOK
<1> SUFFICES ASSUME Init
             PROVE  TypeOK
  OBVIOUS
<1>1. index \in [Scopes -> [torn : BOOLEAN, entries : SUBSET Entries]]
  BY DEF Init
<1> QED
  BY <1>1 DEF Init, TypeOK

LEMMA TypeStep ==
  ASSUME TypeOK, StepOK, [Next]_vars
  PROVE  TypeOK'
<1>1. CASE UNCHANGED vars
  BY <1>1 DEF vars, TypeOK, Metadata, Jobs, Scopes, Entries
<1>2. ASSUME NEW p \in Procs, Begins(p)
      PROVE  TypeOK'
  <2>1. PICK command \in Commands, pl \in Places, v \in Versions \cup {None} :
          Begin(p, command, pl, v, "clear")
    BY <1>2 DEF Begins
  <2>2. job' \in [Procs -> Jobs \cup {[at |-> None]}]
    BY <2>1, BeginsJob DEF Steps
  <2>3. /\ done' = [done EXCEPT ![pl] = Unknown]
        /\ mixed' = IF On(pl) # {} THEN mixed \cup {pl} ELSE mixed
        /\ stale' = stale \cup {pl[1]}
        /\ UNCHANGED <<kind, disk>>
    BY <2>1 DEF Begin
  <2>4. pl[1] \in Scopes
    BY DEF Scopes
  <2> QED
    BY <2>2, <2>3, <2>4 DEF TypeOK, disk
<1>3. ASSUME NEW p \in Procs, Quits(p)
      PROVE  TypeOK'
  BY <1>3 DEF Quits, Ends, disk, history, TypeOK
<1>4. ASSUME NEW p \in Procs, Ignores(p)
      PROVE  TypeOK'
  <2>1. job[p] \in Jobs
    BY <1>4, IgnoresMoves, JobTyped DEF Moves
  <2>2. Place(p) \in Places
    BY <2>1 DEF Place, Jobs
  <2>3. /\ job' \in [Procs -> Jobs \cup {[at |-> None]}]
        /\ UNCHANGED <<kind, disk, done, stale>>
    BY <1>4, IgnoresMoves DEF Moves
  <2>4. mixed' = mixed \cup {Place(p)} \/ mixed' = mixed
    BY <1>4, IgnoresMoves, Zenon
  <2> QED
    BY <2>2, <2>3, <2>4 DEF disk, TypeOK
<1>5. ASSUME NEW p \in Procs, Work(p)
      PROVE  TypeOK'
  BY <1>5, WorkMoves, WorkTouches DEF Moves, history, TypeOK
<1>6. ASSUME NEW p \in Procs, IndexEnd(p)
      PROVE  TypeOK'
  <2>1. job[p].seen \in SUBSET Entries /\ job[p].version \in Versions \cup {None}
    BY <1>6, IndexEndEnds DEF Jobs
  <2>2. index' \in [Scopes -> [torn : BOOLEAN, entries : SUBSET Entries]]
    <3>1. [torn |-> FALSE, entries |-> job[p].seen] \in [torn : BOOLEAN, entries : SUBSET Entries]
      BY <2>1
    <3> QED
      BY <1>6, <3>1, IndexEndEnds DEF TypeOK
  <2>3. done' \in [Places -> Versions \cup {None, Unknown}]
    <3>1. done' = done \/ done' = [done EXCEPT ![Place(p)] = job[p].version]
      BY <1>6, IndexEndEnds, Zenon
    <3> QED
      BY <2>1, <3>1 DEF TypeOK
  <2> QED
    BY <1>6, <2>2, <2>3, IndexEndEnds DEF Ends, TypeOK
<1> QED
  BY <1>1, <1>2, <1>3, <1>4, <1>5, <1>6, StepKinds

LEMMA StepStep ==
  ASSUME TypeOK, StepOK, [Next]_vars
  PROVE  StepOK'
<1> USE DEF StepOK
<1>1. CASE UNCHANGED vars
  BY <1>1 DEF vars, Running
<1>2. ASSUME NEW p \in Procs, Begins(p)
      PROVE  StepOK'
  <2>1. PICK command \in Commands, pl \in Places, v \in Versions \cup {None} :
          /\ Begin(p, command, pl, v, "clear")
          /\ command = "install" <=> v \in Versions
    BY <1>2 DEF Begins
  <2>2. kind' = kind
    BY <2>1 DEF Begin
  <2>3. "clear" \in Steps
    BY DEF Steps
  <2>4. ASSUME NEW q \in Procs, q # p, Running(q)'
        PROVE  StepOK!(q)'
    BY <2>1, <2>2, <2>3, <2>4, BeginsJob
  <2>5. StepOK!(p)'
    BY <2>1, <2>3, BeginsJob
  <2> QED
    BY <2>4, <2>5
<1>3. ASSUME NEW p \in Procs, Quits(p)
      PROVE  StepOK'
  BY <1>3 DEF Quits, Ends, Running
<1>4. ASSUME NEW p \in Procs, Ignores(p)
      PROVE  StepOK'
  <2>1. /\ Moves(p) /\ kind' = kind
        /\ job[p].at \in {"clear", "meta", "writing", "unlaunch"}
        /\ job'[p].at = IF job[p].at = "clear" THEN AfterClear(p)
                        ELSE IF job[p].at = "unlaunch" THEN "purge" ELSE "cache"
    BY <1>4, IgnoresMoves
  <2>2. job[p].command \in Commands
    BY <2>1, JobTyped DEF Moves, Jobs
  <2>3. StepOK!(p)'
    <3> USE <2>1, <2>2 DEF Moves, Commands
    <3>1. CASE job[p].at = "clear"
      BY <3>1 DEF AfterClear
    <3>2. CASE job[p].at # "clear"
      BY <3>2
    <3> QED
      BY <3>1, <3>2
  <2> QED
    BY <2>1, <2>3 DEF Moves, Running
<1>5. ASSUME NEW p \in Procs, Work(p)
      PROVE  StepOK'
  <2>1. Moves(p) /\ kind' = kind
    BY <1>5, WorkMoves
  <2>2. job[p] \in Jobs
    BY <2>1, JobTyped DEF Moves
  <2>3. StepOK!(p)'
    <3> USE <2>1, <2>2 DEF Moves, Commands, Jobs
    <3>1. CASE job[p].at = "clear"
      BY <1>5, <3>1, WorkAt DEF AfterClear
    <3>2. CASE job[p].at # "clear"
      BY <1>5, <3>2, WorkAt DEF TypeOK
    <3> QED
      BY <3>1, <3>2
  <2> QED
    BY <2>1, <2>3 DEF Moves, Running
<1>6. ASSUME NEW p \in Procs, IndexEnd(p)
      PROVE  StepOK'
  BY <1>6, IndexEndEnds DEF Ends, Running
<1> QED
  BY <1>1, <1>2, <1>3, <1>4, <1>5, <1>6, StepKinds

-----------------------------------------------------------------------------
(* Who shares a place and a scope. *)

LEMMA ShareStep ==
  ASSUME TypeOK, StepOK, ShareOK, [Next]_vars
  PROVE  ShareOK'
<1> USE DEF ShareOK, Place
<1>1. CASE UNCHANGED vars
  BY <1>1 DEF vars, Running
<1>2. ASSUME NEW p \in Procs, Begins(p)
      PROVE  ShareOK'
  <2>1. PICK command \in Commands, pl \in Places, v \in Versions \cup {None} :
          Begin(p, command, pl, v, "clear")
    BY <1>2 DEF Begins
  <2>2. "clear" \in Steps
    BY DEF Steps
  <2>3. /\ ~Running(p) /\ Running(p)' /\ job'[p].place = pl
        /\ job'[p].sole <=> On(pl) = {}
        /\ job'[p].alone <=> In(pl[1]) = {}
        /\ \A q \in Procs \ {p} :
              /\ Running(q)' <=> Running(q)
              /\ Running(q) =>
                    /\ job'[q].place = job[q].place
                    /\ job'[q].sole <=> job[q].sole /\ job[q].place # pl
                    /\ job'[q].alone <=> job[q].alone /\ job[q].place[1] # pl[1]
    BY <2>1, <2>2, BeginsJob
  <2>4. /\ done' = [done EXCEPT ![pl] = Unknown]
        /\ mixed' = IF On(pl) # {} THEN mixed \cup {pl} ELSE mixed
        /\ stale' = stale \cup {pl[1]}
    BY <2>1 DEF Begin
  <2>5. \A q \in Procs \ {p} : Running(q) /\ job[q].place = pl => On(pl) # {}
    BY DEF On
  <2>6. \A q \in Procs \ {p} : Running(q) /\ job[q].place[1] = pl[1] => In(pl[1]) # {}
    BY DEF In
  <2>7. In(pl[1]) = {} => On(pl) = {}
    BY DEF In, On
  <2>8. ASSUME NEW q \in Procs, Running(q)'
        PROVE  /\ done'[job'[q].place] = Unknown
               /\ job'[q].place[1] \in stale'
               /\ ~job'[q].sole => ~job'[q].alone /\ job'[q].place \in mixed'
    <3>1. CASE q = p
      BY <2>3, <2>4, <2>7, <3>1 DEF TypeOK
    <3>2. CASE q # p
      <4>1. /\ Running(q) /\ job'[q].place = job[q].place
            /\ job'[q].sole <=> job[q].sole /\ job[q].place # pl
            /\ job'[q].alone <=> job[q].alone /\ job[q].place[1] # pl[1]
        BY <2>3, <2>8, <3>2
      <4>2. done'[job[q].place] = Unknown /\ job[q].place[1] \in stale'
        BY <2>4, <4>1 DEF TypeOK
      <4>3. CASE job[q].place = pl
        BY <2>4, <2>5, <3>2, <4>1, <4>2, <4>3
      <4>4. CASE job[q].place # pl
        BY <2>4, <4>1, <4>2, <4>4
      <4> QED
        BY <4>3, <4>4
    <3> QED
      BY <3>1, <3>2
  <2>9. ASSUME NEW q \in Procs, NEW r \in Procs, q # r, Running(q)', Running(r)'
        PROVE  /\ job'[q].place = job'[r].place => ~job'[q].sole
               /\ job'[q].place[1] = job'[r].place[1] => ~job'[q].alone
    BY <2>3, <2>5, <2>6, <2>9
  <2> QED
    BY <2>8, <2>9
<1>3. ASSUME NEW p \in Procs, Moves(p), UNCHANGED <<done, stale>>, mixed \subseteq mixed'
      PROVE  ShareOK'
  BY <1>3 DEF Moves, Running
<1>4. ASSUME NEW p \in Procs, Quits(p)
      PROVE  ShareOK'
  BY <1>4 DEF Quits, history, Ends, Running
<1>5. ASSUME NEW p \in Procs, Ignores(p)
      PROVE  ShareOK'
  <2>1. UNCHANGED <<done, stale>> /\ Moves(p)
    BY <1>5, IgnoresMoves
  <2>2. mixed' = mixed \cup {Place(p)} \/ mixed' = mixed
    BY <1>5, IgnoresMoves, Zenon
  <2> QED
    BY <1>3, <2>1, <2>2
<1>6. ASSUME NEW p \in Procs, Work(p)
      PROVE  ShareOK'
  BY <1>3, <1>6, WorkMoves DEF history
<1>7. ASSUME NEW p \in Procs, IndexEnd(p)
      PROVE  ShareOK'
  <2>1. Ends(p)
    BY <1>7, IndexEndEnds
  <2>2. ASSUME NEW q \in Procs \ {p}, Running(q), job[p].sole => job[q].place # job[p].place,
               job[p].alone => job[q].place[1] # job[p].place[1]
        PROVE  /\ done'[job[q].place] = done[job[q].place]
               /\ job[q].place[1] \in stale => job[q].place[1] \in stale'
               /\ job[q].place \in mixed => job[q].place \in mixed'
    <3>1. done'[job[q].place] = done[job[q].place]
      <4>1. CASE job[p].whole /\ job[p].sole
        <5>1. done' = [done EXCEPT ![job[p].place] = job[p].version]
          BY <1>7, <4>1, IndexEndEnds
        <5>2. job[q].place \in Places
          BY <2>2, JobTyped DEF Jobs
        <5> QED
          BY <2>2, <4>1, <5>1, <5>2 DEF TypeOK
      <4>2. CASE ~(job[p].whole /\ job[p].sole)
        BY <1>7, <4>2, IndexEndEnds
      <4> QED
        BY <4>1, <4>2
    <3>2. job[q].place[1] \in stale => job[q].place[1] \in stale'
      BY <1>7, <2>2, IndexEndEnds
    <3>3. job[q].place \in mixed => job[q].place \in mixed'
      BY <1>7, <2>2, IndexEndEnds
    <3> QED
      BY <3>1, <3>2, <3>3
  <2>3. \A q \in Procs \ {p} : Running(q) =>
           /\ done'[job[q].place] = done[job[q].place]
           /\ job[q].place[1] \in stale => job[q].place[1] \in stale'
           /\ job[q].place \in mixed => job[q].place \in mixed'
    BY <2>1, <2>2 DEF Ends
  <2> QED
    BY <2>1, <2>3 DEF Ends, Running
<1> QED
  BY <1>1, <1>2, <1>4, <1>5, <1>6, <1>7, StepKinds

-----------------------------------------------------------------------------
(* What a command has done so far. *)

\* A step does not disturb a command that goes on as it was, when the files of its
\* place stay and its place is not found to be mixed no longer.
LEMMA ProgressKept ==
  ASSUME NEW q \in Procs, CopyOK(q), CleanOK(q), WholeOK(q), kind' = kind,
         Running(q)' =>
            /\ Running(q)
            /\ job'[q].at = job[q].at /\ job'[q].command = job[q].command
            /\ job'[q].place = job[q].place /\ job'[q].version = job[q].version
            /\ job'[q].sum = job[q].sum /\ job'[q].whole = job[q].whole
            /\ job'[q].sole =>
                  /\ job[q].sole /\ SameAt(Place(q))
                  /\ Place(q) \in mixed => Place(q) \in mixed'
  PROVE  CopyOK(q)' /\ CleanOK(q)' /\ WholeOK(q)'
<1>1. CASE ~Running(q)'
  BY <1>1 DEF CopyOK, CleanOK, Clean, WholeOK
<1>2. CASE Running(q)' /\ ~job'[q].sole
  BY <1>2 DEF CopyOK, CleanOK, Clean, WholeOK
<1>3. CASE Running(q)' /\ job'[q].sole
  BY <1>3 DEF CopyOK, CleanOK, Clean, WholeOK, SameAt, Place, Listed
<1> QED
  BY <1>1, <1>2, <1>3

\* A file operation that succeeds leaves its command where it should be.
LEMMA WorkProgress ==
  ASSUME TypeOK, StepOK, ShareOK, ProgressOK, NEW p \in Procs, Work(p)
  PROVE  CopyOK(p)' /\ CleanOK(p)' /\ WholeOK(p)'
<1>1. /\ Running(p) /\ Running(p)'
      /\ job'[p].command = job[p].command /\ Place(p)' = Place(p)
      /\ job'[p].version = job[p].version /\ job'[p].sole = job[p].sole
      /\ job'[p].whole = job[p].whole
      /\ kind' = kind /\ mixed' = mixed
  BY WorkMoves DEF Moves, history, Place
<1>2. job[p] \in Jobs /\ kind \in {"module", "app"}
  BY <1>1, JobTyped DEF TypeOK
<1>3. Place(p) \in Places /\ job[p].command \in Commands
  BY <1>2 DEF Jobs, Place
<1>4. CopyOK(p) /\ CleanOK(p) /\ WholeOK(p)
  BY DEF ProgressOK
<1>5. Clean(p)' <=> Clean(p)
  BY <1>1 DEF Clean
<1>6. Versions \cap {None, Torn} = {} /\ None # Torn
  BY VersionsAssumption DEF None, Torn
<1>7. /\ job[p].command = "install" => job[p].version \in Versions
      /\ job[p].at \in {"mkdir", "copy", "copying", "sum", "meta", "writing", "cache", "launch"}
           => job[p].command = "install"
      /\ job[p].at \in {"unlaunch", "purge"} => job[p].command = "uninstall"
      /\ job[p].at = "sum" => kind = "module"
      /\ job[p].at \in {"launch", "unlaunch"} => kind = "app"
  BY <1>1, <1>3 DEF StepOK, Commands
<1> USE <1>1, <1>2, <1>3, <1>4, <1>5, <1>6, <1>7
    DEF CopyOK, CleanOK, WholeOK, Copied, Written, Listed
<1>8. CASE RemoveFile(p)
  <2>1. job'[p].at = "clear"
    BY <1>8 DEF RemoveFile
  <2> QED
    BY <2>1
<1>9. CASE RemoveDir(p)
  <2>1. /\ job[p].at = "clear" /\ job'[p].at = AfterClear(p)
        /\ payload[Place(p)] = None /\ ~Listed(Place(p))
        /\ Place(p) \notin dirs' /\ UNCHANGED <<payload, meta, launchers>>
    BY <1>9, GotoMoves DEF RemoveDir, AfterClear, Steps
  <2> QED
    BY <2>1 DEF AfterClear, TypeOK
<1>10. CASE MakeDir(p)
  <2>1. /\ job[p].at = "mkdir" /\ job'[p].at = "copy"
        /\ Place(p) \in dirs' /\ UNCHANGED <<payload, meta, launchers>>
    BY <1>10, GotoMoves DEF MakeDir, Steps
  <2> QED
    BY <2>1
<1>11. CASE CopyOpen(p)
  <2>1. /\ job[p].at = "copy" /\ job'[p].at = "copying"
        /\ payload'[Place(p)] = Torn /\ UNCHANGED <<dirs, meta, launchers>>
    BY <1>11, GotoMoves DEF CopyOpen, Steps, TypeOK
  <2> QED
    BY <2>1
<1>12. CASE CopyEnd(p)
  <2>1. /\ job[p].at = "copying" /\ job'[p].at = IF kind = "module" THEN "sum" ELSE "meta"
        /\ UNCHANGED <<dirs, meta, launchers>>
    BY <1>12, GotoMoves DEF CopyEnd, Steps
  <2>2. job[p].sole => payload'[Place(p)] = job[p].version
    BY <1>12 DEF CopyEnd, TypeOK
  <2> QED
    BY <2>1, <2>2
<1>13. CASE Checksum(p) /\ payload[Place(p)] # None
  <2>1. /\ job[p].at = "sum" /\ job'[p].at = "meta" /\ job'[p].sum = payload[Place(p)]
        /\ UNCHANGED <<dirs, payload, meta, launchers>>
    BY <1>13 DEF Checksum, disk, TypeOK, Jobs
  <2> QED
    BY <2>1
<1>14. CASE MetaOpen(p)
  <2>1. /\ job[p].at = "meta" /\ job'[p].at = "writing" /\ job'[p].sum = job[p].sum
        /\ UNCHANGED <<dirs, payload, launchers>>
    BY <1>14, GotoMoves DEF MetaOpen, Steps
  <2>2. /\ meta'[Place(p)].version \in {Torn, meta[Place(p)].version}
        /\ Place(p) \in dirs => meta'[Place(p)].version = Torn
    BY <1>14 DEF MetaOpen, TypeOK
  <2> QED
    BY <2>1, <2>2
<1>15. CASE MetaEnd(p)
  <2>1. /\ job[p].at = "writing" /\ job'[p].at = "cache"
        /\ UNCHANGED <<dirs, payload, launchers>>
    BY <1>15, GotoMoves DEF MetaEnd, Steps
  <2>2. job[p].sole => IF Listed(Place(p))
                       THEN meta'[Place(p)] = [version |-> job[p].version, sum |-> job[p].sum]
                       ELSE meta'[Place(p)] = meta[Place(p)]
    BY <1>15 DEF MetaEnd, TypeOK
  <2>3. CopyOK(p)'
    BY <2>1
  <2>4. CleanOK(p)'
    <3>1. Clean(p) => job[p].sole
      BY DEF Clean
    <3> QED
      BY <2>1, <2>2, <3>1
  <2>5. WholeOK(p)'
    BY <2>1, <2>2
  <2> QED
    BY <2>3, <2>4, <2>5
<1>16. CASE Cache(p)
  <2>1. /\ job[p].at = "cache" /\ job'[p].at = IF kind = "app" THEN "launch" ELSE "scan"
        /\ UNCHANGED <<dirs, payload, meta, launchers>>
    BY <1>16, GotoMoves DEF Cache, Steps
  <2> QED
    BY <2>1
<1>17. CASE Launch(p)
  <2>1. /\ job[p].at = "launch" /\ job'[p].at = "scan" /\ Place(p) \in launchers'
        /\ UNCHANGED <<dirs, payload, meta>>
    BY <1>17, GotoMoves DEF Launch, Steps
  <2> QED
    BY <2>1
<1>18. CASE Unlaunch(p)
  <2>1. /\ job[p].at = "unlaunch" /\ job'[p].at = "purge" /\ Place(p) \notin launchers'
        /\ UNCHANGED <<dirs, payload, meta>>
    BY <1>18, GotoMoves DEF Unlaunch, Steps
  <2> QED
    BY <2>1
<1>19. CASE Purge(p)
  <2>1. /\ job[p].at = "purge" /\ job'[p].at = "scan"
        /\ UNCHANGED <<dirs, payload, meta, launchers>>
    BY <1>19, GotoMoves DEF Purge, Steps
  <2> QED
    BY <2>1
<1>20. CASE Scan(p)
  <2>1. /\ job[p].at = "scan" /\ job'[p].at = "index"
        /\ UNCHANGED <<dirs, payload, meta, launchers>>
    BY <1>20 DEF Scan, disk, TypeOK, Jobs
  <2> QED
    BY <2>1
<1>21. CASE IndexOpen(p)
  <2>1. /\ job[p].at = "index" /\ job'[p].at = "indexing"
        /\ UNCHANGED <<dirs, payload, meta, launchers>>
    BY <1>21, GotoMoves DEF IndexOpen, Steps
  <2> QED
    BY <2>1
<1> QED
  BY <1>8, <1>9, <1>10, <1>11, <1>12, <1>13, <1>14, <1>15, <1>16, <1>17, <1>18, <1>19, <1>20,
     <1>21, Zenon DEF Work

LEMMA ProgressStep ==
  ASSUME TypeOK, StepOK, ShareOK, ProgressOK, [Next]_vars
  PROVE  ProgressOK'
<1> USE DEF ProgressOK
<1>1. CASE UNCHANGED vars
  BY <1>1 DEF vars, CopyOK, CleanOK, Clean, WholeOK, Running, Place, Listed
<1>2. ASSUME NEW p \in Procs, Begins(p)
      PROVE  ProgressOK'
  <2>1. PICK command \in Commands, pl \in Places, v \in Versions \cup {None} :
          Begin(p, command, pl, v, "clear")
    BY <1>2 DEF Begins
  <2>2. /\ job'[p].at = "clear"
        /\ \A q \in Procs \ {p} :
              /\ Running(q)' <=> Running(q)
              /\ Running(q) =>
                     /\ job'[q].at = job[q].at /\ job'[q].command = job[q].command
                     /\ job'[q].place = job[q].place /\ job'[q].version = job[q].version
                     /\ job'[q].sum = job[q].sum
                     /\ job'[q].whole = job[q].whole
                     /\ job'[q].sole => job[q].sole
    BY <2>1, BeginsJob DEF Steps
  <2>3. kind' = kind /\ UNCHANGED disk /\ mixed \subseteq mixed'
    BY <2>1 DEF Begin
  <2>4. \A pl2 : SameAt(pl2)
    BY <2>3 DEF disk, SameAt
  <2>5. ASSUME NEW q \in Procs \ {p}
        PROVE  CopyOK(q)' /\ CleanOK(q)' /\ WholeOK(q)'
    BY <2>2, <2>3, <2>4, ProgressKept
  <2>6. CopyOK(p)' /\ CleanOK(p)' /\ WholeOK(p)'
    BY <2>2 DEF CopyOK, CleanOK, WholeOK, Copied, Written
  <2> QED
    BY <2>5, <2>6
<1>3. ASSUME NEW p \in Procs, Quits(p)
      PROVE  ProgressOK'
  <2>1. kind' = kind /\ mixed' = mixed /\ \A pl : SameAt(pl)
    BY <1>3 DEF Quits, disk, history, SameAt
  <2>2. ASSUME NEW q \in Procs
        PROVE  CopyOK(q)' /\ CleanOK(q)' /\ WholeOK(q)'
    BY <1>3, <2>1, ProgressKept DEF Quits, Ends, Running
  <2> QED
    BY <2>2
<1>4. ASSUME NEW p \in Procs, Ignores(p)
      PROVE  ProgressOK'
  <2>1. /\ Moves(p) /\ job'[p].whole = FALSE
        /\ kind' = kind /\ \A pl : SameAt(pl)
        /\ job'[p].at = IF job[p].at = "clear" THEN AfterClear(p)
                        ELSE IF job[p].at = "unlaunch" THEN "purge" ELSE "cache"
        /\ job[p].at \in {"clear", "meta", "writing", "unlaunch"}
    BY <1>4, IgnoresMoves DEF disk, SameAt
  <2>2. /\ mixed' = mixed \cup {Place(p)} \/ mixed' = mixed
        /\ job[p].at = "clear" /\ kind = "app" => Place(p) \in mixed'
    BY <1>4, IgnoresMoves
  <2>3. ASSUME NEW q \in Procs \ {p}
        PROVE  CopyOK(q)' /\ CleanOK(q)' /\ WholeOK(q)'
    BY <2>1, <2>2, ProgressKept DEF Moves, Running
  <2>4. /\ Running(p)' /\ Running(p) /\ Place(p)' = Place(p)
        /\ job'[p].command = job[p].command /\ job'[p].sole = job[p].sole
        /\ job'[p].version = job[p].version
    BY <2>1 DEF Moves, Place
  <2>5. ~job'[p].whole
    BY <2>1
  <2>6. CopyOK(p)' /\ CleanOK(p)' /\ WholeOK(p)'
    <3>1. CASE job[p].at = "clear"
      <4>1. job'[p].at \in {"mkdir", "unlaunch", "purge"}
        BY <2>1, <3>1 DEF AfterClear
      <4>2. ~Clean(p)'
        BY <2>1, <2>2, <2>4, <3>1 DEF Clean, TypeOK
      <4> QED
        BY <2>5, <4>1, <4>2 DEF CopyOK, CleanOK, WholeOK, Copied
    <3>2. CASE job[p].at = "unlaunch"
      <4>1. job[p].command # "install" /\ job'[p].at = "purge"
        BY <2>1, <2>4, <3>2 DEF StepOK
      <4> QED
        BY <2>4, <2>5, <4>1 DEF CopyOK, CleanOK, WholeOK, Copied
    <3>3. CASE job[p].at \in {"meta", "writing"}
      <4>1. job'[p].at = "cache"
        BY <2>1, <3>3
      <4>2. CopyOK(p)'
        BY <2>1, <2>4, <3>3, <4>1 DEF CopyOK, Copied, SameAt
      <4>3. Clean(p)' => Clean(p)
        BY <2>1, <2>2, <2>4 DEF Clean
      <4>4. None \notin Versions
        BY VersionsAssumption
      <4>5. CleanOK(p)'
        BY <2>1, <2>4, <3>3, <4>1, <4>3, <4>4 DEF CleanOK, SameAt, Listed
      <4> QED
        BY <2>5, <4>2, <4>5 DEF WholeOK
    <3> QED
      BY <2>1, <3>1, <3>2, <3>3
  <2> QED
    BY <2>3, <2>6
<1>5. ASSUME NEW p \in Procs, Work(p)
      PROVE  ProgressOK'
  <2>1. Moves(p) /\ job'[p].whole = job[p].whole /\ kind' = kind /\ mixed' = mixed
    BY <1>5, WorkMoves DEF history
  <2>2. ASSUME NEW q \in Procs \ {p}
        PROVE  CopyOK(q)' /\ CleanOK(q)' /\ WholeOK(q)'
    <3>1. job[q].sole /\ Running(q) => Place(q) \in Places /\ Place(q) # Place(p)
      BY <2>1, JobTyped DEF ShareOK, Moves, Jobs, Place
    <3>2. job[q].sole /\ Running(q) => SameAt(Place(q))
      BY <1>5, <3>1, WorkTouches
    <3> QED
      BY <2>1, <3>2, ProgressKept DEF Moves, Running
  <2>3. CopyOK(p)' /\ CleanOK(p)' /\ WholeOK(p)'
    BY <1>5, WorkProgress
  <2> QED
    BY <2>2, <2>3
<1>6. ASSUME NEW p \in Procs, IndexEnd(p)
      PROVE  ProgressOK'
  <2>1. Ends(p) /\ kind' = kind /\ \A pl : SameAt(pl)
    BY <1>6, IndexEndEnds DEF SameAt
  <2>2. ASSUME NEW q \in Procs
        PROVE  CopyOK(q)' /\ CleanOK(q)' /\ WholeOK(q)'
    <3>1. CASE q = p
      BY <2>1, <3>1, ProgressKept DEF Ends
    <3>2. CASE q # p
      <4>1. job[q].sole /\ Running(q) => Place(q) # Place(p)
        BY <2>1, <3>2 DEF ShareOK, Ends
      <4>2. job[q].sole /\ Running(q) /\ Place(q) \in mixed => Place(q) \in mixed'
        BY <1>6, <4>1, IndexEndEnds
      <4> QED
        BY <2>1, <3>2, <4>2, ProgressKept DEF Ends, Running
    <3> QED
      BY <3>1, <3>2
  <2> QED
    BY <2>2
<1> QED
  BY <1>1, <1>2, <1>3, <1>4, <1>5, <1>6, StepKinds

-----------------------------------------------------------------------------
(* Records and what they stand for. *)

LEMMA RecordKept ==
  ASSUME NEW pl, RecordTrue(pl), SameAt(pl), kind' = kind
  PROVE  RecordTrue(pl)'
  BY DEF RecordTrue, SameAt, verifyInstalled

\* A file operation on a place that is not mixed keeps its record true.
LEMMA WorkRecord ==
  ASSUME TypeOK, StepOK, ShareOK, ProgressOK, RecordsOK, NEW p \in Procs, Work(p),
         Place(p) \notin mixed
  PROVE  RecordTrue(Place(p))'
<1> DEFINE pl == Place(p)
<1>1. /\ Running(p) /\ Place(p)' = Place(p) /\ kind' = kind
      /\ job[p] \in Jobs /\ pl \in Places /\ kind \in {"module", "app"}
  BY WorkMoves, JobTyped DEF Moves, Place, Jobs, TypeOK
<1>2. job[p].sole
  BY <1>1 DEF ShareOK
<1>3. RecordTrue(pl)
  BY <1>1 DEF RecordsOK
<1>4. CopyOK(p) /\ CleanOK(p)
  BY DEF ProgressOK
<1>5. kind = "app" => Clean(p)
  BY <1>1, <1>2 DEF Clean
<1>6. Versions \cap {None, Torn} = {} /\ None # Torn
  BY VersionsAssumption DEF None, Torn
<1>7. job[p].at \in {"copying", "writing"} => job[p].command = "install"
  BY <1>1 DEF StepOK, Jobs, Commands
<1>8. SUFFICES /\ kind = "module" /\ meta'[pl].version \in Versions =>
                    meta'[pl].sum = meta'[pl].version
               /\ /\ meta'[pl].version \in Versions
                  /\ IF kind = "module" THEN payload'[pl] # None /\ meta'[pl].sum = payload'[pl]
                     ELSE payload'[pl] \in Versions
                  => payload'[pl] = meta'[pl].version
  BY <1>1 DEF RecordTrue, verifyInstalled
<1> USE <1>1, <1>3, <1>6 DEF RecordTrue, verifyInstalled
<1>9. CASE RemoveFile(p)
  <2>1. CASE payload' = [payload EXCEPT ![pl] = None] /\ UNCHANGED meta
    <3>1. payload'[pl] = None /\ meta' = meta
      BY <2>1 DEF TypeOK
    <3> QED
      BY <3>1
  <2>2. CASE meta' = [meta EXCEPT ![pl] = [version |-> None]] /\ UNCHANGED payload
    <3>1. meta'[pl].version = None
      BY <2>2 DEF TypeOK
    <3> QED
      BY <3>1
  <2> QED
    BY <1>9, <2>1, <2>2 DEF RemoveFile
<1>10. CASE CopyOpen(p)
  <2>1. payload'[pl] = Torn /\ meta' = meta
    BY <1>10 DEF CopyOpen, TypeOK
  <2>2. CASE kind = "module"
    BY <2>1, <2>2
  <2>3. CASE kind = "app"
    BY <2>1, <2>3
  <2> QED
    BY <2>2, <2>3
<1>11. CASE CopyEnd(p)
  <2>1. payload'[pl] \in {None, job[p].version} /\ meta' = meta /\ job[p].at = "copying"
    BY <1>2, <1>11 DEF CopyEnd, TypeOK
  <2>2. CASE kind = "module"
    BY <2>1, <2>2
  <2>3. CASE kind = "app"
    <3>1. meta'[pl].version = None
      BY <1>4, <1>5, <2>1, <2>3 DEF CleanOK, Listed
    <3> QED
      BY <3>1
  <2> QED
    BY <2>2, <2>3
<1>12. CASE MetaOpen(p)
  <2>1. payload' = payload /\ (meta' = meta \/ meta'[pl].version = Torn)
    BY <1>12 DEF MetaOpen, TypeOK
  <2> QED
    BY <2>1
<1>13. CASE MetaEnd(p)
  <2>1. /\ payload' = payload /\ job[p].at = "writing"
        /\ \/ meta' = meta
           \/ meta'[pl].version = job[p].version /\ meta'[pl].sum = job[p].sum
    BY <1>13 DEF MetaEnd, TypeOK
  <2>2. payload[pl] = job[p].version /\ (kind = "module" => job[p].sum = job[p].version)
    BY <1>2, <1>4, <1>7, <2>1 DEF CopyOK, Copied
  <2> QED
    BY <2>1, <2>2
<1>14. CASE UNCHANGED <<payload, meta>>
  BY <1>14
<1> QED
  BY <1>9, <1>10, <1>11, <1>12, <1>13, <1>14
     DEF Work, RemoveDir, MakeDir, Checksum, disk, Cache, Launch, Unlaunch, Purge, Scan, IndexOpen

\* What a command that returns whole, and alone on its place, leaves there.
LEMMA WholeLeaves ==
  ASSUME TypeOK, StepOK, ProgressOK, NEW p \in Procs, IndexEnd(p), job[p].whole, job[p].sole
  PROVE  LET pl == Place(p)
             v == job[p].version
         IN  \/ /\ v \in Versions
                /\ meta[pl].version = v /\ payload[pl] = v
                /\ kind = "module" => meta[pl].sum = v
                /\ kind = "app" => pl \in launchers
             \/ /\ v = None
                /\ pl \notin dirs \cup launchers /\ ~Listed(pl) /\ payload[pl] = None
<1>1. /\ Running(p) /\ job[p].at = "indexing" /\ job[p].command \in Commands
  BY IndexEndEnds DEF Ends, Jobs
<1>2. CopyOK(p) /\ WholeOK(p)
  BY DEF ProgressOK
<1>3. CASE job[p].command = "install"
  BY <1>1, <1>2, <1>3 DEF StepOK, CopyOK, WholeOK, Copied, Written
<1>4. CASE job[p].command = "uninstall"
  BY <1>1, <1>2, <1>4 DEF StepOK, WholeOK
<1> QED
  BY <1>1, <1>3, <1>4 DEF Commands

LEMMA RecordsStep ==
  ASSUME TypeOK, StepOK, ShareOK, ProgressOK, RecordsOK, [Next]_vars
  PROVE  RecordsOK'
<1>1. SUFFICES ASSUME NEW pl \in Places, pl \notin mixed'
               PROVE  RecordTrue(pl)'
  BY DEF RecordsOK
<1>2. pl \notin mixed => RecordTrue(pl)
  BY DEF RecordsOK
<1>3. CASE kind' = kind /\ SameAt(pl) /\ pl \notin mixed
  BY <1>2, <1>3, RecordKept
<1>4. CASE UNCHANGED vars
  BY <1>1, <1>3, <1>4 DEF vars, SameAt
<1>5. ASSUME NEW p \in Procs, Begins(p)
      PROVE  RecordTrue(pl)'
  BY <1>1, <1>3, <1>5 DEF Begins, Begin, disk, SameAt
<1>6. ASSUME NEW p \in Procs, Quits(p)
      PROVE  RecordTrue(pl)'
  BY <1>1, <1>3, <1>6 DEF Quits, disk, history, SameAt
<1>7. ASSUME NEW p \in Procs, Ignores(p)
      PROVE  RecordTrue(pl)'
  <2>1. mixed' = mixed \cup {Place(p)} \/ mixed' = mixed
    BY <1>7, IgnoresMoves, Zenon
  <2> QED
    BY <1>1, <1>3, <1>7, <2>1, IgnoresMoves DEF disk, SameAt
<1>8. ASSUME NEW p \in Procs, Work(p)
      PROVE  RecordTrue(pl)'
  <2>1. mixed' = mixed /\ kind' = kind /\ Place(p)' = Place(p)
    BY <1>8, WorkMoves DEF history, Moves, Place
  <2>2. CASE pl = Place(p)
    BY <1>1, <1>8, <2>1, <2>2, WorkRecord
  <2>3. CASE pl # Place(p)
    BY <1>1, <1>3, <1>8, <2>1, <2>3, WorkTouches
  <2> QED
    BY <2>2, <2>3
<1>9. ASSUME NEW p \in Procs, IndexEnd(p)
      PROVE  RecordTrue(pl)'
  <2>1. kind' = kind /\ meta' = meta /\ payload' = payload /\ SameAt(pl)
    BY <1>9, IndexEndEnds DEF SameAt
  <2>2. CASE pl \notin mixed
    BY <1>3, <2>1, <2>2
  <2>3. CASE pl \in mixed
    <3>1. job[p].whole /\ job[p].sole /\ pl = Place(p)
      BY <1>1, <1>9, <2>3, IndexEndEnds
    <3>2. None \notin Versions
      BY VersionsAssumption
    <3> QED
      BY <1>9, <2>1, <3>1, <3>2, WholeLeaves DEF RecordTrue, verifyInstalled, Listed
  <2> QED
    BY <2>2, <2>3
<1> QED
  BY <1>4, <1>5, <1>6, <1>7, <1>8, <1>9, StepKinds

-----------------------------------------------------------------------------
(* What a whole command leaves. *)

DoneAt(pl) ==
    /\ done[pl] \in Versions =>
          /\ meta[pl].version = done[pl] /\ payload[pl] = done[pl]
          /\ kind = "module" => verifyInstalled(pl)
          /\ kind = "app" => pl \in launchers
    /\ done[pl] = None =>
          pl \notin dirs \cup launchers /\ ~Listed(pl) /\ payload[pl] = None

LEMMA DoneStep ==
  ASSUME TypeOK, StepOK, ShareOK, ProgressOK, DoneIsDone, [Next]_vars
  PROVE  DoneIsDone'
<1> USE DEF DoneAt
<1>1. SUFFICES ASSUME NEW pl \in Places
               PROVE  DoneAt(pl)'
  BY DEF DoneIsDone
<1>2. DoneAt(pl)
  BY DEF DoneIsDone
<1>3. Unknown \notin Versions /\ Unknown # None /\ None \notin Versions
  BY VersionsAssumption DEF Unknown, None
<1>4. CASE done'[pl] = Unknown
  BY <1>3, <1>4
<1>5. CASE kind' = kind /\ SameAt(pl) /\ done'[pl] = done[pl]
  BY <1>2, <1>5 DEF SameAt, Listed, verifyInstalled
<1>6. CASE UNCHANGED vars
  BY <1>5, <1>6 DEF vars, SameAt
<1>7. ASSUME NEW p \in Procs, Begins(p)
      PROVE  DoneAt(pl)'
  <2>1. PICK pl2 \in Places : done' = [done EXCEPT ![pl2] = Unknown]
    BY <1>7 DEF Begins, Begin
  <2>2. DOMAIN done = Places
    BY DEF TypeOK
  <2>3. kind' = kind /\ SameAt(pl)
    BY <1>7 DEF Begins, Begin, disk, SameAt
  <2>4. CASE pl = pl2
    BY <1>4, <2>1, <2>2, <2>4
  <2>5. CASE pl # pl2
    <3>1. done'[pl] = done[pl]
      BY <2>1, <2>2, <2>5
    <3> QED
      BY <1>5, <2>3, <3>1
  <2> QED
    BY <2>4, <2>5
<1>8. ASSUME NEW p \in Procs, Quits(p)
      PROVE  DoneAt(pl)'
  BY <1>5, <1>8 DEF Quits, disk, history, SameAt
<1>9. ASSUME NEW p \in Procs, Ignores(p)
      PROVE  DoneAt(pl)'
  BY <1>5, <1>9, IgnoresMoves DEF disk, SameAt
<1>10. ASSUME NEW p \in Procs, Work(p)
       PROVE  DoneAt(pl)'
  <2>1. Moves(p) /\ kind' = kind /\ done' = done
    BY <1>10, WorkMoves DEF history
  <2>2. CASE pl = Place(p)
    BY <1>4, <2>1, <2>2 DEF ShareOK, Moves
  <2>3. CASE pl # Place(p)
    BY <1>5, <1>10, <2>1, <2>3, WorkTouches
  <2> QED
    BY <2>2, <2>3
<1>11. ASSUME NEW p \in Procs, IndexEnd(p)
       PROVE  DoneAt(pl)'
  <2>1. kind' = kind /\ SameAt(pl)
    BY <1>11, IndexEndEnds DEF SameAt
  <2>2. CASE done' = done
    BY <1>5, <2>1, <2>2
  <2>3. CASE done' # done
    <3>1. job[p].whole /\ job[p].sole /\ done' = [done EXCEPT ![Place(p)] = job[p].version]
      BY <1>11, <2>3, IndexEndEnds
    <3>2. CASE pl # Place(p)
      BY <1>5, <2>1, <3>1, <3>2 DEF TypeOK
    <3>3. CASE pl = Place(p)
      <4>1. done'[pl] = job[p].version
        BY <3>1, <3>3 DEF TypeOK
      <4> QED
        BY <1>3, <1>11, <2>1, <3>1, <3>3, <4>1, WholeLeaves
           DEF SameAt, Listed, verifyInstalled
    <3> QED
      BY <3>2, <3>3
  <2> QED
    BY <2>2, <2>3
<1> QED
  BY <1>6, <1>7, <1>8, <1>9, <1>10, <1>11, StepKinds

-----------------------------------------------------------------------------
(* The index of a scope. *)

\* A scan of a scope sees the metadata files of its places, and no others.
LEMMA ScanSame ==
  ASSUME NEW s, \A pl \in Places : pl[1] = s => meta'[pl] = meta[pl]
  PROVE  scanScope(s)' = scanScope(s)
<1> DEFINE Here == {pl \in Places : pl[1] = s /\ Listed(pl)}
<1>1. Here' = Here
  BY DEF Listed
<1>2. \A pl \in Here : meta'[pl] = meta[pl]
  OBVIOUS
<1> QED
  BY <1>1, <1>2 DEF scanScope

LEMMA IndexStep ==
  ASSUME TypeOK, StepOK, ShareOK, SeenOK, IndexCurrent, [Next]_vars
  PROVE  SeenOK' /\ IndexCurrent'
<1>1. CASE UNCHANGED vars
  BY <1>1 DEF vars, SeenOK, IndexCurrent, Running, Place, scanScope, Listed
<1>2. CASE meta' = meta
  <2>1. \A s : scanScope(s)' = scanScope(s)
    BY <1>2, ScanSame
  <2>2. ASSUME NEW p \in Procs, Begins(p)
        PROVE  SeenOK' /\ IndexCurrent'
    <3>1. PICK command \in Commands, pl \in Places, v \in Versions \cup {None} :
            Begin(p, command, pl, v, "clear")
      BY <2>2 DEF Begins
    <3>2. stale \subseteq stale' /\ index' = index
      BY <3>1 DEF Begin, disk
    <3>3. IndexCurrent'
      BY <2>1, <3>2 DEF IndexCurrent, Scopes
    <3>4. /\ job'[p].at = "clear"
          /\ \A q \in Procs \ {p} : Running(q)' =>
                /\ Running(q)
                /\ job'[q].at = job[q].at /\ job'[q].place = job[q].place
                /\ job'[q].seen = job[q].seen
                /\ job'[q].alone => job[q].alone
      BY <3>1, BeginsJob DEF Steps
    <3>5. SeenOK'
      BY <2>1, <3>4 DEF SeenOK, Place
    <3> QED
      BY <3>3, <3>5
  <2>3. ASSUME NEW p \in Procs, Quits(p) \/ Ignores(p)
        PROVE  SeenOK' /\ IndexCurrent'
    <3>1. UNCHANGED <<stale, index>>
      BY <2>3, IgnoresMoves DEF Quits, disk, history
    <3>2. \A q \in Procs \ {p} : job'[q] = job[q]
      BY <2>3, IgnoresMoves DEF Quits, Ends, Moves
    <3>3. Running(p)' => job'[p].at \notin {"index", "indexing"}
      BY <2>3, IgnoresMoves DEF Quits, Ends, AfterClear
    <3>4. SeenOK'
      BY <2>1, <3>2, <3>3 DEF SeenOK, Place, Running
    <3> QED
      BY <2>1, <3>1, <3>4 DEF IndexCurrent, Scopes
  <2>4. ASSUME NEW p \in Procs, IndexEnd(p)
        PROVE  SeenOK' /\ IndexCurrent'
    <3>1. Ends(p) /\ job[p] \in Jobs /\ Place(p)[1] \in Scopes /\ job[p].at = "indexing"
      BY <2>4, IndexEndEnds DEF Scopes
    <3>2. SeenOK'
      BY <2>1, <3>1 DEF SeenOK, Ends, Place, Running
    <3>3. index' = [index EXCEPT ![Place(p)[1]] = [torn |-> FALSE, entries |-> job[p].seen]]
      BY <2>4, IndexEndEnds
    <3>4. ASSUME NEW s \in Scopes, s \notin stale'
          PROVE  index'[s] = [torn |-> FALSE, entries |-> scanScope(s)]
      <4>1. CASE s = Place(p)[1]
        <5>1. s \in stale
          BY <3>1, <4>1 DEF ShareOK, Ends
        <5>2. job[p].alone
          BY <2>4, <3>4, <5>1, IndexEndEnds
        <5>3. job[p].seen = scanScope(s)
          BY <3>1, <4>1, <5>2 DEF SeenOK, Ends
        <5> QED
          BY <3>3, <4>1, <5>3 DEF TypeOK
      <4>2. CASE s # Place(p)[1]
        <5>1. s \notin stale
          BY <2>4, <3>4, <4>2, IndexEndEnds
        <5> QED
          BY <3>3, <4>2, <5>1 DEF TypeOK, IndexCurrent
      <4> QED
        BY <4>1, <4>2
    <3> QED
      BY <2>1, <3>2, <3>4 DEF IndexCurrent, Scopes
  <2>5. ASSUME NEW p \in Procs, Work(p)
        PROVE  SeenOK' /\ IndexCurrent'
    <3>1. Moves(p) /\ stale' = stale /\ Place(p)[1] \in stale
      BY <2>5, WorkMoves DEF history, ShareOK, Moves
    <3>2. IndexCurrent'
      BY <2>1, <2>5, <3>1, WorkTouches DEF IndexCurrent, Scopes
    <3>3. ASSUME job'[p].at \in {"index", "indexing"}, job'[p].alone
          PROVE  job'[p].seen = scanScope(Place(p)[1])
      <4>1. job[p].at \in {"scan", "index"} /\ job[p].alone
        BY <2>5, <3>1, <3>3, WorkAt DEF Moves, AfterClear
      <4>2. CASE job[p].at = "scan"
        <5>1. Scan(p)
          BY <2>5, <4>2 DEF Work, RemoveFile, RemoveDir, MakeDir, CopyOpen, CopyEnd, Checksum,
                            MetaOpen, MetaEnd, Cache, Launch, Unlaunch, Purge, IndexOpen
        <5> QED
          BY <5>1, <3>1, JobTyped DEF Scan, TypeOK, Moves, Jobs
      <4>3. CASE job[p].at = "index"
        <5>1. IndexOpen(p)
          BY <2>5, <4>3 DEF Work, RemoveFile, RemoveDir, MakeDir, CopyOpen, CopyEnd, Checksum,
                            MetaOpen, MetaEnd, Cache, Launch, Unlaunch, Purge, Scan
        <5>2. job'[p].seen = job[p].seen
          BY <3>1, <5>1, GotoMoves DEF IndexOpen, Steps, Moves
        <5> QED
          BY <3>1, <4>1, <4>3, <5>2 DEF SeenOK, Moves
      <4> QED
        BY <4>1, <4>2, <4>3
    <3>4. SeenOK'
      BY <2>1, <3>1, <3>3 DEF SeenOK, Moves, Place, Running
    <3> QED
      BY <3>2, <3>4
  <2> QED
    BY <1>1, <2>2, <2>3, <2>4, <2>5, StepKinds
<1>3. ASSUME NEW p \in Procs, Work(p), meta' # meta
      PROVE  SeenOK' /\ IndexCurrent'
  <2>1. Moves(p) /\ stale' = stale /\ Place(p)[1] \in stale
    BY <1>3, WorkMoves DEF history, ShareOK, Moves
  <2>2. ASSUME NEW s, s # Place(p)[1]
        PROVE  scanScope(s)' = scanScope(s)
    <3>1. \A pl \in Places : pl[1] = s => meta'[pl] = meta[pl]
      BY <1>3, <2>2, WorkTouches DEF SameAt
    <3> QED
      BY <3>1, ScanSame
  <2>3. IndexCurrent'
    <3>1. ASSUME NEW s \in Scopes, s \notin stale
          PROVE  index'[s] = [torn |-> FALSE, entries |-> scanScope(s)']
      BY <1>3, <2>1, <2>2, <3>1, WorkTouches DEF IndexCurrent
    <3> QED
      BY <2>1, <3>1 DEF IndexCurrent, Scopes
  <2>4. job[p].at \in {"clear", "meta", "writing"}
    BY <1>3 DEF Work, RemoveFile, RemoveDir, MakeDir, CopyOpen, CopyEnd, Checksum, disk,
                MetaOpen, MetaEnd, Cache, Launch, Unlaunch, Purge, Scan, IndexOpen
  <2>5. job'[p].at \notin {"index", "indexing"}
    BY <1>3, <2>4, WorkAt DEF AfterClear
  <2>6. ASSUME NEW q \in Procs, q # p, Running(q), job[q].alone
        PROVE  scanScope(Place(q)[1])' = scanScope(Place(q)[1])
    <3>1. Place(q)[1] # Place(p)[1]
      BY <2>1, <2>6 DEF ShareOK, Moves
    <3>2. Place(q)' = Place(q)
      BY <2>1, <2>6 DEF Moves, Place
    <3> QED
      BY <2>2, <3>1, <3>2
  <2>7. SeenOK'
    BY <2>1, <2>5, <2>6 DEF SeenOK, Moves, Place, Running
  <2> QED
    BY <2>3, <2>7
<1>4. Next /\ meta' # meta => \E p \in Procs : Work(p)
  BY StepKinds, IgnoresMoves, IndexEndEnds DEF Begins, Begin, Quits, disk
<1> QED
  BY <1>1, <1>2, <1>3, <1>4

-----------------------------------------------------------------------------
(* The invariant, and what it says. *)

LEMMA InvariantInit == Init => IInv
<1> SUFFICES ASSUME Init
             PROVE  IInv
  OBVIOUS
<1>1. TypeOK
  BY TypeInit
<1>2. \A p \in Procs : ~Running(p)
  BY DEF Init, Running
<1>3. StepOK /\ ShareOK /\ ProgressOK /\ SeenOK
  BY <1>2 DEF StepOK, ShareOK, ProgressOK, CopyOK, CleanOK, Clean, WholeOK, SeenOK
<1>4. None \notin Versions
  BY VersionsAssumption
<1>5. \A pl \in Places : meta[pl].version = None
  BY DEF Init
<1>6. RecordsOK
  BY <1>4, <1>5 DEF RecordsOK, RecordTrue
<1>7. DoneIsDone
  BY <1>4, <1>5 DEF Init, DoneIsDone, Listed
<1>8. ASSUME NEW s \in Scopes
      PROVE  index[s] = [torn |-> FALSE, entries |-> scanScope(s)]
  <2>1. scanScope(s) = {}
    BY <1>5 DEF scanScope, Listed
  <2> QED
    BY <2>1 DEF Init
<1> QED
  BY <1>1, <1>3, <1>6, <1>7, <1>8 DEF IInv, IndexCurrent

LEMMA InvariantStep == IInv /\ [Next]_vars => IInv'
<1> SUFFICES ASSUME IInv, [Next]_vars
             PROVE  IInv'
  OBVIOUS
<1> USE DEF IInv
<1>1. TypeOK' /\ StepOK'
  BY TypeStep, StepStep
<1>2. ShareOK' /\ ProgressOK'
  BY ShareStep, ProgressStep
<1>3. RecordsOK' /\ DoneIsDone'
  BY RecordsStep, DoneStep
<1>4. SeenOK' /\ IndexCurrent'
  BY IndexStep
<1> QED
  BY <1>1, <1>2, <1>3, <1>4

LEMMA Invariant == Spec => []IInv
  BY InvariantInit, InvariantStep, PTL DEF Spec

\* The types of the disk, the jobs and the history.
THEOREM TypeCorrect == Spec => []TypeOK
<1>1. IInv => TypeOK
  BY DEF IInv
<1> QED
  BY <1>1, Invariant, PTL

\* What is installed under a record is what the record says, however many commands
\* are cut short and wherever: module_store.cpp and app_store.cpp remove the old
\* files first and write the record last.
THEOREM RecordsAreAlwaysTrue == Spec => []RecordsAreTrue
<1>1. IInv => RecordsAreTrue
  BY DEF IInv, RecordsOK, RecordTrue, RecordsAreTrue
<1> QED
  BY <1>1, Invariant, PTL

\* A whole command that had its place to itself leaves exactly what it says,
\* whatever was there before it.
THEOREM DoneIsAlwaysDone == Spec => []DoneIsDone
<1>1. IInv => DoneIsDone
  BY DEF IInv
<1> QED
  BY <1>1, Invariant, PTL

\* The index of a scope is the scan of it, from the end of a whole command that had
\* the scope to itself to the beginning of the next command.
THEOREM IndexAlwaysCurrent == Spec => []IndexCurrent
<1>1. IInv => IndexCurrent
  BY DEF IInv
<1> QED
  BY <1>1, Invariant, PTL

-----------------------------------------------------------------------------
(***************************************************************************)
(* The resolver.                                                           *)
(***************************************************************************)

\* s is the end of t.
EndOf(s, t) ==
    Len(s) <= Len(t) /\ \A i \in DOMAIN s : s[i] = t[i + (Len(t) - Len(s))]

\* A requirement that counts: if it fails, whoever requires it fails.
Strict(f) == f.kind = "required" /\ ~f.inherited

Deps == UNION {ToSet(p.deps) : p \in request.providers}
Visits == [name : Modules, deps : {p.deps : p \in request.providers}, todo : Seq(Deps),
           kind : Kinds, inherited : BOOLEAN]

StackOK ==
    /\ WellFormed(request)
    /\ roots \in Seq(ToSet(request.roots)) /\ EndOf(roots, request.roots)
    /\ stack \in Seq(Visits)
    /\ answer \in {"none", "true", "false"}
    /\ outcome \in {"running", "plan", "error"}
    /\ Calling => answer = "none" /\ call.kind \in Kinds /\ call.inherited \in BOOLEAN
    /\ stack # <<>> \/ Calling \/ answer # "none" => roots # <<>>

\* What is visited and being visited has one provider each, and what was visited
\* is in the order once.
SelectedOK ==
    /\ selected \subseteq request.providers
    /\ \A p, q \in selected : p.name = q.name => p = q
    /\ visiting \cup visited = {p.name : p \in selected}
    /\ visiting \cap visited = {}

OrderOK ==
    /\ order \in Seq(visited) /\ visited \subseteq ToSet(order)
    /\ \A i, j \in DOMAIN order : order[i] = order[j] => i = j

\* What a frame has behind it; those it counts on are visited.
Passed(f) == Len(f.deps) - Len(f.todo)
FrameOK(f) ==
    /\ \E p \in selected : p.name = f.name /\ p.deps = f.deps
    /\ f.name \in visiting
    /\ EndOf(f.todo, f.deps)
    /\ Strict(f) => \A i \in 1 .. Passed(f) :
                        f.deps[i].kind = "required" => f.deps[i].name \in visited

\* c was called by the frame f for its next dependency.
From(c, f) ==
    /\ f.todo # <<>>
    /\ c.name = Head(f.todo).name /\ c.kind = Head(f.todo).kind
    /\ c.inherited = (f.inherited \/ f.kind = "optional")

FramesOK ==
    /\ \A i \in DOMAIN stack : FrameOK(stack[i])
    /\ \A i, j \in DOMAIN stack : stack[i].name = stack[j].name => i = j
    /\ \A i \in DOMAIN stack : i + 1 \in DOMAIN stack => From(stack[i], stack[i + 1])

\* An answer is about the next dependency of the innermost frame.
AnswerOK ==
    stack # <<>> =>
        /\ Calling => From(call, Top)
        /\ answer # "none" => Top.todo # <<>>
        /\ answer = "true" /\ Strict(Top) /\ Head(Top.todo).kind = "required" =>
              Head(Top.todo).name \in visited

FirmOK ==
    \A m \in firm :
        m \in visited /\ Needs(m, selected, {"required"}) \subseteq Before(m)

\* The outermost frame is that of the first root left.  A visit() that counts was
\* called by visits that count.
AtRoot(c) ==
    /\ c.name = Head(roots).name /\ c.kind = Head(roots).kind
    /\ c.inherited = (c.kind = "optional")
RootOK ==
    /\ outcome # "running" => stack = <<>> /\ ~Calling /\ answer = "none"
    /\ stack = <<>> /\ Calling => AtRoot(call)
    /\ stack # <<>> => AtRoot(stack[Len(stack)])
    /\ \A i, j \in DOMAIN stack : i <= j /\ Strict(stack[i]) => Strict(stack[j])

\* A requirement that counts is missing: every visit() under way is given up, down
\* to a required root.
Doomed ==
    /\ answer = "false" /\ Head(roots).kind = "required"
    /\ \A i \in DOMAIN stack : Strict(stack[i])
    /\ stack # <<>> => Head(Top.todo).kind = "required"

GivenUp == visiting \ {stack[i].name : i \in DOMAIN stack}

\* As long as that is not so, a module that was given up, and what the last visit()
\* said "false" of, leads into a cycle.
Explained ==
    /\ \A m \in GivenUp : LeadsIntoCycle(m)
    /\ answer = "false" /\ stack # <<>> => LeadsIntoCycle(Head(Top.todo).name)
CycleOK == CyclesAreReal /\ (outcome = "error" \/ Doomed \/ Explained)

\* The required roots that were resolved are visited.
RootsOK ==
    /\ stack = <<>> /\ answer = "true" /\ Head(roots).kind = "required" =>
          Head(roots).name \in visited
    /\ outcome # "error" =>
          \A i \in 1 .. Len(request.roots) - Len(roots) :
              request.roots[i].kind = "required" => request.roots[i].name \in visited
    /\ outcome = "plan" => roots = <<>>

\* Where nothing is optional, every visit() counts.
OnlyRequired(r) ==
    /\ \A d \in ToSet(r.roots) : d.kind = "required"
    /\ \A p \in r.providers : \A d \in ToSet(p.deps) : d.kind = "required"
PlainOK ==
    OnlyRequired(request) =>
        /\ Calling => Strict(call)
        /\ \A i \in DOMAIN stack : Strict(stack[i])
        /\ visited \subseteq firm

\* A plan has the required roots, and with a module all it requires.
RootsInPlan ==
    outcome = "plan" => Names(request.roots, {"required"}) \subseteq ToSet(order)
ClosedPlan ==
    outcome = "plan" =>
        \A m \in ToSet(order) : Needs(m, selected, Kinds) \subseteq ToSet(order)

ResolverInv ==
    /\ StackOK /\ SelectedOK /\ OrderOK /\ FramesOK /\ AnswerOK /\ FirmOK
    /\ RootOK /\ CycleOK /\ RootsOK /\ PlainOK

-----------------------------------------------------------------------------
(* What happens to the stack. *)

LEMMA EndOfTail ==
    ASSUME NEW S, NEW s \in Seq(S), NEW t \in Seq(S), EndOf(s, t), s # <<>>
    PROVE  EndOf(Tail(s), t)
<1>1. /\ Len(Tail(s)) = Len(s) - 1 /\ Len(s) \in Nat /\ Len(t) \in Nat
      /\ DOMAIN s = 1 .. Len(s) /\ DOMAIN Tail(s) = 1 .. Len(s) - 1
      /\ \A i \in DOMAIN Tail(s) : i + 1 \in DOMAIN s /\ Tail(s)[i] = s[i + 1]
    OBVIOUS
<1>2. PICK m, n \in Nat : m = Len(s) /\ n = Len(t)
    BY <1>1
<1>3. m <= n /\ \A i \in DOMAIN s : s[i] = t[i + (n - m)]
    BY <1>2 DEF EndOf
<1>4. ASSUME NEW i \in DOMAIN Tail(s)
      PROVE  Tail(s)[i] = t[i + (n - (m - 1))]
  <2>1. Tail(s)[i] = t[(i + 1) + (n - m)]
      BY <1>1, <1>3
  <2>2. (i + 1) + (n - m) = i + (n - (m - 1))
      BY <1>1, <1>2
  <2> QED
      BY <2>1, <2>2
<1> QED
    BY <1>1, <1>2, <1>3, <1>4 DEF EndOf

LEMMA EndOfSuffix ==
    ASSUME NEW S, NEW s \in Seq(S), NEW t \in Seq(S), EndOf(s, t)
    PROVE  IsSuffix(s, t)
<1>1. /\ Len(s) \in Nat /\ Len(t) \in Nat /\ DOMAIN s = 1 .. Len(s) /\ DOMAIN t = 1 .. Len(t)
      /\ Len(s) <= Len(t)
    BY DEF EndOf
<1>2. PICK m, n \in Nat : m = Len(s) /\ n = Len(t)
    BY <1>1
<1>3. ASSUME NEW q \in Seq(S)
      PROVE  /\ Reverse(q) \in Seq(S) /\ Len(Reverse(q)) = Len(q)
             /\ \A i \in 1 .. Len(q) : Reverse(q)[i] = q[(Len(q) - i) + 1]
    BY <1>3 DEF Reverse
<1>4. PICK a, b \in Seq(S) : a = Reverse(s) /\ b = Reverse(t)
    BY <1>3
<1>5. Len(a) = m /\ Len(b) = n
    BY <1>2, <1>3, <1>4
<1>6. ASSUME NEW i \in 1 .. m
      PROVE  a[i] = b[i]
  <2>1. a[i] = s[(m - i) + 1] /\ b[i] = t[(n - i) + 1]
      BY <1>1, <1>2, <1>3, <1>4
  <2>2. (m - i) + 1 \in DOMAIN s /\ ((m - i) + 1) + (n - m) = (n - i) + 1
      BY <1>1, <1>2
  <2>3. s[(m - i) + 1] = t[((m - i) + 1) + (n - m)]
      BY <1>2, <2>2 DEF EndOf
  <2> QED
      BY <2>1, <2>2, <2>3
<1>7. SubSeq(a, 1, m) = SubSeq(b, 1, m)
    BY <1>1, <1>2, <1>5, <1>6
<1> QED
    BY <1>1, <1>2, <1>4, <1>5, <1>7 DEF IsSuffix, IsPrefix

LEMMA Push ==
    ASSUME NEW S, NEW q \in Seq(S), NEW f \in S
    PROVE  LET r == <<f>> \o q IN
           /\ r \in Seq(S) /\ r # <<>> /\ r[1] = f /\ Head(r) = f /\ 1 \in DOMAIN r
           /\ DOMAIN r = 1 .. Len(q) + 1
           /\ \A i \in DOMAIN r \ {1} : i - 1 \in DOMAIN q /\ r[i] = q[i - 1]
    OBVIOUS

LEMMA Pop ==
    ASSUME NEW S, NEW q \in Seq(S), q # <<>>
    PROVE  /\ Tail(q) \in Seq(S) /\ Head(q) = q[1] /\ q[1] \in S /\ 1 \in DOMAIN q
           /\ DOMAIN Tail(q) = 1 .. Len(q) - 1 /\ Len(Tail(q)) = Len(q) - 1
           /\ \A i \in DOMAIN Tail(q) : i + 1 \in DOMAIN q /\ Tail(q)[i] = q[i + 1]
    OBVIOUS

\* The innermost frame goes on, in the place it has.
LEMMA Turn ==
    ASSUME NEW S, NEW q \in Seq(S), q # <<>>, NEW f \in S
    PROVE  LET r == <<f>> \o Tail(q) IN
           /\ r \in Seq(S) /\ r # <<>> /\ r[1] = f /\ Head(r) = f /\ 1 \in DOMAIN r
           /\ DOMAIN r = DOMAIN q
           /\ \A i \in DOMAIN r \ {1} : r[i] = q[i]
    OBVIOUS

-----------------------------------------------------------------------------
(* The types of the walk. *)

\* Roots and dependencies are requirements.
LEMMA Given ==
    ASSUME StackOK
    PROVE  /\ roots # <<>> => /\ Head(roots).kind \in Kinds
                              /\ Tail(roots) \in Seq(ToSet(request.roots))
                              /\ EndOf(Tail(roots), request.roots)
           /\ \A p \in request.providers : p.deps \in Seq(Deps) /\ p.name \in Modules
           /\ \A d \in Deps : d.kind \in Kinds
<1>1. WellFormed(request)
    BY DEF StackOK
<1>2. ASSUME roots # <<>>
      PROVE  /\ Head(roots).kind \in Kinds
             /\ Tail(roots) \in Seq(ToSet(request.roots))
             /\ EndOf(Tail(roots), request.roots)
  <2>1. /\ \A d \in ToSet(request.roots) : d.kind \in Kinds
        /\ request.roots \in Seq(ToSet(request.roots))
      BY <1>1 DEF WellFormed, AreRequirements
  <2>2. roots \in Seq(ToSet(request.roots)) /\ EndOf(roots, request.roots)
      BY DEF StackOK
  <2> QED
      BY <1>2, <2>1, <2>2, EndOfTail
<1>3. \A p \in request.providers : p.deps \in Seq(Deps)
  <2> SUFFICES ASSUME NEW p \in request.providers
               PROVE  p.deps \in Seq(Deps)
      OBVIOUS
  <2>1. p.deps \in Seq(ToSet(p.deps)) /\ ToSet(p.deps) \subseteq Deps
      BY <1>1 DEF WellFormed, AreRequirements, Deps
  <2> QED
      BY <2>1
<1>4. \A d \in Deps : d.kind \in Kinds
    BY <1>1 DEF WellFormed, AreRequirements, Deps
<1> QED
    BY <1>2, <1>3, <1>4 DEF Modules

\* A frame that has a dependency left.
LEMMA NextDep ==
    ASSUME StackOK, NEW f \in Visits, f.todo # <<>>
    PROVE  /\ Head(f.todo) = f.todo[1] /\ Head(f.todo).kind \in Kinds
           /\ [f EXCEPT !.todo = Tail(@)] \in Visits
<1>1. f.todo \in Seq(Deps) /\ Head(f.todo) \in Deps /\ Tail(f.todo) \in Seq(Deps)
    BY DEF Visits
<1>2. Head(f.todo).kind \in Kinds
    BY <1>1, Given
<1>3. PICK left \in Seq(Deps) : left = Tail(f.todo)
    BY <1>1
<1>4. [f EXCEPT !.todo = left] \in Visits
    BY DEF Visits
<1> QED
    BY <1>1, <1>2, <1>3, <1>4

LEMMA StackStep ==
    ASSUME StackOK, AnswerOK, [ResolverNext]_resolverVars
    PROVE  StackOK'
<1> USE DEF StackOK, Calling
<1>2. ASSUME UNCHANGED <<request, roots, stack, call, answer, outcome>>
      PROVE  StackOK'
  <2>1. Visits' = Visits
      BY <1>2 DEF Visits, Modules, Deps
  <2> QED
      BY <1>2, <2>1
<1>3. ASSUME VisitRoot
      PROVE  StackOK'
  <2>1. Visits' = Visits
      BY <1>3 DEF VisitRoot, Visits, Modules, Deps
  <2> QED
      BY <1>3, <2>1, Given DEF VisitRoot
<1>4. ASSUME RootReturns \/ Done
      PROVE  StackOK'
  <2>1. Visits' = Visits
      BY <1>4 DEF RootReturns, Done, Visits, Modules, Deps
  <2> QED
      BY <1>4, <2>1, Given DEF RootReturns, Done
<1>5. ASSUME call' = Nothing, answer' \in {"true", "false"}, Calling,
             UNCHANGED <<request, roots, stack, outcome>>
      PROVE  StackOK'
  <2>1. Visits' = Visits
      BY <1>5 DEF Visits, Modules, Deps
  <2> QED
      BY <1>5, <2>1
<1>6. ASSUME NEW p \in request.providers, Enter(p)
      PROVE  StackOK'
  <2>1. Visits' = Visits
      BY <1>6 DEF Enter, Visits, Modules, Deps
  <2> DEFINE f == [name |-> p.name, deps |-> p.deps, todo |-> p.deps, kind |-> call.kind,
                   inherited |-> call.inherited]
  <2>2. f \in Visits
      BY <1>6, Given DEF Enter, Agreed, Visits
  <2>3. stack' = <<f>> \o stack
      BY <1>6 DEF Enter
  <2> HIDE DEF f
  <2>4. stack' \in Seq(Visits)
      BY <2>2, <2>3
  <2> QED
      BY <1>6, <2>1, <2>4 DEF Enter, Agreed
<1>7. ASSUME VisitNext
      PROVE  StackOK'
  <2>1. Visits' = Visits
      BY <1>7 DEF VisitNext, Visits, Modules, Deps
  <2>2. Top \in Visits
      BY <1>7 DEF VisitNext, Top
  <2>3. Head(Top.todo).kind \in Kinds /\ Top.inherited \in BOOLEAN
      BY <1>7, <2>2, NextDep DEF VisitNext, Visits
  <2> QED
      BY <1>7, <2>1, <2>3 DEF VisitNext
<1>8. ASSUME GiveUp \/ Complete
      PROVE  StackOK'
  <2>1. Visits' = Visits
      BY <1>8 DEF GiveUp, Complete, Visits, Modules, Deps
  <2>2. stack # <<>> /\ stack' = Tail(stack) /\ stack' \in Seq(Visits)
    <3>1. stack # <<>> /\ stack' = Tail(stack) /\ stack \in Seq(Visits)
        BY <1>8 DEF GiveUp, Complete
    <3> QED
        BY <3>1, Pop
  <2> QED
      BY <1>8, <2>1, <2>2 DEF GiveUp, Complete, Say
<1>9. ASSUME DependencyReturns, Top.todo # <<>>
      PROVE  StackOK'
  <2>1. Visits' = Visits
      BY <1>9 DEF DependencyReturns, Visits, Modules, Deps
  <2>2. Top \in Visits
      BY <1>9 DEF DependencyReturns, Top
  <2> DEFINE f == [Top EXCEPT !.todo = Tail(@)]
  <2>3. f \in Visits
      BY <1>9, <2>2, NextDep
  <2>4. stack' = <<f>> \o Tail(stack)
      BY <1>9 DEF DependencyReturns
  <2> HIDE DEF f
  <2>5. stack' \in Seq(Visits)
    <3>1. stack # <<>> /\ stack \in Seq(Visits)
        BY <1>9 DEF DependencyReturns
    <3> QED
        BY <2>3, <2>4, <3>1, Turn
  <2> QED
      BY <1>9, <2>1, <2>5 DEF DependencyReturns
<1>10. ASSUME Unavailable \/ Conflict \/ \E p \in request.providers : Visited(p) \/ Cycle(p)
       PROVE  StackOK'
  <2>1. /\ call' = Nothing /\ answer' \in {"true", "false"} /\ Calling
        /\ UNCHANGED <<request, roots, stack, outcome>>
      BY <1>10 DEF Unavailable, Conflict, Visited, Cycle, Say, Agreed
  <2> QED
      BY <2>1, <1>5
<1>11. DependencyReturns => Top.todo # <<>>
    BY DEF AnswerOK, DependencyReturns
<1>12. CASE UNCHANGED resolverVars
    BY <1>12, <1>2 DEF resolverVars
<1>13. CASE ResolverNext
    BY <1>13, <1>3, <1>4, <1>6, <1>7, <1>8, <1>9, <1>10, <1>11 DEF ResolverNext
<1> QED
    BY <1>12, <1>13

-----------------------------------------------------------------------------
(* The selected modules and the order. *)

\* A module is selected when it is first visited, and only then.
LEMMA Selects ==
    ASSUME SelectedOK, NEW p \in request.providers, Selecting(p)
    PROVE  /\ p.name \in visiting \cup visited => selected' = selected
           /\ p.name \notin visiting \cup visited => selected' = selected \cup {p}
    BY DEF SelectedOK, Selecting

LEMMA TopFrame ==
    ASSUME StackOK, FramesOK, stack # <<>>
    PROVE  /\ Top = stack[1] /\ 1 \in DOMAIN stack /\ Top \in Visits /\ FrameOK(Top)
           /\ DOMAIN stack = 1 .. Len(stack) /\ Len(stack) \in Nat
<1>1. stack \in Seq(Visits)
    BY DEF StackOK
<1>2. Top = stack[1] /\ 1 \in DOMAIN stack /\ Top \in Visits
    BY <1>1, Pop DEF Top
<1> QED
    BY <1>1, <1>2 DEF FramesOK

LEMMA SelectedStep ==
    ASSUME StackOK, SelectedOK, FramesOK, [ResolverNext]_resolverVars
    PROVE  SelectedOK'
<1> USE DEF SelectedOK
<1>1. ASSUME UNCHANGED <<request, selected, visiting, visited>>
      PROVE  SelectedOK'
    BY <1>1
<1>2. ASSUME NEW p \in request.providers, Visited(p) \/ Cycle(p)
      PROVE  SelectedOK'
    BY <1>2, Selects DEF Visited, Cycle
<1>3. ASSUME NEW p \in request.providers, Enter(p)
      PROVE  SelectedOK'
  <2>1. /\ selected' = selected \cup {p} /\ visiting' = visiting \cup {p.name}
        /\ p.name \notin visiting \cup visited /\ request' = request /\ visited' = visited
      BY <1>3, Selects DEF Enter
  <2> QED
      BY <2>1
<1>4. ASSUME Complete
      PROVE  SelectedOK'
  <2>1. Top.name \in visiting
      BY <1>4, TopFrame DEF Complete, FrameOK
  <2> QED
      BY <1>4, <2>1 DEF Complete
<1>5. CASE UNCHANGED resolverVars
    BY <1>5, <1>1 DEF resolverVars
<1>6. CASE ResolverNext
    BY <1>6, <1>1, <1>2, <1>3, <1>4
       DEF ResolverNext, VisitRoot, RootReturns, Done, Unavailable, Conflict,
             VisitNext, GiveUp,
           DependencyReturns
<1> QED
    BY <1>5, <1>6

\* What was visited stays visited, and the order grows by it.
LEMMA VisitedStep ==
    ASSUME [ResolverNext]_resolverVars
    PROVE  /\ request' = request
           /\ Complete \/ UNCHANGED <<visited, order, firm>>
           /\ visited \subseteq visited'
    BY DEF ResolverNext, resolverVars, VisitRoot, RootReturns, Done, Unavailable, Conflict,
           Visited, Cycle, Enter,
           VisitNext, GiveUp, DependencyReturns, Complete

LEMMA OrderStep ==
    ASSUME StackOK, SelectedOK, OrderOK, FramesOK, [ResolverNext]_resolverVars
    PROVE  OrderOK'
<1>1. ASSUME UNCHANGED <<visited, order>>
      PROVE  OrderOK'
    BY <1>1 DEF OrderOK, ToSet
<1>2. ASSUME Complete
      PROVE  OrderOK'
  <2>1. Top.name \notin visited
      BY <1>2, TopFrame DEF Complete, FrameOK, SelectedOK
  <2>2. PICK x : x = Top.name
      OBVIOUS
  <2>3. order' = Append(order, x) /\ visited' = visited \cup {x} /\ order \in Seq(visited)
      BY <1>2, <2>2 DEF Complete, OrderOK
  <2>4. order' \in Seq(visited')
      BY <2>3
  <2>5. /\ DOMAIN order = 1 .. Len(order) /\ DOMAIN order' = 1 .. Len(order) + 1
        /\ Len(order) \in Nat
        /\ order'[Len(order) + 1] = x /\ \A i \in DOMAIN order : order'[i] = order[i]
        /\ \A i \in DOMAIN order : order[i] \in visited
      BY <2>3
  <2>6. visited' \subseteq ToSet(order')
      BY <2>3, <2>5 DEF OrderOK, ToSet
  <2>7. \A i, j \in DOMAIN order' : order'[i] = order'[j] => i = j
      BY <2>1, <2>2, <2>5 DEF OrderOK
  <2> QED
      BY <2>4, <2>6, <2>7 DEF OrderOK
<1> QED
    BY <1>1, <1>2, VisitedStep
-----------------------------------------------------------------------------
(* The frames. *)

\* A frame keeps what it has behind it while its module is being visited.
LEMMA FrameKeeps ==
    ASSUME NEW f, FrameOK(f), selected \subseteq selected', visited \subseteq visited',
           f.name \in visiting'
    PROVE  FrameOK(f)'
    BY DEF FrameOK, Passed, Strict

\* What is to be shown of the frames after a step.
LEMMA FramesNext ==
    ASSUME \A f : (\E i \in DOMAIN stack' : f = stack'[i]) => FrameOK(f)',
           \A i, j \in DOMAIN stack' : stack'[i].name = stack'[j].name => i = j,
           \A i \in DOMAIN stack' : i + 1 \in DOMAIN stack' => From(stack'[i], stack'[i + 1])
    PROVE  FramesOK'
<1>1. ASSUME NEW i \in DOMAIN stack'
      PROVE  FrameOK(stack[i])'
  <2>1. PICK f : f = stack'[i]
      OBVIOUS
  <2>2. FrameOK(f)'
      BY <2>1
  <2> QED
      BY <2>1, <2>2 DEF FrameOK, Passed, Strict
<1> QED
    BY <1>1 DEF FramesOK, From

\* The innermost frame returns, and its caller is innermost again.
LEMMA FramesPop ==
    ASSUME StackOK, FramesOK, stack # <<>>, stack' = Tail(stack),
           selected' = selected, visited \subseteq visited',
           visiting \ {Top.name} \subseteq visiting'
    PROVE  FramesOK'
<1>1. stack \in Seq(Visits)
    BY DEF StackOK
<1>2. /\ DOMAIN stack' = 1 .. Len(stack) - 1 /\ DOMAIN stack = 1 .. Len(stack)
      /\ \A i \in DOMAIN stack' : i + 1 \in DOMAIN stack /\ stack'[i] = stack[i + 1]
    BY <1>1, Pop
<1>3. Top = stack[1] /\ 1 \in DOMAIN stack
    BY TopFrame
<1>4. ASSUME NEW i \in DOMAIN stack', NEW f, f = stack'[i]
      PROVE  FrameOK(f)'
  <2>2. f = stack[i + 1] /\ i + 1 \in DOMAIN stack /\ i + 1 # 1
      BY <1>2, <1>4
  <2>3. FrameOK(f) /\ f.name # Top.name
      BY <1>3, <2>2 DEF FramesOK
  <2>4. f.name \in visiting'
      BY <2>3 DEF FrameOK
  <2> QED
      BY <2>3, <2>4, FrameKeeps
<1>5. \A i, j \in DOMAIN stack' : stack'[i].name = stack'[j].name => i = j
    BY <1>2 DEF FramesOK
<1>6. \A i \in DOMAIN stack' : i + 1 \in DOMAIN stack' => From(stack'[i], stack'[i + 1])
    BY <1>2 DEF FramesOK
<1> QED
    BY <1>4, <1>5, <1>6, FramesNext

\* A frame is pushed for the call of the innermost one.
LEMMA FramesEnter ==
    ASSUME StackOK, SelectedOK, FramesOK, AnswerOK, NEW p \in request.providers, Enter(p)
    PROVE  FramesOK'
<1>0. PICK f : f = [name |-> p.name, deps |-> p.deps, todo |-> p.deps, kind |-> call.kind,
                    inherited |-> call.inherited]
    OBVIOUS
<1>1. f \in Visits /\ f.todo = f.deps /\ f.deps \in Seq(Deps) /\ f.deps = p.deps
      /\ f.name = p.name /\ f.kind = call.kind /\ f.inherited = call.inherited
    BY <1>0, Given DEF Enter, Agreed, Visits, StackOK
<1>2. /\ p.name \notin visiting \cup visited /\ selected' = selected \cup {p}
      /\ visiting' = visiting \cup {p.name} /\ visited' = visited /\ p.name = call.name
      /\ stack' = <<f>> \o stack
    BY <1>0, Selects DEF Enter, Agreed, Choose, Fits
<1>3. stack \in Seq(Visits)
    BY DEF StackOK
<1>4. /\ DOMAIN stack' = 1 .. Len(stack) + 1 /\ stack'[1] = f /\ Len(stack) \in Nat
      /\ DOMAIN stack = 1 .. Len(stack)
      /\ \A i \in DOMAIN stack' \ {1} : i - 1 \in DOMAIN stack /\ stack'[i] = stack[i - 1]
    BY <1>1, <1>2, <1>3, Push
<1>5. FrameOK(f)'
  <2>1. Passed(f) = 0 /\ Len(f.deps) - Len(f.deps) = 0
      BY <1>1 DEF Passed
  <2>2. Len(f.todo) <= Len(f.deps) /\ \A i \in DOMAIN f.todo : f.todo[i] = f.deps[i + 0]
      BY <1>1
  <2>3. EndOf(f.todo, f.deps)
      BY <1>1, <2>1, <2>2 DEF EndOf
  <2> QED
      BY <1>1, <1>2, <2>1, <2>3 DEF FrameOK, Passed
<1>6. ASSUME NEW i \in DOMAIN stack', NEW g, g = stack'[i]
      PROVE  FrameOK(g)'
  <2>2. CASE i = 1
      BY <1>4, <1>5, <1>6, <2>2
  <2>3. CASE i # 1
    <3>1. FrameOK(g)
        BY <1>4, <1>6, <2>3 DEF FramesOK
    <3> QED
        BY <1>2, <3>1, FrameKeeps DEF FrameOK
  <2> QED
      BY <2>2, <2>3
<1>7. \A i \in DOMAIN stack : stack[i].name # f.name
    BY <1>1, <1>2 DEF FramesOK, FrameOK
<1>8. \A i, j \in DOMAIN stack' : stack'[i].name = stack'[j].name => i = j
  <2>1. \A i, j \in DOMAIN stack' \ {1} : stack'[i].name = stack'[j].name => i = j
      BY <1>4 DEF FramesOK
  <2>2. \A i \in DOMAIN stack' \ {1} : stack'[i].name # f.name
      BY <1>4, <1>7
  <2> QED
      BY <1>4, <2>1, <2>2
<1>9. ASSUME NEW i \in DOMAIN stack', i + 1 \in DOMAIN stack'
      PROVE  From(stack'[i], stack'[i + 1])
  <2>1. CASE i = 1
    <3>1. stack # <<>> /\ stack'[2] = stack[1]
        BY <1>3, <1>4, <1>9, <2>1
    <3>2. stack[1] = Top /\ Calling
        BY <3>1, TopFrame DEF Enter, Agreed
    <3> QED
        BY <1>1, <1>2, <1>4, <2>1, <3>1, <3>2 DEF AnswerOK, From
  <2>2. CASE i # 1
    <3>1. stack'[i] = stack[i - 1] /\ i - 1 \in DOMAIN stack
        BY <1>4, <2>2
    <3>2. i + 1 # 1 /\ stack'[i + 1] = stack[i] /\ i \in DOMAIN stack /\ i = (i - 1) + 1
        BY <1>4, <1>9, <2>2
    <3> QED
        BY <3>1, <3>2 DEF FramesOK
  <2> QED
      BY <2>1, <2>2
<1> QED
    BY <1>6, <1>8, <1>9, FramesNext

\* The innermost frame goes on to the dependency after the one that was answered.
LEMMA FramesTurn ==
    ASSUME StackOK, FramesOK, AnswerOK, DependencyReturns
    PROVE  FramesOK'
<1>1. stack # <<>> /\ answer # "none" /\ Top.todo # <<>> /\ stack \in Seq(Visits)
      /\ UNCHANGED <<selected, visiting, visited>>
    BY DEF DependencyReturns, AnswerOK, StackOK
<1>2. Top = stack[1] /\ 1 \in DOMAIN stack /\ Top \in Visits /\ FrameOK(Top)
    BY <1>1, TopFrame
<1>3. PICK f : f = Top
    OBVIOUS
<1>4. PICK g : g = [f EXCEPT !.todo = Tail(@)]
    OBVIOUS
<1>5. g \in Visits /\ stack' = <<g>> \o Tail(stack)
    BY <1>1, <1>2, <1>3, <1>4, NextDep DEF DependencyReturns
<1>6. /\ DOMAIN stack' = DOMAIN stack /\ stack'[1] = g
      /\ \A i \in DOMAIN stack' \ {1} : stack'[i] = stack[i]
    BY <1>1, <1>5, Turn
<1>7. /\ g.name = f.name /\ g.deps = f.deps /\ g.kind = f.kind /\ g.inherited = f.inherited
      /\ g.todo = Tail(f.todo) /\ f.deps \in Seq(Deps) /\ f.todo \in Seq(Deps)
  <2>1. \E p \in request.providers : f.deps = p.deps
      BY <1>2, <1>3 DEF Visits
  <2> QED
      BY <1>2, <1>3, <1>4, <2>1, Given DEF Visits
<1>8. FrameOK(g)'
  <2>1. /\ Len(g.todo) = Len(f.todo) - 1 /\ Len(f.todo) \in Nat /\ Len(f.deps) \in Nat
        /\ DOMAIN f.todo = 1 .. Len(f.todo) /\ DOMAIN g.todo = 1 .. Len(f.todo) - 1
        /\ 1 \in DOMAIN f.todo /\ Head(f.todo) = f.todo[1]
        /\ \A i \in DOMAIN g.todo : i + 1 \in DOMAIN f.todo /\ g.todo[i] = f.todo[i + 1]
      BY <1>1, <1>3, <1>7
  <2>2. Passed(g) = Passed(f) + 1 /\ Passed(f) \in Nat
    <3>1. Len(f.todo) <= Len(f.deps)
        BY <1>2, <1>3 DEF FrameOK, EndOf
    <3>2. /\ Passed(f) = Len(f.deps) - Len(f.todo)
          /\ Passed(g) = Len(f.deps) - (Len(f.todo) - 1)
        BY <1>7, <2>1 DEF Passed
    <3>3. PICK m, n \in Nat : m = Len(f.deps) /\ n = Len(f.todo)
        BY <2>1
    <3> QED
        BY <3>1, <3>2, <3>3
  <2>3. EndOf(g.todo, g.deps)
      BY <1>1, <1>2, <1>3, <1>7, EndOfTail DEF FrameOK
  <2>4. ASSUME Strict(g), NEW i \in 1 .. Passed(g), g.deps[i].kind = "required"
        PROVE  g.deps[i].name \in visited
    <3>1. Strict(f)
        BY <1>7, <2>4 DEF Strict
    <3>2. CASE i <= Passed(f)
        BY <1>2, <1>3, <1>7, <2>2, <2>4, <3>1, <3>2 DEF FrameOK
    <3>3. CASE i = Passed(f) + 1
      <4>1. g.deps[i] = Head(f.todo)
        <5>1. f.todo[1] = f.deps[1 + Passed(f)]
            BY <1>2, <1>3, <2>1 DEF FrameOK, EndOf, Passed
        <5> QED
            BY <1>7, <2>1, <2>2, <3>3, <5>1
      <4>2. answer = "true"
          BY <1>3, <2>4, <3>1, <4>1 DEF DependencyReturns, Strict
      <4> QED
          BY <1>1, <1>3, <2>4, <3>1, <4>1, <4>2 DEF AnswerOK
    <3> QED
        BY <2>2, <3>2, <3>3
  <2>6. (\E p \in selected : p.name = g.name /\ p.deps = g.deps) /\ g.name \in visiting
      BY <1>2, <1>3, <1>7 DEF FrameOK
  <2> QED
      BY <1>1, <2>3, <2>4, <2>6 DEF FrameOK, Passed, Strict
<1>9. ASSUME NEW i \in DOMAIN stack', NEW h, h = stack'[i]
      PROVE  FrameOK(h)'
  <2>1. CASE i = 1
      BY <1>6, <1>8, <1>9, <2>1
  <2>2. CASE i # 1
    <3>1. FrameOK(h)
        BY <1>6, <1>9, <2>2 DEF FramesOK
    <3> QED
        BY <1>1, <3>1, FrameKeeps DEF FrameOK
  <2> QED
      BY <2>1, <2>2
<1>10. \A i \in DOMAIN stack' : stack'[i].name = stack[i].name /\ stack'[i].kind = stack[i].kind
                               /\ stack'[i].inherited = stack[i].inherited
    BY <1>2, <1>3, <1>6, <1>7
<1>11. ASSUME NEW i \in DOMAIN stack', i + 1 \in DOMAIN stack'
       PROVE  From(stack'[i], stack'[i + 1])
  <2>1. stack'[i + 1] = stack[i + 1] /\ From(stack[i], stack[i + 1])
      BY <1>1, <1>6, <1>11 DEF FramesOK
  <2> QED
      BY <1>10, <1>11, <2>1 DEF From
<1>12. \A i, j \in DOMAIN stack' : stack'[i].name = stack'[j].name => i = j
    BY <1>6, <1>10 DEF FramesOK
<1> QED
    BY <1>9, <1>11, <1>12, FramesNext

LEMMA FramesStep ==
    ASSUME StackOK, SelectedOK, FramesOK, AnswerOK, [ResolverNext]_resolverVars
    PROVE  FramesOK'
<1>1. ASSUME stack' = stack, selected \subseteq selected', visited \subseteq visited',
             visiting \subseteq visiting'
      PROVE  FramesOK'
  <2>1. ASSUME NEW f, FrameOK(f)
        PROVE  FrameOK(f)'
      BY <1>1, <2>1, FrameKeeps DEF FrameOK
  <2> QED
      BY <1>1, <2>1, FramesNext DEF FramesOK
<1>2. ASSUME NEW p \in request.providers, Visited(p) \/ Cycle(p)
      PROVE  FramesOK'
    BY <1>1, <1>2, Selects DEF Visited, Cycle
<1>3. ASSUME GiveUp \/ Complete
      PROVE  FramesOK'
    BY <1>3, FramesPop DEF GiveUp, Complete
<1>4. CASE UNCHANGED resolverVars
    BY <1>4, <1>1 DEF resolverVars
<1>5. CASE ResolverNext
    BY <1>5, <1>1, <1>2, <1>3, FramesEnter, FramesTurn
       DEF ResolverNext, VisitRoot, RootReturns, Done, Unavailable, Conflict, VisitNext
<1> QED
    BY <1>4, <1>5
-----------------------------------------------------------------------------
(* Calls and answers. *)

LEMMA AnswerStep ==
    ASSUME StackOK, SelectedOK, OrderOK, FramesOK, AnswerOK, [ResolverNext]_resolverVars
    PROVE  AnswerOK'
<1>1. ASSUME UNCHANGED <<stack, call, answer>>, visited \subseteq visited'
      PROVE  AnswerOK'
    BY <1>1 DEF AnswerOK, Calling, Top, Strict, From
<1>2. ASSUME stack = <<>>, stack' = stack
      PROVE  AnswerOK'
    BY <1>2 DEF AnswerOK
\* A visit() that returns at once.
<1>3. ASSUME Calling, call' = Nothing, stack' = stack, visited' = visited,
             answer' = "true" => ~Required \/ call.name \in visited
      PROVE  AnswerOK'
  <2> SUFFICES ASSUME stack # <<>>
               PROVE  /\ Top.todo # <<>>
                      /\ answer' = "true" /\ Strict(Top) /\ Head(Top.todo).kind = "required" =>
                            Head(Top.todo).name \in visited
      BY <1>3 DEF AnswerOK, Calling, Top, Strict
  <2>1. From(call, Top)
      BY <1>3 DEF AnswerOK
  <2> QED
      BY <1>3, <2>1 DEF From, Strict, Required
<1>4. ASSUME NEW p \in request.providers, Enter(p)
      PROVE  AnswerOK'
  <2>1. call' = Nothing /\ answer' = "none"
      BY <1>4 DEF Enter, Agreed, StackOK
  <2> QED
      BY <2>1 DEF AnswerOK, Calling
<1>5. ASSUME VisitNext
      PROVE  AnswerOK'
    BY <1>5 DEF VisitNext, AnswerOK, Calling, Top, From
<1>6. ASSUME DependencyReturns
      PROVE  AnswerOK'
  <2>1. call' = Nothing /\ answer' = "none"
      BY <1>6 DEF DependencyReturns, StackOK, Calling
  <2> QED
      BY <2>1 DEF AnswerOK, Calling
\* A frame that returns was called for the next dependency of its caller.
<1>7. ASSUME stack # <<>>, ~Calling, call' = call, stack' = Tail(stack),
             answer' = "true" => Top.name \in visited'
      PROVE  AnswerOK'
  <2> SUFFICES ASSUME stack' # <<>>
               PROVE  /\ Top'.todo # <<>>
                      /\ answer' = "true" => Head(Top'.todo).name \in visited'
      BY <1>7 DEF AnswerOK, Calling
  <2>1. stack \in Seq(Visits)
      BY DEF StackOK
  <2>2. /\ Tail(stack) \in Seq(Visits) /\ DOMAIN Tail(stack) = 1 .. Len(stack) - 1
        /\ \A i \in DOMAIN Tail(stack) : i + 1 \in DOMAIN stack /\ Tail(stack)[i] = stack[i + 1]
      BY <1>7, <2>1, Pop
  <2>3. Head(stack') = stack'[1] /\ 1 \in DOMAIN stack'
      BY <1>7, <2>2, Pop
  <2>4. Top' = stack[1 + 1] /\ 1 + 1 \in DOMAIN stack
      BY <1>7, <2>2, <2>3 DEF Top
  <2>5. From(Top, Top')
      BY <1>7, <2>4, TopFrame DEF FramesOK
  <2> QED
      BY <1>7, <2>5 DEF From
<1>8. ASSUME GiveUp \/ Complete
      PROVE  AnswerOK'
    BY <1>7, <1>8 DEF GiveUp, Complete, Say, StackOK
<1>9. ASSUME Unavailable \/ Conflict \/ \E p \in request.providers : Visited(p) \/ Cycle(p)
      PROVE  AnswerOK'
  <2>1. CASE Unavailable \/ Conflict
      BY <1>3, <2>1 DEF Unavailable, Conflict, Say
  <2>2. CASE \E p \in request.providers : Visited(p)
      BY <1>3, <2>2 DEF Visited, Agreed, Choose, Fits
  <2>3. CASE \E p \in request.providers : Cycle(p)
      BY <1>3, <2>3 DEF Cycle, Agreed, Say
  <2> QED
      BY <1>9, <2>1, <2>2, <2>3
<1>10. CASE UNCHANGED resolverVars
    BY <1>1, <1>10 DEF resolverVars
<1>11. CASE ResolverNext
    BY <1>11, <1>1, <1>2, <1>4, <1>5, <1>6, <1>8, <1>9
       DEF ResolverNext, VisitRoot, RootReturns, Done
<1> QED
    BY <1>10, <1>11
-----------------------------------------------------------------------------
(* What is complete. *)

LEMMA FirmStep ==
    ASSUME ResolverInv, [ResolverNext]_resolverVars
    PROVE  FirmOK'
<1> USE DEF ResolverInv
<1>1. \A m \in visited : Needs(m, selected', {"required"}) = Needs(m, selected, {"required"})
  <2>1. CASE selected' = selected
      BY <2>1
  <2>2. CASE \E p \in request.providers : Enter(p)
    <3>1. PICK p \in request.providers : Enter(p)
        BY <2>2
    <3>2. selected' = selected \cup {p} /\ p.name \notin visited
        BY <3>1, Selects DEF Enter
    <3> QED
        BY <3>2 DEF Needs
  <2>3. ASSUME NEW p \in request.providers, Visited(p) \/ Cycle(p)
        PROVE  selected' = selected
      BY <2>3, Selects DEF Visited, Cycle
  <2> QED
      BY <2>1, <2>2, <2>3
         DEF ResolverNext, resolverVars, VisitRoot, RootReturns, Done, Unavailable, Conflict,
             VisitNext, GiveUp,
             DependencyReturns, Complete
<1>2. CASE UNCHANGED <<visited, order, firm>>
    BY <1>1, <1>2 DEF FirmOK, Before
<1>3. CASE Complete
  <2>1. PICK x : x = Top.name
      OBVIOUS
  <2>2. /\ order' = Append(order, x) /\ visited' = visited \cup {x} /\ order \in Seq(visited)
        /\ firm' \subseteq firm \cup {x} /\ visited \subseteq ToSet(order)
      BY <1>3, <2>1 DEF Complete, OrderOK
  <2>3. /\ DOMAIN order = 1 .. Len(order) /\ DOMAIN order' = 1 .. Len(order) + 1
        /\ Len(order) \in Nat
        /\ order'[Len(order) + 1] = x /\ \A i \in DOMAIN order : order'[i] = order[i]
      BY <2>2
  <2>4. \A m : Before(m) \subseteq Before(m)'
    <3> SUFFICES ASSUME NEW m, NEW i \in DOMAIN order, NEW k \in DOMAIN order,
                        i < k, order[k] = m
                 PROVE  order[i] \in Before(m)'
        BY DEF Before
    <3>1. i \in DOMAIN order' /\ k \in DOMAIN order' /\ order'[i] = order[i] /\ order'[k] = m
        BY <2>3
    <3> QED
        BY <3>1 DEF Before
  <2>5. visited \subseteq Before(x)'
    <3> SUFFICES ASSUME NEW y \in visited
                 PROVE  y \in Before(x)'
        OBVIOUS
    <3>1. PICK i \in DOMAIN order : order[i] = y
        BY <2>2 DEF ToSet
    <3>2. /\ i < Len(order) + 1 /\ i \in DOMAIN order' /\ order'[i] = y
          /\ Len(order) + 1 \in DOMAIN order'
        BY <2>3, <3>1
    <3> QED
        BY <2>3, <3>2 DEF Before
  <2>6. x \in firm' \ firm => Needs(x, selected, {"required"}) \subseteq visited
    <3> SUFFICES ASSUME x \in firm' \ firm
                 PROVE  Needs(x, selected, {"required"}) \subseteq visited
        OBVIOUS
    <3>1. PICK f : f = Top
        OBVIOUS
    <3>2. Strict(f) /\ f.todo = <<>> /\ f.name = x
        BY <1>3, <2>1, <3>1 DEF Complete, Strict
    <3>3. FrameOK(f) /\ f \in Visits
        BY <1>3, <3>1, TopFrame DEF Complete
    <3>4. f.deps \in Seq(Deps)
        BY <3>3, Given DEF Visits
    <3>5. Passed(f) = Len(f.deps) /\ DOMAIN f.deps = 1 .. Len(f.deps)
        BY <3>2, <3>4 DEF Passed
    <3>6. \A i \in DOMAIN f.deps : f.deps[i].kind = "required" => f.deps[i].name \in visited
        BY <3>2, <3>3, <3>5 DEF FrameOK
    <3>7. \A p \in selected : p.name = x => p.deps = f.deps
        BY <3>2, <3>3 DEF FrameOK, SelectedOK
    <3> QED
        BY <3>6, <3>7 DEF Needs, Names
  <2>7. selected' = selected
      BY <1>3 DEF Complete
  <2>8. ASSUME NEW m \in firm'
        PROVE  m \in visited' /\ Needs(m, selected, {"required"}) \subseteq Before(m)'
    <3>1. CASE m \in firm
        BY <2>2, <2>4, <3>1 DEF FirmOK
    <3>2. CASE m \notin firm
        BY <2>2, <2>5, <2>6, <2>8, <3>2
    <3> QED
        BY <3>1, <3>2
  <2> QED
      BY <2>7, <2>8 DEF FirmOK
<1> QED
    BY <1>2, <1>3, VisitedStep
-----------------------------------------------------------------------------
(* Cycles. *)

\* What a frame has next is a need of its module.
LEMMA NextNeeded ==
    ASSUME StackOK, SelectedOK, NEW f \in Visits, FrameOK(f), f.todo # <<>>
    PROVE  /\ f.name \in Modules
           /\ Head(f.todo).name \in Needs(f.name, request.providers, Kinds)
<1>1. f.name \in Modules /\ f.todo \in Seq(Deps) /\ f.deps \in Seq(Deps)
    BY Given DEF Visits
<1>2. PICK p \in request.providers : p.name = f.name /\ p.deps = f.deps
    BY DEF FrameOK, SelectedOK
<1>3. /\ Len(f.todo) \in Nat /\ Len(f.deps) \in Nat /\ 1 \in DOMAIN f.todo
      /\ DOMAIN f.todo = 1 .. Len(f.todo) /\ DOMAIN f.deps = 1 .. Len(f.deps)
      /\ Head(f.todo) = f.todo[1]
    BY <1>1
<1>4. PICK m, n \in Nat : m = Len(f.todo) /\ n = Len(f.deps)
    BY <1>3
<1>5. m <= n /\ f.todo[1] = f.deps[1 + (n - m)]
    BY <1>3, <1>4 DEF FrameOK, EndOf
<1>6. 1 + (n - m) \in DOMAIN p.deps /\ Head(f.todo) = p.deps[1 + (n - m)]
  <2>1. m >= 1
      BY <1>3, <1>4
  <2>2. 1 + (n - m) \in 1 .. n
      BY <1>5, <2>1
  <2>3. 1 + (n - m) \in DOMAIN f.deps
      BY <1>3, <1>4, <2>2
  <2>4. Head(f.todo) = f.deps[1 + (n - m)]
      BY <1>3, <1>5
  <2> QED
      BY <1>2, <2>3, <2>4
<1>7. p.deps[1 + (n - m)].kind \in Kinds
    BY <1>1, <1>2, <1>6, Given
<1>8. Head(f.todo).name \in Names(p.deps, Kinds)
    BY <1>6, <1>7 DEF Names
<1> QED
    BY <1>1, <1>2, <1>8 DEF Needs

\* Who needs a module that leads into a cycle does so too.
LEMMA NeedsCycle ==
    ASSUME NEW m \in Modules, NEW n \in Needs(m, request.providers, Kinds),
           LeadsIntoCycle(n)
    PROVE  LeadsIntoCycle(m)
<1>1. PICK S \in SUBSET Modules :
          n \in S /\ \A x \in S : Needs(x, request.providers, Kinds) \cap S # {}
    BY DEF LeadsIntoCycle
<1>2. \A x \in S \cup {m} : Needs(x, request.providers, Kinds) \cap (S \cup {m}) # {}
    BY <1>1
<1>3. S \cup {m} \in SUBSET Modules
    OBVIOUS
<1> QED
    BY <1>2, <1>3 DEF LeadsIntoCycle

LEMMA FramesTyped ==
    ASSUME StackOK, FramesOK
    PROVE  /\ DOMAIN stack = 1 .. Len(stack) /\ Len(stack) \in Nat
           /\ \A i \in DOMAIN stack : stack[i] \in Visits /\ FrameOK(stack[i])
    BY DEF StackOK, FramesOK

\* A module that is called for from above its own frame is on a cycle.
LEMMA CallCloses ==
    ASSUME StackOK, SelectedOK, FramesOK, AnswerOK, Calling,
           NEW k \in DOMAIN stack, stack[k].name = call.name
    PROVE  LeadsIntoCycle(call.name)
<1> DEFINE S == {stack[i].name : i \in 1 .. k}
<1>1. /\ DOMAIN stack = 1 .. Len(stack) /\ Len(stack) \in Nat
      /\ \A i \in DOMAIN stack : stack[i] \in Visits /\ FrameOK(stack[i])
    BY FramesTyped
<1>2. S \in SUBSET Modules
    BY <1>1 DEF Visits
<1>3. call.name \in S
    BY <1>1
<1>4. ASSUME NEW i \in 1 .. k
      PROVE  Needs(stack[i].name, request.providers, Kinds) \cap S # {}
  <2>1. CASE i = 1
    <3>1. From(call, stack[1])
        BY <1>1, TopFrame DEF AnswerOK
    <3>2. call.name \in Needs(stack[1].name, request.providers, Kinds)
        BY <1>1, <3>1, NextNeeded DEF From
    <3> QED
        BY <2>1, <3>2, <1>3
  <2>2. CASE i # 1
    <3>1. i \in DOMAIN stack /\ i - 1 \in DOMAIN stack /\ (i - 1) + 1 = i /\ i - 1 \in 1 .. k
        BY <1>1, <2>2
    <3>2. From(stack[i - 1], stack[i])
        BY <3>1 DEF FramesOK
    <3>3. stack[i - 1].name \in Needs(stack[i].name, request.providers, Kinds)
        BY <1>1, <3>1, <3>2, NextNeeded DEF From
    <3> QED
        BY <3>1, <3>3
  <2> QED
      BY <2>1, <2>2
<1>5. \A n \in S : Needs(n, request.providers, Kinds) \cap S # {}
    BY <1>4
<1> HIDE DEF S
<1> QED
    BY <1>2, <1>3, <1>5 DEF LeadsIntoCycle

LEMMA RootStep ==
    ASSUME StackOK, FramesOK, AnswerOK, RootOK, [ResolverNext]_resolverVars
    PROVE  RootOK'
<1>1. /\ DOMAIN stack = 1 .. Len(stack) /\ Len(stack) \in Nat /\ stack \in Seq(Visits)
    BY FramesTyped DEF StackOK
<1>2. ASSUME UNCHANGED <<roots, stack, call, answer, outcome>>
      PROVE  RootOK'
    BY <1>2 DEF RootOK, AtRoot, Calling
<1>3. ASSUME VisitRoot
      PROVE  RootOK'
    BY <1>3 DEF VisitRoot, RootOK, AtRoot
<1>4. ASSUME RootReturns \/ Done
      PROVE  RootOK'
    BY <1>4 DEF RootReturns, Done, RootOK, StackOK, Calling
<1>5. ASSUME Unavailable \/ Conflict \/ \E p \in request.providers : Visited(p) \/ Cycle(p)
      PROVE  RootOK'
    BY <1>5 DEF Unavailable, Conflict, Visited, Cycle, Agreed, RootOK, AtRoot,
                Calling
<1>6. ASSUME NEW p \in request.providers, Enter(p)
      PROVE  RootOK'
  <2>1. PICK f : f = [name |-> p.name, deps |-> p.deps, todo |-> p.deps, kind |-> call.kind,
                      inherited |-> call.inherited]
      OBVIOUS
  <2>2. /\ f \in Visits /\ f.name = call.name
        /\ f.kind = call.kind /\ f.inherited = call.inherited
      BY <1>6, <2>1, Given DEF Enter, Agreed, Choose, Fits, Visits, StackOK
  <2>3. /\ stack' = <<f>> \o stack /\ roots' = roots /\ outcome' = outcome /\ Calling
        /\ call' = Nothing
      BY <1>6, <2>1 DEF Enter, Agreed
  <2>4. /\ stack' # <<>> /\ Len(stack') = Len(stack) + 1
        /\ stack'[Len(stack) + 1] = IF stack = <<>> THEN f ELSE stack[Len(stack)]
      BY <1>1, <2>2, <2>3
  <2>5. ASSUME Strict(f), NEW j \in DOMAIN stack
        PROVE  Strict(stack[j])
    <3>1. From(call, Top) /\ Top = stack[1] /\ 1 \in DOMAIN stack /\ Top \in Visits
        BY <1>1, <2>3, <2>5, TopFrame DEF AnswerOK
    <3>2. Strict(stack[1])
        BY <2>1, <2>5, <3>1 DEF From, Strict, Visits, Kinds
    <3> QED
        BY <1>1, <3>1, <3>2 DEF RootOK
  <2>6. /\ DOMAIN stack' = 1 .. Len(stack) + 1 /\ stack'[1] = f
        /\ \A i \in DOMAIN stack' \ {1} : i - 1 \in DOMAIN stack /\ stack'[i] = stack[i - 1]
      BY <1>1, <2>2, <2>3, Push
  <2>7. ASSUME NEW i \in DOMAIN stack', NEW j \in DOMAIN stack', i <= j, Strict(stack'[i])
        PROVE  Strict(stack'[j])
    <3>1. CASE i = 1
        BY <2>5, <2>6, <2>7, <3>1
    <3>2. CASE i # 1
      <4>1. j # 1 /\ i - 1 <= j - 1
          BY <2>6, <2>7, <3>2
      <4>2. /\ i - 1 \in DOMAIN stack /\ stack'[i] = stack[i - 1]
            /\ j - 1 \in DOMAIN stack /\ stack'[j] = stack[j - 1]
          BY <2>6, <3>2, <4>1
      <4> QED
          BY <2>7, <4>1, <4>2 DEF RootOK
    <3> QED
        BY <3>1, <3>2
  <2> QED
      BY <2>2, <2>3, <2>4, <2>7 DEF RootOK, AtRoot
<1>7. ASSUME VisitNext
      PROVE  RootOK'
    BY <1>7 DEF VisitNext, RootOK, AtRoot
<1>8. ASSUME GiveUp \/ Complete
      PROVE  RootOK'
  <2>1. /\ stack # <<>> /\ stack' = Tail(stack) /\ roots' = roots /\ outcome' = outcome
        /\ call' = call /\ ~Calling
      BY <1>8 DEF GiveUp, Complete, StackOK
  <2>2. stack' # <<>> => Len(stack') = Len(stack) - 1 /\ stack'[Len(stack) - 1] = stack[Len(stack)]
      BY <1>1, <2>1
  <2>3. /\ DOMAIN stack' = 1 .. Len(stack) - 1
        /\ \A i \in DOMAIN stack' : i + 1 \in DOMAIN stack /\ stack'[i] = stack[i + 1]
      BY <1>1, <2>1, Pop
  <2>4. ASSUME NEW i \in DOMAIN stack', NEW j \in DOMAIN stack', i <= j, Strict(stack'[i])
        PROVE  Strict(stack'[j])
    <3>1. i + 1 <= j + 1
        BY <2>3, <2>4
    <3> QED
        BY <2>3, <2>4, <3>1 DEF RootOK
  <2> QED
      BY <2>1, <2>2, <2>4 DEF RootOK, AtRoot, Calling
<1>9. ASSUME DependencyReturns
      PROVE  RootOK'
  <2>1. Top = stack[1] /\ stack # <<>> /\ Top \in Visits /\ Top.todo # <<>> /\ ~Calling
      BY <1>9, TopFrame DEF DependencyReturns, AnswerOK, StackOK
  <2>2. PICK g \in Visits : g = [Top EXCEPT !.todo = Tail(@)]
      BY <2>1, NextDep
  <2>3. /\ stack' = <<g>> \o Tail(stack)
        /\ g.name = stack[1].name
        /\ g.kind = stack[1].kind /\ g.inherited = stack[1].inherited
      BY <1>9, <2>1, <2>2 DEF DependencyReturns, Visits
  <2>4. stack' # <<>> /\ Len(stack') = Len(stack) /\ stack'[1] = g
        /\ \A i \in DOMAIN stack \ {1} : stack'[i] = stack[i]
      BY <1>1, <2>1, <2>3
  <2>5. /\ stack'[Len(stack')].name = stack[Len(stack)].name
        /\ stack'[Len(stack')].kind = stack[Len(stack)].kind
        /\ stack'[Len(stack')].inherited = stack[Len(stack)].inherited
      BY <1>1, <2>1, <2>3, <2>4
  <2>6. DOMAIN stack' = DOMAIN stack
      BY <1>1, <2>1, <2>3, Turn
  <2>7. \A i \in DOMAIN stack : Strict(stack'[i]) <=> Strict(stack[i])
      BY <2>3, <2>4 DEF Strict
  <2>8. \A i, j \in DOMAIN stack' : i <= j /\ Strict(stack'[i]) => Strict(stack'[j])
      BY <2>6, <2>7 DEF RootOK
  <2>9. roots' = roots /\ outcome' = outcome /\ call' = call
      BY <1>9 DEF DependencyReturns
  <2>10. outcome' = "running"
      BY <2>1, <2>9 DEF RootOK
  <2> QED
      BY <2>1, <2>4, <2>5, <2>8, <2>9, <2>10 DEF RootOK, AtRoot
<1>10. CASE UNCHANGED resolverVars
    BY <1>2, <1>10 DEF resolverVars
<1>11. CASE ResolverNext
    BY <1>11, <1>3, <1>4, <1>5, <1>6, <1>7, <1>8, <1>9 DEF ResolverNext
<1> QED
    BY <1>10, <1>11

LEMMA CycleStep ==
    ASSUME StackOK, SelectedOK, FramesOK, AnswerOK, RootOK, CycleOK, [ResolverNext]_resolverVars
    PROVE  CycleOK'
<1>1. \A m : LeadsIntoCycle(m)' <=> LeadsIntoCycle(m)
  <2>1. request' = request
      BY VisitedStep
  <2> QED
      BY <2>1 DEF LeadsIntoCycle, Needs, Modules
<1>2. ASSUME UNCHANGED cyclic
      PROVE  CyclesAreReal'
    BY <1>1, <1>2 DEF CycleOK, CyclesAreReal
<1>3. ASSUME UNCHANGED <<roots, stack, answer, visiting, outcome, cyclic>>
      PROVE  CycleOK'
    BY <1>1, <1>2, <1>3 DEF CycleOK, Doomed, Explained, GivenUp, Top
<1>4. /\ DOMAIN stack = 1 .. Len(stack) /\ Len(stack) \in Nat /\ stack \in Seq(Visits)
      /\ \A i \in DOMAIN stack : stack[i] \in Visits /\ FrameOK(stack[i])
    BY FramesTyped DEF StackOK
<1>5. ASSUME stack # <<>>
      PROVE  Top = stack[1] /\ 1 \in DOMAIN stack /\ Top \in Visits /\ FrameOK(Top)
    BY <1>5, TopFrame
<1>6. ASSUME RootReturns \/ Done
      PROVE  CycleOK'
  <2>1. stack = <<>> /\ stack' = stack /\ visiting' = visiting /\ cyclic' = cyclic
      BY <1>6 DEF RootReturns, Done, StackOK
  <2>2. CASE Doomed \/ outcome = "error"
      BY <1>2, <1>6, <2>1, <2>2 DEF RootReturns, Done, StackOK, Doomed, CycleOK
  <2>3. CASE Explained
      BY <1>1, <1>2, <2>1, <2>3 DEF Explained, GivenUp, CycleOK
  <2> QED
      BY <2>2, <2>3 DEF CycleOK
<1>7. ASSUME Calling
      PROVE  answer = "none" /\ outcome # "error" /\ Explained
    BY <1>7 DEF StackOK, RootOK, CycleOK, Doomed
<1>8. ASSUME Unavailable \/ Conflict
      PROVE  CycleOK'
  <2>1. /\ Calling /\ Say(~Required) /\ cyclic' = cyclic
        /\ UNCHANGED <<roots, stack, visiting, outcome>>
      BY <1>8 DEF Unavailable, Conflict
  <2>2. CASE Required
    <3>1. answer' = "false"
        BY <2>1, <2>2 DEF Say
    <3>2. ASSUME stack # <<>>
          PROVE  /\ Head(roots).kind = "required" /\ Head(Top.todo).kind = "required"
                 /\ \A i \in DOMAIN stack : Strict(stack[i])
      <4>1. From(call, Top)
          BY <2>1, <3>2 DEF AnswerOK
      <4>2. Head(Top.todo).kind = "required" /\ Strict(Top)
          BY <1>5, <2>2, <3>2, <4>1 DEF From, Required, Strict, Visits, Kinds
      <4>3. \A i \in DOMAIN stack : Strict(stack[i])
          BY <1>4, <1>5, <3>2, <4>2 DEF RootOK
      <4>4. Len(stack) \in DOMAIN stack
          BY <1>4, <1>5, <3>2
      <4> QED
          BY <3>2, <4>2, <4>3, <4>4 DEF RootOK, AtRoot, Strict
    <3>3. ASSUME stack = <<>>
          PROVE  Head(roots).kind = "required" /\ DOMAIN stack = {}
        BY <1>4, <2>1, <2>2, <3>3 DEF RootOK, AtRoot, Required
    <3>4. Doomed'
        BY <2>1, <3>1, <3>2, <3>3 DEF Doomed, Top
    <3> QED
        BY <1>2, <2>1, <3>4 DEF CycleOK
  <2>3. CASE ~Required
    <3>1. answer' = "true"
        BY <2>1, <2>3 DEF Say
    <3> QED
        BY <1>1, <1>2, <1>7, <2>1, <3>1 DEF CycleOK, Explained, GivenUp
  <2> QED
      BY <2>2, <2>3
<1>9. ASSUME NEW p \in request.providers, Visited(p)
      PROVE  CycleOK'
  <2>1. /\ Calling /\ answer' = "true" /\ cyclic' = cyclic
        /\ UNCHANGED <<stack, visiting>>
      BY <1>9 DEF Visited, Agreed, Say
  <2> QED
      BY <1>1, <1>2, <1>7, <2>1 DEF CycleOK, Explained, GivenUp
<1>10. ASSUME NEW p \in request.providers, Cycle(p)
       PROVE  CycleOK'
  <2>1. /\ Calling /\ p.name = call.name /\ p.name \in visiting
        /\ cyclic' = cyclic \cup {p.name} /\ UNCHANGED <<stack, visiting>>
      BY <1>10 DEF Cycle, Agreed, Choose, Fits
  <2>2. LeadsIntoCycle(call.name)
    <3>1. CASE call.name \in GivenUp
        BY <1>7, <2>1, <3>1 DEF Explained
    <3>2. CASE call.name \notin GivenUp
        BY <2>1, <3>2, CallCloses DEF GivenUp
    <3> QED
        BY <3>1, <3>2
  <2>3. CyclesAreReal'
      BY <1>1, <2>1, <2>2 DEF CycleOK, CyclesAreReal
  <2>4. stack # <<>> => Head(Top.todo).name = call.name
      BY <2>1 DEF AnswerOK, From
  <2> QED
      BY <1>1, <1>7, <2>1, <2>2, <2>3, <2>4 DEF CycleOK, Explained, GivenUp, Top
<1>11. ASSUME NEW p \in request.providers, Enter(p)
       PROVE  CycleOK'
  <2>1. PICK f : f = [name |-> p.name, deps |-> p.deps, todo |-> p.deps, kind |-> call.kind,
                      inherited |-> call.inherited]
      OBVIOUS
  <2>2. f \in Visits /\ f.name = p.name
      BY <1>11, <2>1, Given DEF Enter, Agreed, Visits, StackOK
  <2>3. /\ stack' = <<f>> \o stack /\ visiting' = visiting \cup {p.name} /\ cyclic' = cyclic
        /\ answer' = answer /\ Calling
      BY <1>11, <2>1 DEF Enter, Agreed
  <2>4. /\ stack'[1] = f /\ 1 \in DOMAIN stack'
        /\ \A i \in DOMAIN stack : i + 1 \in DOMAIN stack' /\ stack'[i + 1] = stack[i]
      BY <1>4, <2>2, <2>3
  <2>5. GivenUp' \subseteq GivenUp
    <3> SUFFICES ASSUME NEW m \in GivenUp'
                 PROVE  m \in GivenUp
        OBVIOUS
    <3>1. m \in visiting' /\ \A i \in DOMAIN stack' : stack'[i].name # m
        BY DEF GivenUp
    <3>2. m \in visiting
        BY <2>2, <2>3, <2>4, <3>1
    <3>3. \A i \in DOMAIN stack : stack[i].name # m
        BY <2>4, <3>1
    <3> QED
        BY <3>2, <3>3 DEF GivenUp
  <2> QED
      BY <1>1, <1>2, <1>7, <2>3, <2>5 DEF CycleOK, Explained
<1>12. ASSUME GiveUp \/ Complete
       PROVE  /\ stack # <<>> /\ ~Calling /\ UNCHANGED <<roots, outcome, cyclic>>
              /\ GivenUp' \subseteq GivenUp \cup {Top.name}
              /\ \A i \in DOMAIN stack' : i + 1 \in DOMAIN stack /\ stack'[i] = stack[i + 1]
              /\ stack' # <<>> => From(Top, Top') /\ Top' = stack'[1] /\ 1 \in DOMAIN stack'
  <2>1. /\ stack # <<>> /\ stack' = Tail(stack) /\ ~Calling /\ visiting' \subseteq visiting
        /\ UNCHANGED <<roots, outcome, cyclic>>
      BY <1>12 DEF GiveUp, Complete, StackOK
  <2>2. /\ DOMAIN stack' = 1 .. Len(stack) - 1 /\ stack' \in Seq(Visits)
        /\ \A i \in DOMAIN stack' : i + 1 \in DOMAIN stack /\ stack'[i] = stack[i + 1]
      BY <1>4, <2>1, Pop
  <2>3. \A i \in DOMAIN stack \ {1} : i - 1 \in DOMAIN stack' /\ stack'[i - 1] = stack[i]
    <3> SUFFICES ASSUME NEW i \in DOMAIN stack \ {1}
                 PROVE  i - 1 \in DOMAIN stack' /\ stack'[i - 1] = stack[i]
        OBVIOUS
    <3>1. i - 1 \in DOMAIN stack' /\ (i - 1) + 1 = i
        BY <1>4, <2>2
    <3> QED
        BY <2>2, <3>1
  <2>4. GivenUp' \subseteq GivenUp \cup {Top.name}
    <3> SUFFICES ASSUME NEW m \in GivenUp', m # Top.name
                 PROVE  m \in GivenUp
        OBVIOUS
    <3>1. m \in visiting' /\ \A i \in DOMAIN stack' : stack'[i].name # m
        BY DEF GivenUp
    <3>2. m \in visiting
        BY <2>1, <3>1
    <3>3. \A i \in DOMAIN stack : stack[i].name # m
        BY <1>5, <2>1, <2>3, <3>1
    <3> QED
        BY <3>2, <3>3 DEF GivenUp
  <2>5. ASSUME stack' # <<>>
        PROVE  From(Top, Top') /\ Top' = stack'[1] /\ 1 \in DOMAIN stack'
    <3>1. Top' = stack'[1] /\ 1 \in DOMAIN stack'
        BY <2>2, <2>5, Pop DEF Top
    <3>2. 1 + 1 \in DOMAIN stack /\ stack'[1] = stack[1 + 1]
        BY <2>2, <3>1
    <3> QED
        BY <1>5, <2>1, <3>1, <3>2 DEF FramesOK
  <2> QED
      BY <2>1, <2>2, <2>4, <2>5
<1>13. ASSUME GiveUp
       PROVE  CycleOK'
  <2>1. /\ answer = "false" /\ answer' = answer /\ Top.todo # <<>> /\ outcome' = outcome
        /\ roots' = roots /\ cyclic' = cyclic /\ stack # <<>>
      BY <1>12, <1>13 DEF GiveUp, AnswerOK
  <2>2. CASE outcome = "error"
      BY <1>2, <2>1, <2>2 DEF CycleOK
  <2>3. CASE Doomed
    <3>1. Strict(Top) /\ \A i \in DOMAIN stack' : Strict(stack'[i])
        BY <1>5, <1>12, <1>13, <2>1, <2>3 DEF Doomed
    <3>2. stack' # <<>> => Head(Top'.todo).kind = "required"
        BY <1>12, <1>13, <3>1 DEF From, Strict
    <3>3. Doomed'
        BY <2>1, <2>3, <3>1, <3>2 DEF Doomed
    <3> QED
        BY <1>2, <2>1, <3>3 DEF CycleOK
  <2>4. CASE Explained
    <3>1. LeadsIntoCycle(Top.name)
      <4>1. /\ Top.name \in Modules
            /\ Head(Top.todo).name \in Needs(Top.name, request.providers, Kinds)
          BY <1>5, <2>1, NextNeeded
      <4> QED
          BY <2>1, <2>4, <4>1, NeedsCycle DEF Explained
    <3>2. stack' # <<>> => Head(Top'.todo).name = Top.name
        BY <1>12, <1>13 DEF From
    <3>3. \A m \in GivenUp' : LeadsIntoCycle(m)
        BY <1>12, <1>13, <2>4, <3>1 DEF Explained
    <3>4. Explained'
        BY <1>1, <3>1, <3>2, <3>3 DEF Explained
    <3> QED
        BY <1>2, <2>1, <3>4 DEF CycleOK
  <2> QED
      BY <2>2, <2>3, <2>4 DEF CycleOK
<1>14. ASSUME Complete
       PROVE  CycleOK'
  <2>1. /\ answer = "none" /\ answer' = "true" /\ outcome' = outcome /\ cyclic' = cyclic
        /\ Top.name \notin visiting'
      BY <1>12, <1>14 DEF Complete, Say
  <2>2. Top.name \notin GivenUp'
      BY <2>1 DEF GivenUp
  <2>3. GivenUp' \subseteq GivenUp
      BY <1>12, <1>14, <2>2
  <2> QED
      BY <1>1, <1>2, <2>1, <2>3 DEF CycleOK, Doomed, Explained
<1>15. ASSUME DependencyReturns
       PROVE  CycleOK'
  <2>1. stack # <<>> /\ Top.todo # <<>> /\ answer' = "none" /\ outcome' = outcome
        /\ cyclic' = cyclic /\ visiting' = visiting
      BY <1>15 DEF DependencyReturns, AnswerOK
  <2>2. ~Doomed
      BY <1>5, <1>15, <2>1 DEF DependencyReturns, Doomed, Strict
  <2>3. PICK g \in Visits : g = [Top EXCEPT !.todo = Tail(@)]
      BY <1>5, <2>1, NextDep
  <2>4. stack' = <<g>> \o Tail(stack) /\ g.name = stack[1].name
      BY <1>5, <1>15, <2>1, <2>3 DEF DependencyReturns, Visits
  <2>5. /\ DOMAIN stack' = DOMAIN stack /\ stack'[1] = g
        /\ \A i \in DOMAIN stack \ {1} : stack'[i] = stack[i]
      BY <1>4, <2>1, <2>4, Turn
  <2>6. GivenUp' = GivenUp
    <3>1. \A i \in DOMAIN stack : stack'[i].name = stack[i].name
        BY <2>4, <2>5
    <3> QED
        BY <2>1, <2>5, <3>1 DEF GivenUp
  <2> QED
      BY <1>1, <1>2, <2>1, <2>2, <2>6 DEF CycleOK, Explained
<1>16. CASE UNCHANGED resolverVars
    BY <1>3, <1>16 DEF resolverVars
<1>17. CASE VisitRoot \/ VisitNext
    BY <1>3, <1>17 DEF VisitRoot, VisitNext
<1>18. CASE ResolverNext
    BY <1>6, <1>8, <1>9, <1>10, <1>11, <1>13, <1>14, <1>15, <1>17, <1>18 DEF ResolverNext
<1> QED
    BY <1>16, <1>18

-----------------------------------------------------------------------------
(* What a plan has. *)

LEMMA RootsStep ==
    ASSUME ResolverInv, [ResolverNext]_resolverVars
    PROVE  RootsOK'
<1> USE DEF ResolverInv
<1>1. request' = request /\ visited \subseteq visited'
    BY VisitedStep DEF Complete
<1>2. ASSUME UNCHANGED <<roots, outcome>>,
             stack' = <<>> /\ answer' = "true" /\ Head(roots).kind = "required" =>
                 Head(roots).name \in visited'
      PROVE  RootsOK'
    BY <1>1, <1>2 DEF RootsOK
<1>3. ASSUME RootReturns
      PROVE  RootsOK'
  <2>1. /\ roots # <<>> /\ roots' = Tail(roots) /\ answer' = "none" /\ stack = <<>>
        /\ answer \in {"true", "false"} /\ outcome = "running"
      BY <1>3 DEF RootReturns, StackOK
  <2>2. PICK S : request.roots \in Seq(S) /\ roots \in Seq(S)
      BY DEF StackOK, WellFormed, AreRequirements
  <2>3. PICK m, n \in Nat : m = Len(roots) /\ n = Len(request.roots)
      BY <2>2
  <2>4. /\ m >= 1 /\ m <= n /\ Len(roots') = m - 1 /\ Head(roots) = roots[1]
        /\ DOMAIN roots = 1 .. m
      BY <2>1, <2>2, <2>3 DEF StackOK, EndOf
  <2>5. Head(roots) = request.roots[1 + (n - m)]
    <3>1. \A i \in DOMAIN roots : roots[i] = request.roots[i + (n - m)]
        BY <2>3 DEF StackOK, EndOf
    <3> QED
        BY <2>4, <3>1
  <2>6. ASSUME outcome' # "error", NEW i \in 1 .. n - (m - 1), request.roots[i].kind = "required"
        PROVE  request.roots[i].name \in visited
    <3>1. CASE i \in 1 .. n - m
        BY <2>1, <2>3, <2>6, <3>1 DEF RootsOK
    <3>2. CASE i = 1 + (n - m)
      <4>1. answer = "true"
          BY <1>3, <2>1, <2>5, <2>6, <3>2 DEF RootReturns
      <4> QED
          BY <2>1, <2>5, <2>6, <3>2, <4>1 DEF RootsOK
    <3>3. i \in 1 .. n - m \/ i = 1 + (n - m)
        BY <2>3, <2>4, <2>6
    <3> QED
        BY <3>1, <3>2, <3>3
  <2> QED
      BY <1>1, <1>3, <2>1, <2>3, <2>4, <2>6 DEF RootsOK, RootReturns
<1>4. ASSUME Done
      PROVE  RootsOK'
    BY <1>1, <1>4 DEF Done, RootsOK
<1>5. ASSUME Unavailable \/ Conflict
      PROVE  RootsOK'
  <2>1. UNCHANGED <<roots, outcome, stack>> /\ Calling /\ Say(~Required)
      BY <1>5 DEF Unavailable, Conflict
  <2>2. stack = <<>> /\ Head(roots).kind = "required" => Required
      BY <2>1 DEF RootOK, AtRoot, Required
  <2> QED
      BY <1>2, <2>1, <2>2 DEF Say
<1>6. ASSUME NEW p \in request.providers, Visited(p) \/ Cycle(p)
      PROVE  RootsOK'
  <2>1. /\ UNCHANGED <<roots, outcome, stack>> /\ Calling /\ p.name = call.name
        /\ answer' = "true" => p.name \in visited
      BY <1>6 DEF Visited, Cycle, Agreed, Choose, Fits, Say
  <2>2. stack = <<>> => call.name = Head(roots).name
      BY <2>1 DEF RootOK, AtRoot
  <2> QED
      BY <1>1, <1>2, <2>1, <2>2
<1>7. ASSUME VisitRoot \/ VisitNext \/ GiveUp \/ DependencyReturns
             \/ \E p \in request.providers : Enter(p)
      PROVE  RootsOK'
  <2>1. UNCHANGED <<roots, outcome>> /\ answer' # "true"
      BY <1>7 DEF VisitRoot, VisitNext, GiveUp, DependencyReturns, Enter, Agreed,
                  StackOK
  <2> QED
      BY <1>2, <2>1
<1>8. ASSUME Complete
      PROVE  RootsOK'
  <2>1. /\ UNCHANGED <<roots, outcome>> /\ stack # <<>> /\ stack' = Tail(stack)
        /\ visited' = visited \cup {Top.name}
      BY <1>8 DEF Complete
  <2>2. DOMAIN stack = 1 .. Len(stack) /\ Len(stack) \in Nat /\ stack \in Seq(Visits)
      BY FramesTyped DEF StackOK
  <2>3. stack' = <<>> => Top = stack[Len(stack)]
    <3>1. Len(Tail(stack)) = Len(stack) - 1 /\ Top = stack[1]
        BY <2>1, <2>2, Pop DEF Top
    <3>2. stack' = <<>> => Len(stack) = 1
      <4>1. stack' = <<>> => Len(Tail(stack)) = 0
        <5>1. Len(<<>>) = 0
            OBVIOUS
        <5> QED
            BY <2>1, <5>1, Zenon
      <4>2. PICK n \in Nat : n = Len(stack)
          BY <2>2
      <4> QED
          BY <3>1, <4>1, <4>2
    <3> QED
        BY <3>1, <3>2
  <2>4. stack' = <<>> => Top.name = Head(roots).name
      BY <2>1, <2>3 DEF RootOK, AtRoot
  <2> QED
      BY <1>2, <2>1, <2>4
<1>9. CASE UNCHANGED resolverVars
    BY <1>2, <1>9 DEF resolverVars, RootsOK
<1>10. CASE ResolverNext
    BY <1>10, <1>3, <1>4, <1>5, <1>6, <1>7, <1>8 DEF ResolverNext
<1> QED
    BY <1>9, <1>10

LEMMA PlainStep ==
    ASSUME ResolverInv, [ResolverNext]_resolverVars
    PROVE  PlainOK'
<1> USE DEF ResolverInv
<1>1. request' = request
    BY VisitedStep
<1> SUFFICES ASSUME OnlyRequired(request)
             PROVE  /\ Calling' => Strict(call')
                    /\ \A i \in DOMAIN stack' : Strict(stack'[i])
                    /\ visited' \subseteq firm'
    BY <1>1 DEF PlainOK, OnlyRequired
<1>2. /\ Calling => Strict(call)
      /\ \A i \in DOMAIN stack : Strict(stack[i])
      /\ visited \subseteq firm
    BY DEF PlainOK
<1>3. DOMAIN stack = 1 .. Len(stack) /\ Len(stack) \in Nat /\ stack \in Seq(Visits)
    BY FramesTyped DEF StackOK
<1>4. CASE UNCHANGED <<stack, visited, firm>> /\ (Calling' => UNCHANGED call)
    BY <1>2, <1>4 DEF Calling
<1>5. CASE VisitRoot
  <2>1. Head(roots) \in ToSet(request.roots)
      BY <1>5 DEF VisitRoot, StackOK
  <2>2. Head(roots).kind = "required"
      BY <2>1 DEF OnlyRequired
  <2> QED
      BY <1>2, <1>5, <2>2 DEF VisitRoot, Strict
<1>6. CASE VisitNext
  <2>1. /\ Top = stack[1] /\ 1 \in DOMAIN stack /\ Top \in Visits /\ Top.todo # <<>>
      BY <1>6, TopFrame DEF VisitNext
  <2>2. Head(Top.todo) \in Deps
      BY <2>1 DEF Visits
  <2>3. Head(Top.todo).kind = "required" /\ Strict(Top)
      BY <1>2, <2>1, <2>2 DEF OnlyRequired, Deps
  <2> QED
      BY <1>2, <1>6, <2>3 DEF VisitNext, Strict
<1>7. CASE \E p \in request.providers : Enter(p)
  <2>1. PICK p \in request.providers : Enter(p)
      BY <1>7
  <2>2. PICK f : f = [name |-> p.name, deps |-> p.deps, todo |-> p.deps, kind |-> call.kind,
                      inherited |-> call.inherited]
      OBVIOUS
  <2>3. f \in Visits /\ f.kind = call.kind /\ f.inherited = call.inherited
      BY <2>1, <2>2, Given DEF Enter, Agreed, Visits, StackOK
  <2>4. /\ stack' = <<f>> \o stack /\ Calling /\ call' = Nothing
        /\ UNCHANGED <<visited, firm>>
      BY <2>1, <2>2 DEF Enter, Agreed
  <2>5. /\ stack'[1] = f
        /\ \A i \in DOMAIN stack' \ {1} : i - 1 \in DOMAIN stack /\ stack'[i] = stack[i - 1]
      BY <1>3, <2>3, <2>4, Push
  <2>6. Strict(f)
      BY <1>2, <2>3, <2>4 DEF Strict
  <2> QED
      BY <1>2, <2>4, <2>5, <2>6 DEF Calling
<1>8. CASE GiveUp \/ Complete
  <2>1. stack # <<>> /\ stack' = Tail(stack) /\ ~Calling /\ call' = call
      BY <1>8 DEF GiveUp, Complete, StackOK
  <2>2. \A i \in DOMAIN stack' : i + 1 \in DOMAIN stack /\ stack'[i] = stack[i + 1]
      BY <1>3, <2>1, Pop
  <2>3. Strict(Top)
      BY <1>2, <2>1, TopFrame
  <2>4. visited' \subseteq firm'
      BY <1>2, <1>8, <2>3 DEF GiveUp, Complete, Strict
  <2> QED
      BY <1>2, <2>1, <2>2, <2>4 DEF Calling
<1>9. CASE DependencyReturns
  <2>1. /\ Top = stack[1] /\ 1 \in DOMAIN stack /\ Top \in Visits /\ Top.todo # <<>>
        /\ stack # <<>> /\ UNCHANGED <<call, visited, firm>>
      BY <1>9, TopFrame DEF DependencyReturns, AnswerOK
  <2>2. PICK g \in Visits : g = [Top EXCEPT !.todo = Tail(@)]
      BY <2>1, NextDep
  <2>3. /\ stack' = <<g>> \o Tail(stack)
        /\ g.kind = stack[1].kind /\ g.inherited = stack[1].inherited
      BY <1>9, <2>1, <2>2 DEF DependencyReturns, Visits
  <2>4. /\ DOMAIN stack' = DOMAIN stack /\ stack'[1] = g
        /\ \A i \in DOMAIN stack \ {1} : stack'[i] = stack[i]
      BY <1>3, <2>1, <2>3, Turn
  <2>5. Strict(g)
      BY <1>2, <2>1, <2>3 DEF Strict
  <2>6. Calling' => Strict(call')
      BY <1>2, <2>1 DEF Calling
  <2> QED
      BY <1>2, <2>1, <2>4, <2>5, <2>6
<1>10. CASE UNCHANGED resolverVars
    BY <1>4, <1>10 DEF resolverVars
<1>11. CASE RootReturns \/ Done \/ Unavailable \/ Conflict
            \/ \E p \in request.providers : Visited(p) \/ Cycle(p)
    BY <1>4, <1>11 DEF RootReturns, Done, Unavailable, Conflict, Visited, Cycle,
                       Calling
<1>12. CASE ResolverNext
    BY <1>12, <1>5, <1>6, <1>7, <1>8, <1>9, <1>11 DEF ResolverNext
<1> QED
    BY <1>10, <1>12

-----------------------------------------------------------------------------
(* What follows. *)

LEMMA InitInv ==
    ASSUME ResolverInit
    PROVE  ResolverInv
<1>1. /\ WellFormed(request) /\ roots \in Seq(ToSet(request.roots))
      /\ EndOf(roots, request.roots)
  <2>1. roots \in Seq(ToSet(request.roots)) /\ WellFormed(request) /\ request.roots = roots
      BY RequestsAssumption DEF ResolverInit, WellFormed, AreRequirements
  <2>2. Len(roots) - Len(roots) = 0 /\ \A i \in DOMAIN roots : i + 0 = i
      BY <2>1
  <2> QED
      BY <2>1, <2>2 DEF EndOf
<1>2. stack \in Seq(Visits) /\ order \in Seq(visited)
    BY DEF ResolverInit
<1>3. ~Calling
    BY DEF ResolverInit, Calling
<1>4. StackOK
    BY <1>1, <1>2, <1>3 DEF ResolverInit, StackOK
<1>5. SelectedOK /\ FirmOK /\ AnswerOK
    BY DEF ResolverInit, SelectedOK, FirmOK, AnswerOK
<1>6. DOMAIN stack = {} /\ DOMAIN order = {}
    BY DEF ResolverInit
<1>7. OrderOK /\ FramesOK
    BY <1>2, <1>6 DEF ResolverInit, OrderOK, FramesOK
<1>8. RootOK /\ CycleOK /\ PlainOK
    BY <1>3, <1>6 DEF ResolverInit, RootOK, CycleOK, Explained, GivenUp, CyclesAreReal, PlainOK
<1>9. RootsOK
  <2>1. PICK n \in Nat : n = Len(request.roots) /\ roots = request.roots
      BY <1>1 DEF ResolverInit
  <2>2. 1 .. n - n = {} /\ answer = "none" /\ outcome = "running"
      BY DEF ResolverInit
  <2> QED
      BY <2>1, <2>2 DEF RootsOK
<1> QED
    BY <1>4, <1>5, <1>7, <1>8, <1>9 DEF ResolverInv

LEMMA ResolverInvariant == ResolverSpec => []ResolverInv
<1>1. ResolverInv /\ [ResolverNext]_resolverVars => ResolverInv'
    BY StackStep, SelectedStep, OrderStep, FramesStep, AnswerStep, FirmStep, RootStep,
       CycleStep, RootsStep, PlainStep
       DEF ResolverInv
<1> QED
    BY InitInv, <1>1, PTL DEF ResolverSpec

\* The walk keeps its types: a frame names a provider that was selected, and what it
\* has left is an end of its dependencies (module_resolver.cpp).
THEOREM ResolverTypeCorrect == ResolverSpec => []ResolverTypeOK
<1>1. ASSUME ResolverInv
      PROVE  ResolverTypeOK
  <2> USE <1>1 DEF ResolverInv
  <2>1. IsSuffix(roots, request.roots)
    <3>1. request.roots \in Seq(ToSet(request.roots)) /\ roots \in Seq(ToSet(request.roots))
          /\ EndOf(roots, request.roots)
        BY DEF StackOK, WellFormed, AreRequirements
    <3> QED
        BY <3>1, EndOfSuffix
  <2>2. ToSet(order) = visited
      BY DEF OrderOK, ToSet
  <2>3. ASSUME NEW i \in DOMAIN stack
        PROVE  /\ [name |-> stack[i].name, deps |-> stack[i].deps, kind |-> stack[i].kind,
                   inherited |-> stack[i].inherited] \in Frames
               /\ IsSuffix(stack[i].todo, stack[i].deps)
    <3>1. stack \in Seq(Visits)
        BY DEF StackOK
    <3>2. PICK f \in Visits : f = stack[i]
        BY <3>1
    <3>3. FrameOK(f)
        BY <3>2 DEF FramesOK
    <3>4. f.todo \in Seq(Deps) /\ f.deps \in Seq(Deps)
        BY Given DEF Visits
    <3>5. IsSuffix(f.todo, f.deps)
        BY <3>3, <3>4, EndOfSuffix DEF FrameOK
    <3> QED
        BY <3>2, <3>5 DEF Visits, Frames
  <2> QED
      BY <2>1, <2>2, <2>3 DEF ResolverTypeOK, StackOK, SelectedOK
<1> QED
    BY <1>1, ResolverInvariant, PTL

\* A module that was completed for a required chain of requirements is in the load
\* order once, behind all it requires, for any graph of modules and any choice among
\* providers of one rank (visit(), module_resolver.cpp).
THEOREM AlwaysRequiredFirst == ResolverSpec => []RequiredFirst
<1>1. ResolverInv => RequiredFirst
    BY DEF ResolverInv, OrderOK, FirmOK, RequiredFirst
<1> QED
    BY <1>1, ResolverInvariant, PTL

\* A cycle is reported only for a module from which needs lead into one, for any graph
\* of modules: also when it is found in `visiting` long after it was given up
\* (visit(), module_resolver.cpp).
THEOREM CyclesAlwaysReal == ResolverSpec => []CyclesAreReal
<1>1. ResolverInv => CyclesAreReal
    BY DEF ResolverInv, CycleOK
<1> QED
    BY <1>1, ResolverInvariant, PTL

\* A plan has every required root, whatever else was left out: the visit() of one
\* answers "true" for nothing but a module that is in the order (run(),
\* module_resolver.cpp).
THEOREM PlansHoldRoots == ResolverSpec => []RootsInPlan
<1>1. ASSUME ResolverInv
      PROVE  RootsInPlan
  <2> USE <1>1 DEF ResolverInv
  <2> SUFFICES ASSUME outcome = "plan", NEW i \in DOMAIN request.roots,
                      request.roots[i].kind = "required"
               PROVE  request.roots[i].name \in ToSet(order)
      BY DEF RootsInPlan, Names
  <2>1. roots = <<>>
      BY DEF RootsOK
  <2>2. PICK S : request.roots \in Seq(S)
      BY DEF StackOK, WellFormed, AreRequirements
  <2>3. i \in 1 .. Len(request.roots) - Len(roots)
      BY <2>1, <2>2
  <2> QED
      BY <2>3 DEF RootsOK, OrderOK
<1> QED
    BY <1>1, ResolverInvariant, PTL

\* Where no requirement is optional, a plan has, with each module, all it requires.  With
\* optional ones this is false, as RequiredComplete is (visit(), module_resolver.cpp).
THEOREM PlainPlansClosed == ResolverSpec => [](OnlyRequired(request) => ClosedPlan)
<1>1. ASSUME ResolverInv, OnlyRequired(request)
      PROVE  ClosedPlan
  <2> USE <1>1 DEF ResolverInv
  <2> SUFFICES ASSUME NEW m \in ToSet(order)
               PROVE  Needs(m, selected, Kinds) \subseteq ToSet(order)
      BY DEF ClosedPlan
  <2>1. m \in firm
      BY DEF OrderOK, PlainOK, ToSet
  <2>2. Needs(m, selected, {"required"}) \subseteq ToSet(order)
      BY <2>1 DEF FirmOK, Before, ToSet
  <2>3. ASSUME NEW p \in selected, NEW i \in DOMAIN p.deps
        PROVE  p.deps[i].kind = "required"
    <3>1. p \in request.providers /\ p.deps[i] \in ToSet(p.deps)
        BY DEF SelectedOK, ToSet
    <3> QED
        BY <3>1 DEF OnlyRequired
  <2>4. \A p \in selected : Names(p.deps, Kinds) \subseteq Names(p.deps, {"required"})
      BY <2>3 DEF Names
  <2> QED
      BY <2>2, <2>4 DEF Needs
<1> QED
    BY <1>1, ResolverInvariant, PTL
=============================================================================
