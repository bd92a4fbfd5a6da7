------------------------- MODULE TrustedRunsProofs -------------------------
(***************************************************************************)
(* Proofs about TrustedRuns for any processes, scripts and permissions, and *)
(* any number of commands, failures and kills: type correctness, that a     *)
(* stored approval is the user's, that a script stays within what was        *)
(* approved, and that the store is what the completed commands say.          *)
(***************************************************************************)
EXTENDS TrustedRuns, TLAPS

Processes == {Idle} \cup Run \cup Edit

\* TrustTypeOK with the domain of proc, which EXCEPT relies on.
Typed ==
    /\ file \in [Paths -> Contents]
    /\ trust \in Stores /\ book \in Stores
    /\ proc \in [Runners -> Processes]
    /\ decided \subseteq Scripts \X SUBSET Permissions
    /\ crossed \in BOOLEAN

\* Every record of a store is one of the decisions.
Known(store, decisions) ==
    \A s \in Scripts : store[s] # NoRecord => <<s, store[s]>> \in decisions

\* What a process that runs a script may have obtained so far.
Bounded(r) ==
    /\ r.dynamic \subseteq r.static \cup IF r.approved THEN r.declared ELSE {}
    /\ ~r.interactive => r.allowed = {} /\ ~r.yes
    /\ r.at = "hash" => ~r.approved
    /\ r.at = "ask" => r.interactive
    /\ r.at \in {"write", "rename"} => r.interactive \/ r.flag = "trust"
    /\ r.at \notin {"start", "running", "watching"} => r.from = "user"
    /\ r.approved /\ r.from = "user" /\ r.flag = "none" => r.interactive

\* A run that was approved from a record was decided upon.
Decided(r, decisions) ==
    r.from = "record" =>
        \E d \in decisions : d[1] = r.script /\ r.declared \subseteq d[2]

\* What a book says after the command of a process, as Entered.
EnteredIn(b, e) ==
    IF "erase" \in DOMAIN e
    THEN [s \in Scripts |-> IF s \in e.erase THEN NoRecord ELSE b[s]]
    ELSE addOrUpdate(b, e.script, e.declared)

\* A copy of the store that nobody has outdated is the book, with the change of
\* the command that holds it.
Fresh(e, b) ==
    /\ e.at \in {"write", "rename"} => e.store = EnteredIn(b, e)
    /\ e.at = "ask" => e.store = IF "erase" \in DOMAIN e THEN EnteredIn(b, e) ELSE b

\* What holds of every process, given the decisions, the book, and whether a
\* save was lost.
Sound(e, decisions, b, m) ==
    e # Idle =>
        /\ Known(e.store, decisions)
        /\ e \in Run => Bounded(e) /\ Decided(e, decisions)
        /\ m \/ e.stale \/ Fresh(e, b)

IInv ==
    /\ Typed
    /\ Known(trust, decided)
    /\ crossed \/ trust = book
    /\ \A p \in Runners : Sound(proc[p], decided, book, crossed)

-----------------------------------------------------------------------------
\* The three kinds of process are told apart by their fields.
LEMMA Kinds ==
    ASSUME NEW r
    PROVE  /\ r \in Run => "erase" \notin DOMAIN r /\ r # Idle /\ r.at # "idle"
           /\ r \in Edit => "erase" \in DOMAIN r /\ r # Idle /\ r.at # "idle" /\ r \notin Run
           /\ "erase" \notin DOMAIN Idle /\ Idle.at = "idle" /\ Idle \notin Run
<1>1. ASSUME r \in Run
      PROVE  "erase" \notin DOMAIN r /\ r # Idle /\ r.at # "idle"
  BY <1>1 DEF Run, Idle
<1>2. ASSUME r \in Edit
      PROVE  "erase" \in DOMAIN r /\ r # Idle /\ r.at # "idle" /\ r \notin Run
  BY <1>2 DEF Edit, Run, Idle
<1>3. "erase" \notin DOMAIN Idle /\ Idle.at = "idle" /\ Idle \notin Run
  BY DEF Idle, Run
<1> QED
  BY <1>1, <1>2, <1>3

-----------------------------------------------------------------------------
(* Types *)

LEMMA EmptyStore == Empty \in Stores
  BY DEF Empty, Stores

LEMMA UpdatedStore ==
    ASSUME NEW store \in Stores, NEW s \in Scripts, NEW d \in SUBSET Permissions
    PROVE  addOrUpdate(store, s, d) \in Stores
  BY DEF addOrUpdate, Stores

\* What a script declares is made of permissions.
LEMMA DeclaredPermissions ==
    ASSUME NEW r \in Run
    PROVE  r.declared \in SUBSET Permissions /\ r.static \in SUBSET Permissions
  BY SetsAssumption DEF Run

\* A process that becomes one of the known kinds keeps the processes typed.
LEMMA Becomes ==
    ASSUME Typed, NEW p \in Runners, NEW state \in Processes, Become(p, state)
    PROVE  /\ proc' \in [Runners -> Processes]
           /\ proc'[p] = state
           /\ \A q \in Runners \ {p} : proc'[q] = proc[q]
  BY DEF Typed, Become

\* A process that is at a step of a run or of an edit is one.
LEMMA RunKind ==
    ASSUME Typed, NEW p \in Runners, proc[p].at # "idle", ~Edits(p)
    PROVE  proc[p] \in Run
  BY Kinds DEF Typed, Processes, Edits, Idle

LEMMA EditKind ==
    ASSUME Typed, NEW p \in Runners, Edits(p)
    PROVE  proc[p] \in Edit
  BY Kinds DEF Typed, Processes, Edits

LEMMA RunningKind ==
    ASSUME Typed, NEW p \in Runners, At(p, "running")
    PROVE  proc[p] \in Run
<1>1. proc[p] \notin Edit
  BY DEF At, Edit
<1> QED
  BY <1>1 DEF Typed, Processes, At, Idle

\* A run that starts after it was approved.
LEMMA ApprovedRun ==
    ASSUME NEW r \in Run
    PROVE  Approved(r) \in Run
  BY EmptyStore DEF Approved, Run

\* A run whose file was hashed, as Hash.
Hashed(r, contents) ==
    [r EXCEPT !.at = IF r.flag = "allow" THEN "start" ELSE "load",
              !.approved = (r.flag = "allow"), !.script = <<r.script[1], contents>>]

LEMMA HashedRun ==
    ASSUME NEW r \in Run, NEW f \in [Paths -> Contents]
    PROVE  LET h == Hashed(r, f[r.script[1]])
           IN  /\ h \in Run /\ h.at \in {"start", "load"} /\ h.store = r.store
               /\ h.declared = r.declared /\ h.dynamic = r.dynamic /\ h.static = r.static
               /\ h.approved = (r.flag = "allow") /\ h.interactive = r.interactive
               /\ h.allowed = r.allowed /\ h.yes = r.yes
               /\ h.flag = r.flag /\ h.from = r.from
<1>1. <<r.script[1], f[r.script[1]]>> \in Scripts
  BY DEF Run, Scripts
<1> QED
  BY <1>1 DEF Hashed, Run

LEMMA TypedInit == ASSUME TrustInit PROVE Typed
  BY EmptyStore DEF TrustInit, Typed, Processes

LEMMA TypedStep == ASSUME Typed, [TrustNext]_trustVars PROVE Typed'
<1> USE DEF trustHistory
<1>0. Typed
  OBVIOUS
<1>1. CASE UNCHANGED trustVars
  BY <1>1 DEF trustVars, Typed
<1>17. ASSUME NEW path \in Paths, NEW contents \in Contents, Change(path, contents)
       PROVE  Typed'
  BY <1>17 DEF Change, Typed
<1>2. SUFFICES ASSUME NEW p \in Runners,
                      Step(p)
               PROVE  Typed'
  BY <1>1, <1>17 DEF TrustNext
<1> Idle \in Processes
  BY DEF Processes
<1>3. CASE StartRun(p)
  <2>1. PICK path \in Paths, f \in Flags, i \in BOOLEAN, g \in Grants, w \in BOOLEAN :
          StartCommand(p,
                   [at |-> IF Declares[file[path]] = {} THEN "start" ELSE "hash",
                    script |-> <<path, file[path]>>, declared |-> Declares[file[path]],
                    flag |-> f, interactive |-> i, static |-> g, watch |-> w,
                    store |-> Empty, approved |-> FALSE,
                    dynamic |-> {}, prompted |-> FALSE, yes |-> FALSE, allowed |-> {},
                    from |-> "user", stale |-> FALSE, text |-> file[path]])
    BY <1>3 DEF StartRun
  <2>5. /\ file[path] \in Contents
        /\ Declares[file[path]] \in SUBSET Permissions /\ g \in SUBSET Permissions
        /\ <<path, file[path]>> \in Scripts
    BY <1>0, SetsAssumption DEF Typed, Scripts
  <2> DEFINE r == [at |-> IF Declares[file[path]] = {} THEN "start" ELSE "hash",
                   script |-> <<path, file[path]>>, declared |-> Declares[file[path]],
                   flag |-> f, interactive |-> i, static |-> g, watch |-> w,
                   store |-> Empty, approved |-> FALSE,
                   dynamic |-> {}, prompted |-> FALSE, yes |-> FALSE, allowed |-> {},
                   from |-> "user", stale |-> FALSE, text |-> file[path]]
  <2>2. r \in Run
    BY <2>5, EmptyStore DEF Run
  <2> QED
    BY <2>1, <2>2, Becomes DEF StartCommand, Typed, Processes
<1>4. CASE StartEdit(p)
  <2>1. PICK e \in {{s} : s \in Scripts} \cup {Scripts} :
          StartCommand(p, [at |-> "load", erase |-> e, store |-> Empty, stale |-> FALSE])
    BY <1>4 DEF StartEdit
  <2>2. [at |-> "load", erase |-> e, store |-> Empty, stale |-> FALSE] \in Edit
    BY EmptyStore DEF Edit
  <2> QED
    BY <2>1, <2>2, Becomes DEF StartCommand, Typed, Processes
<1>5. CASE LoadForRun(p)
  <2> DEFINE r == proc[p]
  <2>1. r \in Run
    BY <1>5, RunKind DEF LoadForRun, At
  <2>2. addOrUpdate(trust, r.script, r.declared) \in Stores
    BY <2>1, UpdatedStore, DeclaredPermissions DEF Run, Typed
  <2>3. [r EXCEPT !.at = "start", !.approved = TRUE, !.from = "record"] \in Run
    BY <2>1 DEF Run
  <2>4. [[r EXCEPT !.store = trust] EXCEPT !.at = "write",
              !.store = addOrUpdate(trust, r.script, r.declared)] \in Run
    BY <2>1, <2>2 DEF Run, Typed
  <2>5. [[r EXCEPT !.store = trust] EXCEPT !.at = "ask"] \in Run
    BY <2>1 DEF Run, Typed
  <2>6. decided' \subseteq Scripts \X SUBSET Permissions
    BY <1>5, <2>1, DeclaredPermissions DEF LoadForRun, Typed, Run
  <2>7. PICK state \in Processes : Become(p, state)
    BY <1>5, <2>3, <2>4, <2>5 DEF LoadForRun, Processes
  <2> QED
    BY <1>5, <2>6, <2>7, Becomes DEF LoadForRun, Typed
<1>6. CASE Answer(p)
  <2> DEFINE r == proc[p]
  <2>1. r \in Run
    BY <1>6, RunKind DEF Answer, At
  <2>2. addOrUpdate(r.store, r.script, r.declared) \in Stores
    BY <2>1, UpdatedStore, DeclaredPermissions DEF Run
  <2>3. [r EXCEPT !.at = "write", !.store = addOrUpdate(r.store, r.script, r.declared)] \in Run
    BY <2>1, <2>2 DEF Run
  <2>4. decided' \subseteq Scripts \X SUBSET Permissions
    BY <1>6, <2>1, DeclaredPermissions DEF Answer, Typed, Run
  <2>5. PICK state \in Processes : Become(p, state)
    BY <1>6, <2>1, <2>3, ApprovedRun DEF Answer, Processes
  <2> QED
    BY <1>6, <2>4, <2>5, Becomes DEF Answer, Typed
<1>7. CASE LoadForEdit(p)
  <2> DEFINE rest == [s \in Scripts |-> IF s \in proc[p].erase THEN NoRecord ELSE trust[s]]
  <2>1. proc[p] \in Edit /\ rest \in Stores
    BY <1>7, EditKind DEF LoadForEdit, Typed, Stores
  <2>2. [proc[p] EXCEPT !.at = IF proc[p].erase = Scripts THEN "ask" ELSE "write",
                        !.store = rest] \in Edit
    BY <2>1 DEF Edit
  <2>3. PICK state \in Processes : Become(p, state)
    BY <1>7, <2>2 DEF LoadForEdit, Processes
  <2> QED
    BY <1>7, <2>3, Becomes DEF LoadForEdit, Typed
<1>8. CASE Confirm(p)
  <2>1. proc[p] \in Edit
    BY <1>8, EditKind DEF Confirm
  <2>2. [proc[p] EXCEPT !.at = "write"] \in Processes
    BY <2>1 DEF Edit, Processes
  <2> QED
    BY <1>8, <2>2, Becomes DEF Confirm, Typed
<1>9. CASE WriteTemp(p)
  <2>1. proc[p] \in Run \cup Edit
    BY <1>9 DEF WriteTemp, At, Typed, Processes, Idle
  <2>2. [proc[p] EXCEPT !.at = "rename"] \in Processes
    BY <2>1 DEF Edit, Run, Processes
  <2> QED
    BY <1>9, <2>2, Becomes DEF WriteTemp, Typed
<1>10. CASE Rename(p)
  <2>1. proc[p] \in Run \cup Edit
    BY <1>10 DEF Rename, At, Typed, Processes, Idle
  <2>2. proc[p].store \in Stores /\ proc[p].stale \in BOOLEAN
    BY <2>1 DEF Run, Edit
  <2>3. Approved(proc[p]) \in Processes \/ Edits(p)
    BY <2>1, ApprovedRun, Kinds DEF Edits, Processes
  <2>4. \A q \in Runners : proc[q].at \in {"ask", "write", "rename"} =>
                           [proc[q] EXCEPT !.stale = TRUE] \in Processes
    <3>1. SUFFICES ASSUME NEW q \in Runners, proc[q] \in Run \cup Edit
                   PROVE  [proc[q] EXCEPT !.stale = TRUE] \in Processes
      BY DEF Typed, Processes, Idle
    <3>2. CASE proc[q] \in Run
      BY <3>2 DEF Run, Processes
    <3>3. CASE proc[q] \in Edit
      BY <3>3 DEF Edit, Processes
    <3> QED
      BY <3>1, <3>2, <3>3
  <2>5. proc' \in [Runners -> Processes]
    BY <1>10, <2>3, <2>4 DEF Rename, Typed
  <2>6. book' \in Stores
    <3>1. CASE Edits(p)
      BY <1>10, <3>1 DEF Rename, Entered, Typed, Stores
    <3>2. CASE ~Edits(p)
      <4>1. proc[p] \in Run
        BY <2>1, <3>2, Kinds DEF Edits
      <4> QED
        BY <1>10, <3>2, <4>1, UpdatedStore, DeclaredPermissions DEF Rename, Entered, Typed, Run
    <3> QED
      BY <3>1, <3>2
  <2> QED
    BY <1>10, <2>2, <2>5, <2>6 DEF Rename, Typed
<1>11. CASE SaveFails(p)
  BY <1>11, Becomes DEF SaveFails, Typed
<1>12. ASSUME NEW items \in Asks, RequestPermissions(p, items)
       PROVE  Typed'
  <2> DEFINE r == proc[p]
             denied == {i \in DOMAIN Order : Order[i] \in items \ Envelope(r)}
             granted == {Order[i] : i \in {j \in DOMAIN Order :
                        Order[j] \in items /\ \A k \in denied : j < k}}
  <2>1. r \in Run
    BY <1>12, RunningKind DEF RequestPermissions
  <2>2. granted \subseteq Permissions
    BY DEF Permissions
  <2>3. [r EXCEPT !.dynamic = @ \cup granted] \in Processes
    <3> HIDE DEF granted
    <3> QED
      BY <2>1, <2>2 DEF Run, Processes
  <2> QED
    BY <1>12, <2>3, Becomes DEF RequestPermissions, Typed
<1>13. ASSUME NEW x \in Permissions, AuthorizeConsole(p, x)
       PROVE  Typed'
  <2>1. proc[p] \in Run
    BY <1>13, RunningKind DEF AuthorizeConsole
  <2>2. PICK yes \in BOOLEAN : Become(p, [proc[p] EXCEPT !.prompted = TRUE, !.yes = yes])
    BY <1>13 DEF AuthorizeConsole
  <2>3. [proc[p] EXCEPT !.prompted = TRUE, !.yes = yes] \in Processes
    BY <2>1 DEF Run, Processes
  <2> QED
    BY <1>13, <2>2, <2>3, Becomes DEF AuthorizeConsole, Typed
<1>14. ASSUME NEW x \in Permissions, AuthorizeEach(p, x)
       PROVE  Typed'
  <2>1. proc[p] \in Run
    BY <1>14, RunningKind DEF AuthorizeEach
  <2>2. [proc[p] EXCEPT !.allowed = @ \cup {x}] \in Processes
    BY <2>1 DEF Run, Processes
  <2> QED
    BY <1>14, <2>2, Becomes DEF AuthorizeEach, Typed
<1>18. CASE Hash(p)
  <2>1. proc[p] \in Run
    <3>1. proc[p] \notin Edit
      BY <1>18 DEF Hash, At, Edit
    <3> QED
      BY <1>18, <3>1 DEF Typed, Processes, Hash, At, Idle
  <2>2. Hashed(proc[p], file[proc[p].script[1]]) \in Processes
    BY <2>1, HashedRun DEF Typed, Processes
  <2>3. Become(p, Hashed(proc[p], file[proc[p].script[1]]))
    BY <1>18 DEF Hash, Hashed
  <2> QED
    BY <1>18, <2>2, <2>3, Becomes DEF Hash, Typed
<1>19. CASE FirstRun(p) \/ Rerun(p)
  <2>1. proc[p] \in Run /\ Execute(p)
    <3>1. proc[p] \notin Edit
      BY <1>19 DEF FirstRun, Rerun, At, Edit
    <3> QED
      BY <1>19, <3>1 DEF Typed, Processes, FirstRun, Rerun, At, Idle
  <2>2. [proc[p] EXCEPT !.at = "running", !.text = file[proc[p].script[1]]] \in Processes
    <3>1. file[proc[p].script[1]] \in Contents
      BY <2>1 DEF Typed, Run, Scripts
    <3> QED
      BY <2>1, <3>1 DEF Run, Processes
  <2> QED
    BY <2>1, <2>2, Becomes DEF Execute, Typed
<1>15. CASE Exit(p)
  <2>1. proc[p] \in Run
    BY <1>15, RunningKind DEF Exit
  <2>2. [proc[p] EXCEPT !.at = "watching", !.dynamic = {}, !.allowed = {},
                        !.prompted = FALSE, !.yes = FALSE] \in Processes
    BY <2>1 DEF Run, Processes
  <2> QED
    BY <1>15, <2>2, Becomes DEF Exit, Typed
<1>16. CASE Killed(p)
  BY <1>16, Becomes DEF Killed, Typed
<1> QED
  BY <1>2, <1>3, <1>4, <1>5, <1>6, <1>7, <1>8, <1>9, <1>10, <1>11, <1>12, <1>13, <1>14,
     <1>15, <1>16, <1>18, <1>19 DEF Step

-----------------------------------------------------------------------------
(* Soundness *)

LEMMA KnownEmpty == ASSUME NEW D PROVE Known(Empty, D)
  BY DEF Known, Empty

\* Decisions are only added.
LEMMA KnownKept ==
    ASSUME NEW store, NEW D, NEW E, Known(store, D), D \subseteq E
    PROVE  Known(store, E)
  BY DEF Known

\* A record that is added is a decision.
LEMMA KnownUpdated ==
    ASSUME NEW store \in Stores, NEW D, Known(store, D), NEW s \in Scripts, NEW d
    PROVE  Known(addOrUpdate(store, s, d), D \cup {<<s, d>>})
  BY DEF Known, addOrUpdate, Stores

\* A record that is erased is none.
LEMMA KnownErased ==
    ASSUME NEW store \in Stores, NEW D, Known(store, D), NEW erase
    PROVE  Known([s \in Scripts |-> IF s \in erase THEN NoRecord ELSE store[s]], D)
  BY DEF Known

LEMMA SoundKept ==
    ASSUME NEW e, NEW D, NEW E, NEW b, NEW m, Sound(e, D, b, m), D \subseteq E
    PROVE  Sound(e, E, b, m)
<1>1. e # Idle => Known(e.store, E)
  BY KnownKept DEF Sound
<1>2. Decided(e, D) => Decided(e, E)
  BY DEF Decided
<1> QED
  BY <1>1, <1>2 DEF Sound

LEMMA SoundIdle == ASSUME NEW D, NEW b, NEW m PROVE Sound(Idle, D, b, m)
  BY DEF Sound

\* A step that changes one process, and decides at most, keeps the invariant when
\* what the process becomes is sound.
LEMMA OneProcess ==
    ASSUME IInv, Typed', NEW p \in Runners, NEW state \in Processes, Become(p, state),
           UNCHANGED <<trust, book, crossed>>, decided \subseteq decided',
           Sound(state, decided', book, crossed)
    PROVE  IInv'
<1>1. proc'[p] = state /\ \A q \in Runners \ {p} : proc'[q] = proc[q]
  BY Becomes DEF IInv
<1>2. Known(trust', decided')
  BY KnownKept DEF IInv
<1>3. ASSUME NEW q \in Runners
      PROVE  Sound(proc'[q], decided', book', crossed')
  <2>1. CASE q = p
    BY <2>1, <1>1
  <2>2. CASE q # p
    <3>1. Sound(proc[q], decided, book, crossed)
      BY DEF IInv
    <3> QED
      BY <2>2, <3>1, <1>1, SoundKept
  <2> QED
    BY <2>1, <2>2
<1> QED
  BY <1>2, <1>3 DEF IInv

LEMMA SoundRun ==
    ASSUME IInv, NEW p \in Runners, proc[p] \in Run
    PROVE  /\ Known(proc[p].store, decided)
           /\ Bounded(proc[p])
           /\ Decided(proc[p], decided)
           /\ crossed \/ proc[p].stale \/ Fresh(proc[p], book)
  BY Kinds DEF IInv, Sound

LEMMA SoundEdit ==
    ASSUME IInv, NEW p \in Runners, proc[p] \in Edit
    PROVE  /\ Known(proc[p].store, decided)
           /\ crossed \/ proc[p].stale \/ Fresh(proc[p], book)
  BY Kinds DEF IInv, Sound

\* A run is approved by a record that the store holds.
LEMMA ApprovedByRecord ==
    ASSUME IInv, NEW p \in Runners, proc[p] \in Run, At(p, "load"),
           Exact(trust, proc[p].script, proc[p].declared)
    PROVE  Sound([proc[p] EXCEPT !.at = "start", !.approved = TRUE, !.from = "record"],
                 decided, book, crossed)
<1> DEFINE r == proc[p]
           state == [r EXCEPT !.at = "start", !.approved = TRUE, !.from = "record"]
<1>1. /\ state.at = "start" /\ state.from = "record" /\ state.approved
      /\ state.store = r.store /\ state.script = r.script /\ state.declared = r.declared
      /\ state.dynamic = r.dynamic /\ state.static = r.static
      /\ state.interactive = r.interactive /\ state.allowed = r.allowed /\ state.yes = r.yes
  BY DEF Run
<1>2. <<r.script, trust[r.script]>> \in decided
  BY DEF Exact, IInv, Known, Run
<1> HIDE DEF state
<1>3. Decided(state, decided)
  <2>1. \E d \in decided : d[1] = r.script /\ r.declared \subseteq d[2]
    <3> WITNESS <<r.script, trust[r.script]>> \in decided
    <3> QED
      BY DEF Exact
  <2> QED
    BY <2>1, <1>1 DEF Decided
<1>4. Bounded(state)
  BY <1>1, SoundRun DEF Bounded
<1>5. Fresh(state, book)
  BY <1>1 DEF Fresh
<1> QED
  BY <1>1, <1>3, <1>4, <1>5, SoundRun DEF Sound, state

\* A run that is approved by the user.
LEMMA ApprovedByUser ==
    ASSUME IInv, NEW p \in Runners, proc[p] \in Run, proc[p].at \in {"ask", "write", "rename"},
           NEW D, NEW b, NEW m
    PROVE  Sound(Approved(proc[p]), D, b, m)
<1> DEFINE r == proc[p]
           state == Approved(r)
<1>1. /\ state.at = "start" /\ state.from = "user" /\ state.approved
      /\ state.store = Empty /\ state.declared = r.declared /\ state.flag = r.flag
      /\ state.dynamic = r.dynamic /\ state.static = r.static
      /\ state.interactive = r.interactive /\ state.allowed = r.allowed /\ state.yes = r.yes
  BY SoundRun DEF Run, Approved, Bounded
<1>2. Bounded(r)
  BY SoundRun
<1> HIDE DEF state
<1>3. Bounded(state)
  BY <1>1, <1>2 DEF Bounded
<1> QED
  BY <1>1, <1>3, KnownEmpty DEF Sound, Fresh, Decided, state

\* A run that is about to save its copy of the store with its own record.
LEMMA SavingRun ==
    ASSUME IInv, NEW p \in Runners, NEW r \in Run, Bounded(r), NEW store \in Stores,
           Known(store, decided), crossed \/ r.stale \/ store = book,
           r.interactive \/ r.flag = "trust", r.from = "user"
    PROVE  Sound([r EXCEPT !.at = "write", !.store = addOrUpdate(store, r.script, r.declared)],
                 decided \cup {<<r.script, r.declared>>}, book, crossed)
<1> DEFINE state == [r EXCEPT !.at = "write",
                              !.store = addOrUpdate(store, r.script, r.declared)]
<1>1. /\ state.at = "write" /\ state.from = "user" /\ state.approved = r.approved
      /\ state.store = addOrUpdate(store, r.script, r.declared)
      /\ state.script = r.script /\ state.declared = r.declared /\ state.flag = r.flag
      /\ state.dynamic = r.dynamic /\ state.static = r.static /\ state.stale = r.stale
      /\ state.interactive = r.interactive /\ state.allowed = r.allowed /\ state.yes = r.yes
      /\ "erase" \notin DOMAIN state
  BY DEF Run
<1> HIDE DEF state
<1>2. Known(state.store, decided \cup {<<r.script, r.declared>>})
  BY <1>1, KnownUpdated DEF Run
<1>3. Bounded(state)
  BY <1>1 DEF Bounded
<1>4. crossed \/ state.stale \/ Fresh(state, book)
  BY <1>1 DEF Fresh, EnteredIn
<1> QED
  BY <1>1, <1>2, <1>3, <1>4 DEF Sound, Decided, state

\* What requestPermissions() grants is inside the envelope: the first item that is
\* not ends it.
LEMMA GrantedWithinEnvelope ==
    ASSUME NEW r, NEW items,
           NEW j \in DOMAIN Order, Order[j] \in items,
           \A k \in {i \in DOMAIN Order : Order[i] \in items \ Envelope(r)} : j < k
    PROVE  Order[j] \in Envelope(r)
<1>1. j \in Nat
  BY OrderAssumption
<1> QED
  BY <1>1

LEMMA InvInit == ASSUME TrustInit PROVE IInv
<1>1. Known(trust, decided)
  BY KnownEmpty DEF TrustInit
<1>2. \A p \in Runners : Sound(proc[p], decided, book, crossed)
  BY SoundIdle DEF TrustInit
<1> QED
  BY <1>1, <1>2, TypedInit DEF IInv, TrustInit

LEMMA InvStep == ASSUME IInv, [TrustNext]_trustVars PROVE IInv'
<1> USE DEF trustHistory
<1>0. Typed /\ Typed'
  BY TypedStep DEF IInv
<1>1. CASE UNCHANGED trustVars
  BY <1>1, <1>0 DEF trustVars, IInv
<1>17. ASSUME NEW path \in Paths, NEW contents \in Contents, Change(path, contents)
       PROVE  IInv'
  BY <1>0, <1>17 DEF Change, IInv
<1>2. SUFFICES ASSUME NEW p \in Runners,
                      Step(p)
               PROVE  IInv'
  BY <1>1, <1>17 DEF TrustNext
<1>3. CASE StartRun(p)
  <2>1. PICK path \in Paths, f \in Flags, i \in BOOLEAN, g \in Grants, w \in BOOLEAN :
          StartCommand(p,
                   [at |-> IF Declares[file[path]] = {} THEN "start" ELSE "hash",
                    script |-> <<path, file[path]>>, declared |-> Declares[file[path]],
                    flag |-> f, interactive |-> i, static |-> g, watch |-> w,
                    store |-> Empty, approved |-> FALSE,
                    dynamic |-> {}, prompted |-> FALSE, yes |-> FALSE, allowed |-> {},
                    from |-> "user", stale |-> FALSE, text |-> file[path]])
    BY <1>3 DEF StartRun
  <2>5. /\ file[path] \in Contents
        /\ Declares[file[path]] \in SUBSET Permissions /\ g \in SUBSET Permissions
        /\ <<path, file[path]>> \in Scripts
    BY <1>0, SetsAssumption DEF Typed, Scripts
  <2> DEFINE r == [at |-> IF Declares[file[path]] = {} THEN "start" ELSE "hash",
                   script |-> <<path, file[path]>>, declared |-> Declares[file[path]],
                   flag |-> f, interactive |-> i, static |-> g, watch |-> w,
                   store |-> Empty, approved |-> FALSE,
                   dynamic |-> {}, prompted |-> FALSE, yes |-> FALSE, allowed |-> {},
                   from |-> "user", stale |-> FALSE, text |-> file[path]]
  <2>2. r \in Run
    BY <2>5, EmptyStore DEF Run
  <2>3. Sound(r, decided, book, crossed)
    BY KnownEmpty DEF Sound, Bounded, Decided, Fresh
  <2> HIDE DEF r
  <2>4. StartCommand(p, r)
    BY <2>1 DEF r
  <2> QED
    BY <1>0, <2>2, <2>3, <2>4, OneProcess DEF StartCommand, Processes
<1>4. CASE StartEdit(p)
  <2>1. PICK e \in {{s} : s \in Scripts} \cup {Scripts} :
          StartCommand(p, [at |-> "load", erase |-> e, store |-> Empty, stale |-> FALSE])
    BY <1>4 DEF StartEdit
  <2> DEFINE r == [at |-> "load", erase |-> e, store |-> Empty, stale |-> FALSE]
  <2>2. r \in Edit
    BY EmptyStore DEF Edit
  <2>3. Sound(r, decided, book, crossed)
    BY <2>2, Kinds, KnownEmpty DEF Sound, Fresh
  <2> HIDE DEF r
  <2>4. StartCommand(p, r)
    BY <2>1 DEF r
  <2> QED
    BY <1>0, <2>2, <2>3, <2>4, OneProcess DEF StartCommand, Processes
<1>5. CASE LoadForRun(p)
  <2> DEFINE r == proc[p]
             loaded == [r EXCEPT !.store = trust]
  <2>1. r \in Run
    BY <1>0, <1>5, RunKind DEF LoadForRun, At
  <2>2. CASE Exact(trust, r.script, r.declared)
    <3> DEFINE state == [r EXCEPT !.at = "start", !.approved = TRUE, !.from = "record"]
    <3>1. state \in Processes
      BY <2>1 DEF Run, Processes
    <3>2. Sound(state, decided, book, crossed)
      BY <1>5, <2>1, <2>2, ApprovedByRecord DEF LoadForRun
    <3>3. Become(p, state) /\ decided' = decided /\ UNCHANGED <<trust, book, crossed>>
      BY <1>5, <2>2 DEF LoadForRun
    <3> QED
      BY <1>0, <3>1, <3>2, <3>3, OneProcess
  <2>3. CASE ~Exact(trust, r.script, r.declared) /\ r.flag = "trust"
    <3> DEFINE state == [loaded EXCEPT !.at = "write",
                                   !.store = addOrUpdate(trust, r.script, r.declared)]
    <3>1. loaded \in Run /\ trust \in Stores
      BY <1>0, <2>1 DEF Run, Typed
    <3>2. /\ loaded.script = r.script /\ loaded.declared = r.declared
          /\ loaded.flag = r.flag /\ loaded.from = "user"
      BY <1>5, <2>1, SoundRun DEF Run, Bounded, LoadForRun, At
    <3>3. Bounded(loaded)
      BY <2>1, SoundRun DEF Run, Bounded
    <3>4. Sound([loaded EXCEPT !.at = "write",
                       !.store = addOrUpdate(trust, loaded.script, loaded.declared)],
                decided \cup {<<loaded.script, loaded.declared>>}, book, crossed)
      BY <2>3, <3>1, <3>2, <3>3, SavingRun DEF IInv
    <3>5. state \in Processes
      BY <3>1, <2>1, UpdatedStore, DeclaredPermissions DEF Run, Processes
    <3>6. /\ Become(p, state) /\ decided' = decided \cup {<<r.script, r.declared>>}
          /\ UNCHANGED <<trust, book, crossed>>
      BY <1>5, <2>3 DEF LoadForRun
    <3> QED
      BY <1>0, <3>2, <3>4, <3>5, <3>6, OneProcess
  <2>4. CASE ~Exact(trust, r.script, r.declared) /\ r.flag # "trust"
    <3> DEFINE state == IF r.interactive THEN [loaded EXCEPT !.at = "ask"] ELSE Idle
    <3>1. state \in Processes
      BY <1>0, <2>1 DEF Run, Typed, Processes
    <3>2. Sound(state, decided, book, crossed)
      <4>1. CASE ~r.interactive
        BY <4>1, SoundIdle
      <4>2. CASE r.interactive
        <5>1. /\ state.at = "ask" /\ state.store = trust /\ "erase" \notin DOMAIN state
              /\ state.dynamic = r.dynamic /\ state.static = r.static
              /\ state.declared = r.declared /\ state.approved = r.approved
              /\ state.interactive = r.interactive /\ state.from = "user"
          BY <1>5, <2>1, <4>2, SoundRun DEF Run, Bounded, LoadForRun, At
        <5>2. Bounded(state)
          BY <2>1, <4>2, <5>1, SoundRun DEF Bounded
        <5> HIDE DEF state
        <5>3. crossed \/ Fresh(state, book)
          BY <5>1 DEF Fresh, IInv
        <5> QED
          BY <5>1, <5>2, <5>3 DEF Sound, Decided, IInv
      <4> QED
        BY <2>1, <4>1, <4>2
    <3>3. Become(p, state) /\ decided' = decided /\ UNCHANGED <<trust, book, crossed>>
      BY <1>5, <2>4 DEF LoadForRun
    <3> QED
      BY <1>0, <3>1, <3>2, <3>3, OneProcess
  <2> QED
    BY <2>2, <2>3, <2>4
<1>6. CASE Answer(p)
  <2> DEFINE r == proc[p]
  <2>1. r \in Run /\ r.at = "ask" /\ r.store \in Stores
    BY <1>0, <1>6, RunKind DEF Answer, At, Run
  <2>2. UNCHANGED <<trust, book, crossed>>
    BY <1>6 DEF Answer
  <2>3. CASE Become(p, Approved(r)) /\ UNCHANGED decided
    BY <1>0, <2>1, <2>2, <2>3, ApprovedByUser, ApprovedRun, OneProcess DEF Processes
  <2>4. CASE /\ Become(p, [r EXCEPT !.at = "write",
                                    !.store = addOrUpdate(r.store, r.script, r.declared)])
             /\ decided' = decided \cup {<<r.script, r.declared>>}
    <3>1. /\ Known(r.store, decided) /\ Bounded(r) /\ r.interactive /\ r.from = "user"
          /\ crossed \/ r.stale \/ r.store = book
      BY <2>1, SoundRun, Kinds DEF Bounded, Fresh
    <3>2. Sound([r EXCEPT !.at = "write", !.store = addOrUpdate(r.store, r.script, r.declared)],
                decided', book, crossed)
      BY <2>1, <2>4, <3>1, SavingRun
    <3>3. [r EXCEPT !.at = "write",
                    !.store = addOrUpdate(r.store, r.script, r.declared)] \in Processes
      BY <2>1, UpdatedStore, DeclaredPermissions DEF Run, Processes
    <3> QED
      BY <1>0, <2>2, <2>4, <3>2, <3>3, OneProcess
  <2>5. CASE Become(p, Idle) /\ UNCHANGED decided
    BY <1>0, <2>2, <2>5, SoundIdle, OneProcess DEF Processes
  <2> QED
    BY <1>6, <2>3, <2>4, <2>5 DEF Answer
<1>7. CASE LoadForEdit(p)
  <2> DEFINE rest == [s \in Scripts |-> IF s \in proc[p].erase THEN NoRecord ELSE trust[s]]
             state == [proc[p] EXCEPT !.at = IF proc[p].erase = Scripts THEN "ask" ELSE "write",
                                      !.store = rest]
  <2>1. proc[p] \in Edit /\ rest \in Stores /\ trust \in Stores
    BY <1>0, <1>7, EditKind DEF LoadForEdit, Typed, Stores
  <2>2. /\ state \in Edit /\ state.store = rest /\ state.erase = proc[p].erase
        /\ state.stale = proc[p].stale
    <3> HIDE DEF rest
    <3> QED
      BY <2>1 DEF Edit
  <2>3. Known(rest, decided)
    BY <2>1, KnownErased DEF IInv
  <2>4. crossed \/ Fresh(state, book)
    <3> HIDE DEF state
    <3> QED
      BY <2>2, Kinds DEF Fresh, EnteredIn, IInv
  <2>5. Sound(state, decided, book, crossed)
    <3> HIDE DEF state, rest
    <3> QED
      BY <2>2, <2>3, <2>4, Kinds DEF Sound
  <2>6. /\ Become(p, state) \/ Become(p, Idle)
        /\ UNCHANGED <<trust, book, crossed>> /\ decided' = decided
    BY <1>7 DEF LoadForEdit
  <2> QED
    BY <1>0, <2>2, <2>5, <2>6, SoundIdle, OneProcess DEF Processes
<1>8. CASE Confirm(p)
  <2> DEFINE state == [proc[p] EXCEPT !.at = "write"]
  <2>1. proc[p] \in Edit /\ proc[p].at = "ask"
    BY <1>0, <1>8, EditKind DEF Confirm, At
  <2>2. /\ state \in Edit /\ state.store = proc[p].store /\ state.erase = proc[p].erase
        /\ state.stale = proc[p].stale /\ state.at = "write"
    BY <2>1 DEF Edit
  <2>3. Sound(state, decided, book, crossed)
    <3>1. Known(proc[p].store, decided) /\ (crossed \/ proc[p].stale \/ Fresh(proc[p], book))
      BY <2>1, SoundEdit
    <3> HIDE DEF state
    <3>2. crossed \/ state.stale \/ Fresh(state, book)
      BY <2>1, <2>2, <3>1, Kinds DEF Fresh, EnteredIn
    <3> QED
      BY <2>2, <3>1, <3>2, Kinds DEF Sound
  <2>4. /\ Become(p, state) \/ Become(p, Idle)
        /\ UNCHANGED <<trust, book, crossed>> /\ decided' = decided
    BY <1>8 DEF Confirm
  <2> QED
    BY <1>0, <2>2, <2>3, <2>4, SoundIdle, OneProcess DEF Processes
<1>9. CASE WriteTemp(p)
  <2> DEFINE state == [proc[p] EXCEPT !.at = "rename"]
  <2>1. proc[p] \in Run \cup Edit /\ proc[p].at = "write"
    BY <1>0, <1>9 DEF WriteTemp, At, Typed, Processes, Idle
  <2>2. CASE proc[p] \in Run
    <3>1. /\ state \in Run /\ state.at = "rename" /\ state.store = proc[p].store
          /\ state.script = proc[p].script /\ state.declared = proc[p].declared
          /\ state.dynamic = proc[p].dynamic /\ state.static = proc[p].static
          /\ state.approved = proc[p].approved /\ state.interactive = proc[p].interactive
          /\ state.allowed = proc[p].allowed /\ state.yes = proc[p].yes
          /\ state.flag = proc[p].flag /\ state.from = proc[p].from
          /\ state.stale = proc[p].stale
      BY <2>2 DEF Run
    <3> HIDE DEF state
    <3>2. Bounded(state)
      BY <2>1, <2>2, <3>1, SoundRun DEF Bounded
    <3>3. crossed \/ state.stale \/ Fresh(state, book)
      BY <2>1, <2>2, <3>1, SoundRun, Kinds DEF Fresh, EnteredIn
    <3>4. Sound(state, decided, book, crossed)
      BY <2>2, <3>1, <3>2, <3>3, SoundRun DEF Sound, Decided
    <3>5. Become(p, state) /\ UNCHANGED <<trust, book, crossed>> /\ decided' = decided
      BY <1>9 DEF WriteTemp, state
    <3> QED
      BY <1>0, <3>1, <3>4, <3>5, OneProcess DEF Processes
  <2>3. CASE proc[p] \in Edit
    <3>1. /\ state \in Edit /\ state.at = "rename" /\ state.store = proc[p].store
          /\ state.erase = proc[p].erase /\ state.stale = proc[p].stale
      BY <2>3 DEF Edit
    <3> HIDE DEF state
    <3>2. crossed \/ state.stale \/ Fresh(state, book)
      BY <2>1, <2>3, <3>1, SoundEdit, Kinds DEF Fresh, EnteredIn
    <3>3. Sound(state, decided, book, crossed)
      BY <2>3, <3>1, <3>2, SoundEdit, Kinds DEF Sound
    <3>4. Become(p, state) /\ UNCHANGED <<trust, book, crossed>> /\ decided' = decided
      BY <1>9 DEF WriteTemp, state
    <3> QED
      BY <1>0, <3>1, <3>3, <3>4, OneProcess DEF Processes
  <2> QED
    BY <2>1, <2>2, <2>3
<1>10. CASE Rename(p)
  <2>1. proc[p] \in Run \cup Edit /\ proc[p].at = "rename"
    BY <1>0, <1>10 DEF Rename, At, Typed, Processes, Idle
  <2>2. Known(trust', decided')
    BY <1>10, <2>1, SoundRun, SoundEdit DEF Rename
  <2>3. crossed' \/ trust' = book'
    <3>1. crossed \/ proc[p].stale \/ Fresh(proc[p], book)
      BY <2>1, SoundRun, SoundEdit
    <3>2. Fresh(proc[p], book) => proc[p].store = Entered(p)
      BY <2>1 DEF Fresh, EnteredIn, Entered, Edits
    <3> QED
      BY <1>10, <3>1, <3>2 DEF Rename
  <2>4. ASSUME NEW q \in Runners
        PROVE  Sound(proc[q]', decided', book', crossed')
    <3>1. CASE q = p /\ Edits(p)
      BY <1>10, <3>1, SoundIdle DEF Rename
    <3>2. CASE q = p /\ ~Edits(p)
      <4>1. proc[p] \in Run
        BY <2>1, <3>2, Kinds DEF Edits
      <4> QED
        BY <1>10, <2>1, <3>2, <4>1, ApprovedByUser DEF Rename
    <3>3. CASE q # p /\ proc[q].at \in {"ask", "write", "rename"}
      <4> DEFINE state == [proc[q] EXCEPT !.stale = TRUE]
      <4>1. proc[q] \in Run \cup Edit
        BY <1>0, <3>3 DEF Typed, Processes, Idle
      <4>2. state.stale /\ state.store = proc[q].store
        BY <4>1 DEF Run, Edit
      <4>3. ASSUME state \in Run
            PROVE  Bounded(state) /\ Decided(state, decided)
        <5>1. proc[q] \in Run
          <6>1. ASSUME proc[q] \in Edit PROVE FALSE
            <7>1. "erase" \in DOMAIN state
              BY <6>1 DEF Edit
            <7> QED
              BY <4>3, <7>1, Kinds
          <6> QED
            BY <4>1, <6>1
        <5>2. /\ state.at = proc[q].at
              /\ state.declared = proc[q].declared
              /\ state.dynamic = proc[q].dynamic /\ state.static = proc[q].static
              /\ state.approved = proc[q].approved /\ state.interactive = proc[q].interactive
              /\ state.allowed = proc[q].allowed /\ state.yes = proc[q].yes
              /\ state.flag = proc[q].flag /\ state.from = proc[q].from
          BY <5>1 DEF Run
        <5> HIDE DEF state
        <5> QED
          BY <3>3, <5>1, <5>2, SoundRun DEF Bounded, Decided
      <4>4. Known(proc[q].store, decided)
        BY <4>1, SoundRun, SoundEdit
      <4>5. proc[q]' = state /\ decided' = decided
        BY <1>10, <3>3 DEF Rename
      <4> HIDE DEF state
      <4> QED
        BY <4>2, <4>3, <4>4, <4>5 DEF Sound
    <3>4. CASE q # p /\ proc[q].at \notin {"ask", "write", "rename"}
      <4>1. proc[q]' = proc[q] /\ decided' = decided
        BY <1>10, <3>4 DEF Rename
      <4>2. Fresh(proc[q], book')
        BY <3>4 DEF Fresh
      <4> QED
        BY <4>1, <4>2 DEF IInv, Sound
    <3> QED
      BY <3>1, <3>2, <3>3, <3>4
  <2> QED
    BY <1>0, <2>2, <2>3, <2>4 DEF IInv
<1>11. CASE SaveFails(p)
  BY <1>0, <1>11, SoundIdle, OneProcess DEF SaveFails, Processes
<1>12. ASSUME NEW items \in Asks, RequestPermissions(p, items)
       PROVE  IInv'
  <2> DEFINE r == proc[p]
             denied == {i \in DOMAIN Order : Order[i] \in items \ Envelope(r)}
             granted == {Order[i] : i \in {j \in DOMAIN Order :
                        Order[j] \in items /\ \A k \in denied : j < k}}
             state == [r EXCEPT !.dynamic = @ \cup granted]
  <2>1. r \in Run /\ r.at = "running"
    BY <1>0, <1>12, RunningKind DEF RequestPermissions, At
  <2>2. granted \subseteq Permissions \cap Envelope(r)
    BY GrantedWithinEnvelope DEF Permissions
  <2>3. Become(p, state) /\ UNCHANGED <<trust, book, crossed>> /\ decided' = decided
    BY <1>12 DEF RequestPermissions
  <2> HIDE DEF granted
  <2>4. /\ state \in Run /\ state.at = "running" /\ state.store = r.store
        /\ state.script = r.script /\ state.declared = r.declared
        /\ state.dynamic = r.dynamic \cup granted /\ state.static = r.static
        /\ state.approved = r.approved /\ state.interactive = r.interactive
        /\ state.allowed = r.allowed /\ state.yes = r.yes
        /\ state.flag = r.flag /\ state.from = r.from
    BY <2>1, <2>2 DEF Run
  <2> HIDE DEF state
  <2>5. Bounded(state)
    BY <2>1, <2>2, <2>4, SoundRun DEF Bounded, Envelope
  <2>6. Sound(state, decided, book, crossed)
    BY <2>1, <2>4, <2>5, SoundRun DEF Sound, Decided, Fresh
  <2> QED
    BY <1>0, <2>3, <2>4, <2>6, OneProcess DEF Processes
<1>13. ASSUME NEW x \in Permissions, AuthorizeConsole(p, x)
       PROVE  IInv'
  <2>1. proc[p] \in Run /\ proc[p].at = "running" /\ proc[p].interactive
    BY <1>0, <1>13, RunningKind DEF AuthorizeConsole, At
  <2>2. PICK yes \in BOOLEAN : Become(p, [proc[p] EXCEPT !.prompted = TRUE, !.yes = yes])
    BY <1>13 DEF AuthorizeConsole
  <2> DEFINE r == proc[p]
             state == [r EXCEPT !.prompted = TRUE, !.yes = yes]
  <2>3. /\ state \in Run /\ state.at = "running" /\ state.store = r.store
        /\ state.script = r.script /\ state.declared = r.declared
        /\ state.dynamic = r.dynamic /\ state.static = r.static
        /\ state.approved = r.approved /\ state.interactive /\ r.interactive
        /\ state.allowed = r.allowed /\ state.flag = r.flag /\ state.from = r.from
    BY <2>1 DEF Run
  <2> HIDE DEF state
  <2>4. Bounded(state)
    BY <2>1, <2>3, SoundRun DEF Bounded
  <2>5. Sound(state, decided, book, crossed)
    BY <2>1, <2>3, <2>4, SoundRun DEF Sound, Decided, Fresh
  <2>6. Become(p, state) /\ UNCHANGED <<trust, book, crossed>> /\ decided' = decided
    BY <1>13, <2>2 DEF AuthorizeConsole, state
  <2> QED
    BY <1>0, <2>3, <2>5, <2>6, OneProcess DEF Processes
<1>14. ASSUME NEW x \in Permissions, AuthorizeEach(p, x)
       PROVE  IInv'
  <2>1. proc[p] \in Run /\ proc[p].at = "running" /\ proc[p].interactive
    BY <1>0, <1>14, RunningKind DEF AuthorizeEach, At
  <2> DEFINE r == proc[p]
             state == [r EXCEPT !.allowed = @ \cup {x}]
  <2>3. /\ state \in Run /\ state.at = "running" /\ state.store = r.store
        /\ state.script = r.script /\ state.declared = r.declared
        /\ state.dynamic = r.dynamic /\ state.static = r.static
        /\ state.approved = r.approved /\ state.interactive /\ r.interactive
        /\ state.flag = r.flag /\ state.from = r.from
    BY <2>1 DEF Run
  <2>6. Become(p, state) /\ UNCHANGED <<trust, book, crossed>> /\ decided' = decided
    BY <1>14 DEF AuthorizeEach
  <2> HIDE DEF state
  <2>4. Bounded(state)
    BY <2>1, <2>3, SoundRun DEF Bounded
  <2>5. Sound(state, decided, book, crossed)
    BY <2>1, <2>3, <2>4, SoundRun DEF Sound, Decided, Fresh
  <2> QED
    BY <1>0, <2>3, <2>5, <2>6, OneProcess DEF Processes
<1>18. CASE Hash(p)
  <2> DEFINE r == proc[p]
             state == Hashed(r, file[r.script[1]])
  <2>1. r \in Run /\ r.at = "hash"
    <3>1. r \notin Edit
      BY <1>18 DEF Hash, At, Edit
    <3> QED
      BY <1>0, <1>18, <3>1 DEF Typed, Processes, Hash, At, Idle
  <2>2. Bounded(r) /\ Known(r.store, decided)
    BY <2>1, SoundRun
  <2>3. /\ state \in Run /\ state.at \in {"start", "load"} /\ state.store = r.store
        /\ state.declared = r.declared
        /\ state.dynamic = r.dynamic /\ state.static = r.static
        /\ state.approved = (r.flag = "allow") /\ state.interactive = r.interactive
        /\ state.allowed = r.allowed /\ state.yes = r.yes
        /\ state.flag = r.flag /\ state.from = r.from /\ r.from = "user"
    BY <1>0, <2>1, <2>2, HashedRun DEF Typed, Bounded
  <2>4. r.dynamic \subseteq r.static
    BY <2>1, <2>2 DEF Bounded
  <2>7. Become(p, state) /\ UNCHANGED <<trust, book, crossed>> /\ decided' = decided
    BY <1>18 DEF Hash, Hashed
  <2> HIDE DEF state
  <2>5. Bounded(state)
    BY <2>2, <2>3, <2>4 DEF Bounded
  <2>6. Sound(state, decided, book, crossed)
    BY <2>2, <2>3, <2>5 DEF Sound, Decided, Fresh
  <2> QED
    BY <1>0, <2>3, <2>6, <2>7, OneProcess DEF Processes
<1>19. CASE FirstRun(p) \/ Rerun(p)
  <2> DEFINE r == proc[p]
             state == [r EXCEPT !.at = "running", !.text = file[r.script[1]]]
  <2>1. r \in Run /\ r.at \in {"start", "watching"} /\ Execute(p)
    <3>1. r \notin Edit
      BY <1>19 DEF FirstRun, Rerun, At, Edit
    <3> QED
      BY <1>0, <1>19, <3>1 DEF Typed, Processes, FirstRun, Rerun, At, Idle
  <2>2. file[r.script[1]] \in Contents
    BY <1>0, <2>1 DEF Typed, Run, Scripts
  <2>3. /\ state \in Run /\ state.at = "running" /\ state.store = r.store
        /\ state.script = r.script /\ state.declared = r.declared
        /\ state.dynamic = r.dynamic /\ state.static = r.static
        /\ state.approved = r.approved /\ state.interactive = r.interactive
        /\ state.allowed = r.allowed /\ state.yes = r.yes
        /\ state.flag = r.flag /\ state.from = r.from
    BY <2>1, <2>2 DEF Run
  <2>7. Become(p, state) /\ UNCHANGED <<trust, book, crossed>> /\ decided' = decided
    BY <2>1 DEF Execute
  <2> HIDE DEF state
  <2>5. Bounded(state)
    BY <2>1, <2>3, SoundRun DEF Bounded
  <2>6. Sound(state, decided, book, crossed)
    BY <2>1, <2>3, <2>5, SoundRun DEF Sound, Decided, Fresh
  <2> QED
    BY <1>0, <2>3, <2>6, <2>7, OneProcess DEF Processes
<1>15. CASE Exit(p)
  <2> DEFINE r == proc[p]
             state == [r EXCEPT !.at = "watching", !.dynamic = {}, !.allowed = {},
                                !.prompted = FALSE, !.yes = FALSE]
  <2>1. r \in Run
    BY <1>0, <1>15, RunningKind DEF Exit
  <2>3. /\ state \in Run /\ state.at = "watching" /\ state.store = r.store
        /\ state.script = r.script /\ state.declared = r.declared
        /\ state.dynamic = {} /\ state.static = r.static
        /\ state.approved = r.approved /\ state.interactive = r.interactive
        /\ state.allowed = {} /\ state.yes = FALSE
        /\ state.flag = r.flag /\ state.from = r.from
    BY <2>1 DEF Run
  <2>7. /\ Become(p, state) \/ Become(p, Idle)
        /\ UNCHANGED <<trust, book, crossed>> /\ decided' = decided
    BY <1>15 DEF Exit
  <2> HIDE DEF state
  <2>5. Bounded(state)
    BY <2>1, <2>3, SoundRun DEF Bounded
  <2>6. Sound(state, decided, book, crossed)
    BY <2>1, <2>3, <2>5, SoundRun DEF Sound, Decided, Fresh
  <2> QED
    BY <1>0, <2>3, <2>6, <2>7, SoundIdle, OneProcess DEF Processes
<1>16. CASE Killed(p)
  BY <1>0, <1>16, SoundIdle, OneProcess DEF Killed, Processes
<1> QED
  BY <1>2, <1>3, <1>4, <1>5, <1>6, <1>7, <1>8, <1>9, <1>10, <1>11, <1>12, <1>13, <1>14,
     <1>15, <1>16, <1>18, <1>19 DEF Step

THEOREM Invariant == TrustSpec => []IInv
<1>1. TrustInit => IInv
  BY InvInit
<1>2. IInv /\ [TrustNext]_trustVars => IInv'
  BY InvStep
<1> QED
  BY <1>1, <1>2, PTL DEF TrustSpec

-----------------------------------------------------------------------------
(* What follows *)

\* Every variable keeps to its type, for any sets of scripts and permissions.
THEOREM TypeCorrect == TrustSpec => []TrustTypeOK
<1>1. IInv => TrustTypeOK
  BY DEF IInv, Typed, TrustTypeOK, Processes
<1> QED
  BY <1>1, Invariant, PTL

\* A run the store approves was approved by a decision about the same path and the
\* contents whose hash was looked up that covers what it declared
\* (approve_declared_permissions(), main.cpp), whatever other processes do to the
\* store and to the file.  It says nothing of the contents that run: see
\* TrustedContentsRun.
THEOREM TrustIsTheUsers == TrustSpec => []NoSilentTrust
<1>1. IInv => NoSilentTrust
  <2> SUFFICES ASSUME IInv, NEW p \in Runners, Runs(p), proc[p].from = "record"
               PROVE  \E d \in decided : d[1] = proc[p].script /\ proc[p].declared \subseteq d[2]
    BY DEF NoSilentTrust
  <2>1. proc[p] \in Run
    BY RunningKind DEF IInv, Runs
  <2> QED
    BY <2>1, SoundRun DEF Decided, Runs, At
<1> QED
  BY <1>1, Invariant, PTL

\* A running script reaches only what was granted, declared and approved, or said
\* yes to (requestPermissions() and the authorize functions, runtime.cpp).
THEOREM StaysWithinApproval == TrustSpec => []WithinApproval
<1>1. IInv => WithinApproval
  <2> SUFFICES ASSUME IInv
               PROVE  WithinApproval
    OBVIOUS
  <2>1. ASSUME NEW p \in Runners, Runs(p)
        PROVE  proc[p] \in Run /\ Bounded(proc[p])
    BY <2>1, RunningKind, SoundRun DEF IInv, Runs
  <2> QED
    BY <2>1 DEF WithinApproval, Bounded, Reach
<1> QED
  BY <1>1, Invariant, PTL

\* The store is what the completed commands say, unless one of them saved a copy
\* that another had outdated (TrustStore::load() and save(), trust_store.cpp).
THEOREM StoreIsTheBook == TrustSpec => []StoreIsBook
<1>1. IInv => StoreIsBook
  BY DEF IInv, StoreIsBook
<1> QED
  BY <1>1, Invariant, PTL
=============================================================================
