------------------------- MODULE ScriptThreadsProofs -------------------------
(***************************************************************************)
(* Proofs about ScriptThreads for any script threads and paths: a path names *)
(* at most one live thread, and until the tree is destroyed no live thread is *)
(* forgotten.                                                               *)
(***************************************************************************)
EXTENDS ScriptThreads, TLAPS

\* What a label says about the thread itself; the process ends for all.
LabelOK ==
  /\ stage[MainThread] # "none"
  /\ \A a, b \in Actors : stage[a] = "aborted" => stage[b] = "aborted"
  /\ \A s \in Scripts :
       /\ stage[s] = "none" => path[s] = None /\ owner[s] = None
       /\ stage[s] = "created" => owner[s] = None
       /\ stage[s] \notin {"none", "aborted"} => path[s] \in ThreadPaths
       /\ s \in joined \cup closedHandles => stage[s] \in {"ended", "aborted"}

\* Two actors never work for the same handle: a script that was created is
\* started by the one actor that spawned it, and closed by the one that holds
\* its handle, which removes the path when the thread has ended.
HandleOK ==
  /\ \A a \in Actors : stage[a] = "spawn" => stage[target[a]] = "created"
  /\ \A a, b \in Actors :
       stage[a] = "spawn" /\ stage[b] = "spawn" /\ target[a] = target[b] => a = b
  /\ \A a \in Actors : stage[a] \in {"close", "remove"} =>
       owner[target[a]] = a /\ target[a] \notin closedHandles
  /\ \A a \in Actors : stage[a] = "remove" => stage[target[a]] = "ended"

\* A path stays in nodes_, for its thread alone, until the handle is closed.
PathOK ==
  \A s \in Scripts : path[s] # None /\ s \notin closedHandles =>
    /\ path[s] \in occupied
    /\ \A u \in Scripts \ {s} :
         path[u] = path[s] => u \in closedHandles

\* What a shutdown() has collected and not joined.
BatchOK ==
  \A a \in Actors :
    /\ collected[a] # {} => stage[a] \in {"grace", "force", "join", "aborted"}
    /\ stage[a] = "join" => target[a] \in collected[a] \cup {None}
    /\ stage[a] = "join" => \A s \in collected[a] : s \in cancel \/ Finished(s)

IInv ==
  /\ ThreadsTypeOK /\ LabelOK /\ HandleOK /\ PathOK
  /\ BatchOK /\ NoForgottenThread
-----------------------------------------------------------------------------

\* Every step keeps the types.  The targets need more than types: an actor that
\* starts a thread is not that thread, and a join pass has joined its target
\* when its batch is empty.
LEMMA TypeStep ==
  ASSUME ThreadsTypeOK, HandleOK, BatchOK, [ThreadsNext]_threadVars
  PROVE  ThreadsTypeOK'
<1> USE ScriptThreadsAssumption DEF ThreadsTypeOK, HandleOK, BatchOK, Actors, ThreadLabels
<1>1. ASSUME NEW a \in Actors, Start(a)
      PROVE  ThreadsTypeOK'
  <2>1. target[a] \in Scripts
    BY <1>1 DEF Start
  <2> QED
    BY <1>1, <2>1 DEF Start
<1>2. ASSUME NEW a \in Actors, CloseJoin(a)
      PROVE  ThreadsTypeOK'
  BY <1>2 DEF CloseJoin, Joined, Goto
<1>3. ASSUME NEW a \in Actors, CloseRemove(a)
      PROVE  ThreadsTypeOK'
  BY <1>3 DEF CloseRemove, Goto
<1>4. ASSUME NEW a \in Actors, GraceOver(a)
      PROVE  ThreadsTypeOK'
  BY <1>4 DEF GraceOver, Goto
<1>5. ASSUME NEW a \in Actors, ForcePass(a)
      PROVE  ThreadsTypeOK'
  BY <1>5 DEF ForcePass, Stragglers, Finished, Goto
<1>6. ASSUME NEW a \in Actors, Join(a)
      PROVE  ThreadsTypeOK'
  BY <1>6 DEF Join, Joined
<1>7. ASSUME NEW a \in Actors, ShutdownDone(a)
      PROVE  ThreadsTypeOK'
  <2>1. PICK label \in {"members", "run"} : Goto(a, label)
    BY <1>7 DEF ShutdownDone
  <2>2. target[a] = None
    BY <1>7 DEF ShutdownDone
  <2> QED
    BY <1>7, <2>1, <2>2 DEF ShutdownDone, Goto
<1>8. ASSUME NEW a \in Actors, NEW s \in Scripts, JoinNext(a, s)
      PROVE  ThreadsTypeOK'
  BY <1>8 DEF JoinNext, Joinable, Started
<1>9. ASSUME NEW a \in Actors, JoinThrows(a)
      PROVE  ThreadsTypeOK'
  BY <1>9 DEF JoinThrows
<1>10. ASSUME NEW a \in Actors, ShutdownTree(a)
      PROVE  ThreadsTypeOK'
  BY <1>10 DEF ShutdownTree, Collect, Goto
<1>11. ASSUME NEW a \in Actors, NEW s \in Scripts, NEW p \in ThreadPaths, Spawn(a, s, p)
      PROVE  ThreadsTypeOK'
  BY <1>11 DEF Spawn
<1>12. ASSUME NEW a \in Actors, NEW s \in Scripts, Close(a, s)
      PROVE  ThreadsTypeOK'
  BY <1>12 DEF Close, Goto, Joinable, Started, Finished
<1>13. ASSUME NEW s \in Scripts, NEW e \in BOOLEAN, ScriptEnds(s, e)
      PROVE  ThreadsTypeOK'
  BY <1>13 DEF ScriptEnds, Goto
<1>14. ASSUME NEW a \in Actors, Finish(a)
      PROVE  ThreadsTypeOK'
  BY <1>14 DEF Finish, Orphans, Joinable, Goto
<1>15. ASSUME NEW s \in Scripts, Exit(s)
      PROVE  ThreadsTypeOK'
  BY <1>15 DEF Exit, Descendants, Goto
<1>16. ASSUME NEW s \in Scripts, DestroyMember(s)
      PROVE  ThreadsTypeOK'
  BY <1>16 DEF DestroyMember, Joinable, Started
<1>17. ASSUME Destroy
      PROVE  ThreadsTypeOK'
  BY <1>17 DEF Destroy, Collect, Goto
<1>18. ASSUME Destroyed
      PROVE  ThreadsTypeOK'
  BY <1>18 DEF Destroyed, Goto
<1>19. ASSUME MainEnds
      PROVE  ThreadsTypeOK'
  BY <1>19 DEF MainEnds, Goto
<1>20. CASE UNCHANGED threadVars
  BY <1>20 DEF threadVars
<1> QED
  BY <1>1, <1>2, <1>3, <1>4, <1>5, <1>6, <1>7, <1>8, <1>9, <1>10, <1>11, <1>12, <1>13, <1>14,
     <1>15, <1>16, <1>17, <1>18, <1>19, <1>20 DEF ThreadsNext, KeepOn, Leave, Interrupted

\* A thread is joined, and its handle closed, only when it has ended.
LEMMA LabelStep ==
  ASSUME ThreadsTypeOK, LabelOK, HandleOK, [ThreadsNext]_threadVars
  PROVE  LabelOK'
<1> USE ScriptThreadsAssumption DEF ThreadsTypeOK, LabelOK, HandleOK, Actors
<1>1. ASSUME NEW a \in Actors, Start(a)
      PROVE  LabelOK'
  BY <1>1 DEF Start
<1>2. ASSUME NEW a \in Actors, CloseJoin(a)
      PROVE  LabelOK'
  BY <1>2 DEF CloseJoin, Joined, Goto
<1>3. ASSUME NEW a \in Actors, CloseRemove(a)
      PROVE  LabelOK'
  BY <1>3 DEF CloseRemove, Goto
<1>4. ASSUME NEW a \in Actors, GraceOver(a)
      PROVE  LabelOK'
  BY <1>4 DEF GraceOver, Goto
<1>5. ASSUME NEW a \in Actors, ForcePass(a)
      PROVE  LabelOK'
  BY <1>5 DEF ForcePass, Stragglers, Finished, Goto
<1>6. ASSUME NEW a \in Actors, Join(a)
      PROVE  LabelOK'
  BY <1>6 DEF Join, Joined
<1>7. ASSUME NEW a \in Actors, ShutdownDone(a)
      PROVE  LabelOK'
  BY <1>7 DEF ShutdownDone, Goto
<1>8. ASSUME NEW a \in Actors, NEW s \in Scripts, JoinNext(a, s)
      PROVE  LabelOK'
  BY <1>8 DEF JoinNext, Joinable, Started
<1>9. ASSUME NEW a \in Actors, JoinThrows(a)
      PROVE  LabelOK'
  BY <1>9 DEF JoinThrows
<1>10. ASSUME NEW a \in Actors, ShutdownTree(a)
      PROVE  LabelOK'
  BY <1>10 DEF ShutdownTree, Collect, Goto
<1>11. ASSUME NEW a \in Actors, NEW s \in Scripts, NEW p \in ThreadPaths, Spawn(a, s, p)
      PROVE  LabelOK'
  BY <1>11 DEF Spawn
<1>12. ASSUME NEW a \in Actors, NEW s \in Scripts, Close(a, s)
      PROVE  LabelOK'
  BY <1>12 DEF Close, Goto, Joinable, Started, Finished
<1>13. ASSUME NEW s \in Scripts, NEW e \in BOOLEAN, ScriptEnds(s, e)
      PROVE  LabelOK'
  BY <1>13 DEF ScriptEnds, Goto
<1>14. ASSUME NEW a \in Actors, Finish(a)
      PROVE  LabelOK'
  BY <1>14 DEF Finish, Orphans, Joinable, Goto
<1>15. ASSUME NEW s \in Scripts, Exit(s)
      PROVE  LabelOK'
  BY <1>15 DEF Exit, Descendants, Goto
<1>16. ASSUME NEW s \in Scripts, DestroyMember(s)
      PROVE  LabelOK'
  BY <1>16 DEF DestroyMember, Joinable, Started
<1>17. ASSUME Destroy
      PROVE  LabelOK'
  BY <1>17 DEF Destroy, Collect, Goto
<1>18. ASSUME Destroyed
      PROVE  LabelOK'
  BY <1>18 DEF Destroyed, Goto
<1>19. ASSUME MainEnds
      PROVE  LabelOK'
  BY <1>19 DEF MainEnds, Goto
<1>20. CASE UNCHANGED threadVars
  BY <1>20 DEF threadVars
<1> QED
  BY <1>1, <1>2, <1>3, <1>4, <1>5, <1>6, <1>7, <1>8, <1>9, <1>10, <1>11, <1>12, <1>13, <1>14,
     <1>15, <1>16, <1>17, <1>18, <1>19, <1>20 DEF ThreadsNext, KeepOn, Leave, Interrupted

\* close() leaves a thread that cannot be joined alone: it has been joined, for
\* whoever holds its handle has started it.
LEMMA HandleStep ==
  ASSUME ThreadsTypeOK, LabelOK, HandleOK, [ThreadsNext]_threadVars
  PROVE  HandleOK'
<1> USE ScriptThreadsAssumption DEF ThreadsTypeOK, LabelOK, HandleOK, Actors
<1>1. ASSUME NEW a \in Actors, Start(a)
      PROVE  HandleOK'
  BY <1>1 DEF Start
<1>2. ASSUME NEW a \in Actors, CloseJoin(a)
      PROVE  HandleOK'
  BY <1>2 DEF CloseJoin, Joined, Goto
<1>3. ASSUME NEW a \in Actors, CloseRemove(a)
      PROVE  HandleOK'
  BY <1>3 DEF CloseRemove, Goto
<1>4. ASSUME NEW a \in Actors, GraceOver(a)
      PROVE  HandleOK'
  BY <1>4 DEF GraceOver, Goto
<1>5. ASSUME NEW a \in Actors, ForcePass(a)
      PROVE  HandleOK'
  BY <1>5 DEF ForcePass, Stragglers, Finished, Goto
<1>6. ASSUME NEW a \in Actors, Join(a)
      PROVE  HandleOK'
  BY <1>6 DEF Join, Joined
<1>7. ASSUME NEW a \in Actors, ShutdownDone(a)
      PROVE  HandleOK'
  BY <1>7 DEF ShutdownDone, Goto
<1>8. ASSUME NEW a \in Actors, NEW s \in Scripts, JoinNext(a, s)
      PROVE  HandleOK'
  BY <1>8 DEF JoinNext, Joinable, Started
<1>9. ASSUME NEW a \in Actors, JoinThrows(a)
      PROVE  HandleOK'
  BY <1>9 DEF JoinThrows
<1>10. ASSUME NEW a \in Actors, ShutdownTree(a)
      PROVE  HandleOK'
  BY <1>10 DEF ShutdownTree, Collect, Goto
<1>11. ASSUME NEW a \in Actors, NEW s \in Scripts, NEW p \in ThreadPaths, Spawn(a, s, p)
      PROVE  HandleOK'
  BY <1>11 DEF Spawn
<1>12. ASSUME NEW a \in Actors, NEW s \in Scripts, Close(a, s)
      PROVE  HandleOK'
  BY <1>12 DEF Close, Goto, Joinable, Started, Finished
<1>13. ASSUME NEW s \in Scripts, NEW e \in BOOLEAN, ScriptEnds(s, e)
      PROVE  HandleOK'
  BY <1>13 DEF ScriptEnds, Goto
<1>14. ASSUME NEW a \in Actors, Finish(a)
      PROVE  HandleOK'
  BY <1>14 DEF Finish, Orphans, Joinable, Goto
<1>15. ASSUME NEW s \in Scripts, Exit(s)
      PROVE  HandleOK'
  BY <1>15 DEF Exit, Descendants, Goto
<1>16. ASSUME NEW s \in Scripts, DestroyMember(s)
      PROVE  HandleOK'
  BY <1>16 DEF DestroyMember, Joinable, Started
<1>17. ASSUME Destroy
      PROVE  HandleOK'
  BY <1>17 DEF Destroy, Collect, Goto
<1>18. ASSUME Destroyed
      PROVE  HandleOK'
  BY <1>18 DEF Destroyed, Goto
<1>19. ASSUME MainEnds
      PROVE  HandleOK'
  BY <1>19 DEF MainEnds, Goto
<1>20. CASE UNCHANGED threadVars
  BY <1>20 DEF threadVars
<1> QED
  BY <1>1, <1>2, <1>3, <1>4, <1>5, <1>6, <1>7, <1>8, <1>9, <1>10, <1>11, <1>12, <1>13, <1>14,
     <1>15, <1>16, <1>17, <1>18, <1>19, <1>20 DEF ThreadsNext, KeepOn, Leave, Interrupted

\* spawn() takes a path that no thread has, and close() frees the path of a
\* thread whose handle it closes in the same step.
LEMMA PathStep ==
  ASSUME ThreadsTypeOK, LabelOK, HandleOK, PathOK, [ThreadsNext]_threadVars
  PROVE  PathOK'
<1> USE ScriptThreadsAssumption DEF ThreadsTypeOK, LabelOK, HandleOK, PathOK, Actors
<1>1. ASSUME NEW a \in Actors, Start(a)
      PROVE  PathOK'
  BY <1>1 DEF Start
<1>2. ASSUME NEW a \in Actors, CloseJoin(a)
      PROVE  PathOK'
  BY <1>2 DEF CloseJoin, Joined, Goto
<1>3. ASSUME NEW a \in Actors, CloseRemove(a)
      PROVE  PathOK'
  BY <1>3 DEF CloseRemove, Goto
<1>4. ASSUME NEW a \in Actors, GraceOver(a)
      PROVE  PathOK'
  BY <1>4 DEF GraceOver, Goto
<1>5. ASSUME NEW a \in Actors, ForcePass(a)
      PROVE  PathOK'
  BY <1>5 DEF ForcePass, Stragglers, Finished, Goto
<1>6. ASSUME NEW a \in Actors, Join(a)
      PROVE  PathOK'
  BY <1>6 DEF Join, Joined
<1>7. ASSUME NEW a \in Actors, ShutdownDone(a)
      PROVE  PathOK'
  BY <1>7 DEF ShutdownDone, Goto
<1>8. ASSUME NEW a \in Actors, NEW s \in Scripts, JoinNext(a, s)
      PROVE  PathOK'
  BY <1>8 DEF JoinNext, Joinable, Started
<1>9. ASSUME NEW a \in Actors, JoinThrows(a)
      PROVE  PathOK'
  BY <1>9 DEF JoinThrows
<1>10. ASSUME NEW a \in Actors, ShutdownTree(a)
      PROVE  PathOK'
  BY <1>10 DEF ShutdownTree, Collect, Goto
<1>11. ASSUME NEW a \in Actors, NEW s \in Scripts, NEW p \in ThreadPaths, Spawn(a, s, p)
      PROVE  PathOK'
  BY <1>11 DEF Spawn
<1>12. ASSUME NEW a \in Actors, NEW s \in Scripts, Close(a, s)
      PROVE  PathOK'
  BY <1>12 DEF Close, Goto, Joinable, Started, Finished
<1>13. ASSUME NEW s \in Scripts, NEW e \in BOOLEAN, ScriptEnds(s, e)
      PROVE  PathOK'
  BY <1>13 DEF ScriptEnds, Goto
<1>14. ASSUME NEW a \in Actors, Finish(a)
      PROVE  PathOK'
  BY <1>14 DEF Finish, Orphans, Joinable, Goto
<1>15. ASSUME NEW s \in Scripts, Exit(s)
      PROVE  PathOK'
  BY <1>15 DEF Exit, Descendants, Goto
<1>16. ASSUME NEW s \in Scripts, DestroyMember(s)
      PROVE  PathOK'
  BY <1>16 DEF DestroyMember, Joinable, Started
<1>17. ASSUME Destroy
      PROVE  PathOK'
  BY <1>17 DEF Destroy, Collect, Goto
<1>18. ASSUME Destroyed
      PROVE  PathOK'
  BY <1>18 DEF Destroyed, Goto
<1>19. ASSUME MainEnds
      PROVE  PathOK'
  BY <1>19 DEF MainEnds, Goto
<1>20. CASE UNCHANGED threadVars
  BY <1>20 DEF threadVars
<1> QED
  BY <1>1, <1>2, <1>3, <1>4, <1>5, <1>6, <1>7, <1>8, <1>9, <1>10, <1>11, <1>12, <1>13, <1>14,
     <1>15, <1>16, <1>17, <1>18, <1>19, <1>20 DEF ThreadsNext, KeepOn, Leave, Interrupted

\* When the forced pass is over, whoever is in the batch has finished or was
\* interrupted, whether or not it had an OS thread yet.
LEMMA BatchStep ==
  ASSUME ThreadsTypeOK, HandleOK, BatchOK, [ThreadsNext]_threadVars
  PROVE  BatchOK'
<1> USE ScriptThreadsAssumption DEF ThreadsTypeOK, HandleOK, BatchOK, Actors, Finished
<1>1. ASSUME NEW a \in Actors, Start(a)
      PROVE  BatchOK'
  BY <1>1 DEF Start
<1>2. ASSUME NEW a \in Actors, CloseJoin(a)
      PROVE  BatchOK'
  BY <1>2 DEF CloseJoin, Joined, Goto
<1>3. ASSUME NEW a \in Actors, CloseRemove(a)
      PROVE  BatchOK'
  BY <1>3 DEF CloseRemove, Goto
<1>4. ASSUME NEW a \in Actors, GraceOver(a)
      PROVE  BatchOK'
  BY <1>4 DEF GraceOver, Goto
<1>5. ASSUME NEW a \in Actors, ForcePass(a)
      PROVE  BatchOK'
  BY <1>5 DEF ForcePass, Stragglers, Finished, Goto
<1>6. ASSUME NEW a \in Actors, Join(a)
      PROVE  BatchOK'
  BY <1>6 DEF Join, Joined
<1>7. ASSUME NEW a \in Actors, ShutdownDone(a)
      PROVE  BatchOK'
  BY <1>7 DEF ShutdownDone, Goto
<1>8. ASSUME NEW a \in Actors, NEW s \in Scripts, JoinNext(a, s)
      PROVE  BatchOK'
  BY <1>8 DEF JoinNext, Joinable, Started
<1>9. ASSUME NEW a \in Actors, JoinThrows(a)
      PROVE  BatchOK'
  BY <1>9 DEF JoinThrows
<1>10. ASSUME NEW a \in Actors, ShutdownTree(a)
      PROVE  BatchOK'
  BY <1>10 DEF ShutdownTree, Collect, Goto
<1>11. ASSUME NEW a \in Actors, NEW s \in Scripts, NEW p \in ThreadPaths, Spawn(a, s, p)
      PROVE  BatchOK'
  BY <1>11 DEF Spawn
<1>12. ASSUME NEW a \in Actors, NEW s \in Scripts, Close(a, s)
      PROVE  BatchOK'
  BY <1>12 DEF Close, Goto, Joinable, Started, Finished
<1>13. ASSUME NEW s \in Scripts, NEW e \in BOOLEAN, ScriptEnds(s, e)
      PROVE  BatchOK'
  BY <1>13 DEF ScriptEnds, Goto
<1>14. ASSUME NEW a \in Actors, Finish(a)
      PROVE  BatchOK'
  BY <1>14 DEF Finish, Orphans, Joinable, Goto
<1>15. ASSUME NEW s \in Scripts, Exit(s)
      PROVE  BatchOK'
  BY <1>15 DEF Exit, Descendants, Goto
<1>16. ASSUME NEW s \in Scripts, DestroyMember(s)
      PROVE  BatchOK'
  BY <1>16 DEF DestroyMember, Joinable, Started
<1>17. ASSUME Destroy
      PROVE  BatchOK'
  BY <1>17 DEF Destroy, Collect, Goto
<1>18. ASSUME Destroyed
      PROVE  BatchOK'
  BY <1>18 DEF Destroyed, Goto
<1>19. ASSUME MainEnds
      PROVE  BatchOK'
  BY <1>19 DEF MainEnds, Goto
<1>20. CASE UNCHANGED threadVars
  BY <1>20 DEF threadVars
<1> QED
  BY <1>1, <1>2, <1>3, <1>4, <1>5, <1>6, <1>7, <1>8, <1>9, <1>10, <1>11, <1>12, <1>13, <1>14,
     <1>15, <1>16, <1>17, <1>18, <1>19, <1>20 DEF ThreadsNext, KeepOn, Leave, Interrupted

\* A thread that leaves the list enters a batch in the same step, and a thread
\* that leaves a batch has ended or was interrupted.
LEMMA NoneForgotten ==
  ASSUME ThreadsTypeOK, LabelOK, HandleOK, BatchOK, NoForgottenThread, [ThreadsNext]_threadVars
  PROVE  NoForgottenThread'
<1> USE ScriptThreadsAssumption DEF ThreadsTypeOK, LabelOK, HandleOK, BatchOK, NoForgottenThread,
                                   Actors, Live, Finished
<1>1. ASSUME NEW a \in Actors, Start(a)
      PROVE  NoForgottenThread'
  BY <1>1 DEF Start
<1>2. ASSUME NEW a \in Actors, CloseJoin(a)
      PROVE  NoForgottenThread'
  BY <1>2 DEF CloseJoin, Joined, Goto
<1>3. ASSUME NEW a \in Actors, CloseRemove(a)
      PROVE  NoForgottenThread'
  BY <1>3 DEF CloseRemove, Goto
<1>4. ASSUME NEW a \in Actors, GraceOver(a)
      PROVE  NoForgottenThread'
  BY <1>4 DEF GraceOver, Goto
<1>5. ASSUME NEW a \in Actors, ForcePass(a)
      PROVE  NoForgottenThread'
  BY <1>5 DEF ForcePass, Stragglers, Finished, Goto
<1>6. ASSUME NEW a \in Actors, Join(a)
      PROVE  NoForgottenThread'
  BY <1>6 DEF Join, Joined
<1>7. ASSUME NEW a \in Actors, ShutdownDone(a)
      PROVE  NoForgottenThread'
  BY <1>7 DEF ShutdownDone, Goto
<1>8. ASSUME NEW a \in Actors, NEW s \in Scripts, JoinNext(a, s)
      PROVE  NoForgottenThread'
  BY <1>8 DEF JoinNext, Joinable, Started
<1>9. ASSUME NEW a \in Actors, JoinThrows(a)
      PROVE  NoForgottenThread'
  BY <1>9 DEF JoinThrows
<1>10. ASSUME NEW a \in Actors, ShutdownTree(a)
      PROVE  NoForgottenThread'
  BY <1>10 DEF ShutdownTree, Collect, Goto
<1>11. ASSUME NEW a \in Actors, NEW s \in Scripts, NEW p \in ThreadPaths, Spawn(a, s, p)
      PROVE  NoForgottenThread'
  BY <1>11 DEF Spawn
<1>12. ASSUME NEW a \in Actors, NEW s \in Scripts, Close(a, s)
      PROVE  NoForgottenThread'
  BY <1>12 DEF Close, Goto, Joinable, Started, Finished
<1>13. ASSUME NEW s \in Scripts, NEW e \in BOOLEAN, ScriptEnds(s, e)
      PROVE  NoForgottenThread'
  BY <1>13 DEF ScriptEnds, Goto
<1>14. ASSUME NEW a \in Actors, Finish(a)
      PROVE  NoForgottenThread'
  BY <1>14 DEF Finish, Orphans, Joinable, Goto
<1>15. ASSUME NEW s \in Scripts, Exit(s)
      PROVE  NoForgottenThread'
  BY <1>15 DEF Exit, Descendants, Goto
<1>16. ASSUME NEW s \in Scripts, DestroyMember(s)
      PROVE  NoForgottenThread'
  BY <1>16 DEF DestroyMember, Joinable, Started
<1>17. ASSUME Destroy
      PROVE  NoForgottenThread'
  BY <1>17 DEF Destroy, Collect, Goto
<1>18. ASSUME Destroyed
      PROVE  NoForgottenThread'
  BY <1>18 DEF Destroyed, Goto
<1>19. ASSUME MainEnds
      PROVE  NoForgottenThread'
  BY <1>19 DEF MainEnds, Goto
<1>20. CASE UNCHANGED threadVars
  BY <1>20 DEF threadVars
<1> QED
  BY <1>1, <1>2, <1>3, <1>4, <1>5, <1>6, <1>7, <1>8, <1>9, <1>10, <1>11, <1>12, <1>13, <1>14,
     <1>15, <1>16, <1>17, <1>18, <1>19, <1>20 DEF ThreadsNext, KeepOn, Leave, Interrupted
-----------------------------------------------------------------------------

LEMMA InitHolds == ThreadsInit => IInv
<1>1. SUFFICES ASSUME ThreadsInit PROVE IInv
  OBVIOUS
<1> USE ScriptThreadsAssumption, <1>1 DEF ThreadsInit, Actors
<1>2. ThreadsTypeOK
  BY DEF ThreadsTypeOK, ThreadLabels
<1>3. LabelOK /\ HandleOK /\ PathOK
  BY DEF LabelOK, HandleOK, PathOK
<1>4. BatchOK /\ NoForgottenThread
  BY DEF BatchOK, NoForgottenThread, Live
<1> QED
  BY <1>2, <1>3, <1>4 DEF IInv

LEMMA StepKeeps == IInv /\ [ThreadsNext]_threadVars => IInv'
<1>1. SUFFICES ASSUME IInv, [ThreadsNext]_threadVars PROVE IInv'
  OBVIOUS
<1>2. ThreadsTypeOK' /\ LabelOK' /\ HandleOK'
  BY <1>1, TypeStep, LabelStep, HandleStep DEF IInv
<1>3. PathOK' /\ BatchOK' /\ NoForgottenThread'
  BY <1>1, PathStep, BatchStep, NoneForgotten DEF IInv
<1> QED
  BY <1>2, <1>3 DEF IInv

\* A live thread has a path, and its handle is not closed: by PathOK the path is
\* in nodes_ and no other live thread has it.
LEMMA PathsAreNames == IInv => OnePathOneThread
<1>1. SUFFICES ASSUME IInv, NEW s \in Scripts, Live(s)
               PROVE  /\ path[s] \in occupied
                      /\ \A u \in Scripts \ {s} : Live(u) => path[u] # path[s]
  BY DEF OnePathOneThread
<1>2. \A u \in Scripts : Live(u) => u \notin closedHandles /\ path[u] \in ThreadPaths
  BY <1>1 DEF IInv, LabelOK, Live
<1>3. path[s] # None
  BY <1>1, <1>2, ScriptThreadsAssumption
<1> QED
  BY <1>1, <1>2, <1>3 DEF IInv, PathOK

LEMMA Invariance == ThreadsSpec => []IInv
<1>1. ThreadsInit => IInv
  BY InitHolds
<1>2. IInv /\ [ThreadsNext]_threadVars => IInv'
  BY StepKeeps
<1> QED
  BY <1>1, <1>2, PTL DEF ThreadsSpec

\* The variables of the lifecycle half of ThreadTree keep their types.
THEOREM TypeCorrect == ThreadsSpec => []ThreadsTypeOK
<1>1. IInv => ThreadsTypeOK
  BY DEF IInv
<1> QED
  BY <1>1, Invariance, PTL

\* spawn(), close() and remove(), in any interleaving, leave each live thread
\* its path for itself.
THEOREM OnePathOneThreadAlways == ThreadsSpec => []OnePathOneThread
<1>1. IInv => OnePathOneThread
  BY PathsAreNames
<1> QED
  BY <1>1, Invariance, PTL

\* Concurrent shutdowns, closes and spawns of any number of threads forget none,
\* until the members of the tree are destroyed.
THEOREM NoThreadForgotten == ThreadsSpec => []NoForgottenThread
<1>1. IInv => NoForgottenThread
  BY DEF IInv
<1> QED
  BY <1>1, Invariance, PTL
=============================================================================
