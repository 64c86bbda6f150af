----------------------------- MODULE ExecutorProofs -----------------------------
(***************************************************************************)
(* Theorems about one call of ClaudeExecutor.Run, whatever the process     *)
(* prints, leaves behind and ignores, and whatever the pipe holds.         *)
(***************************************************************************)
EXTENDS Executor, TLAPS

-----------------------------------------------------------------------------
(* The inductive invariant.                                                *)

(* Without a process there is no goroutine, no descendant and no deadline  *)
(* to be reported.                                                         *)
Unborn == /\ run = "idle" => leader = "unborn"
          /\ leader = "unborn" =>
               /\ run \in {"idle", "returned"} /\ status \in {"none", "failed", "fatal"}
               /\ waiter = "off" /\ watch = "off" /\ stream = "off"
               /\ child = NoChild("none")
          /\ status = "fatal" => leader = "unborn"

(* What cmd.Wait knows once it has the process.                            *)
Waited == /\ waiter \in {"watcher", "stderr", "done"} =>
               LeaderDead /\ (waitErr = "nil" => leader = "zero")
          /\ waiter = "done" => ~ChildHolds("stderr")

(* Run goes on behind cmd.Wait, and returns behind the stream.             *)
Behind == /\ run \in {"drain", "stop"} => waiter = "done"
          /\ run = "returned" /\ leader # "unborn" => waiter = "done" /\ StreamDone
          /\ status = "success" => waitErr = "nil"

(* Nobody is killed while the context is live.                             *)
Spared == /\ ctx = "live" => /\ termed = {} /\ leader # "killed"
                             /\ run \notin {"grace", "reap", "stop"}
          /\ status = "timeout" => ctx = "expired"

(* The last result event printed is the last in the pipe, or was seen.     *)
Plain(lo) == \A k \in DOMAIN pipe : k >= lo => pipe[k] \notin Verdicts
LastIn == \E i \in DOMAIN pipe : said = pipe[i] /\ said \in Verdicts /\ Plain(i + 1)

Followed == /\ stream \in {"off", "on"} /\ pipeOpen => (seen = said /\ Plain(1)) \/ LastIn
            /\ stream = "eof" => seen = said /\ LeaderDead /\ ~ChildHolds("stdout")
            /\ status = "success" => seen # "TASK_FAILED"

Accounts == Unborn /\ Waited /\ Behind /\ Spared

IInv == TypeOK /\ Accounts /\ Followed

-----------------------------------------------------------------------------
(* The types, after every step of the processes and of the goroutines.     *)
LEMMA TypeStep ==
  ASSUME TypeOK, [Next]_vars
  PROVE  TypeOK'
<1> USE DEF TypeOK, procs, output, waits
<1>1. CASE Start
  BY <1>1 DEF Start
<1>2. CASE StartFails
  BY <1>2 DEF StartFails
<1>3. CASE Expire
  BY <1>3 DEF Expire
<1>4. CASE Cancel
  BY <1>4 DEF Cancel
<1>5. ASSUME NEW line \in Lines, Write(line) PROVE TypeOK'
  <2>1. pipe' \in Seq(Lines) /\ Len(pipe') = Len(pipe) + 1 /\ Len(pipe) < PipeCap
    BY <1>5 DEF Write
  <2> QED
    BY <1>5, <2>1, PipeCapAssumption DEF Write
<1>6. ASSUME NEW c \in Descendants, Spawn(c) PROVE TypeOK'
  BY <1>6 DEF Spawn
<1>7. CASE LeaderEnds
  BY <1>7 DEF LeaderEnds
<1>8. CASE ChildEnds
  BY <1>8 DEF ChildEnds, Gone, NoChild
<1>9. CASE ChildHeedsTerm
  BY <1>9 DEF ChildHeedsTerm, Gone, NoChild
<1>10. CASE Scan
  <2>1. pipe \in Seq(Lines) /\ pipe # <<>>
    BY <1>10 DEF Scan
  <2>2. pipe' \in Seq(Lines) /\ Len(pipe') = Len(pipe) - 1
    BY <1>10, <2>1 DEF Scan
  <2>3. Len(pipe') <= PipeCap
    BY <2>1, <2>2, PipeCapAssumption
  <2>4. seen' \in Verdicts \cup {"none"}
    BY <1>10 DEF Scan, Verdict
  <2> QED
    BY <1>10, <2>2, <2>3, <2>4 DEF Scan
<1>11. CASE ScanEnds
  BY <1>11 DEF ScanEnds
<1>12. CASE WatchFires
  BY <1>12 DEF WatchFires, KillLeader
<1>13. CASE WaitProcess
  BY <1>13 DEF WaitProcess
<1>14. CASE WaitWatcher
  BY <1>14 DEF WaitWatcher
<1>15. CASE WaitStderr
  <2>1. pipeOpen' \in BOOLEAN
    BY <1>15 DEF WaitStderr
  <2> QED
    BY <1>15, <2>1 DEF WaitStderr
<1>16. CASE TakeDone
  BY <1>16 DEF TakeDone
<1>17. CASE TakeCtx
  BY <1>17 DEF TakeCtx
<1>18. CASE GraceOver
  BY <1>18 DEF GraceOver, KillGroup, KillLeader, Gone, NoChild
<1>19. CASE Reaped
  BY <1>19 DEF Reaped
<1>20. CASE ReturnExited
  BY <1>20 DEF ReturnExited
<1>21. CASE ReturnStopped
  BY <1>21 DEF ReturnStopped
<1>22. CASE UNCHANGED vars
  BY <1>22 DEF vars
<1> HIDE DEF TypeOK, procs, output, waits
<1> QED
  BY <1>1, <1>2, <1>3, <1>4, <1>5, <1>6, <1>7, <1>8, <1>9, <1>10, <1>11,
     <1>12, <1>13, <1>14, <1>15, <1>16, <1>17, <1>18, <1>19, <1>20, <1>21, <1>22
  DEF Next, Processes, Goroutines

-----------------------------------------------------------------------------
(* What the goroutines know of each other.                                 *)
LEMMA AccountsStep ==
  ASSUME TypeOK, Accounts, [Next]_vars
  PROVE  Accounts'
<1> USE DEF TypeOK, Accounts, Unborn, Waited, Behind, Spared, StreamDone, LeaderDead,
           ChildHolds, ChildUp, procs, output, waits
<1>1. CASE Start
  BY <1>1 DEF Start
<1>2. CASE StartFails
  BY <1>2 DEF StartFails
<1>3. CASE Expire
  BY <1>3 DEF Expire
<1>4. CASE Cancel
  BY <1>4 DEF Cancel
<1>5. ASSUME NEW line \in Lines, Write(line) PROVE Accounts'
  BY <1>5 DEF Write
<1>6. ASSUME NEW c \in Descendants, Spawn(c) PROVE Accounts'
  BY <1>6 DEF Spawn
<1>7. CASE LeaderEnds
  BY <1>7 DEF LeaderEnds
<1>8. CASE ChildEnds
  BY <1>8 DEF ChildEnds, Gone, NoChild
<1>9. CASE ChildHeedsTerm
  BY <1>9 DEF ChildHeedsTerm, Gone, NoChild
<1>10. CASE Scan
  BY <1>10 DEF Scan
<1>11. CASE ScanEnds
  BY <1>11 DEF ScanEnds
<1>12. CASE WatchFires
  BY <1>12 DEF WatchFires, KillLeader
<1>13. CASE WaitProcess
  BY <1>13 DEF WaitProcess
<1>14. CASE WaitWatcher
  BY <1>14 DEF WaitWatcher
<1>15. CASE WaitStderr
  BY <1>15 DEF WaitStderr
<1>16. CASE TakeDone
  BY <1>16 DEF TakeDone
<1>17. CASE TakeCtx
  BY <1>17 DEF TakeCtx
<1>18. CASE GraceOver
  BY <1>18 DEF GraceOver, KillGroup, KillLeader, Gone, NoChild
<1>19. CASE Reaped
  BY <1>19 DEF Reaped
<1>20. CASE ReturnExited
  BY <1>20 DEF ReturnExited
<1>21. CASE ReturnStopped
  BY <1>21 DEF ReturnStopped
<1>22. CASE UNCHANGED vars
  BY <1>22 DEF vars
<1> HIDE DEF TypeOK, Accounts, Unborn, Waited, Behind, Spared, StreamDone, LeaderDead,
           ChildHolds, ChildUp, procs, output, waits
<1> QED
  BY <1>1, <1>2, <1>3, <1>4, <1>5, <1>6, <1>7, <1>8, <1>9, <1>10, <1>11,
     <1>12, <1>13, <1>14, <1>15, <1>16, <1>17, <1>18, <1>19, <1>20, <1>21, <1>22
  DEF Next, Processes, Goroutines

-----------------------------------------------------------------------------
(* What the streaming goroutine knows of the output: the last verdict is   *)
(* behind it, or ahead of it in the pipe.                                  *)
(* How a verdict is shown to be the last in the new pipe.                  *)
LEMMA LastNow ==
  ASSUME NEW m \in DOMAIN pipe', said' = pipe'[m], said' \in Verdicts,
         \A k \in DOMAIN pipe' : k >= m + 1 => pipe'[k] \notin Verdicts
  PROVE  LastIn'
  BY DEF LastIn, Plain

(* Every step keeps that account of the output.                             *)
LEMMA FollowedStep ==
  ASSUME TypeOK, Accounts, Followed, [Next]_vars
  PROVE  Followed'
<1> USE DEF TypeOK, Accounts, Unborn, Waited, Behind, Spared, Followed, Plain, LastIn,
           StreamDone, LeaderDead, ChildHolds, ChildUp, procs, output, waits
<1>1. CASE Start
  BY <1>1 DEF Start
<1>2. CASE StartFails
  BY <1>2 DEF StartFails
<1>3. CASE Expire
  BY <1>3 DEF Expire
<1>4. CASE Cancel
  BY <1>4 DEF Cancel
<1>5. ASSUME NEW line \in Lines, Write(line) PROVE Followed'
  <2> HIDE DEF Plain, LastIn, Followed, Accounts, TypeOK
  <2> DEFINE n == Len(pipe) + 1
  <2>1. /\ pipe \in Seq(Lines) /\ pipe' = Append(pipe, line)
        /\ said' = (IF line \in Verdicts THEN line ELSE said) /\ seen' = seen
    BY <1>5 DEF Write, TypeOK
  <2>2. /\ n \in Nat /\ DOMAIN pipe = 1..(n - 1) /\ DOMAIN pipe' = 1..n /\ pipe'[n] = line
        /\ \A k \in DOMAIN pipe : pipe'[k] = pipe[k]
    BY <2>1
  <2>3. line \in Verdicts => LastIn'
    <3>0. HAVE line \in Verdicts
    <3>1. n \in DOMAIN pipe' /\ said' = pipe'[n] /\ said' \in Verdicts
      BY <2>1, <2>2, <3>0
    <3>2. \A k \in DOMAIN pipe' : k >= n + 1 => pipe'[k] \notin Verdicts
      BY <2>2
    <3> QED BY <3>1, <3>2, LastNow
  <2>4. line \notin Verdicts =>
          (seen = said /\ Plain(1) => seen' = said' /\ Plain(1)') /\ (LastIn => LastIn')
    <3>0. HAVE line \notin Verdicts
    <3>1. ASSUME NEW lo \in Nat, Plain(lo) PROVE Plain(lo)'
      BY <3>0, <3>1, <2>2 DEF Plain
    <3>2. LastIn => LastIn'
      BY <3>0, <3>1, <2>1, <2>2 DEF LastIn
    <3> QED BY <3>0, <3>1, <3>2, <2>1
  <2>5. stream # "eof" /\ stream' = stream /\ pipeOpen' = pipeOpen /\ status' = status
    BY <1>5 DEF Write, Followed, ChildHolds, ChildUp, LeaderDead
  <2> QED
    BY <2>1, <2>3, <2>4, <2>5 DEF Followed
<1>6. ASSUME NEW c \in Descendants, Spawn(c) PROVE Followed'
  BY <1>6 DEF Spawn
<1>7. CASE LeaderEnds
  BY <1>7 DEF LeaderEnds
<1>8. CASE ChildEnds
  BY <1>8 DEF ChildEnds, Gone, NoChild
<1>9. CASE ChildHeedsTerm
  BY <1>9 DEF ChildHeedsTerm, Gone, NoChild
<1>10. CASE Scan
  <2> HIDE DEF Plain, LastIn, Followed, Accounts, TypeOK
  <2>1. pipe \in Seq(Lines) /\ pipe # <<>> /\ pipe' = Tail(pipe) /\ said' = said
    BY <1>10 DEF Scan, TypeOK
  <2>2. \A k \in DOMAIN pipe' : k + 1 \in DOMAIN pipe /\ pipe'[k] = pipe[k + 1]
    BY <2>1
  <2>3. \A i \in DOMAIN pipe : i # 1 => i - 1 \in DOMAIN pipe' /\ pipe'[i - 1] = pipe[i]
    BY <2>1
  <2>4. Plain(1) => pipe[1] \notin Verdicts /\ Plain(1)'
    BY <2>1, <2>2 DEF Plain
  <2>5. ASSUME LastIn
        PROVE  LastIn' \/ (said = pipe[1] /\ said \in Verdicts /\ Plain(1)')
    <3>1. PICK i \in DOMAIN pipe : said = pipe[i] /\ said \in Verdicts /\ Plain(i + 1)
      BY <2>5 DEF LastIn
    <3>2. CASE i = 1
      BY <3>1, <3>2, <2>1, <2>2 DEF Plain
    <3>3. CASE i # 1
      <4>1. \A k \in DOMAIN pipe' : k >= i => pipe'[k] \notin Verdicts
        BY <3>1, <2>1, <2>2 DEF Plain
      <4>2. PICK m \in DOMAIN pipe' : m = i - 1 /\ m + 1 = i /\ said' = pipe'[m]
        BY <3>1, <3>3, <2>1, <2>3
      <4>3. said' \in Verdicts
        BY <3>1, <2>1
      <4>4. LastIn'
        BY <4>1, <4>2, <4>3, LastNow
      <4> QED BY <4>4
    <3> QED BY <3>2, <3>3
  <2>6. stream' \in {"on", "huge"} /\ (pipeOpen /\ stream = "on") /\ Head(pipe) = pipe[1]
    BY <1>10, <2>1 DEF Scan
  <2>7. seen' = IF pipe[1] \in Verdicts THEN pipe[1] ELSE seen
    BY <1>10, <2>1 DEF Scan, Verdict
  <2>8. status' = status /\ status # "success"
    BY <1>10, <2>6 DEF Scan, Accounts, Unborn, Behind, StreamDone, TypeOK
  <2>9. (seen' = said' /\ Plain(1)') \/ LastIn'
    <3>1. CASE seen = said /\ Plain(1)
      BY <3>1, <2>1, <2>4, <2>7
    <3>2. CASE LastIn
      <4>1. CASE LastIn'
        BY <4>1
      <4>2. CASE said = pipe[1] /\ said \in Verdicts /\ Plain(1)'
        BY <4>2, <2>1, <2>7
      <4> QED BY <3>2, <2>5, <4>1, <4>2
    <3> QED BY <3>1, <3>2, <2>6 DEF Followed
  <2> QED
    BY <2>6, <2>8, <2>9 DEF Followed
<1>11. CASE ScanEnds
  BY <1>11 DEF ScanEnds
<1>12. CASE WatchFires
  BY <1>12 DEF WatchFires, KillLeader
<1>13. CASE WaitProcess
  BY <1>13 DEF WaitProcess
<1>14. CASE WaitWatcher
  BY <1>14 DEF WaitWatcher
<1>15. CASE WaitStderr
  BY <1>15 DEF WaitStderr
<1>16. CASE TakeDone
  BY <1>16 DEF TakeDone
<1>17. CASE TakeCtx
  BY <1>17 DEF TakeCtx
<1>18. CASE GraceOver
  BY <1>18 DEF GraceOver, KillGroup, KillLeader, Gone, NoChild
<1>19. CASE Reaped
  BY <1>19 DEF Reaped
<1>20. CASE ReturnExited
  BY <1>20 DEF ReturnExited
<1>21. CASE ReturnStopped
  BY <1>21 DEF ReturnStopped
<1>22. CASE UNCHANGED vars
  BY <1>22 DEF vars
<1> HIDE DEF TypeOK, Accounts, Unborn, Waited, Behind, Spared, Followed, Plain, LastIn,
           StreamDone, LeaderDead, ChildHolds, ChildUp, procs, output, waits
<1> QED
  BY <1>1, <1>2, <1>3, <1>4, <1>5, <1>6, <1>7, <1>8, <1>9, <1>10, <1>11,
     <1>12, <1>13, <1>14, <1>15, <1>16, <1>17, <1>18, <1>19, <1>20, <1>21, <1>22
  DEF Next, Processes, Goroutines

-----------------------------------------------------------------------------
(* A run starts in the invariant and stays in it.                          *)
LEMMA Invariance == Spec => []IInv
<1>1. Init => IInv
  BY PipeCapAssumption DEF Init, IInv, TypeOK, Accounts, Unborn, Waited, Behind, Spared,
     Followed, Plain, LastIn, StreamDone, LeaderDead, ChildHolds, ChildUp, NoChild
<1>2. IInv /\ [Next]_vars => IInv'
  BY TypeStep, AccountsStep, FollowedStep DEF IInv
<1> QED
  BY <1>1, <1>2, PTL DEF Spec

(* The state of a run is well-typed, and it has a status when it has       *)
(* returned, and only then.                                                *)
THEOREM TypeCorrect == Spec => []TypeOK
<1>1. IInv => TypeOK
  BY DEF IInv
<1> QED
  BY <1>1, Invariance, PTL

(* The status that Run returns tells what became of the process, however   *)
(* the exit, the deadline, the two kills and the goroutines interleave.    *)
THEOREM StatusIsTrue == Spec => []StatusTellsWhy
<1>1. IInv => StatusTellsWhy
  BY DEF IInv, TypeOK, Accounts, Unborn, Waited, Behind, Spared, StatusTellsWhy, LeaderDead
<1> QED
  BY <1>1, Invariance, PTL

(* When Run returns, nobody reads or writes its texts any more.            *)
THEOREM ResultStays == Spec => []ResultIsFinal
<1>1. IInv => ResultIsFinal
  BY DEF IInv, TypeOK, Accounts, Unborn, Waited, Behind, StreamDone, ResultIsFinal,
     ChildHolds, ChildUp, NoChild
<1> QED
  BY <1>1, Invariance, PTL

(* A run whose stream was read to its end and whose last result event says *)
(* TASK_FAILED is not a success, whatever it printed before.               *)
THEOREM FailureIsSeen == Spec => []FailureSeen
<1>1. IInv => FailureSeen
  BY DEF IInv, Followed, FailureSeen
<1> QED
  BY <1>1, Invariance, PTL
=================================================================================
