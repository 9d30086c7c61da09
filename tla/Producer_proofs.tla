---------------------------- MODULE Producer_proofs ----------------------------
(***************************************************************************)
(* Proofs about Producer, for any runs of the script (any of them manual)  *)
(* and any delays.                                                         *)
(***************************************************************************)
EXTENDS Producer, Lemmas, TLAPS

-------------------------------------------------------------------------------
(* Types *)

\* The ways a heartbeat is written.
LEMMA HeartTypes ==
    /\ FreshHeart \in Hearts
    /\ \A h \in Hearts : Success(h) \in Hearts
    /\ \A h \in Hearts : Overdue(h) \in Hearts /\ Overdue(h).error = h.error
    /\ \A h \in Hearts : StopOf(h) \in Hearts /\ StopOf(h).error = h.error
    /\ \A h \in Hearts : FailureOf(h) \in Hearts /\ FailureOf(h).error
    /\ \A h \in Hearts : ExhaustionOf(h) \in Hearts /\ ExhaustionOf(h).error
  <1>1. FreshHeart \in Hearts
    BY ConstantsAssumption DEF FreshHeart, Hearts
  <1>2. ASSUME NEW h \in Hearts
        PROVE  /\ Success(h) \in Hearts
               /\ Overdue(h) \in Hearts /\ Overdue(h).error = h.error
               /\ StopOf(h) \in Hearts /\ StopOf(h).error = h.error
    BY ConstantsAssumption DEF Hearts, Success, Overdue, StopOf
  <1>3. ASSUME NEW h \in Hearts
        PROVE  FailureOf(h) \in Hearts /\ FailureOf(h).error
    BY DEF Hearts, FailureOf
  <1>4. ASSUME NEW h \in Hearts
        PROVE  ExhaustionOf(h) \in Hearts /\ ExhaustionOf(h).error
    <2>1. FailureOf(h) \in Hearts /\ FailureOf(h).error
      BY <1>3
    <2> QED
      BY <2>1, ConstantsAssumption DEF Hearts, ExhaustionOf
  <1> QED
    BY <1>1, <1>2, <1>3, <1>4

\* A process writes its own heartbeat, and then the file.
LEMMA HeartWritten ==
    ASSUME TypeOK, NEW p \in Proc, NEW h \in Hearts, NEW b \in BOOLEAN,
           heart' = [heart EXCEPT ![p] = h], WriteStatus(b, heart'[p])
    PROVE  /\ heart' \in [Proc -> Hearts] /\ heart'[p] = h
           /\ file' \in [running : BOOLEAN, heart : Hearts]
           /\ file' = [running |-> b, heart |-> h]
  BY DEF TypeOK, WriteStatus

\* A wait takes no negative time, and what is left of the grace period stays in it.
LEMMA WaitTypes ==
    ASSUME TypeOK, NEW p \in Proc, WaitEnds(p)
    PROVE  grace' \in [Proc -> 0..Grace \cup {NoStop}]
  <1>1. PICK d \in Lengths(p) :
          /\ grace[p] # NoStop => d <= grace[p]
          /\ grace' = [grace EXCEPT ![p] = IF @ = NoStop THEN NoStop ELSE @ - d]
    BY DEF WaitEnds
  <1>2. d \in Nat
    <2>1. attempt[p] - 1 \in Nat
      BY DEF TypeOK
    <2>2. Pow2[attempt[p] - 1] \in Nat
      BY <2>1, Pow2Facts
    <2> QED
      BY <2>2, ConstantsAssumption DEF Lengths
  <1>3. grace \in [Proc -> 0..Grace \cup {NoStop}] /\ Grace \in Nat
    BY ConstantsAssumption DEF TypeOK
  <1> QED
    BY <1>1, <1>2, <1>3 DEF NoStop

LEMMA GotoTypes ==
    ASSUME TypeOK, NEW p \in Proc, NEW phase \in Phases, Goto(p, phase)
    PROVE  pc' \in [Proc -> Phases] /\ pid' \in [Proc -> BOOLEAN]
  BY DEF TypeOK, Goto

LEMMA WriteTypes ==
    ASSUME NEW b \in BOOLEAN, NEW h \in Hearts, WriteStatus(b, h)
    PROVE  file' \in [running : BOOLEAN, heart : Hearts]
  BY DEF WriteStatus

LEMMA EndTypes ==
    ASSUME TypeOK, NEW p \in Proc, ProcessEnds(p)
    PROVE  /\ up' \in BOOLEAN /\ made' \in Nat
           /\ answered' \in [Proc -> BOOLEAN]
           /\ pc' \in [Proc -> Phases] /\ pid' \in [Proc -> BOOLEAN]
           /\ attempt' \in [Proc -> 1..MaxAttempts]
           /\ stopping' \in [Proc -> BOOLEAN]
           /\ grace' \in [Proc -> 0..Grace \cup {NoStop}]
           /\ heart' \in [Proc -> Hearts]
  <1>1. pc' \in [Proc -> Phases] /\ pid' \in [Proc -> BOOLEAN]
    BY GotoTypes DEF ProcessEnds, Phases
  <1>2. 1 \in 1..MaxAttempts
    BY ConstantsAssumption
  <1> QED
    BY <1>1, <1>2, HeartTypes DEF TypeOK, ProcessEnds

LEMMA GoneTypes ==
    ASSUME TypeOK, NEW p \in Proc, Gone(p)
    PROVE  wanted' \in [Proc -> BOOLEAN] /\ ProcessEnds(p)
  BY DEF TypeOK, Gone

\* Every step of a process keeps the types.
LEMMA ProcessTypes ==
    ASSUME TypeOK, NEW p \in Proc,
           Script(p) \/ GraceExpires(p) \/ NodeGenerates(p) \/ StartProducer(p) \/ StopProducer(p)
             \/ StopInWrite(p) \/ Kill(p)
    PROVE  TypeOK'
  <1>1. CASE NotePid(p)
    BY <1>1 DEF NotePid, TypeOK
  <1>2. CASE Launch(p)
    BY <1>2, GotoTypes DEF Launch, TypeOK, Phases, Waits
  <1>3. CASE Refused(p)
    BY <1>3 DEF Refused, TypeOK
  <1>4. CASE FirstWrite(p)
    BY <1>4, GotoTypes, WriteTypes DEF FirstWrite, TypeOK, Phases, Waits
  <1>5. CASE EnterMineOnce(p)
    BY <1>5, GotoTypes, ConstantsAssumption DEF EnterMineOnce, TypeOK, Phases, Waits
  <1>6. CASE Attempt(p)
    BY <1>6, GotoTypes, WriteTypes DEF Attempt, TypeOK, Phases, Waits
  <1>7. CASE NodeGenerates(p)
    BY <1>7 DEF NodeGenerates, TypeOK
  <1>8. CASE RpcOk(p)
    BY <1>8, WaitTypes, GotoTypes DEF RpcOk, TypeOK, Phases, Waits
  <1>9. CASE RpcFails(p)
    BY <1>9, WaitTypes, GotoTypes DEF RpcFails, TypeOK, Phases, Waits
  <1>10. CASE CountOk(p)
    BY <1>10, WaitTypes, GotoTypes DEF CountOk, TypeOK, Phases, Waits
  <1>11. CASE CountFails(p)
    BY <1>11, WaitTypes, GotoTypes DEF CountFails, TypeOK, Phases, Waits
  <1>12. CASE RecordFailure(p)
    <2>1. heart[p] \in Hearts /\ FailureOf(heart[p]) \in Hearts
      BY HeartTypes DEF TypeOK
    <2>2. /\ heart' \in [Proc -> Hearts]
          /\ file' \in [running : BOOLEAN, heart : Hearts]
      BY <1>12, <2>1, HeartWritten DEF RecordFailure
    <2> QED
      BY <1>12, <2>2, GotoTypes DEF RecordFailure, TypeOK, Phases, Waits
  <1>13. CASE RetryDelayEnds(p)
    BY <1>13, WaitTypes, GotoTypes, ConstantsAssumption DEF RetryDelayEnds, TypeOK, NextAttempt, AttemptAfter, Phases, Waits
  <1>14. CASE Exhausted(p)
    <2>1. heart[p] \in Hearts /\ ExhaustionOf(heart[p]) \in Hearts
      BY HeartTypes DEF TypeOK
    <2>2. /\ heart' \in [Proc -> Hearts]
          /\ file' \in [running : BOOLEAN, heart : Hearts]
      BY <1>14, <2>1, HeartWritten DEF Exhausted
    <2> QED
      BY <1>14, <2>2, GotoTypes DEF Exhausted, TypeOK, Phases, Waits
  <1>15. CASE SleepInterval(p)
    BY <1>15, GotoTypes DEF SleepInterval, TypeOK, Phases, Waits
  <1>16. CASE IntervalEnds(p)
    BY <1>16, WaitTypes, GotoTypes DEF IntervalEnds, TypeOK, Phases, Waits
  <1>17. CASE Finish(p)
    BY <1>17, GoneTypes, EndTypes, WriteTypes DEF Finish, TypeOK, FinalWrite
  <1>18. CASE ErrExit(p)
    BY <1>18, GoneTypes, EndTypes DEF ErrExit, TypeOK
  <1>19. CASE StartProducer(p)
    BY <1>19 DEF StartProducer, TypeOK
  <1>20. CASE InstallTrap(p)
    BY <1>20, GotoTypes DEF InstallTrap, TypeOK, Phases, Waits
  <1>21. CASE RecordSuccess(p)
    <2>1. heart[p] \in Hearts /\ Success(heart[p]) \in Hearts
      BY HeartTypes DEF TypeOK
    <2>2. heart' \in [Proc -> Hearts]
      BY <1>21, <2>1 DEF RecordSuccess, TypeOK
    <2> QED
      BY <1>21, <2>2, GotoTypes DEF RecordSuccess, TypeOK, Phases, Waits
  <1>22. CASE WriteSuccess(p)
    BY <1>22, GotoTypes, WriteTypes DEF WriteSuccess, TypeOK, Phases, Waits
  <1>23. CASE StopInWrite(p)
    <2>1. StopOf(Assigned(p)) \in Hearts
      BY HeartTypes DEF TypeOK, Assigned
    <2>2. file' \in [running : BOOLEAN, heart : Hearts]
      BY <1>23, <2>1, WriteTypes DEF StopInWrite
    <2> QED
      BY <1>23, <2>2, EndTypes DEF StopInWrite, TypeOK
  <1>24. CASE StopProducer(p)
    <2>1. heart[p] \in Hearts /\ StopOf(heart[p]) \in Hearts
      BY HeartTypes DEF TypeOK
    <2>2. /\ stopping' \in [Proc -> BOOLEAN]
          /\ heart' \in [Proc -> Hearts]
          /\ file' \in [running : BOOLEAN, heart : Hearts]
      <3>1. CASE pc[p] \in {"down", "launch"}
        BY <1>24, <3>1 DEF StopProducer, Shutdown, TypeOK
      <3>2. CASE pc[p] \notin {"down", "launch"}
        BY <1>24, <2>1, <3>2, HeartWritten, ZenonT(60) DEF StopProducer, Shutdown, TypeOK
      <3> QED
        BY <3>1, <3>2
    <2>3. grace' \in [Proc -> 0..Grace \cup {NoStop}]
      BY <1>24, ConstantsAssumption DEF StopProducer, TypeOK
    <2> QED
      BY <1>24, <2>2, <2>3 DEF StopProducer, TypeOK
  <1>25. CASE GraceExpires(p)
    BY <1>25, GoneTypes, EndTypes DEF GraceExpires, TypeOK
  <1>26. CASE Kill(p)
    BY <1>26, GoneTypes, EndTypes, ConstantsAssumption DEF Kill, TypeOK
  <1> QED
    BY <1>1, <1>2, <1>3, <1>4, <1>5, <1>6, <1>7, <1>8, <1>9, <1>10, <1>11, <1>12, <1>13, <1>14, <1>15, <1>16, <1>17, <1>18, <1>19, <1>20, <1>21, <1>22, <1>23, <1>24, <1>25, <1>26 DEF Script

-------------------------------------------------------------------------------
(* The lock, the status file and the blocks of an iteration *)

\* What the invariant says besides types.
Safety ==
    /\ OneProducer /\ TrapNotInstalled /\ StoppedIsTrue /\ CleanExitRecorded
    /\ \A p \in Proc : IterationOK(p) /\ AttemptsOK(p)
    /\ BoundedBlocks

LEMMA ProcessSafety ==
    ASSUME IInv, TypeOK', NEW p \in Proc,
           Script(p) \/ GraceExpires(p) \/ NodeGenerates(p) \/ StartProducer(p) \/ StopProducer(p)
             \/ StopInWrite(p) \/ Kill(p)
    PROVE  Safety'
  <1>1. CASE NotePid(p)
    BY <1>1 DEF NotePid, Waits, IInv, TypeOK, OneProducer, TrapNotInstalled, StoppedIsTrue, CleanExitRecorded, IterationOK, AttemptsOK, BoundedBlocks, Safety, Waits
  <1>2. CASE Launch(p)
    BY <1>2 DEF Launch, Goto, LockFree, IInv, TypeOK, OneProducer, TrapNotInstalled, StoppedIsTrue, CleanExitRecorded, IterationOK, AttemptsOK, BoundedBlocks, Safety, Waits
  <1>3. CASE Refused(p)
    BY <1>3 DEF Refused, LockFree, IInv, TypeOK, OneProducer, TrapNotInstalled, StoppedIsTrue, CleanExitRecorded, IterationOK, AttemptsOK, BoundedBlocks, Safety, Waits
  <1>4. CASE FirstWrite(p)
    BY <1>4 DEF FirstWrite, Goto, WriteStatus, IInv, TypeOK, OneProducer, TrapNotInstalled, StoppedIsTrue, CleanExitRecorded, IterationOK, AttemptsOK, BoundedBlocks, Safety, Waits
  <1>5. CASE EnterMineOnce(p)
    BY <1>5 DEF EnterMineOnce, Goto, IInv, TypeOK, OneProducer, TrapNotInstalled, StoppedIsTrue, CleanExitRecorded, IterationOK, AttemptsOK, BoundedBlocks, Safety, Waits
  <1>6. CASE Attempt(p)
    BY <1>6 DEF Attempt, Goto, WriteStatus, IInv, TypeOK, OneProducer, TrapNotInstalled, StoppedIsTrue, CleanExitRecorded, IterationOK, AttemptsOK, BoundedBlocks, Safety, Waits
  <1>7. CASE NodeGenerates(p)
    BY <1>7 DEF NodeGenerates, IInv, TypeOK, OneProducer, TrapNotInstalled, StoppedIsTrue, CleanExitRecorded, IterationOK, AttemptsOK, BoundedBlocks, Safety, Waits
  <1>8. CASE RpcOk(p)
    BY <1>8 DEF RpcOk, Goto, WaitEnds, IInv, TypeOK, OneProducer, TrapNotInstalled, StoppedIsTrue, CleanExitRecorded, IterationOK, AttemptsOK, BoundedBlocks, Safety, Waits
  <1>9. CASE RpcFails(p)
    BY <1>9 DEF RpcFails, Goto, WaitEnds, IInv, TypeOK, OneProducer, TrapNotInstalled, StoppedIsTrue, CleanExitRecorded, IterationOK, AttemptsOK, BoundedBlocks, Safety, Waits
  <1>10. CASE CountOk(p)
    BY <1>10 DEF CountOk, Goto, WaitEnds, IInv, TypeOK, OneProducer, TrapNotInstalled, StoppedIsTrue, CleanExitRecorded, IterationOK, AttemptsOK, BoundedBlocks, Safety, Waits
  <1>11. CASE CountFails(p)
    BY <1>11 DEF CountFails, Goto, WaitEnds, IInv, TypeOK, OneProducer, TrapNotInstalled, StoppedIsTrue, CleanExitRecorded, IterationOK, AttemptsOK, BoundedBlocks, Safety, Waits
  <1>12. CASE RecordFailure(p)
    BY <1>12 DEF RecordFailure, Goto, WriteStatus, IInv, TypeOK, OneProducer, TrapNotInstalled, StoppedIsTrue, CleanExitRecorded, IterationOK, AttemptsOK, BoundedBlocks, Safety, Waits
  <1>13. CASE RetryDelayEnds(p)
    BY <1>13 DEF RetryDelayEnds, Goto, WaitEnds, NextAttempt, AttemptAfter, IInv, TypeOK, OneProducer, TrapNotInstalled, StoppedIsTrue, CleanExitRecorded, IterationOK, AttemptsOK, BoundedBlocks, Safety, Waits
  <1>14. CASE Exhausted(p)
    <2>1. heart[p] \in Hearts /\ ExhaustionOf(heart[p]) \in Hearts /\ ExhaustionOf(heart[p]).error
      BY HeartTypes DEF IInv, TypeOK
    <2>2. file' = [running |-> TRUE, heart |-> ExhaustionOf(heart[p])]
      BY <1>14, <2>1, HeartWritten DEF Exhausted, IInv
    <2>3. file'.running /\ file'.heart.error
      BY <2>1, <2>2
    <2> QED
      BY <1>14, <2>3 DEF Exhausted, Goto, IInv, TypeOK, OneProducer, TrapNotInstalled, StoppedIsTrue, CleanExitRecorded, IterationOK, AttemptsOK, BoundedBlocks, Safety
  <1>15. CASE SleepInterval(p)
    BY <1>15 DEF SleepInterval, Goto, IInv, TypeOK, OneProducer, TrapNotInstalled, StoppedIsTrue, CleanExitRecorded, IterationOK, AttemptsOK, BoundedBlocks, Safety, Waits
  <1>16. CASE IntervalEnds(p)
    BY <1>16 DEF IntervalEnds, Goto, WaitEnds, IInv, TypeOK, OneProducer, TrapNotInstalled, StoppedIsTrue, CleanExitRecorded, IterationOK, AttemptsOK, BoundedBlocks, Safety, Waits
  <1>17. CASE Finish(p)
    BY <1>17 DEF Finish, Gone, ProcessEnds, Goto, FinalWrite, WriteStatus, FreshHeart, IInv, TypeOK, OneProducer, TrapNotInstalled, StoppedIsTrue, CleanExitRecorded, IterationOK, AttemptsOK, BoundedBlocks, Safety, Waits
  <1>18. CASE ErrExit(p)
    BY <1>18 DEF ErrExit, Gone, ProcessEnds, Goto, FreshHeart, IInv, TypeOK, OneProducer, TrapNotInstalled, StoppedIsTrue, CleanExitRecorded, IterationOK, AttemptsOK, BoundedBlocks, Safety, Waits
  <1>19. CASE StartProducer(p)
    BY <1>19 DEF StartProducer, IInv, TypeOK, OneProducer, TrapNotInstalled, StoppedIsTrue, CleanExitRecorded, IterationOK, AttemptsOK, BoundedBlocks, Safety, Waits
  <1>20. CASE InstallTrap(p)
    BY <1>20 DEF InstallTrap, Goto, IInv, TypeOK, OneProducer, TrapNotInstalled, StoppedIsTrue, CleanExitRecorded, IterationOK, AttemptsOK, BoundedBlocks, Safety, Waits
  <1>21. CASE RecordSuccess(p)
    BY <1>21 DEF RecordSuccess, Goto, IInv, TypeOK, OneProducer, TrapNotInstalled, StoppedIsTrue, CleanExitRecorded, IterationOK, AttemptsOK, BoundedBlocks, Safety, Waits
  <1>22. CASE WriteSuccess(p)
    BY <1>22 DEF WriteSuccess, Goto, WriteStatus, IInv, TypeOK, OneProducer, TrapNotInstalled, StoppedIsTrue, CleanExitRecorded, IterationOK, AttemptsOK, BoundedBlocks, Safety, Waits
  <1>23. CASE StopInWrite(p)
    BY <1>23 DEF StopInWrite, WritesUnderErrexit, ProcessEnds, Goto, WriteStatus, FreshHeart, IInv, TypeOK, OneProducer, TrapNotInstalled, StoppedIsTrue, CleanExitRecorded, IterationOK, AttemptsOK, BoundedBlocks, Safety, Waits
  <1>24. CASE StopProducer(p)
    BY <1>24 DEF StopProducer, Shutdown, WriteStatus, IInv, TypeOK, OneProducer, TrapNotInstalled, StoppedIsTrue, CleanExitRecorded, IterationOK, AttemptsOK, BoundedBlocks, Safety, Waits
  <1>25. CASE GraceExpires(p)
    BY <1>25 DEF GraceExpires, Gone, ProcessEnds, Goto, FreshHeart, IInv, TypeOK, OneProducer, TrapNotInstalled, StoppedIsTrue, CleanExitRecorded, IterationOK, AttemptsOK, BoundedBlocks, Safety, Waits
  <1>26. CASE Kill(p)
    BY <1>26 DEF Kill, Gone, ProcessEnds, Goto, FreshHeart, IInv, TypeOK, OneProducer, TrapNotInstalled, StoppedIsTrue, CleanExitRecorded, IterationOK, AttemptsOK, BoundedBlocks, Safety, Waits
  <1> QED
    BY <1>1, <1>2, <1>3, <1>4, <1>5, <1>6, <1>7, <1>8, <1>9, <1>10, <1>11, <1>12, <1>13, <1>14, <1>15, <1>16, <1>17, <1>18, <1>19, <1>20, <1>21, <1>22, <1>23, <1>24, <1>25, <1>26 DEF Script

\* Time only makes a promised attempt overdue; a node that comes or goes writes
\* nothing.
LEMMA TimeSafety ==
    ASSUME IInv, TimePasses
    PROVE  TypeOK' /\ Safety'
  <1>1. /\ file' = [file EXCEPT !.heart = Overdue(@)]
        /\ heart' = [p \in Proc |-> Overdue(heart[p])]
        /\ UNCHANGED <<up, wanted, pc, pid, attempt, answered, stopping, grace, made, unclean, kills>>
    BY DEF TimePasses
  <1>2. /\ file.heart \in Hearts /\ Overdue(file.heart) \in Hearts
        /\ Overdue(file.heart).error = file.heart.error
        /\ \A p \in Proc : Overdue(heart[p]) \in Hearts
    BY HeartTypes DEF IInv, TypeOK
  <1>3. /\ file' \in [running : BOOLEAN, heart : Hearts]
        /\ file'.running = file.running /\ file'.heart.error = file.heart.error
    BY <1>1, <1>2 DEF IInv, TypeOK
  <1>4. TypeOK'
    BY <1>1, <1>2, <1>3 DEF IInv, TypeOK
  <1>5. Safety'
    BY <1>1, <1>3 DEF IInv, TypeOK, OneProducer, TrapNotInstalled, StoppedIsTrue, CleanExitRecorded, IterationOK, AttemptsOK, BoundedBlocks, Safety
  <1> QED
    BY <1>4, <1>5

LEMMA NodeSafety ==
    ASSUME IInv, NodeUpOrDown \/ UNCHANGED vars
    PROVE  TypeOK' /\ Safety'
  <1>1. UNCHANGED <<procs, file, made, unclean, kills>> /\ up' \in BOOLEAN
    BY DEF NodeUpOrDown, vars, IInv, TypeOK
  <1> QED
    BY <1>1 DEF procs, IInv, TypeOK, OneProducer, TrapNotInstalled, StoppedIsTrue, CleanExitRecorded, IterationOK, AttemptsOK, BoundedBlocks, Safety

LEMMA InitIInv == Init => IInv
  <1> SUFFICES ASSUME Init PROVE IInv
    OBVIOUS
  <1>1. TypeOK
    <2>1. heart \in [Proc -> Hearts] /\ file \in [running : BOOLEAN, heart : Hearts]
      BY HeartTypes DEF Init
    <2>2. kills \in 0..MaxKills /\ made \in Nat /\ attempt \in [Proc -> 1..MaxAttempts]
      BY ConstantsAssumption DEF Init
    <2> QED
      BY <2>1, <2>2 DEF Init, TypeOK, Phases
  <1> QED
    BY <1>1 DEF Init, IInv, TypeOK, OneProducer, TrapNotInstalled, StoppedIsTrue, CleanExitRecorded, IterationOK, AttemptsOK, BoundedBlocks

\* The inductive invariant: the lock, the trap, and what the status file and the
\* counter of blocks say in each phase of the script.
THEOREM InductiveInvariant == Spec => []IInv
  <1>1. ASSUME IInv, [Next]_vars PROVE IInv'
    <2>1. ASSUME NEW p \in Proc,
                 Script(p) \/ GraceExpires(p) \/ NodeGenerates(p)
                   \/ StartProducer(p) \/ StopProducer(p) \/ StopInWrite(p) \/ Kill(p)
          PROVE  TypeOK' /\ Safety'
      <3>1. TypeOK'
        BY <1>1, <2>1, ProcessTypes DEF IInv
      <3> QED
        BY <1>1, <2>1, <3>1, ProcessSafety
    <2>2. TypeOK' /\ Safety'
      BY <1>1, <2>1, TimeSafety, NodeSafety DEF Next, Environment
    <2> QED
      BY <2>2 DEF IInv, Safety
  <1> QED
    BY <1>1, InitIInv, PTL DEF Spec

-------------------------------------------------------------------------------
(* The results *)

\* The types of the script's state, however it is signalled and killed.
THEOREM TypeCorrect == Spec => []TypeOK
  <1>1. IInv => TypeOK
    BY DEF IInv
  <1> QED
    BY <1>1, InductiveInvariant, PTL

\* flock: never two runs of the script past its first line, so no process
\* overwrites another's status.
THEOREM LockHolds == Spec => []OneProducer
  <1>1. IInv => OneProducer
    BY DEF IInv
  <1> QED
    BY <1>1, InductiveInvariant, PTL

\* A status file that says "not running" is right about every process.
THEOREM StoppedCorrect == Spec => []StoppedIsTrue
  <1>1. IInv => StoppedIsTrue
    BY DEF IInv
  <1> QED
    BY <1>1, InductiveInvariant, PTL

\* After a clean exit the status file does not say "running", whatever the trap
\* and the retry loop wrote in which order.
THEOREM CleanExitCorrect == Spec => []CleanExitRecorded
  <1>1. IInv => CleanExitRecorded
    BY DEF IInv
  <1> QED
    BY <1>1, InductiveInvariant, PTL

\* A producer that sleeps and passes its health check has just made a block.
THEOREM HealthyCorrect == Spec => []HealthyHasProduced
  <1>1. IInv => HealthyHasProduced
    BY DEF IInv, IterationOK, HealthyHasProduced, Healthy
  <1> QED
    BY <1>1, InductiveInvariant, PTL

\* However many answers are lost, an iteration makes at most one block per attempt.
THEOREM BlocksBounded == Spec => []BoundedBlocks
  <1>1. IInv => BoundedBlocks
    BY DEF IInv
  <1> QED
    BY <1>1, InductiveInvariant, PTL
===============================================================================
