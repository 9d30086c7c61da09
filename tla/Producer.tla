------------------------------- MODULE Producer -------------------------------
(***************************************************************************)
(* The block producer (producer/block-producer.sh), the health check that  *)
(* reads its status file (producer/healthcheck.sh), the heartbeat the      *)
(* telemetry reads from it (explorer/telemetry.go: readProducer) and the   *)
(* management commands that start and stop it (manage.sh).                 *)
(*                                                                         *)
(* A process is a run of the script: the automatic container, which Docker *)
(* restarts until it is stopped, or a manual one-shot.  The TERM trap runs *)
(* between any two commands of the script, those of write_status included. *)
(* Inside write_status it takes the temporary file away, and the rest of   *)
(* the write fails: where set -e is in force the script ends there, where  *)
(* it is not, all is as if TERM had come after the write.  A TERM between  *)
(* the assignments before a write changes what the next write says only at *)
(* a success, so those are steps of their own.  It interrupts a wait only  *)
(* when the script has noted the pid of what it waits for.  Docker         *)
(* kills the container Grace seconds after TERM; seconds are counted only  *)
(* for the waits (curl, sleep), which is where they go.                    *)
(*                                                                         *)
(* Definitions whose name starts with Slip are wrong variants of the       *)
(* definition that follows them, used to test the properties.              *)
(***************************************************************************)
EXTENDS Integers, Powers

CONSTANTS
    Proc,           \* runs of the script that may exist at the same time
    Manual,         \* those with PRODUCER_MODE=manual
    MaxAttempts,    \* generatetoaddress attempts per iteration (5)
    RpcSeconds,     \* curl --max-time (5)
    Interval,       \* BLOCK_INTERVAL
    Grace,          \* Docker's stop timeout (10)
    MaxFailures,    \* bound: consecutiveFailures is counted up to here
    MaxKills        \* bound: SIGKILLs that no stop explains

ASSUME ConstantsAssumption ==
    /\ Manual \subseteq Proc
    /\ MaxAttempts \in Nat \ {0} /\ Interval \in Nat \ {0}
    /\ {RpcSeconds, Grace, MaxFailures, MaxKills} \subseteq Nat

VARIABLES
    up,         \* node-01 answers the producer's calls
    wanted,     \* wanted[p]: started and not stopped since
    pc,         \* pc[p]: where the script is, "down" when there is no process
    pid,        \* pid[p]: rpc_pid or sleep_pid is set for the current wait
    attempt,    \* attempt[p]: the loop variable of mine_once
    answered,   \* answered[p]: node-01 has executed the pending generatetoaddress
    stopping,   \* stopping[p]
    grace,      \* grace[p]: seconds until Docker kills it, NoStop without a stop
    heart,      \* heart[p]: next_attempt, last_error, consecutive_failures
    file,       \* the status file: running, and a copy of heart
    made,       \* blocks generated in the running iteration
    unclean,    \* the last process ended without reaching its final write
    kills       \* unexplained SIGKILLs so far

procs == <<wanted, pc, pid, attempt, answered, stopping, grace, heart>>
vars == <<up, procs, file, made, unclean, kills>>

NoStop == -1
\* next_attempt: none, a time to come, or a time more than Interval ago
FreshHeart == [next |-> "none", error |-> FALSE, failures |-> 0]
Hearts == [next : {"none", "future", "past"}, error : BOOLEAN, failures : 0..MaxFailures]

Waits == {"rpc", "count", "retry", "interval"}
Phases == Waits \cup {"down", "launch", "trapped", "loop", "attempt", "counted", "recorded",
                      "failed", "exhausted", "returned0", "returned1"}

Init ==
    /\ up = TRUE
    /\ wanted = [p \in Proc |-> FALSE]
    /\ pc = [p \in Proc |-> "down"]
    /\ pid = [p \in Proc |-> FALSE]
    /\ attempt = [p \in Proc |-> 1]
    /\ answered = [p \in Proc |-> FALSE]
    /\ stopping = [p \in Proc |-> FALSE]
    /\ grace = [p \in Proc |-> NoStop]
    /\ heart = [p \in Proc |-> FreshHeart]
    /\ file = [running |-> FALSE, heart |-> FreshHeart]
    /\ made = 0
    /\ unclean = FALSE
    /\ kills = 0

-------------------------------------------------------------------------------
(* write_status, and the time a wait takes *)

\* A temporary file and a rename: readers see the old content or the new one.
WriteStatus(running, h) == file' = [running |-> running, heart |-> h]

\* The next point of the script.  A pid is forgotten when its wait is over, and
\* not known yet when a wait begins.
Goto(p, phase) ==
    /\ pc' = [pc EXCEPT ![p] = phase]
    /\ pid' = [pid EXCEPT ![p] = FALSE]

\* How long the wait of process p may last; nothing if the trap cut it short.
Lengths(p) ==
    IF stopping[p] /\ pid[p] THEN {0}
    ELSE CASE pc[p] \in {"rpc", "count"} -> {0, RpcSeconds}
           [] pc[p] = "retry" -> {Pow2[attempt[p] - 1]}
           [] OTHER -> {Interval}

\* The wait ends before Docker loses its patience.
WaitEnds(p) ==
    \E d \in Lengths(p) :
        /\ grace[p] # NoStop => d <= grace[p]
        /\ grace' = [grace EXCEPT ![p] = IF @ = NoStop THEN NoStop ELSE @ - d]

\* wait "${pid}": from here on the trap can end it.
NotePid(p) ==
    /\ pc[p] \in Waits
    /\ ~pid[p] /\ ~stopping[p]
    /\ pid' = [pid EXCEPT ![p] = TRUE]
    /\ UNCHANGED <<up, wanted, pc, attempt, answered, stopping, grace, heart, file, made, unclean, kills>>

-------------------------------------------------------------------------------
(* Start: the lock, then the trap, then the first write *)

SlipLockFree(p) == TRUE
LockFree(p) == \A q \in Proc : pc[q] = "down"

Launch(p) ==
    /\ wanted[p] /\ pc[p] = "down"
    /\ LockFree(p)
    /\ Goto(p, "launch")
    /\ UNCHANGED <<up, wanted, attempt, answered, stopping, grace, heart, file, made, unclean, kills>>

\* "Another block producer holds the shared lock": Docker tries the container
\* again, a one-shot is over.
Refused(p) ==
    /\ p \in Manual /\ wanted[p] /\ pc[p] = "down"
    /\ ~LockFree(p)
    /\ wanted' = [wanted EXCEPT ![p] = FALSE]
    /\ UNCHANGED <<up, pc, pid, attempt, answered, stopping, grace, heart, file, made, unclean, kills>>

InstallTrap(p) ==
    /\ pc[p] = "launch"
    /\ Goto(p, "trapped")
    /\ UNCHANGED <<up, wanted, attempt, answered, stopping, grace, heart, file, made, unclean, kills>>

FirstWrite(p) ==
    /\ pc[p] = "trapped"
    /\ WriteStatus(TRUE, heart[p])
    /\ Goto(p, "loop")
    /\ unclean' = FALSE
    /\ UNCHANGED <<up, wanted, attempt, answered, stopping, grace, heart, made, kills>>

-------------------------------------------------------------------------------
(* mine_once *)

\* while [[ stopping == no ]]; the one-shot does not ask.
EnterMineOnce(p) ==
    /\ pc[p] = "loop"
    /\ p \in Manual \/ ~stopping[p]
    /\ Goto(p, "attempt")
    /\ attempt' = [attempt EXCEPT ![p] = 1]
    /\ made' = 0
    /\ UNCHANGED <<up, wanted, answered, stopping, grace, heart, file, unclean, kills>>

Attempt(p) ==
    /\ pc[p] = "attempt"
    /\ WriteStatus(TRUE, heart[p])
    /\ Goto(p, "rpc")
    /\ answered' = [answered EXCEPT ![p] = FALSE]
    /\ UNCHANGED <<up, wanted, attempt, stopping, grace, heart, made, unclean, kills>>

\* node-01 (external) executes generatetoaddress 1; whether the answer arrives
\* is another matter.
NodeGenerates(p) ==
    /\ pc[p] = "rpc"
    /\ up /\ ~answered[p]
    /\ answered' = [answered EXCEPT ![p] = TRUE]
    /\ made' = made + 1
    /\ UNCHANGED <<up, wanted, pc, pid, attempt, stopping, grace, heart, file, unclean, kills>>

\* rpc() returns 0 only if no stop was requested meanwhile.
RpcOk(p) ==
    /\ pc[p] = "rpc"
    /\ answered[p] /\ ~stopping[p]
    /\ WaitEnds(p)
    /\ Goto(p, "count")
    /\ UNCHANGED <<up, wanted, attempt, answered, stopping, heart, file, made, unclean, kills>>

RpcFails(p) ==
    /\ pc[p] = "rpc"
    /\ ~up \/ stopping[p]
    /\ WaitEnds(p)
    /\ Goto(p, "failed")
    /\ UNCHANGED <<up, wanted, attempt, answered, stopping, heart, file, made, unclean, kills>>

\* The last check for a stop before a success is written.
CountOk(p) ==
    /\ pc[p] = "count"
    /\ up /\ ~stopping[p]
    /\ WaitEnds(p)
    /\ Goto(p, "counted")
    /\ UNCHANGED <<up, wanted, attempt, answered, stopping, heart, file, made, unclean, kills>>

\* What a success records.
SlipSuccess(h) == [h EXCEPT !.next = "future", !.failures = 0]
Success(h) == [next |-> "future", error |-> FALSE, failures |-> 0]

\* A next attempt is named, also when the trap has just cleared it.
RecordSuccess(p) ==
    /\ pc[p] = "counted"
    /\ heart' = [heart EXCEPT ![p] = Success(@)]
    /\ Goto(p, "recorded")
    /\ UNCHANGED <<up, wanted, attempt, answered, stopping, grace, file, made, unclean, kills>>

WriteSuccess(p) ==
    /\ pc[p] = "recorded"
    /\ WriteStatus(TRUE, heart[p])
    /\ Goto(p, "returned0")
    /\ UNCHANGED <<up, wanted, attempt, answered, stopping, grace, heart, made, unclean, kills>>

\* rpc getblockcount '[]' || return 1: nothing is recorded.
CountFails(p) ==
    /\ pc[p] = "count"
    /\ ~up \/ stopping[p]
    /\ WaitEnds(p)
    /\ Goto(p, "returned1")
    /\ UNCHANGED <<up, wanted, attempt, answered, stopping, heart, file, made, unclean, kills>>

\* The error is recorded, then the delay begins.  The status says running even
\* when the trap has just written that it is not.
SlipFailureOf(h) == h
FailureOf(h) == [h EXCEPT !.error = TRUE]

RecordFailure(p) ==
    /\ pc[p] = "failed"
    /\ heart' = [heart EXCEPT ![p] = FailureOf(@)]
    /\ WriteStatus(TRUE, heart'[p])
    /\ Goto(p, "retry")
    /\ UNCHANGED <<up, wanted, attempt, answered, stopping, grace, made, unclean, kills>>

\* After the delay: stop, try again, or give up.
SlipNextAttempt(p) == IF stopping[p] THEN "returned1" ELSE "attempt"
NextAttempt(p) ==
    CASE stopping[p] -> "returned1"
      [] ~stopping[p] /\ attempt[p] < MaxAttempts -> "attempt"
      [] OTHER -> "exhausted"

SlipAttemptAfter(p) == attempt[p]
AttemptAfter(p) == IF NextAttempt(p) = "attempt" THEN attempt[p] + 1 ELSE attempt[p]

RetryDelayEnds(p) ==
    /\ pc[p] = "retry"
    /\ WaitEnds(p)
    /\ Goto(p, NextAttempt(p))
    /\ attempt' = [attempt EXCEPT ![p] = AttemptAfter(p)]
    /\ UNCHANGED <<up, wanted, answered, stopping, heart, file, made, unclean, kills>>

\* consecutive_failures counts iterations, not attempts.
ExhaustionOf(h) ==
    [FailureOf(h) EXCEPT !.failures = IF @ < MaxFailures THEN @ + 1 ELSE @]

Exhausted(p) ==
    /\ pc[p] = "exhausted"
    /\ heart' = [heart EXCEPT ![p] = ExhaustionOf(@)]
    /\ WriteStatus(TRUE, heart'[p])
    /\ Goto(p, "returned1")
    /\ UNCHANGED <<up, wanted, attempt, answered, stopping, grace, made, unclean, kills>>

-------------------------------------------------------------------------------
(* The main loop and the ways out *)

SleepInterval(p) ==
    /\ p \notin Manual
    /\ pc[p] \in {"returned0", "returned1"}
    /\ ~stopping[p]
    /\ Goto(p, "interval")
    /\ UNCHANGED <<up, wanted, attempt, answered, stopping, grace, heart, file, made, unclean, kills>>

IntervalEnds(p) ==
    /\ pc[p] = "interval"
    /\ WaitEnds(p)
    /\ Goto(p, "loop")
    /\ UNCHANGED <<up, wanted, attempt, answered, stopping, heart, file, made, unclean, kills>>

\* The process is gone, and with it the lock and its variables.
ProcessEnds(p) ==
    /\ Goto(p, "down")
    /\ grace' = [grace EXCEPT ![p] = NoStop]
    /\ attempt' = [attempt EXCEPT ![p] = 1]
    /\ answered' = [answered EXCEPT ![p] = FALSE]
    /\ stopping' = [stopping EXCEPT ![p] = FALSE]
    /\ heart' = [heart EXCEPT ![p] = FreshHeart]
    /\ made' = 0
    /\ UNCHANGED up

\* A one-shot is not run again.
Gone(p) ==
    /\ ProcessEnds(p)
    /\ wanted' = [wanted EXCEPT ![p] = @ /\ p \notin Manual]

\* write_status false, at the end of the loop or of a successful one-shot.
SlipFinalWrite(p) == file' = file
FinalWrite(p) == WriteStatus(FALSE, heart[p])

Finish(p) ==
    /\ IF p \in Manual
       THEN pc[p] = "returned0"
       ELSE pc[p] \in {"loop", "returned0", "returned1"} /\ stopping[p]
    /\ FinalWrite(p)
    /\ Gone(p)
    /\ UNCHANGED <<unclean, kills>>

\* set -e: a failed mine_once ends the one-shot before its final write.
ErrExit(p) ==
    /\ p \in Manual /\ pc[p] = "returned1"
    /\ Gone(p)
    /\ unclean' = TRUE
    /\ UNCHANGED <<file, kills>>

Script(p) ==
    \/ NotePid(p) \/ Launch(p) \/ Refused(p) \/ InstallTrap(p) \/ FirstWrite(p) \/ EnterMineOnce(p)
    \/ Attempt(p) \/ RpcOk(p) \/ RpcFails(p) \/ CountOk(p) \/ RecordSuccess(p) \/ WriteSuccess(p)
    \/ CountFails(p) \/ RecordFailure(p) \/ RetryDelayEnds(p) \/ Exhausted(p) \/ SleepInterval(p) \/ IntervalEnds(p)
    \/ Finish(p) \/ ErrExit(p)

-------------------------------------------------------------------------------
(* Signals, Docker and the operator *)

\* manage.sh producer start (or a one-shot run)
StartProducer(p) ==
    /\ ~wanted[p] /\ pc[p] = "down"
    /\ wanted' = [wanted EXCEPT ![p] = TRUE]
    /\ UNCHANGED <<up, pc, pid, attempt, answered, stopping, grace, heart, file, made, unclean, kills>>

StopOf(h) == [h EXCEPT !.next = "none"]

\* The trap: note the stop, end the wait it knows of, say "not running".  Before
\* the trap is installed TERM has no effect on the container's first process.
Shutdown(p) ==
    IF pc[p] \in {"down", "launch"}
    THEN UNCHANGED <<stopping, heart, file>>
    ELSE /\ stopping' = [stopping EXCEPT ![p] = TRUE]
         /\ heart' = [heart EXCEPT ![p] = StopOf(@)]
         /\ WriteStatus(FALSE, heart'[p])

\* manage.sh producer stop: TERM now, KILL after the grace period
StopProducer(p) ==
    /\ wanted[p]
    /\ wanted' = [wanted EXCEPT ![p] = FALSE]
    /\ grace' = [grace EXCEPT ![p] = IF pc[p] = "down" THEN NoStop ELSE Grace]
    /\ Shutdown(p)
    /\ UNCHANGED <<up, pc, pid, attempt, answered, made, unclean, kills>>

\* The next command is a write_status whose failure ends the script: any of a
\* one-shot, and the first of the container.  mine_once || true suspends set -e.
WritesUnderErrexit(p) ==
    \/ pc[p] = "trapped"
    \/ p \in Manual /\ pc[p] \in {"attempt", "recorded", "failed", "exhausted", "returned0"}

\* What the script has assigned when it comes to that write.
Assigned(p) ==
    CASE pc[p] = "failed" -> FailureOf(heart[p])
      [] pc[p] = "exhausted" -> ExhaustionOf(heart[p])
      [] OTHER -> heart[p]

\* TERM inside such a write: the trap's own write replaces the status file.
StopInWrite(p) ==
    /\ wanted[p] /\ WritesUnderErrexit(p)
    /\ wanted' = [wanted EXCEPT ![p] = FALSE]
    /\ WriteStatus(FALSE, StopOf(Assigned(p)))
    /\ ProcessEnds(p)
    /\ unclean' = TRUE
    /\ UNCHANGED kills

GraceExpires(p) ==
    /\ pc[p] \in Waits /\ grace[p] # NoStop
    /\ \E d \in Lengths(p) : d > grace[p]
    /\ Gone(p)
    /\ unclean' = TRUE
    /\ UNCHANGED <<file, kills>>

\* The process or the machine dies.
Kill(p) ==
    /\ pc[p] # "down"
    /\ kills < MaxKills
    /\ kills' = kills + 1
    /\ Gone(p)
    /\ unclean' = TRUE
    /\ UNCHANGED file

\* node-01 stops or resumes answering (external).
NodeUpOrDown ==
    /\ up' = ~up
    /\ UNCHANGED <<procs, file, made, unclean, kills>>

\* next_attempt + Interval passes.
Overdue(h) == [h EXCEPT !.next = IF @ = "none" THEN "none" ELSE "past"]

TimePasses ==
    /\ file.heart.next = "future"
    /\ file' = [file EXCEPT !.heart = Overdue(@)]
    /\ heart' = [p \in Proc |-> Overdue(heart[p])]
    /\ UNCHANGED <<up, wanted, pc, pid, attempt, answered, stopping, grace, made, unclean, kills>>

Environment ==
    \/ \E p \in Proc : StartProducer(p) \/ StopProducer(p) \/ StopInWrite(p) \/ Kill(p)
    \/ NodeUpOrDown

Next ==
    \/ \E p \in Proc : Script(p) \/ GraceExpires(p) \/ NodeGenerates(p)
    \/ TimePasses
    \/ Environment

Spec == Init /\ [][Next]_vars

\* The script runs on, node-01 executes what it is sent while it is up, Docker
\* keeps its word about the grace period, and time passes.  Nobody has to
\* start or stop anything.
FairSpec ==
    /\ Spec
    /\ \A p \in Proc : WF_vars(Script(p)) /\ WF_vars(GraceExpires(p)) /\ WF_vars(NodeGenerates(p))
    /\ WF_vars(TimePasses)

-------------------------------------------------------------------------------
(* The readers of the status file *)

\* healthcheck.sh
Healthy == file.running /\ ~file.heart.error /\ file.heart.failures < 2

\* readProducer: running, unless the next attempt is overdue
ReportedRunning == file.running /\ file.heart.next # "past"

-------------------------------------------------------------------------------
(* Properties *)

TypeOK ==
    /\ up \in BOOLEAN /\ unclean \in BOOLEAN
    /\ wanted \in [Proc -> BOOLEAN]
    /\ pc \in [Proc -> Phases]
    /\ pid \in [Proc -> BOOLEAN]
    /\ attempt \in [Proc -> 1..MaxAttempts]
    /\ answered \in [Proc -> BOOLEAN]
    /\ stopping \in [Proc -> BOOLEAN]
    /\ grace \in [Proc -> 0..Grace \cup {NoStop}]
    /\ heart \in [Proc -> Hearts]
    /\ file \in [running : BOOLEAN, heart : Hearts]
    /\ made \in Nat
    /\ kills \in 0..MaxKills

\* A status file that says "not running" is right: whoever is alive has only
\* started or has been told to stop.  (No process overwrites another's status.)
StoppedIsTrue ==
    ~file.running =>
        \A p \in Proc : pc[p] \in {"down", "launch", "trapped"} \/ stopping[p]

\* A status file that says "running" after the script has ended means that the
\* script was killed or failed: a clean exit always takes the claim back, also
\* when the trap's "false" was overwritten by a later "true".
CleanExitRecorded ==
    file.running => unclean \/ \E p \in Proc : pc[p] # "down"

\* A producer that sleeps between two iterations and passes its health check
\* has generated a block in the iteration that has just ended.
HealthyHasProduced ==
    \A p \in Proc : (pc[p] = "interval" /\ Healthy) => made >= 1

\* However many answers are lost, an iteration generates at most one block per
\* attempt, and so at most MaxAttempts.
BoundedBlocks ==
    \A p \in Proc : pc[p] \notin {"down", "launch", "trapped", "loop"} => made <= attempt[p]

\* If node-01 stays up, the container stays wanted and no further one-shot is
\* started, the producer succeeds again and again, whatever happened before (a
\* one-shot holding the lock, a stop in the middle of a call, a crash).
ProducesAgain ==
    \A p \in Proc \ Manual :
        (<>[](up /\ wanted[p] /\ \A q \in Manual : ~wanted[q])) =>
            []<>(pc[p] = "returned0" /\ ~file.heart.error)

\* "Each scheduled iteration sends exactly generatetoaddress 1": one iteration,
\* one block.
OneBlockPerIteration == made <= 1

\* "Producer liveness comes from its sanitized status heartbeat": once no
\* producer runs any more, the report stops saying that one does.
DeadIsNoticed ==
    (\A p \in Proc : pc[p] = "down") ~> (~ReportedRunning \/ \E p \in Proc : pc[p] # "down")

-------------------------------------------------------------------------------
(* The inductive invariant behind the safety properties.                      *)

\* The lock: one run of the script at a time.
OneProducer == \A p, q \in Proc : pc[p] # "down" /\ pc[q] # "down" => p = q

\* Before the trap is installed nothing has been told to stop.
TrapNotInstalled == \A p \in Proc : pc[p] \in {"down", "launch"} => ~stopping[p]

\* What is known of the blocks of the iteration in each phase.  A failure that has
\* no block to show for it has left its error in the status file, or is a stop.
IterationOK(p) ==
    /\ pc[p] = "rpc" /\ answered[p] => made >= 1
    /\ pc[p] \in {"count", "counted", "recorded", "returned0"} => made >= 1
    /\ pc[p] \in {"returned1", "interval"} => made >= 1 \/ file.heart.error \/ stopping[p]
    /\ pc[p] = "interval" /\ stopping[p] => ~file.running

\* Every attempt so far has made at most one block, the current one only if it was
\* answered.
AttemptsOK(p) ==
    /\ pc[p] = "attempt" => made < attempt[p]
    /\ pc[p] = "rpc" /\ ~answered[p] => made < attempt[p]

IInv ==
    /\ TypeOK
    /\ OneProducer
    /\ TrapNotInstalled
    /\ StoppedIsTrue
    /\ CleanExitRecorded
    /\ \A p \in Proc : IterationOK(p) /\ AttemptsOK(p)
    /\ BoundedBlocks
===============================================================================
