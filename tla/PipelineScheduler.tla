------------------------- MODULE PipelineScheduler -------------------------
(***************************************************************************)
(* executePipeline: the in-process scheduler (lib/pipelines/scheduler.ts)  *)
(* with the body every stage runs in (runOneStage, runFinalize of          *)
(* stage-runner.ts).                                                       *)
(*                                                                         *)
(* JavaScript runs the loop in one thread: from a wake-up to the next      *)
(* `await Promise.race(pool)` no stage can settle, but emit() calls the    *)
(* observer synchronously and the observer may abort the signal, so Abort  *)
(* interleaves everywhere.  A settled stage writes its record first and    *)
(* leaves the pool in a later microtask; the loop wakes later still.       *)
(* Which of several eligible stages starts first (the order of             *)
(* pipeline.stages) is left open.  The observer is assumed not to throw.   *)
(***************************************************************************)
EXTENDS PipelineDag

CONSTANT ConcurrencyLimit
ASSUME LimitAssumption == ConcurrencyLimit \in Nat \ {0}

VARIABLES
    phase,        \* where the scheduler's thread is
    work,         \* [Stage -> "remaining" | "running" | "leaving" | "done"]
    records,      \* the shared record map
    failures,     \* the stages (or "finalize") that pushed a ProcessingFailure
    aborted,      \* signal.aborted
    configError,  \* capturedConfigError is set
    woken,        \* a raced promise has settled since the last await
    output,       \* "present" once finalize.run has returned its value
    ended         \* the status of the pipeline:end event, "none" before it

vars == <<phase, work, records, failures, aborted, configError, woken,
          output, ended>>

Remaining == {s \in Stage : work[s] = "remaining"}
Pool == {s \in Stage : work[s] \in {"running", "leaving"}}

Phase == {"idle", "skip", "start", "await", "drained", "finalized", "returned",
          "threw", "unreachable"}

TypeOK ==
    /\ phase \in Phase
    /\ work \in [Stage -> {"remaining", "running", "leaving", "done"}]
    /\ records \in RecordMap
    /\ failures \subseteq Stage \cup {"finalize"}
    /\ aborted \in BOOLEAN
    /\ configError \in BOOLEAN
    /\ woken \in BOOLEAN
    /\ output \in {"null", "present"}
    /\ ended \in {"none", "completed", "failed"}

Init ==
    /\ phase = "idle"
    /\ work = [s \in Stage |-> "remaining"]
    /\ records = [s \in Stage |-> "none"]
    /\ failures = {}
    /\ aborted = FALSE
    /\ configError = FALSE
    /\ woken = FALSE
    /\ output = "null"
    /\ ended = "none"

\* The scheduler's own copies of the two eligibility rules.
Eligible(s) ==
    \A d \in Deps(s) : /\ records[d] # "none"
                       /\ d \in RequiredDeps[s] => records[d] = "completed"

SkipDue(s) ==
    \E d \in RequiredDeps[s] : records[d] # "none" /\ records[d] # "completed"

\* The caller begins the run, with a signal it may have aborted already.
Call ==
    /\ phase = "idle"
    /\ phase' = "skip"
    /\ aborted' \in BOOLEAN
    /\ UNCHANGED <<work, records, failures, configError, woken, output, ended>>

\* The caller (or an observer called by emit) aborts the signal.
Abort ==
    /\ ~aborted
    /\ phase \notin {"idle", "returned", "threw", "unreachable"}
    /\ aborted' = TRUE
    /\ UNCHANGED <<phase, work, records, failures, configError, woken, output,
                   ended>>

(***************************************************************************)
(* The synchronous part of one turn of the loop: skip, then start.         *)
(***************************************************************************)
Skip(s) ==
    /\ phase = "skip"
    /\ work[s] = "remaining"
    /\ SkipDue(s)
    /\ records' = [records EXCEPT ![s] = "skipped"]
    /\ work' = [work EXCEPT ![s] = "done"]
    /\ UNCHANGED <<phase, failures, aborted, configError, woken, output, ended>>

SkippedAll ==
    /\ phase = "skip"
    /\ \A s \in Remaining : ~SkipDue(s)
    /\ phase' = "start"
    /\ UNCHANGED <<work, records, failures, aborted, configError, woken, output,
                   ended>>

\* Start one stage: runOneStage records "skipped" at once when the signal is
\* aborted, and otherwise enters stage.run.
Start(s) ==
    /\ phase = "start"
    /\ Cardinality(Pool) < ConcurrencyLimit
    /\ work[s] = "remaining"
    /\ Eligible(s)
    /\ IF aborted
       THEN /\ records' = [records EXCEPT ![s] = "skipped"]
            /\ work' = [work EXCEPT ![s] = "leaving"]
       ELSE /\ work' = [work EXCEPT ![s] = "running"]
            /\ UNCHANGED records
    /\ UNCHANGED <<phase, failures, aborted, configError, woken, output, ended>>

\* Faulty variant: an empty pool is raced as well, which never resolves.
StartedAll_RacesEmptyPool ==
    /\ phase = "start"
    /\ \/ Cardinality(Pool) >= ConcurrencyLimit
       \/ \A s \in Remaining : ~Eligible(s)
    /\ phase' = "await"
    /\ woken' = FALSE
    /\ UNCHANGED <<work, records, failures, aborted, configError, output, ended>>

\* The pool is full or nothing more can start: await the race, leave the loop,
\* or throw "Unreachable stages remain at scheduler exhaustion".
StartedAll ==
    /\ phase = "start"
    /\ \/ Cardinality(Pool) >= ConcurrencyLimit
       \/ \A s \in Remaining : ~Eligible(s)
    /\ phase' = IF Pool # {} THEN "await"
                ELSE IF Remaining # {} THEN "unreachable" ELSE "drained"
    /\ woken' = FALSE
    /\ UNCHANGED <<work, records, failures, aborted, configError, output, ended>>

(***************************************************************************)
(* While the loop awaits: stage.run settles (runOneStage), the stage's     *)
(* promise settles and leaves the pool, the race resolves.                 *)
(***************************************************************************)
Settle(s, outcome) ==
    /\ phase = "await"
    /\ work[s] = "running"
    /\ records' = [records EXCEPT ![s] = outcome]
    /\ work' = [work EXCEPT ![s] = "leaving"]
    /\ UNCHANGED <<phase, aborted, woken, output, ended>>

\* stage.run returned an output that matches its outputSchema.
Complete(s) == /\ Settle(s, "completed")
               /\ UNCHANGED <<failures, configError>>

\* Faulty variant: the failure is recorded but not listed.
Fail_Unlisted(s) == /\ Settle(s, "failed")
                    /\ UNCHANGED <<failures, configError>>

\* OUTPUT_SCHEMA_INVALID, LlmStageRetryExhaustedError, SubPipelineFailedError
\* or any other thrown value.
Fail(s) == /\ Settle(s, "failed")
           /\ failures' = failures \cup {s}
           /\ UNCHANGED configError

\* ctx.get or ctx.stageStatus on a stage that is not a dependency.
FailOnConfig(s) == /\ Settle(s, "failed")
                   /\ configError' = TRUE
                   /\ UNCHANGED failures

\* StageAbortedError: thrown by a stage that saw the aborted signal.
SkipOnAbort(s) == /\ aborted
                  /\ Settle(s, "skipped")
                  /\ UNCHANGED <<failures, configError>>

LeavePool(s) ==
    /\ phase = "await"
    /\ work[s] = "leaving"
    /\ work' = [work EXCEPT ![s] = "done"]
    /\ woken' = TRUE
    /\ UNCHANGED <<phase, records, failures, aborted, configError, output, ended>>

Wake ==
    /\ phase = "await"
    /\ woken
    /\ phase' = "skip"
    /\ UNCHANGED <<work, records, failures, aborted, configError, woken, output,
                   ended>>

(***************************************************************************)
(* After the loop: throw the captured configuration error, or finalize.    *)
(***************************************************************************)
ThrowConfigError ==
    /\ phase = "drained"
    /\ configError
    /\ ended' = "failed"
    /\ phase' = "threw"
    /\ UNCHANGED <<work, records, failures, aborted, configError, woken, output>>

\* Faulty variant: the required dependencies of finalize are not consulted.
FinalizeBypassed_OnAbortOnly == aborted

FinalizeBypassed == ~finalizeRequiredOk(records) \/ aborted

runFinalize ==
    /\ phase = "drained"
    /\ ~configError
    /\ \/ /\ FinalizeBypassed
          /\ UNCHANGED <<output, failures>>
       \/ /\ ~FinalizeBypassed
          /\ output' = "present"
          /\ UNCHANGED failures
       \/ /\ ~FinalizeBypassed            \* finalize.run threw
          /\ failures' = failures \cup {"finalize"}
          /\ UNCHANGED output
    /\ phase' = "finalized"
    /\ UNCHANGED <<work, records, aborted, configError, woken, ended>>

\* The end status reads the signal again: finalize.run may have aborted it.
Return ==
    /\ phase = "finalized"
    /\ ended' = IF aborted THEN "failed" ELSE "completed"
    /\ phase' = "returned"
    /\ UNCHANGED <<work, records, failures, aborted, configError, woken, output>>

(***************************************************************************)
(* The specification                                                       *)
(***************************************************************************)
SettleSome(s) == Complete(s) \/ Fail(s) \/ FailOnConfig(s) \/ SkipOnAbort(s)

Loop == \/ \E s \in Stage : Skip(s) \/ Start(s) \/ LeavePool(s)
        \/ SkippedAll \/ StartedAll \/ Wake
        \/ ThrowConfigError \/ runFinalize \/ Return

Next == Call \/ Abort \/ Loop \/ \E s \in Stage : SettleSome(s)

Safety == Init /\ [][Next]_vars

\* The event loop keeps running the scheduler's own steps, and stage.run
\* settles: every provider call has a timeout and every retry loop a bound.
Fairness == WF_vars(Loop) /\ \A s \in Stage : WF_vars(SettleSome(s))

Spec == Safety /\ Fairness

(***************************************************************************)
(* Properties                                                              *)
(***************************************************************************)
\* A stage that ran did so on settled dependencies with every required one
\* completed: a record written between two turns of the loop never lets a
\* stage through early.
RanOnSettledDeps ==
    \A s \in Stage :
        work[s] = "running" \/ records[s] \in {"completed", "failed"} =>
            isStageEligible(s, records)

\* "DAG validation should have caught this": the loop never runs out of work
\* with stages left over, whatever the order in which stages settle and leave.
NeverUnreachable == phase # "unreachable"

\* The result is honest: a run that ends "completed" with no failure listed
\* completed every stage and produced an output.  Nothing is skipped silently.
CleanEndIsComplete ==
    phase = "returned" /\ ended = "completed" /\ failures = {} =>
        /\ \A s \in Stage : records[s] = "completed"
        /\ output = "present"

\* What a running stage may read through ctx.get and ctx.stageStatus does not
\* change under it, however late it reads.
ReadsAreStable ==
    [][\A s \in Stage : work[s] = "running" =>
          \A d \in Deps(s) : records'[d] = records[d]]_vars

\* Every run ends: executePipeline returns or throws the configuration error.
Terminates == phase = "skip" ~> phase \in {"returned", "threw"}

(***************************************************************************)
(* Refinement                                                              *)
(***************************************************************************)
verdict == CASE phase = "returned" /\ output = "present" -> "output"
             [] phase = "returned" /\ output = "null"    -> "noOutput"
             [] phase = "threw"                          -> "threw"
             [] OTHER                                    -> "open"

Contract == INSTANCE PipelineContract WITH cancelled <- aborted

\* The in-process scheduler keeps the contract of a pipeline run.
KeepsContract == Contract!Spec
=============================================================================
