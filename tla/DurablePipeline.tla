-------------------------- MODULE DurablePipeline --------------------------
(***************************************************************************)
(* The same pipeline driven out of process, as scheduling.ts and           *)
(* single-stage.ts are meant to be used: an orchestrator (outside this     *)
(* repository) persists each stage's outcome, asks computeDagProgress what *)
(* to do, runs a deterministic stage with executeStage, and splits an LLM  *)
(* stage into launchStage (submit, persist the response id, suspend) and   *)
(* completeStage (validate the retrieved response).                        *)
(*                                                                         *)
(* An invocation may crash: what it had not persisted is lost, but a       *)
(* response it submitted goes on upstream.  Its caller may abort the signal*)
(* of any invocation.  Configuration errors and a failing submit, an       *)
(* aborted one too, reach the orchestrator as exceptions and change        *)
(* nothing here.                                                           *)
(***************************************************************************)
EXTENDS PipelineDag

CONSTANTS LlmStages,    \* the stages isLlmStage routes to launch / complete
          MaxAttempts,  \* the orchestrator's bound on launches of one stage
          WithContext,  \* is completeStage given its context argument
          MaxCrashes    \* bound: crashed invocations

ASSUME DurableAssumption ==
    /\ LlmStages \subseteq Stage
    /\ MaxAttempts \in Nat \ {0}
    /\ WithContext \in BOOLEAN
    /\ MaxCrashes \in Nat

\* How a background response can end, as far as completeStage tells apart.
ResponseEnd == {"valid", "malformed", "schemaInvalid", "contentRefused",
                "maxOutputTokens", "contentFilter", "failed", "cancelled"}

VARIABLES
    stored,      \* persisted outcomes
    job,         \* [Stage -> "idle" | "running" | "submitted" | "waiting"]
    response,    \* the latest response of an LLM stage, as it is upstream
    launches,    \* the attempt number an LLM stage is at
    submissions, \* responses submitted for a stage, those lost in a crash too
    crashes,     \* crashed invocations so far
    cancelled,   \* some response was cancelled upstream, or a signal aborted
    conclusion   \* the persisted result of executeFinalize, "none" before the
                 \* run is created

durableVars == <<stored, job, response, launches, submissions, crashes,
                 cancelled, conclusion>>

DurableTypeOK ==
    /\ stored \in RecordMap
    /\ job \in [Stage -> {"idle", "running", "submitted", "waiting"}]
    /\ response \in [LlmStages -> ResponseEnd \cup {"none", "in_progress"}]
    /\ launches \in [LlmStages -> 1 .. MaxAttempts]
    /\ submissions \in [LlmStages -> 0 .. MaxAttempts + MaxCrashes]
    /\ crashes \in 0 .. MaxCrashes
    /\ cancelled \in BOOLEAN
    /\ conclusion \in {"none", "open", "output", "noOutput"}

DurableInit ==
    /\ stored = [s \in Stage |-> "none"]
    /\ job = [s \in Stage |-> "idle"]
    /\ response = [s \in LlmStages |-> "none"]
    /\ launches = [s \in LlmStages |-> 1]
    /\ submissions = [s \in LlmStages |-> 0]
    /\ crashes = 0
    /\ cancelled = FALSE
    /\ conclusion = "none"

Runnable(s) == /\ conclusion = "open"
               /\ s \in computeDagProgress(stored).runnable
               /\ job[s] = "idle"

Record(s, outcome) == stored' = [stored EXCEPT ![s] = outcome]
Job(s, state) == job' = [job EXCEPT ![s] = state]

(***************************************************************************)
(* The orchestrator's invocations                                          *)
(***************************************************************************)
CreateRun ==
    /\ conclusion = "none"
    /\ conclusion' = "open"
    /\ UNCHANGED <<stored, job, response, launches, submissions, crashes, cancelled>>

\* The caller aborts the signal of an invocation, or of those to come.
CallerAborts ==
    /\ conclusion = "open" /\ ~cancelled
    /\ cancelled' = TRUE
    /\ UNCHANGED <<stored, job, response, launches, submissions, crashes, conclusion>>

MarkSkipped(s) ==
    /\ conclusion = "open"
    /\ s \in computeDagProgress(stored).skippable
    /\ Record(s, "skipped")
    /\ UNCHANGED <<job, response, launches, submissions, crashes,
                   cancelled, conclusion>>

\* executeStage on a deterministic stage: it runs, then the outcome persists,
\* "skipped" when its signal was aborted before it ran or while it did.
executeStage(s) ==
    /\ s \notin LlmStages
    /\ Runnable(s)
    /\ Job(s, "running")
    /\ UNCHANGED <<stored, response, launches, submissions, crashes, cancelled, conclusion>>

StageExecuted(s) ==
    /\ job[s] = "running"
    /\ \E outcome \in Outcome : (outcome = "skipped" => cancelled) /\ Record(s, outcome)
    /\ Job(s, "idle")
    /\ UNCHANGED <<response, launches, submissions, crashes,
                   cancelled, conclusion>>

\* launchStage submits the request; the invocation then holds a response id
\* that is not persisted yet.
launchStage(s) ==
    /\ s \in LlmStages
    /\ Runnable(s)
    /\ Job(s, "submitted")
    /\ response' = [response EXCEPT ![s] = "in_progress"]
    /\ submissions' = [submissions EXCEPT ![s] = @ + 1]
    /\ UNCHANGED <<stored, launches, crashes, cancelled, conclusion>>

PersistResponseId(s) ==
    /\ job[s] = "submitted"
    /\ Job(s, "waiting")
    /\ UNCHANGED <<stored, response, launches, submissions, crashes, cancelled, conclusion>>

\* The invocation dies before it persisted anything.
Crash(s) ==
    /\ crashes < MaxCrashes
    /\ job[s] \in {"running", "submitted"}
    /\ crashes' = crashes + 1
    /\ Job(s, "idle")
    /\ UNCHANGED <<stored, response, launches, submissions, cancelled, conclusion>>

\* Faulty variant: the content check never runs out of process.
validateLlmOutcome_NoContentCheck(end) ==
    LET failed(r, c) == [outcome |-> "failed", reason |-> r, code |-> c]
    IN  CASE end \in {"valid", "contentRefused"} ->
               [outcome |-> "completed", reason |-> "none", code |-> "none"]
          [] end \in {"malformed", "schemaInvalid"} ->
               failed("schema_validation", "OUTPUT_SCHEMA_INVALID")
          [] end = "maxOutputTokens" ->
               failed("transient", "LLM_TRANSIENT_ERROR")
          [] end \in {"contentFilter", "failed"} ->
               failed("transient", "LLM_NON_RETRYABLE_ERROR")
          [] end = "cancelled" ->
               [outcome |-> "skipped", reason |-> "none", code |-> "none"]

\* validateLlmOutcome: the outcome and, for a failure, its reason and code.
\* Without a context checkOutput does not run.
validateLlmOutcome(end) ==
    LET failed(r, c) == [outcome |-> "failed", reason |-> r, code |-> c]
    IN  CASE end = "valid" \/ (end = "contentRefused" /\ ~WithContext) ->
               [outcome |-> "completed", reason |-> "none", code |-> "none"]
          [] end \in {"malformed", "schemaInvalid"} ->
               failed("schema_validation", "OUTPUT_SCHEMA_INVALID")
          [] end = "contentRefused" /\ WithContext ->
               failed("schema_validation", "checkOutput")
          [] end = "maxOutputTokens" ->
               failed("transient", "LLM_TRANSIENT_ERROR")
          [] end \in {"contentFilter", "failed"} ->
               failed("transient", "LLM_NON_RETRYABLE_ERROR")
          [] end = "cancelled" ->
               [outcome |-> "skipped", reason |-> "none", code |-> "none"]

failureRetryReason(v) ==
    IF v.outcome # "failed" \/ v.code = "LLM_NON_RETRYABLE_ERROR" THEN "none"
    ELSE v.reason

\* The documented re-launch predicate: retryReason # null and attempts left.
\* completeStage reports a reason whatever the retryOn of the stage's policy.
Relaunch(s, retryReason) == retryReason # "none" /\ launches[s] < MaxAttempts

\* completeStage, then the orchestrator persists the outcome or launches the
\* next attempt.  A crash before that repeats it on the same response.
completeStage(s) ==
    LET v == validateLlmOutcome(response[s])
        retryReason == failureRetryReason(v)
    IN  /\ job[s] = "waiting"
        /\ response[s] \in ResponseEnd
        /\ Job(s, "idle")
        /\ \/ /\ Relaunch(s, retryReason)
              /\ launches' = [launches EXCEPT ![s] = @ + 1]
              /\ UNCHANGED stored
           \/ /\ ~Relaunch(s, retryReason)
              /\ Record(s, v.outcome)
              /\ UNCHANGED launches
        /\ UNCHANGED <<response, submissions, crashes, cancelled, conclusion>>

\* Faulty variant: finalize runs whatever its required dependencies did.
executeFinalize_Unguarded ==
    /\ conclusion = "open"
    /\ \A s \in Stage : stored[s] # "none"
    /\ conclusion' \in {"noOutput", "output"}
    /\ UNCHANGED <<stored, job, response, launches, submissions, crashes, cancelled>>

executeFinalize ==
    /\ conclusion = "open"
    /\ \A s \in Stage : stored[s] # "none"
    /\ \/ conclusion' = "noOutput"         \* bypassed, or finalize.run threw
       \/ finalizeRequiredOk(stored) /\ conclusion' = "output"
    /\ UNCHANGED <<stored, job, response, launches, submissions, crashes, cancelled>>

(***************************************************************************)
(* Upstream: the response ends, or the caller cancels it.                  *)
(***************************************************************************)
ResponseEnds(s, end) ==
    /\ response[s] = "in_progress"
    /\ response' = [response EXCEPT ![s] = end]
    /\ cancelled' = (cancelled \/ end = "cancelled")
    /\ UNCHANGED <<stored, job, launches, submissions, crashes,
                   conclusion>>

Advance(s) == \/ MarkSkipped(s) \/ executeStage(s) \/ StageExecuted(s)
              \/ launchStage(s)

AdvanceLlm(s) == \/ PersistResponseId(s) \/ completeStage(s)

UpstreamEnds(s) == \E end \in ResponseEnd : ResponseEnds(s, end)

DurableNext == \/ CreateRun \/ CallerAborts \/ executeFinalize
               \/ \E s \in Stage : Advance(s) \/ Crash(s)
               \/ \E s \in LlmStages : AdvanceLlm(s) \/ UpstreamEnds(s)

\* The orchestrator is invoked again after a crash, as long as there is
\* something to do, and upstream ends every response.
DurableFairness ==
    /\ \A s \in Stage : WF_durableVars(Advance(s))
    /\ \A s \in LlmStages : WF_durableVars(AdvanceLlm(s)) /\ WF_durableVars(UpstreamEnds(s))
    /\ WF_durableVars(executeFinalize)

DurableSpec == DurableInit /\ [][DurableNext]_durableVars /\ DurableFairness

(***************************************************************************)
(* Properties                                                              *)
(***************************************************************************)
\* A stage completes on an output that passed the checks the in-process stage
\* makes, the content check included when the context is passed on.
CompletedWasChecked ==
    \A s \in LlmStages : stored[s] = "completed" =>
        response[s] = "valid" \/ (~WithContext /\ response[s] = "contentRefused")

\* Only a crash between submit and persist pays for a response twice.
SpendIsBounded ==
    \A s \in LlmStages : submissions[s] <= launches[s] + crashes

\* Every run that is created reaches its conclusion, crashes and cancelled responses included.
Concludes == conclusion = "open" ~> conclusion \in {"output", "noOutput"}

Promise == INSTANCE PipelineContract WITH
    records <- stored,
    verdict <- IF conclusion = "none" THEN "open" ELSE conclusion

\* The out-of-process drive keeps the same contract as the scheduler.
DriveKeepsContract == Promise!Spec
=============================================================================
