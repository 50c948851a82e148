----------------------- MODULE DurablePipelineProofs -----------------------
(***************************************************************************)
(* Proofs about the out-of-process drive, for every graph, every split     *)
(* into LLM and deterministic stages, every number of attempts and of      *)
(* crashes.                                                                *)
(***************************************************************************)
EXTENDS DurablePipeline, TLAPS

Safety == DurableInit /\ [][DurableNext]_durableVars

\* An invocation that is under way works on an open stage whose dependencies
\* are settled, on the side of the split the stage belongs to.
JobsAreDue ==
    \A s \in Stage : job[s] # "idle" =>
        /\ stored[s] = "none"
        /\ isStageEligible(s, stored)
        /\ job[s] = "running" <=> s \notin LlmStages

\* A response ends as cancelled only if somebody cancelled it.
CancelIsKnown ==
    \A s \in LlmStages : response[s] = "cancelled" => cancelled

\* An idle stage that is still open has paid for the launches before this one
\* and for what crashes lost, and for nothing else.
OpenIdlePaid ==
    \A s \in LlmStages : job[s] = "idle" /\ stored[s] = "none" =>
        submissions[s] < launches[s] + crashes

IInv == /\ DurableTypeOK /\ JobsAreDue /\ CancelIsKnown /\ CompletedWasChecked
        /\ OpenIdlePaid /\ SpendIsBounded

\* What completeStage makes of a response that ended.
LEMMA OutcomesOf ==
    ASSUME NEW end \in ResponseEnd
    PROVE  LET v == validateLlmOutcome(end)
           IN  /\ v.outcome \in Outcome
               /\ v.outcome = "completed" =>
                    end = "valid" \/ (~WithContext /\ end = "contentRefused")
               /\ v.outcome = "skipped" => end = "cancelled"
<1>1. CASE end = "valid"
  BY <1>1 DEF validateLlmOutcome, Outcome
<1>2. CASE end = "contentRefused" /\ ~WithContext
  BY <1>2 DEF validateLlmOutcome, Outcome
<1>3. CASE end = "contentRefused" /\ WithContext
  BY <1>3 DEF validateLlmOutcome, Outcome
<1>4. CASE end \in {"malformed", "schemaInvalid"}
  BY <1>4 DEF validateLlmOutcome, Outcome
<1>5. CASE end = "maxOutputTokens"
  BY <1>5 DEF validateLlmOutcome, Outcome
<1>6. CASE end \in {"contentFilter", "failed"}
  BY <1>6 DEF validateLlmOutcome, Outcome
<1>7. CASE end = "cancelled"
  BY <1>7 DEF validateLlmOutcome, Outcome
<1> QED
  BY <1>1, <1>2, <1>3, <1>4, <1>5, <1>6, <1>7, DurableAssumption DEF ResponseEnd

\* A stage that is due stays due: only open stages get a record, and what a
\* due stage depends on is closed.
LEMMA StaysEligible ==
    ASSUME stored \in RecordMap, NEW s \in Stage, isStageEligible(s, stored),
           NEW t \in Stage, stored[t] = "none",
           NEW o \in Outcome, stored' = [stored EXCEPT ![t] = o]
    PROVE  isStageEligible(s, stored)'
BY DagAssumption DEF RecordMap, isStageEligible, Outcome

\* What launching or running a stage needs.
LEMMA RunnableIsDue ==
    ASSUME NEW s \in Stage, Runnable(s)
    PROVE  stored[s] = "none" /\ isStageEligible(s, stored) /\ job[s] = "idle"
BY DEF Runnable, computeDagProgress

LEMMA InitInv == DurableInit => IInv
<1> SUFFICES ASSUME DurableInit PROVE IInv
  OBVIOUS
<1> USE DurableAssumption, DagAssumption DEF DurableInit
<1>1. DurableTypeOK
  <2>1. stored \in RecordMap /\ job \in [Stage -> {"idle", "running", "submitted", "waiting"}]
    BY DEF RecordMap
  <2>2. response \in [LlmStages -> ResponseEnd \cup {"none", "in_progress"}]
    OBVIOUS
  <2>3. launches \in [LlmStages -> 1 .. MaxAttempts]
    OBVIOUS
  <2>4. submissions \in [LlmStages -> 0 .. MaxAttempts + MaxCrashes]
    OBVIOUS
  <2>5. crashes = 0 /\ cancelled = FALSE /\ conclusion = "none"
    OBVIOUS
  <2> HIDE DEF DurableInit
  <2>6. cancelled \in BOOLEAN
    BY ONLY <2>5, Zenon
  <2>7. crashes \in 0 .. MaxCrashes
    BY <2>5
  <2>8. conclusion \in {"none", "open", "output", "noOutput"}
    BY ONLY <2>5
  <2> QED BY ONLY <2>1, <2>2, <2>3, <2>4, <2>6, <2>7, <2>8, Zenon DEF DurableTypeOK
<1>2. JobsAreDue /\ CancelIsKnown /\ CompletedWasChecked
  BY DEF JobsAreDue, CancelIsKnown, CompletedWasChecked
<1>3. OpenIdlePaid /\ SpendIsBounded
  BY DEF OpenIdlePaid, SpendIsBounded
<1> QED BY <1>1, <1>2, <1>3 DEF IInv

\* Every record a step writes is an outcome, for a stage that had none.
LEMMA RecordsStep ==
    ASSUME IInv, [DurableNext]_durableVars
    PROVE  \/ stored' = stored
           \/ \E t \in Stage, o \in Outcome :
                /\ stored[t] = "none"
                /\ stored' = [stored EXCEPT ![t] = o]
<1> USE DEF IInv, JobsAreDue
<1>1. ASSUME NEW s \in Stage, MarkSkipped(s)
      PROVE  stored[s] = "none" /\ stored' = [stored EXCEPT ![s] = "skipped"]
  BY <1>1 DEF MarkSkipped, Record, computeDagProgress
<1>2. ASSUME NEW s \in Stage, StageExecuted(s)
      PROVE  stored[s] = "none" /\ \E o \in Outcome : stored' = [stored EXCEPT ![s] = o]
  BY <1>2 DEF StageExecuted, Record, Outcome
<1>3. ASSUME NEW s \in LlmStages, completeStage(s)
      PROVE  \/ stored' = stored
             \/ /\ stored[s] = "none"
                /\ \E o \in Outcome : stored' = [stored EXCEPT ![s] = o]
  <2>1. stored[s] = "none"
    BY <1>3, DurableAssumption DEF completeStage
  <2>2. CASE stored' = stored
    BY <2>2
  <2>3. CASE Record(s, validateLlmOutcome(response[s]).outcome)
    <3>1. response[s] \in ResponseEnd
      BY <1>3 DEF completeStage
    <3>2. validateLlmOutcome(response[s]).outcome \in Outcome
      BY <3>1, OutcomesOf
    <3> QED BY <2>1, <2>3, <3>2 DEF Record
  <2> QED BY <1>3, <2>2, <2>3 DEF completeStage
<1>4. ASSUME NEW s \in Stage, executeStage(s) \/ launchStage(s) \/ Crash(s)
      PROVE  stored' = stored
  BY <1>4 DEF executeStage, launchStage, Crash
<1>5. ASSUME NEW s \in LlmStages, PersistResponseId(s) \/ UpstreamEnds(s)
      PROVE  stored' = stored
  BY <1>5 DEF PersistResponseId, UpstreamEnds, ResponseEnds
<1>6. CASE CreateRun \/ CallerAborts \/ executeFinalize \/ UNCHANGED durableVars
  BY <1>6 DEF CreateRun, CallerAborts, executeFinalize, durableVars
<1> QED
  BY <1>1, <1>2, <1>3, <1>4, <1>5, <1>6, DurableAssumption
     DEF DurableNext, Advance, AdvanceLlm, Outcome

\* A stage that is due and keeps its place stays due.
LEMMA DueStays ==
    ASSUME IInv, [DurableNext]_durableVars, NEW s \in Stage,
           isStageEligible(s, stored)
    PROVE  isStageEligible(s, stored)'
<1>1. CASE stored' = stored
  BY <1>1 DEF isStageEligible
<1>2. ASSUME NEW t \in Stage, NEW o \in Outcome, stored[t] = "none",
             stored' = [stored EXCEPT ![t] = o]
      PROVE  isStageEligible(s, stored)'
  BY <1>2, StaysEligible DEF IInv, DurableTypeOK
<1> QED BY <1>1, <1>2, RecordsStep

LEMMA JobsStep ==
    ASSUME IInv, [DurableNext]_durableVars
    PROVE  JobsAreDue'
<1> SUFFICES ASSUME NEW s \in Stage, job'[s] # "idle"
             PROVE  /\ stored'[s] = "none"
                    /\ isStageEligible(s, stored)'
                    /\ job'[s] = "running" <=> s \notin LlmStages
  BY DEF JobsAreDue
<1>j. job \in [Stage -> {"idle", "running", "submitted", "waiting"}]
      /\ stored \in RecordMap
  BY DEF IInv, DurableTypeOK
<1>d. job[s] # "idle" => /\ stored[s] = "none"
                         /\ isStageEligible(s, stored)
                         /\ job[s] = "running" <=> s \notin LlmStages
  BY DEF IInv, JobsAreDue
<1> SUFFICES /\ stored'[s] = "none"
             /\ isStageEligible(s, stored)
             /\ job'[s] = "running" <=> s \notin LlmStages
  BY DueStays
<1>1. ASSUME NEW t \in Stage, MarkSkipped(t)
      PROVE  job' = job /\ stored'[s] = stored[s]
  <2>1. job' = job /\ stored' = [stored EXCEPT ![t] = "skipped"]
        /\ hasRequiredFailureUpstream(t, stored)
    BY <1>1 DEF MarkSkipped, Record, computeDagProgress
  <2>2. t # s
    BY <2>1, <1>d DEF isStageEligible, hasRequiredFailureUpstream
  <2> QED BY <2>1, <2>2, <1>j DEF RecordMap
<1>2. ASSUME NEW t \in Stage, StageExecuted(t)
      PROVE  job'[s] = job[s] /\ stored'[s] = stored[s]
  BY <1>2, <1>j DEF StageExecuted, Job, Record, RecordMap
<1>3. ASSUME NEW t \in Stage, completeStage(t)
      PROVE  job'[s] = job[s] /\ stored'[s] = stored[s]
  BY <1>3, <1>j DEF completeStage, Job, Record, RecordMap
<1>4. ASSUME NEW t \in Stage, executeStage(t)
      PROVE  /\ stored' = stored
             /\ job'[s] = job[s] \/ (s = t /\ Runnable(t) /\ job'[s] = "running"
                                    /\ t \notin LlmStages)
  BY <1>4, <1>j DEF executeStage, Job
<1>5. ASSUME NEW t \in Stage, launchStage(t)
      PROVE  /\ stored' = stored
             /\ job'[s] = job[s] \/ (s = t /\ Runnable(t) /\ job'[s] = "submitted"
                                    /\ t \in LlmStages)
  BY <1>5, <1>j DEF launchStage, Job
<1>6. ASSUME NEW t \in Stage, PersistResponseId(t)
      PROVE  /\ stored' = stored
             /\ job'[s] = job[s] \/ (job[s] = "submitted" /\ job'[s] = "waiting")
  BY <1>6, <1>j DEF PersistResponseId, Job
<1>7. ASSUME NEW t \in Stage, Crash(t)
      PROVE  job'[s] = job[s] /\ stored' = stored
  BY <1>7, <1>j DEF Crash, Job
<1>8. ASSUME NEW t \in LlmStages, UpstreamEnds(t)
      PROVE  job' = job /\ stored' = stored
  BY <1>8 DEF UpstreamEnds, ResponseEnds
<1>9. CASE CreateRun \/ CallerAborts \/ executeFinalize \/ UNCHANGED durableVars
  BY <1>9, <1>d DEF CreateRun, CallerAborts, executeFinalize, durableVars
<1>10. ASSUME NEW t \in Stage, executeStage(t) \/ launchStage(t)
       PROVE  /\ stored'[s] = "none"
              /\ isStageEligible(s, stored)
              /\ job'[s] = "running" <=> s \notin LlmStages
  BY <1>4, <1>5, <1>10, <1>d, RunnableIsDue
<1>11. ASSUME NEW t \in Stage, StageExecuted(t) \/ Crash(t) \/ MarkSkipped(t)
                               \/ completeStage(t) \/ PersistResponseId(t)
       PROVE  /\ stored'[s] = "none"
              /\ isStageEligible(s, stored)
              /\ job'[s] = "running" <=> s \notin LlmStages
  BY <1>1, <1>2, <1>3, <1>6, <1>7, <1>11, <1>d
<1> QED
  BY <1>8, <1>9, <1>10, <1>11, <1>d, DurableAssumption DEF DurableNext, Advance, AdvanceLlm

LEMMA TypeStep ==
    ASSUME IInv, [DurableNext]_durableVars
    PROVE  DurableTypeOK'
<1>r. stored' \in RecordMap
  BY RecordsStep DEF IInv, DurableTypeOK, RecordMap
<1>j. job' \in [Stage -> {"idle", "running", "submitted", "waiting"}]
  BY DurableAssumption
     DEF IInv, DurableTypeOK, durableVars, DurableNext, Advance, AdvanceLlm, UpstreamEnds, MarkSkipped,
         executeStage, StageExecuted, launchStage, Crash, PersistResponseId,
         completeStage, ResponseEnds, executeFinalize, CreateRun, CallerAborts, Job
<1>p. response' \in [LlmStages -> ResponseEnd \cup {"none", "in_progress"}]
  BY DEF IInv, DurableTypeOK, durableVars, DurableNext, Advance, AdvanceLlm, UpstreamEnds, MarkSkipped,
         executeStage, StageExecuted, launchStage, Crash, PersistResponseId,
         completeStage, ResponseEnds, executeFinalize, CreateRun, CallerAborts
<1>l. launches' \in [LlmStages -> 1 .. MaxAttempts]
  BY DurableAssumption
     DEF IInv, DurableTypeOK, durableVars, DurableNext, Advance, AdvanceLlm, UpstreamEnds, MarkSkipped,
         executeStage, StageExecuted, launchStage, Crash, PersistResponseId,
         completeStage, ResponseEnds, executeFinalize, CreateRun, CallerAborts, Relaunch
<1>s. submissions' \in [LlmStages -> 0 .. MaxAttempts + MaxCrashes]
  <2>1. ASSUME NEW s \in LlmStages, launchStage(s)
        PROVE  submissions' \in [LlmStages -> 0 .. MaxAttempts + MaxCrashes]
    <3>1. submissions[s] < launches[s] + crashes
      BY <2>1, RunnableIsDue, DurableAssumption DEF launchStage, IInv, OpenIdlePaid
    <3>2. submissions[s] + 1 \in 0 .. MaxAttempts + MaxCrashes
      BY <3>1, DurableAssumption DEF IInv, DurableTypeOK
    <3> QED BY <2>1, <3>2 DEF launchStage, IInv, DurableTypeOK
  <2>2. CASE submissions' = submissions
    BY <2>2 DEF IInv, DurableTypeOK
  <2> QED
    BY <2>1, <2>2
       DEF durableVars, DurableNext, Advance, AdvanceLlm, UpstreamEnds, MarkSkipped,
           executeStage, StageExecuted, launchStage, Crash, PersistResponseId,
           completeStage, ResponseEnds, executeFinalize, CreateRun, CallerAborts
<1>c. crashes' \in 0 .. MaxCrashes
  BY DurableAssumption
     DEF IInv, DurableTypeOK, durableVars, DurableNext, Advance, AdvanceLlm, UpstreamEnds, MarkSkipped,
         executeStage, StageExecuted, launchStage, Crash, PersistResponseId,
         completeStage, ResponseEnds, executeFinalize, CreateRun, CallerAborts
<1>k. cancelled' \in BOOLEAN
  BY DEF IInv, DurableTypeOK, durableVars, DurableNext, Advance, AdvanceLlm, UpstreamEnds, MarkSkipped,
         executeStage, StageExecuted, launchStage, Crash, PersistResponseId,
         completeStage, ResponseEnds, executeFinalize, CreateRun, CallerAborts
<1>v. conclusion' \in {"none", "open", "output", "noOutput"}
  BY DEF IInv, DurableTypeOK, durableVars, DurableNext, Advance, AdvanceLlm, UpstreamEnds, MarkSkipped,
         executeStage, StageExecuted, launchStage, Crash, PersistResponseId,
         completeStage, ResponseEnds, executeFinalize, CreateRun, CallerAborts
<1> QED BY <1>r, <1>j, <1>p, <1>l, <1>s, <1>c, <1>k, <1>v DEF DurableTypeOK

\* A record only appears on the response it was made from, and a recorded
\* response does not change.
LEMMA CheckedStep ==
    ASSUME IInv, [DurableNext]_durableVars
    PROVE  CompletedWasChecked' /\ CancelIsKnown'
<1> SUFFICES ASSUME NEW s \in LlmStages
             PROVE  /\ stored'[s] = "completed" =>
                          response'[s] = "valid" \/ (~WithContext /\ response'[s] = "contentRefused")
                    /\ response'[s] = "cancelled" => cancelled'
  BY DEF CompletedWasChecked, CancelIsKnown
<1>o. /\ stored[s] = "completed" =>
            response[s] = "valid" \/ (~WithContext /\ response[s] = "contentRefused")
      /\ response[s] = "cancelled" => cancelled
  BY DEF IInv, CompletedWasChecked, CancelIsKnown
<1>t. stored \in RecordMap /\ response \in [LlmStages -> ResponseEnd \cup {"none", "in_progress"}]
      /\ s \in Stage
  BY DurableAssumption DEF IInv, DurableTypeOK
<1>1. ASSUME NEW t \in Stage, MarkSkipped(t)
      PROVE  response' = response /\ cancelled' = cancelled
             /\ (stored'[s] = stored[s] \/ stored'[s] = "skipped")
  BY <1>1, <1>t DEF MarkSkipped, Record, RecordMap
<1>2. ASSUME NEW t \in Stage, StageExecuted(t)
      PROVE  response' = response /\ cancelled' = cancelled /\ stored'[s] = stored[s]
  <2>1. t # s
    BY <1>2, <1>t DEF StageExecuted, IInv, JobsAreDue
  <2> QED BY <1>2, <2>1, <1>t DEF StageExecuted, Record, RecordMap
<1>3. ASSUME NEW t \in LlmStages, completeStage(t)
      PROVE  /\ response' = response /\ cancelled' = cancelled
             /\ \/ stored'[s] = stored[s]
                \/ stored'[s] = "completed" => response[s] = "valid"
                        \/ (~WithContext /\ response[s] = "contentRefused")
  <2>1. response[t] \in ResponseEnd
    BY <1>3 DEF completeStage
  <2>2. response' = response /\ cancelled' = cancelled
    BY <1>3 DEF completeStage
  <2>3. CASE stored' = stored
    BY <2>2, <2>3
  <2>4. CASE Record(t, validateLlmOutcome(response[t]).outcome)
    <3>1. stored'[s] = stored[s]
          \/ (s = t /\ stored'[s] = validateLlmOutcome(response[s]).outcome)
      BY <2>4, <1>t DEF Record, RecordMap
    <3> QED BY <2>1, <2>2, <3>1, OutcomesOf
  <2> QED BY <1>3, <2>3, <2>4 DEF completeStage
<1>4. ASSUME NEW t \in LlmStages, UpstreamEnds(t)
      PROVE  /\ stored' = stored
             /\ cancelled => cancelled'
             /\ \/ response'[s] = response[s]
                \/ response[s] = "in_progress" /\ (response'[s] = "cancelled" => cancelled')
  BY <1>4, <1>t DEF UpstreamEnds, ResponseEnds
<1>5. ASSUME NEW t \in Stage, launchStage(t)
      PROVE  /\ stored' = stored /\ cancelled' = cancelled
             /\ \/ response'[s] = response[s]
                \/ stored[s] = "none" /\ response'[s] = "in_progress"
  BY <1>5, <1>t, RunnableIsDue DEF launchStage
<1>6. ASSUME NEW t \in Stage, executeStage(t) \/ Crash(t) \/ PersistResponseId(t)
      PROVE  UNCHANGED <<stored, response, cancelled>>
  BY <1>6 DEF executeStage, Crash, PersistResponseId
<1>7. CASE CreateRun \/ CallerAborts \/ executeFinalize \/ UNCHANGED durableVars
  BY <1>7, <1>o DEF CreateRun, CallerAborts, executeFinalize, durableVars
<1> QED
  BY <1>1, <1>2, <1>3, <1>4, <1>5, <1>6, <1>7, <1>o, DurableAssumption
     DEF DurableNext, Advance, AdvanceLlm

\* A submission is paid by the launch it belongs to; what a crash loses, by
\* that crash.
LEMMA SpendStep ==
    ASSUME IInv, [DurableNext]_durableVars
    PROVE  OpenIdlePaid' /\ SpendIsBounded'
<1> SUFFICES ASSUME NEW s \in LlmStages
             PROVE  /\ job'[s] = "idle" /\ stored'[s] = "none" =>
                          submissions'[s] < launches'[s] + crashes'
                    /\ submissions'[s] <= launches'[s] + crashes'
  BY DEF OpenIdlePaid, SpendIsBounded
<1>o. /\ job[s] = "idle" /\ stored[s] = "none" =>
            submissions[s] < launches[s] + crashes
      /\ submissions[s] <= launches[s] + crashes
  BY DEF IInv, OpenIdlePaid, SpendIsBounded
<1>t. s \in Stage /\ stored \in RecordMap
      /\ job \in [Stage -> {"idle", "running", "submitted", "waiting"}]
  BY DurableAssumption DEF IInv, DurableTypeOK
<1>n. launches[s] \in Nat /\ submissions[s] \in Nat /\ crashes \in Nat
      /\ launches \in [LlmStages -> 1 .. MaxAttempts]
      /\ submissions \in [LlmStages -> 0 .. MaxAttempts + MaxCrashes]
  BY DurableAssumption DEF IInv, DurableTypeOK
<1>r. stored'[s] = "none" => stored[s] = "none"
  BY RecordsStep, <1>t DEF RecordMap, Outcome
<1>1. ASSUME NEW t \in Stage, MarkSkipped(t) \/ executeStage(t)
      PROVE  /\ UNCHANGED <<submissions, launches, crashes>>
             /\ job'[s] = "idle" => job[s] = "idle"
  BY <1>1, <1>t DEF MarkSkipped, executeStage, Job
<1>2. ASSUME NEW t \in Stage, StageExecuted(t)
      PROVE  UNCHANGED <<submissions, launches, crashes>> /\ job'[s] = job[s]
  BY <1>2, <1>t DEF StageExecuted, Job, IInv, JobsAreDue
<1>3. ASSUME NEW t \in Stage, launchStage(t)
      PROVE  /\ UNCHANGED <<launches, crashes>>
             /\ \/ submissions'[s] = submissions[s] /\ job'[s] = job[s]
                \/ /\ submissions'[s] = submissions[s] + 1 /\ job'[s] # "idle"
                   /\ job[s] = "idle" /\ stored[s] = "none"
  BY <1>3, <1>t, <1>n, RunnableIsDue DEF launchStage, Job
<1>4. ASSUME NEW t \in Stage, Crash(t)
      PROVE  UNCHANGED <<submissions, launches>> /\ crashes' = crashes + 1
  BY <1>4 DEF Crash
<1>5. ASSUME NEW t \in LlmStages, PersistResponseId(t) \/ UpstreamEnds(t)
      PROVE  /\ UNCHANGED <<submissions, launches, crashes>>
             /\ job'[s] = "idle" => job[s] = "idle"
  BY <1>5, <1>t DEF PersistResponseId, UpstreamEnds, ResponseEnds, Job
<1>6. ASSUME NEW t \in LlmStages, completeStage(t)
      PROVE  /\ UNCHANGED <<submissions, crashes>>
             /\ \/ launches'[s] = launches[s] /\ job'[s] = job[s]
                \/ launches'[s] = launches[s] + 1
                \/ launches'[s] = launches[s] /\ stored'[s] # "none"
  <2>1. CASE Relaunch(t, failureRetryReason(validateLlmOutcome(response[t])))
    BY <1>6, <2>1, <1>t, <1>n DEF completeStage, Job
  <2>2. CASE ~Relaunch(t, failureRetryReason(validateLlmOutcome(response[t])))
    <3>1. response[t] \in ResponseEnd /\ UNCHANGED <<submissions, crashes, launches>>
          /\ stored' = [stored EXCEPT ![t] = validateLlmOutcome(response[t]).outcome]
          /\ job' = [job EXCEPT ![t] = "idle"]
      BY <1>6, <2>2 DEF completeStage, Job, Record
    <3>2. validateLlmOutcome(response[t]).outcome # "none"
      BY <3>1, OutcomesOf DEF Outcome
    <3> QED BY <3>1, <3>2, <1>t DEF RecordMap
  <2> QED BY <2>1, <2>2
<1>7. CASE CreateRun \/ CallerAborts \/ executeFinalize \/ UNCHANGED durableVars
  BY <1>7, <1>o DEF CreateRun, CallerAborts, executeFinalize, durableVars
<1>8. ASSUME NEW t \in Stage, Advance(t) \/ Crash(t)
      PROVE  /\ job'[s] = "idle" /\ stored'[s] = "none" =>
                   submissions'[s] < launches'[s] + crashes'
             /\ submissions'[s] <= launches'[s] + crashes'
  BY <1>1, <1>2, <1>3, <1>4, <1>8, <1>o, <1>n, <1>r DEF Advance
<1>9. ASSUME NEW t \in LlmStages, AdvanceLlm(t) \/ UpstreamEnds(t)
      PROVE  /\ job'[s] = "idle" /\ stored'[s] = "none" =>
                   submissions'[s] < launches'[s] + crashes'
             /\ submissions'[s] <= launches'[s] + crashes'
  BY <1>5, <1>6, <1>9, <1>o, <1>n, <1>r DEF AdvanceLlm
<1> QED BY <1>7, <1>8, <1>9 DEF DurableNext

\* The invariant holds in every state the drive reaches.
LEMMA InvHolds == Safety => []IInv
<1>1. IInv /\ [DurableNext]_durableVars => IInv'
  BY TypeStep, JobsStep, CheckedStep, SpendStep DEF IInv
<1> QED BY InitInv, <1>1, PTL DEF Safety

\* Every state of the drive is well typed; the count of submissions is
\* bounded by the attempts allowed and the crashes suffered.
THEOREM TypeCorrect == Safety => []DurableTypeOK
BY InvHolds, PTL DEF IInv

\* An LLM stage driven through launchStage and completeStage completes only on
\* an output that passed the checks (validateLlmOutcome).
THEOREM CheckedBeforeRecorded == Safety => []CompletedWasChecked
BY InvHolds, PTL DEF IInv

\* A response is paid for twice only when a crash fell between submit and
\* persist, whatever completeStage asks to be launched again.
THEOREM SpendCorrect == Safety => []SpendIsBounded
BY InvHolds, PTL DEF IInv

(***************************************************************************)
(* The drive keeps the contract of a pipeline run.                         *)
(***************************************************************************)
LEMMA SameRules ==
    /\ \A s \in Stage :
          /\ Promise!isStageEligible(s, stored) <=> isStageEligible(s, stored)
          /\ Promise!hasRequiredFailureUpstream(s, stored)
                <=> hasRequiredFailureUpstream(s, stored)
    /\ Promise!finalizeRequiredOk(stored) <=> finalizeRequiredOk(stored)
BY DEF Promise!isStageEligible, isStageEligible,
       Promise!hasRequiredFailureUpstream, hasRequiredFailureUpstream,
       Promise!finalizeRequiredOk, finalizeRequiredOk

\* A step of the drive is a step of the contract or changes nothing in it.
LEMMA StepKeepsContract ==
    ASSUME IInv, [DurableNext]_durableVars
    PROVE  [Promise!Next]_(Promise!vars)
<1> USE DEF IInv, Promise!Next, Promise!vars
<1>1. ASSUME NEW s \in Stage, MarkSkipped(s) PROVE Promise!Skip(s)
  BY <1>1, SameRules DEF MarkSkipped, Record, computeDagProgress, Promise!Skip
<1>2. ASSUME NEW s \in Stage, StageExecuted(s) PROVE Promise!SettleRun(s) \/ Promise!Skip(s)
  BY <1>2, SameRules
     DEF StageExecuted, Record, JobsAreDue, Outcome, Promise!SettleRun, Promise!Skip
<1>3. ASSUME NEW s \in LlmStages, completeStage(s)
      PROVE  Promise!SettleRun(s) \/ Promise!Skip(s) \/ UNCHANGED Promise!vars
  <2>1. s \in Stage /\ stored[s] = "none" /\ isStageEligible(s, stored)
        /\ response[s] \in ResponseEnd /\ UNCHANGED <<cancelled, conclusion>>
    BY <1>3, DurableAssumption DEF completeStage, JobsAreDue
  <2>2. CASE stored' = stored
    BY <2>1, <2>2
  <2>3. CASE Record(s, validateLlmOutcome(response[s]).outcome)
    <3>1. validateLlmOutcome(response[s]).outcome \in Outcome
          /\ (validateLlmOutcome(response[s]).outcome = "skipped" => cancelled)
      BY <2>1, OutcomesOf DEF CancelIsKnown
    <3> QED BY <2>1, <2>3, <3>1, SameRules
            DEF Record, Outcome, Promise!SettleRun, Promise!Skip
  <2> QED BY <1>3, <2>2, <2>3 DEF completeStage
<1>4. ASSUME NEW s \in Stage, executeStage(s) \/ launchStage(s) \/ Crash(s)
      PROVE  UNCHANGED Promise!vars
  BY <1>4 DEF executeStage, launchStage, Crash
<1>5. ASSUME NEW s \in LlmStages, PersistResponseId(s)
      PROVE  UNCHANGED Promise!vars
  BY <1>5 DEF PersistResponseId
<1>6. ASSUME NEW s \in LlmStages, UpstreamEnds(s)
      PROVE  Promise!Cancel \/ UNCHANGED Promise!vars
  BY <1>6 DEF UpstreamEnds, ResponseEnds, Promise!Cancel, DurableTypeOK
<1>7. CASE executeFinalize
  BY <1>7, SameRules DEF executeFinalize, Promise!Conclude
<1>8. CASE UNCHANGED durableVars
  BY <1>8 DEF durableVars
<1>9. CASE CreateRun
  BY <1>9 DEF CreateRun
<1>10. CASE CallerAborts
  BY <1>10 DEF CallerAborts, Promise!Cancel
<1> QED
  BY <1>1, <1>2, <1>3, <1>4, <1>5, <1>6, <1>7, <1>8, <1>9, <1>10, DurableAssumption
     DEF DurableNext, Advance, AdvanceLlm

\* A run driven from outside, across crashes and retries, is a run of the
\* contract the in-process scheduler keeps.
THEOREM OrchestrationKeepsContract == Safety => DriveKeepsContract
<1>1. DurableInit => Promise!Init
  BY DEF DurableInit, Promise!Init
<1> QED BY <1>1, InvHolds, StepKeepsContract, PTL
        DEF Safety, DriveKeepsContract, Promise!Spec
=============================================================================
