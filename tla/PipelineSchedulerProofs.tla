---------------------- MODULE PipelineSchedulerProofs ----------------------
(***************************************************************************)
(* Proofs about PipelineScheduler, for every finite stage graph that       *)
(* validateDag accepts and every positive concurrency limit.               *)
(***************************************************************************)
EXTENDS PipelineScheduler, FiniteSetTheorems, TLAPS

(***************************************************************************)
(* The inductive invariant.                                                *)
(***************************************************************************)
\* A stage is skipped for a reason the caller can see: the signal was aborted,
\* or a required dependency was skipped or failed.
SkipExplained ==
    \A s \in Stage : records[s] = "skipped" =>
        aborted \/ hasRequiredFailureUpstream(s, records)

\* A stage has no record exactly while it waits or runs.
RecordFollowsWork ==
    \A s \in Stage : records[s] = "none" <=> work[s] \in {"remaining", "running"}

\* The skip loop ran to its end: with an empty pool nothing is left to skip.
\* (A stage that Start skips on an aborted signal is still in the pool.)
NothingLeftToSkip ==
    phase = "start" /\ Pool = {} => \A s \in Remaining : ~SkipDue(s)

Drained ==
    phase \in {"drained", "finalized", "returned", "threw"} =>
        Pool = {} /\ Remaining = {}

\* Every failed stage has pushed a failure or set the configuration error.
FailedIsAccounted ==
    \A s \in Stage : records[s] = "failed" => s \in failures \/ configError

\* What the last steps have established when the run is about to end.
EndIsExplained ==
    /\ output = "present" => finalizeRequiredOk(records)
    /\ output = "present" => phase \in {"finalized", "returned"}
    /\ phase \in {"finalized", "returned"} =>
          /\ ~configError
          /\ \/ output = "present"
             \/ "finalize" \in failures
             \/ aborted
             \/ ~finalizeRequiredOk(records)
    /\ phase = "returned" /\ ended = "completed" => ~aborted

\* Nobody aborts the signal of a run that was not called.
NotCalledYet == phase = "idle" => ~aborted

IInv == /\ TypeOK
        /\ NotCalledYet
        /\ RanOnSettledDeps
        /\ SkipExplained
        /\ NeverUnreachable
        /\ RecordFollowsWork
        /\ NothingLeftToSkip
        /\ Drained
        /\ FailedIsAccounted
        /\ EndIsExplained

(***************************************************************************)
(* Lemmas about the graph.                                                 *)
(***************************************************************************)
\* The dependencies of a stage are stages.
LEMMA DepsAreStages ==
    \A s \in Stage : /\ RequiredDeps[s] \subseteq Stage
                     /\ OptionalDeps[s] \subseteq Stage
                     /\ Deps(s) \subseteq Stage
BY DagAssumption DEF Deps

\* The scheduler's own two rules agree with the exported helpers of
\* scheduling.ts, which claim to mirror them exactly.
LEMMA RulesAgree ==
    ASSUME TypeOK
    PROVE  \A s \in Stage : /\ Eligible(s) <=> isStageEligible(s, records)
                            /\ SkipDue(s) <=> hasRequiredFailureUpstream(s, records)
BY DepsAreStages
   DEF TypeOK, RecordMap, Outcome, Eligible, SkipDue, isStageEligible,
       hasRequiredFailureUpstream, Deps

\* With nothing running, nothing due to be skipped and some stage left, some
\* stage can start: the first one left in the order of the graph.
LEMMA SomethingCanStart ==
    ASSUME TypeOK, RecordFollowsWork, Pool = {}, Remaining # {},
           \A s \in Remaining : ~SkipDue(s)
    PROVE  \E s \in Remaining : Eligible(s)
<1>1. PICK s \in Remaining : Deps(s) \cap Remaining = {}
  BY DagAssumption DEF Acyclic, Remaining
<1>2. \A d \in Deps(s) : d \in Stage /\ records[d] # "none"
  BY <1>1, DepsAreStages DEF Remaining, Pool, RecordFollowsWork, TypeOK
<1>3. \A d \in RequiredDeps[s] : records[d] = "completed"
  BY <1>2 DEF SkipDue, Deps
<1> QED BY <1>2, <1>3 DEF Eligible

(***************************************************************************)
(* The invariant holds.                                                    *)
(***************************************************************************)
\* The invariant holds before the first turn of the loop.
LEMMA InitInvariant == Init => IInv
<1> SUFFICES ASSUME Init PROVE IInv
  OBVIOUS
<1>1. TypeOK BY DEF Init, TypeOK, Phase, RecordMap, Outcome
<1>2. RecordFollowsWork /\ NeverUnreachable /\ NothingLeftToSkip /\ Drained
  BY DEF Init, RecordFollowsWork, NeverUnreachable, NothingLeftToSkip, Drained
<1>3. RanOnSettledDeps /\ SkipExplained /\ FailedIsAccounted
  BY DEF Init, RanOnSettledDeps, SkipExplained, FailedIsAccounted
<1>4. EndIsExplained /\ NotCalledYet BY DEF Init, EndIsExplained, NotCalledYet
<1> QED BY <1>1, <1>2, <1>3, <1>4 DEF IInv

\* Each step of the scheduler keeps the types.
LEMMA TypeStep == TypeOK /\ [Next]_vars => TypeOK'
<1> SUFFICES ASSUME TypeOK, [Next]_vars PROVE TypeOK'
  OBVIOUS
<1> USE DEF TypeOK, Phase, RecordMap, Outcome
<1>1. CASE Call \/ Abort BY <1>1 DEF Call, Abort
<1>2. ASSUME NEW s \in Stage, Skip(s) \/ Start(s) \/ LeavePool(s)
      PROVE  TypeOK'
  BY <1>2 DEF Skip, Start, LeavePool
<1>3. CASE SkippedAll \/ StartedAll \/ Wake
  BY <1>3 DEF SkippedAll, StartedAll, Wake
<1>4. CASE ThrowConfigError \/ runFinalize \/ Return
  BY <1>4 DEF ThrowConfigError, runFinalize, Return
<1>5. ASSUME NEW s \in Stage, SettleSome(s)
      PROVE  TypeOK'
  <2>1. /\ records' \in RecordMap
        /\ work' \in [Stage -> {"remaining", "running", "leaving", "done"}]
        /\ UNCHANGED <<phase, aborted, woken, output, ended>>
    BY <1>5 DEF SettleSome, Complete, Fail, FailOnConfig, SkipOnAbort, Settle
  <2>2. failures' \in {failures, failures \cup {s}}
    BY <1>5 DEF SettleSome, Complete, Fail, FailOnConfig, SkipOnAbort
  <2>3. configError' \in BOOLEAN
    BY <1>5 DEF SettleSome, Complete, Fail, FailOnConfig, SkipOnAbort
  <2> QED BY <2>1, <2>2, <2>3
<1>6. CASE UNCHANGED vars BY <1>6 DEF vars
<1> QED BY <1>1, <1>2, <1>3, <1>4, <1>5, <1>6 DEF Next, Loop

\* A terminal outcome is final: no step changes a record once it is written.
LEMMA RecordsAreFinal ==
    ASSUME TypeOK, RecordFollowsWork, [Next]_vars
    PROVE  \A s \in Stage : records[s] # "none" => records'[s] = records[s]
<1> USE DEF TypeOK, RecordMap, RecordFollowsWork
<1>1. CASE Call \/ Abort BY <1>1 DEF Call, Abort
<1>2. ASSUME NEW s \in Stage, Skip(s) \/ Start(s) \/ LeavePool(s)
      PROVE  \A t \in Stage : records[t] # "none" => records'[t] = records[t]
  BY <1>2 DEF Skip, Start, LeavePool
<1>3. CASE SkippedAll \/ StartedAll \/ Wake
  BY <1>3 DEF SkippedAll, StartedAll, Wake
<1>4. CASE ThrowConfigError \/ runFinalize \/ Return
  BY <1>4 DEF ThrowConfigError, runFinalize, Return
<1>5. ASSUME NEW s \in Stage, SettleSome(s)
      PROVE  \A t \in Stage : records[t] # "none" => records'[t] = records[t]
  BY <1>5 DEF SettleSome, Complete, Fail, FailOnConfig, SkipOnAbort, Settle
<1>6. CASE UNCHANGED vars BY <1>6 DEF vars
<1> QED BY <1>1, <1>2, <1>3, <1>4, <1>5, <1>6 DEF Next, Loop

\* So what a stage's dependencies say about it is final too.
LEMMA ReadinessIsFinal ==
    ASSUME TypeOK, RecordFollowsWork, [Next]_vars
    PROVE  \A s \in Stage :
              /\ isStageEligible(s, records) => isStageEligible(s, records')
              /\ hasRequiredFailureUpstream(s, records)
                    => hasRequiredFailureUpstream(s, records')
BY RecordsAreFinal, DepsAreStages
   DEF isStageEligible, hasRequiredFailureUpstream

\* Each step of the scheduler keeps the invariant.
LEMMA StepInvariant == IInv /\ [Next]_vars => IInv'
<1> SUFFICES ASSUME IInv, [Next]_vars PROVE IInv'
  OBVIOUS
<1> USE DEF IInv
<1>t. TypeOK' BY TypeStep
<1>c. NotCalledYet'
  BY DEF NotCalledYet, Next, Loop, SettleSome, vars, Call, Abort, Skip, Start, LeavePool,
         SkippedAll, StartedAll, Wake, ThrowConfigError, runFinalize, Return,
         Complete, Fail, FailOnConfig, SkipOnAbort, Settle
<1>f. \A s \in Stage : records[s] # "none" => records'[s] = records[s]
  BY RecordsAreFinal
<1>r. \A s \in Stage :
         /\ isStageEligible(s, records) => isStageEligible(s, records')
         /\ hasRequiredFailureUpstream(s, records)
               => hasRequiredFailureUpstream(s, records')
  BY ReadinessIsFinal
<1>1. CASE Call \/ Abort
  <2>1. RanOnSettledDeps' /\ SkipExplained' /\ RecordFollowsWork'
    BY <1>1 DEF Call, Abort, NotCalledYet, RanOnSettledDeps, SkipExplained, RecordFollowsWork
  <2>2. NeverUnreachable' /\ NothingLeftToSkip' /\ Drained'
    BY <1>1 DEF Call, Abort, NotCalledYet, NeverUnreachable, NothingLeftToSkip, Drained, Pool,
                Remaining, SkipDue
  <2>3. FailedIsAccounted' /\ EndIsExplained'
    BY <1>1 DEF Call, Abort, NotCalledYet, FailedIsAccounted, EndIsExplained, finalizeRequiredOk
  <2> QED BY <1>t, <1>c, <2>1, <2>2, <2>3
<1>2. ASSUME NEW s \in Stage, Skip(s) PROVE IInv'
  <2>1. hasRequiredFailureUpstream(s, records)
    BY <1>2, RulesAgree DEF Skip
  <2>2. RanOnSettledDeps'
    BY <1>2, <1>r DEF Skip, RanOnSettledDeps, TypeOK, RecordMap
  <2>3. SkipExplained'
    BY <1>2, <2>1, <1>r DEF Skip, SkipExplained, TypeOK, RecordMap
  <2>4. RecordFollowsWork' /\ NeverUnreachable'
    BY <1>2 DEF Skip, RecordFollowsWork, NeverUnreachable, TypeOK, RecordMap
  <2>5. NothingLeftToSkip' /\ Drained'
    BY <1>2 DEF Skip, NothingLeftToSkip, Drained
  <2>6. FailedIsAccounted'
    BY <1>2 DEF Skip, FailedIsAccounted, TypeOK, RecordMap
  <2>7. EndIsExplained' BY <1>2 DEF Skip, EndIsExplained
  <2> QED BY <1>t, <1>c, <2>2, <2>3, <2>4, <2>5, <2>6, <2>7
<1>3. ASSUME NEW s \in Stage, Start(s) PROVE IInv'
  <2>1. isStageEligible(s, records)
    BY <1>3, RulesAgree DEF Start
  <2>2. RanOnSettledDeps'
    BY <1>3, <2>1, <1>r DEF Start, RanOnSettledDeps, TypeOK, RecordMap
  <2>3. SkipExplained'
    BY <1>3, <1>r DEF Start, SkipExplained, TypeOK, RecordMap
  <2>4. RecordFollowsWork' /\ NeverUnreachable'
    BY <1>3 DEF Start, RecordFollowsWork, NeverUnreachable, TypeOK, RecordMap
  <2>5. s \in Pool'
    BY <1>3 DEF Start, Pool, TypeOK
  <2>6. NothingLeftToSkip' /\ Drained'
    BY <1>3, <2>5 DEF Start, NothingLeftToSkip, Drained
  <2>7. FailedIsAccounted'
    BY <1>3 DEF Start, FailedIsAccounted, TypeOK, RecordMap
  <2>8. EndIsExplained' BY <1>3 DEF Start, EndIsExplained
  <2> QED BY <1>t, <1>c, <2>2, <2>3, <2>4, <2>6, <2>7, <2>8
<1>4. CASE SkippedAll
  <2>1. RanOnSettledDeps' /\ SkipExplained' /\ RecordFollowsWork'
    BY <1>4 DEF SkippedAll, RanOnSettledDeps, SkipExplained, RecordFollowsWork
  <2>2. NeverUnreachable' /\ NothingLeftToSkip' /\ Drained'
    BY <1>4 DEF SkippedAll, NeverUnreachable, NothingLeftToSkip, Drained, Pool,
                Remaining, SkipDue
  <2>3. FailedIsAccounted' /\ EndIsExplained'
    BY <1>4 DEF SkippedAll, FailedIsAccounted, EndIsExplained, finalizeRequiredOk
  <2> QED BY <1>t, <1>c, <2>1, <2>2, <2>3
<1>5. CASE StartedAll
  <2>1. Pool = {} => \A s \in Remaining : ~Eligible(s)
    BY <1>5, LimitAssumption, FS_EmptySet DEF StartedAll
  <2>2. Pool = {} => Remaining = {}
    BY <1>5, <2>1, SomethingCanStart DEF StartedAll, NothingLeftToSkip
  <2>3. NeverUnreachable' /\ NothingLeftToSkip' /\ Drained'
    BY <1>5, <2>2 DEF StartedAll, NeverUnreachable, NothingLeftToSkip, Drained,
                      Pool, Remaining
  <2>4. RanOnSettledDeps' /\ SkipExplained' /\ RecordFollowsWork'
    BY <1>5 DEF StartedAll, RanOnSettledDeps, SkipExplained, RecordFollowsWork
  <2>5. FailedIsAccounted' /\ EndIsExplained'
    BY <1>5 DEF StartedAll, FailedIsAccounted, EndIsExplained, finalizeRequiredOk
  <2> QED BY <1>t, <1>c, <2>3, <2>4, <2>5
<1>6. ASSUME NEW s \in Stage, SettleSome(s) PROVE IInv'
  <2> USE DEF SettleSome, Complete, Fail, FailOnConfig, SkipOnAbort, Settle
  <2>1. isStageEligible(s, records)
    BY <1>6 DEF RanOnSettledDeps
  <2>2. RanOnSettledDeps'
    BY <1>6, <2>1, <1>r DEF RanOnSettledDeps, TypeOK, RecordMap
  <2>3. SkipExplained'
    BY <1>6, <1>r DEF SkipExplained, TypeOK, RecordMap
  <2>4. RecordFollowsWork' /\ NeverUnreachable'
    BY <1>6 DEF RecordFollowsWork, NeverUnreachable, TypeOK, RecordMap
  <2>5. NothingLeftToSkip' /\ Drained'
    BY <1>6 DEF NothingLeftToSkip, Drained
  <2>6. FailedIsAccounted'
    BY <1>6 DEF FailedIsAccounted, TypeOK, RecordMap
  <2>7. EndIsExplained' BY <1>6 DEF EndIsExplained
  <2> QED BY <1>t, <1>c, <2>2, <2>3, <2>4, <2>5, <2>6, <2>7
<1>7. ASSUME NEW s \in Stage, LeavePool(s) PROVE IInv'
  <2>1. RanOnSettledDeps' /\ SkipExplained' /\ RecordFollowsWork'
    BY <1>7 DEF LeavePool, RanOnSettledDeps, SkipExplained, RecordFollowsWork,
                TypeOK
  <2>2. NeverUnreachable' /\ NothingLeftToSkip' /\ Drained'
    BY <1>7 DEF LeavePool, NeverUnreachable, NothingLeftToSkip, Drained
  <2>3. FailedIsAccounted' /\ EndIsExplained'
    BY <1>7 DEF LeavePool, FailedIsAccounted, EndIsExplained
  <2> QED BY <1>t, <1>c, <2>1, <2>2, <2>3
<1>8. CASE Wake
  <2>1. RanOnSettledDeps' /\ SkipExplained' /\ RecordFollowsWork'
    BY <1>8 DEF Wake, RanOnSettledDeps, SkipExplained, RecordFollowsWork
  <2>2. NeverUnreachable' /\ NothingLeftToSkip' /\ Drained'
    BY <1>8 DEF Wake, NeverUnreachable, NothingLeftToSkip, Drained
  <2>3. FailedIsAccounted' /\ EndIsExplained'
    BY <1>8 DEF Wake, FailedIsAccounted, EndIsExplained
  <2> QED BY <1>t, <1>c, <2>1, <2>2, <2>3
<1>9. CASE ThrowConfigError \/ runFinalize \/ Return
  <2> USE DEF ThrowConfigError, runFinalize, Return
  <2>1. UNCHANGED <<records, work, aborted, configError>>
    BY <1>9
  <2>2. RanOnSettledDeps' /\ SkipExplained' /\ RecordFollowsWork'
    BY <2>1 DEF RanOnSettledDeps, SkipExplained, RecordFollowsWork
  <2>3. NeverUnreachable' /\ NothingLeftToSkip' /\ Drained'
    BY <1>9, <2>1 DEF NeverUnreachable, NothingLeftToSkip, Drained, Pool, Remaining
  <2>4. FailedIsAccounted'
    BY <1>9, <2>1 DEF FailedIsAccounted
  <2>5. EndIsExplained'
    BY <1>9 DEF EndIsExplained, FinalizeBypassed, finalizeRequiredOk
  <2> QED BY <1>t, <1>c, <2>2, <2>3, <2>4, <2>5
<1>10. CASE UNCHANGED vars
  <2>1. RanOnSettledDeps' /\ SkipExplained' /\ RecordFollowsWork'
    BY <1>10 DEF vars, RanOnSettledDeps, SkipExplained, RecordFollowsWork
  <2>2. NeverUnreachable' /\ NothingLeftToSkip' /\ Drained'
    BY <1>10 DEF vars, NeverUnreachable, NothingLeftToSkip, Drained, Pool,
                 Remaining, SkipDue
  <2>3. FailedIsAccounted' /\ EndIsExplained'
    BY <1>10 DEF vars, FailedIsAccounted, EndIsExplained, finalizeRequiredOk
  <2> QED BY <1>t, <1>c, <2>1, <2>2, <2>3
<1> QED
  BY <1>1, <1>2, <1>3, <1>4, <1>5, <1>6, <1>7, <1>8, <1>9, <1>10 DEF Next, Loop

\* The state of the scheduler has the declared types.
THEOREM TypeCorrect == Safety => []TypeOK
<1>1. Init => TypeOK BY InitInvariant DEF IInv
<1> QED BY <1>1, TypeStep, PTL DEF Safety

\* The inductive invariant holds in every state of every run.
THEOREM Invariance == Safety => []IInv
BY InitInvariant, StepInvariant, PTL DEF Safety

\* No run ends in "Unreachable stages remain at scheduler exhaustion", whatever
\* the graph, the limit, the outcomes of the stages and the moment of an abort.
THEOREM NeverExhausted == Safety => []NeverUnreachable
<1>1. IInv => NeverUnreachable BY DEF IInv
<1> QED BY <1>1, Invariance, PTL

\* A stage that ran did so on settled dependencies, the required ones completed.
THEOREM RunsOnSettledDeps == Safety => []RanOnSettledDeps
<1>1. IInv => RanOnSettledDeps BY DEF IInv
<1> QED BY <1>1, Invariance, PTL

\* Without an abort every skipped stage goes back to a failed one.
LEMMA SkippedHasFailure ==
    ASSUME TypeOK, SkipExplained, ~aborted,
           \A s \in Stage : records[s] # "failed"
    PROVE  \A s \in Stage : records[s] # "skipped"
<1> DEFINE Skipped == {s \in Stage : records[s] = "skipped"}
<1> SUFFICES ASSUME Skipped # {} PROVE FALSE
  OBVIOUS
<1>1. PICK s \in Skipped : Deps(s) \cap Skipped = {}
  BY DagAssumption DEF Acyclic
<1>2. hasRequiredFailureUpstream(s, records)
  BY DEF SkipExplained
<1>3. PICK d \in RequiredDeps[s] : records[d] \in {"skipped", "failed"}
  BY <1>2 DEF hasRequiredFailureUpstream
<1> QED BY <1>1, <1>3, DepsAreStages DEF Deps

\* A run that ends "completed" without a failure completed every stage and has
\* an output.
THEOREM CleanEnd == Safety => []CleanEndIsComplete
<1>1. IInv => CleanEndIsComplete
  <2> SUFFICES ASSUME IInv, phase = "returned", ended = "completed", failures = {}
               PROVE  /\ \A s \in Stage : records[s] = "completed"
                      /\ output = "present"
    BY DEF CleanEndIsComplete
  <2> USE DEF IInv
  <2>1. ~aborted /\ ~configError
    BY DEF EndIsExplained
  <2>2. \A s \in Stage : records[s] # "failed"
    BY <2>1 DEF FailedIsAccounted
  <2>3. \A s \in Stage : records[s] # "skipped"
    BY <2>1, <2>2, SkippedHasFailure
  <2>4. \A s \in Stage : records[s] # "none"
    BY DEF Drained, Pool, Remaining, RecordFollowsWork, TypeOK
  <2>5. \A s \in Stage : records[s] = "completed"
    BY <2>2, <2>3, <2>4 DEF TypeOK, RecordMap, Outcome
  <2>6. finalizeRequiredOk(records)
    BY <2>5, DagAssumption DEF finalizeRequiredOk
  <2> QED BY <2>1, <2>5, <2>6 DEF EndIsExplained
<1> QED BY <1>1, Invariance, PTL

\* What a running stage reads of its dependencies does not change under it.
THEOREM StableReads == Safety => ReadsAreStable
<1>1. ASSUME IInv, [Next]_vars
      PROVE  \A s \in Stage : work[s] = "running" =>
                \A d \in Deps(s) : records'[d] = records[d]
  BY <1>1, RecordsAreFinal, DepsAreStages
     DEF IInv, RanOnSettledDeps, isStageEligible, Deps
<1> QED BY <1>1, Invariance, PTL DEF Safety, ReadsAreStable

(***************************************************************************)
(* The scheduler keeps the contract of a pipeline run.                     *)
(***************************************************************************)
\* The contract reads the graph through the same operators.
LEMMA SameRules ==
    /\ \A s \in Stage :
          /\ Contract!isStageEligible(s, records) <=> isStageEligible(s, records)
          /\ Contract!hasRequiredFailureUpstream(s, records)
                <=> hasRequiredFailureUpstream(s, records)
    /\ Contract!finalizeRequiredOk(records) <=> finalizeRequiredOk(records)
BY DEF Contract!isStageEligible, isStageEligible,
       Contract!hasRequiredFailureUpstream, hasRequiredFailureUpstream,
       Contract!finalizeRequiredOk, finalizeRequiredOk

\* A step of the scheduler is a step of the contract or changes nothing in it.
LEMMA StepKeepsContract ==
    ASSUME IInv, [Next]_vars
    PROVE  [Contract!Next]_(Contract!vars)
<1> USE DEF IInv, Contract!Next, Contract!vars
<1>v. phase \notin {"returned", "threw"} => verdict = "open"
  BY DEF verdict
<1>1. CASE Call \/ Abort
  BY <1>1 DEF Call, Abort, Contract!Cancel, verdict, NotCalledYet, TypeOK
<1>2. ASSUME NEW s \in Stage, Skip(s) PROVE Contract!Skip(s)
  BY <1>2, RulesAgree, SameRules DEF Skip, Contract!Skip, RecordFollowsWork, verdict
<1>3. ASSUME NEW s \in Stage, Start(s)
      PROVE  Contract!Skip(s) \/ UNCHANGED Contract!vars
  BY <1>3 DEF Start, Contract!Skip, RecordFollowsWork, verdict
<1>4. CASE SkippedAll \/ StartedAll \/ Wake
  BY <1>4 DEF SkippedAll, StartedAll, Wake, verdict, NeverUnreachable
<1>5. ASSUME NEW s \in Stage, LeavePool(s) PROVE UNCHANGED Contract!vars
  BY <1>5 DEF LeavePool, verdict
<1>6. ASSUME NEW s \in Stage, SettleSome(s)
      PROVE  Contract!SettleRun(s) \/ Contract!Skip(s)
  <2>1. records[s] = "none" /\ isStageEligible(s, records)
    BY <1>6 DEF SettleSome, Complete, Fail, FailOnConfig, SkipOnAbort, Settle,
                RecordFollowsWork, RanOnSettledDeps
  <2>2. UNCHANGED <<aborted, verdict>>
    BY <1>6 DEF SettleSome, Complete, Fail, FailOnConfig, SkipOnAbort, Settle,
                verdict
  <2>3. \/ \E o \in {"completed", "failed"} :
              records' = [records EXCEPT ![s] = o]
        \/ aborted /\ records' = [records EXCEPT ![s] = "skipped"]
    BY <1>6 DEF SettleSome, Complete, Fail, FailOnConfig, SkipOnAbort, Settle
  <2> QED BY <2>1, <2>2, <2>3, SameRules DEF Contract!SettleRun, Contract!Skip
<1>7. CASE ThrowConfigError \/ Return
  <2>1. \A s \in Stage : records[s] # "none"
    BY <1>7 DEF ThrowConfigError, Return, Drained, Pool, Remaining,
                RecordFollowsWork, TypeOK
  <2>2. verdict = "open" /\ UNCHANGED <<records, aborted>>
    BY <1>7 DEF ThrowConfigError, Return, verdict
  <2>3. verdict' \in {"output", "noOutput", "threw"}
    BY <1>7 DEF ThrowConfigError, Return, verdict, TypeOK
  <2>4. verdict' = "output" => finalizeRequiredOk(records)
    BY <1>7 DEF ThrowConfigError, Return, verdict, EndIsExplained
  <2> QED BY <2>1, <2>2, <2>3, <2>4, SameRules DEF Contract!Conclude
<1>8. CASE runFinalize
  BY <1>8 DEF runFinalize, verdict
<1>9. CASE UNCHANGED vars
  BY <1>9 DEF vars, verdict
<1> QED
  BY <1>1, <1>2, <1>3, <1>4, <1>5, <1>6, <1>7, <1>8, <1>9 DEF Next, Loop

\* Each step of the in-process scheduler is a step of the contract, or none.
THEOREM SchedulerKeepsContract == Safety => KeepsContract
<1>1. Init => Contract!Init
  BY DEF Init, Contract!Init, verdict
<1> QED BY <1>1, Invariance, StepKeepsContract, PTL
        DEF Safety, KeepsContract, Contract!Spec
=============================================================================
