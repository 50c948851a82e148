---------------------------- MODULE PipelineDag ----------------------------
(***************************************************************************)
(* The stage graph of one pipeline and the descriptor-based scheduling     *)
(* helpers of lib/pipelines/scheduling.ts.  A dependency is required (a    *)
(* bare stage id) or optional (optional(id)); the finalize step has its    *)
(* own list.  DagAssumption is what validateDag has checked before any     *)
(* stage runs.                                                             *)
(***************************************************************************)
EXTENDS Integers, FiniteSets

CONSTANTS Stage,             \* the stage ids of the pipeline
          RequiredDeps,      \* [Stage -> SUBSET Stage]
          OptionalDeps,      \* [Stage -> SUBSET Stage]
          FinalizeRequired   \* the required dependencies of finalize

Deps(s) == RequiredDeps[s] \cup OptionalDeps[s]

\* Acyclic over required and optional dependencies alike: among any stages,
\* one depends on none of the others (nor on itself).
Acyclic == \A T \in (SUBSET Stage) \ {{}} : \E s \in T : Deps(s) \cap T = {}

ASSUME DagAssumption ==
    /\ IsFiniteSet(Stage)
    /\ RequiredDeps \in [Stage -> SUBSET Stage]
    /\ OptionalDeps \in [Stage -> SUBSET Stage]
    /\ FinalizeRequired \subseteq Stage
    /\ Acyclic

Outcome == {"completed", "skipped", "failed"}

\* A record map: the terminal outcome of each stage, "none" while it has none.
RecordMap == [Stage -> Outcome \cup {"none"}]

(***************************************************************************)
(* scheduling.ts                                                           *)
(***************************************************************************)
isStageEligible(s, records) ==
    /\ \A d \in OptionalDeps[s] : records[d] # "none"
    /\ \A d \in RequiredDeps[s] : records[d] = "completed"

\* Faulty variant: a skipped dependency does not skip its dependents.
hasRequiredFailureUpstream_FailedOnly(s, records) ==
    \E d \in RequiredDeps[s] : records[d] = "failed"

hasRequiredFailureUpstream(s, records) ==
    \E d \in RequiredDeps[s] : records[d] \in {"skipped", "failed"}

computeDagProgress(records) ==
    LET open == {s \in Stage : records[s] = "none"}
        skip == {s \in open : hasRequiredFailureUpstream(s, records)}
    IN  [skippable |-> skip,
         runnable  |-> {s \in open \ skip : isStageEligible(s, records)}]

\* finalizeRequiredOk of stage-runner.ts.
finalizeRequiredOk(records) ==
    \A d \in FinalizeRequired : records[d] = "completed"
=============================================================================
