---------------------------- MODULE MCPipelines ----------------------------
(***************************************************************************)
(* One pipeline, driven in process or out of process as the first step     *)
(* chooses.  Two roots, a required chain, an optional join and a stage     *)
(* with both kinds of dependency; two of the stages are LLM stages.  In    *)
(* process it runs with two slots, so that an eligible stage has to wait   *)
(* for the pool.                                                           *)
(***************************************************************************)
EXTENDS PipelineScheduler, DurablePipeline

MCStage == {"parse", "fetch", "claims", "review", "merge"}
MCLlmStages == {"claims", "review"}

MCRequired ==
    [s \in MCStage |-> CASE s = "claims" -> {"parse"}
                         [] s = "merge"  -> {"claims"}
                         [] OTHER        -> {}]

MCOptional ==
    [s \in MCStage |-> CASE s = "review" -> {"claims", "fetch"}
                         [] s = "merge"  -> {"review"}
                         [] OTHER        -> {}]

MCFinalizeRequired == {"merge"}

pipelineVars == <<vars, durableVars>>

InProcess == conclusion = "none" /\ Next /\ UNCHANGED durableVars
OutOfProcess == phase = "idle" /\ DurableNext /\ UNCHANGED vars

PipelinesInit == Init /\ DurableInit

PipelinesSpec ==
    /\ PipelinesInit
    /\ [][InProcess \/ OutOfProcess]_pipelineVars
    /\ Fairness /\ DurableFairness
=============================================================================
