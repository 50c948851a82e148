-------------------------- MODULE PipelineContract --------------------------
(***************************************************************************)
(* What a pipeline run promises its caller, whichever driver runs it: the  *)
(* in-process scheduler (PipelineScheduler) or an orchestrator that drives *)
(* the stages one by one across invocations (DurablePipeline).             *)
(*                                                                         *)
(* Every stage gets one terminal outcome, and gets it for a reason: it can *)
(* complete or fail only on settled dependencies with the required ones    *)
(* completed, and is skipped only under a required dependency that did not *)
(* complete or because the caller cancelled.  The verdict comes once, when *)
(* no stage is open, and carries an output only if the required            *)
(* dependencies of finalize completed.                                     *)
(***************************************************************************)
EXTENDS PipelineDag

VARIABLES records,     \* the terminal outcome of each stage
          cancelled,   \* has the caller cancelled (the signal, or a response)
          verdict      \* "open", then "output", "noOutput" or "threw"

vars == <<records, cancelled, verdict>>

Init == /\ records = [s \in Stage |-> "none"]
        /\ cancelled = FALSE
        /\ verdict = "open"

Cancel == /\ ~cancelled
          /\ cancelled' = TRUE
          /\ UNCHANGED <<records, verdict>>

\* A stage that ran: completed or failed.
SettleRun(s) ==
    /\ records[s] = "none"
    /\ isStageEligible(s, records)
    /\ \E o \in {"completed", "failed"} : records' = [records EXCEPT ![s] = o]
    /\ UNCHANGED <<cancelled, verdict>>

Skip(s) ==
    /\ records[s] = "none"
    /\ cancelled \/ hasRequiredFailureUpstream(s, records)
    /\ records' = [records EXCEPT ![s] = "skipped"]
    /\ UNCHANGED <<cancelled, verdict>>

Conclude(v) ==
    /\ verdict = "open"
    /\ \A s \in Stage : records[s] # "none"
    /\ v = "output" => finalizeRequiredOk(records)
    /\ verdict' = v
    /\ UNCHANGED <<records, cancelled>>

Next == \/ Cancel
        \/ \E s \in Stage : SettleRun(s) \/ Skip(s)
        \/ \E v \in {"output", "noOutput", "threw"} : Conclude(v)

\* The run concludes whatever its stages do; the caller need not cancel.
Spec == Init /\ [][Next]_vars
=============================================================================
