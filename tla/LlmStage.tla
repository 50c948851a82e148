------------------------------ MODULE LlmStage ------------------------------
(***************************************************************************)
(* LLM stages run in process: llmStage and runLlmStageAttempt of           *)
(* lib/pipelines/llm-stage-helpers.ts.  Each stage makes up to maxAttempts *)
(* provider calls, each with its own events; a failed call is retried when *)
(* its reason is in the stage's retryOn, after a backoff that an abort     *)
(* ends early.  The stages share one abort signal and nothing else.        *)
(*                                                                         *)
(* The provider is external here: it may report a response id and stream   *)
(* text while it runs, then resolves with an output or rejects.  Module    *)
(* Providers replaces it by the code's.  Prompts, outputs and messages are *)
(* abstracted to what the loop tells apart.                                *)
(***************************************************************************)
EXTENDS Integers, Sequences

Reason == {"schema_validation", "transient", "rate_limit", "quota_exhausted"}

CONSTANTS Run,         \* the stages run with this signal
          Policies,    \* the retry policies a stage may carry (TRetryPolicy)
          ResponseId,  \* what a provider may call its responses
          MaxDeltas    \* bound: text chunks per call

None == 0   \* no response id

ASSUME LlmAssumption ==
    /\ \A p \in Policies : /\ DOMAIN p = {"maxAttempts", "retryOn"}
                           /\ p.maxAttempts \in Nat
                           /\ p.retryOn \subseteq Reason
    /\ ResponseId \subseteq Nat \ {None}
    /\ MaxDeltas \in Nat

\* How a call can end: an output that passes the checks, one the schema
\* refuses, one checkOutput refuses, or a thrown error by its retryReason tag
\* ("untagged" is what classifyError makes non_retryable).
Refused == {"schemaInvalid", "contentRefused"}
Thrown == {"transient", "rate_limit", "quota_exhausted", "untagged"}
CallEnd == {"valid"} \cup Refused \cup Thrown

VARIABLES
    policy,      \* the resolved retry policy of the stages, fixed
    aborted,     \* signal.aborted
    pc,          \* "idle", "top" of the loop, "calling", "backoff" or "settled"
    calls,       \* one record per attempt: the suffix sent, how the call ended
    responseId,  \* the id reported in the current attempt
    log,         \* the kinds of event emitted in the current attempt
    suffix,      \* the attempt whose refusal userMessage quotes, 0 for none
    outcome,     \* what the stage's run settles with
    code         \* the failure code of LlmStageRetryExhaustedError

stageVars == <<policy, aborted, pc, calls, responseId, log, suffix, outcome, code>>

attempt(r) == Len(calls[r])
maxAttempts == policy.maxAttempts

TypeOK ==
    /\ policy \in Policies
    /\ aborted \in BOOLEAN
    /\ pc \in [Run -> {"idle", "top", "calling", "backoff", "settled"}]
    /\ calls \in [Run -> Seq([suffix : Nat, end : CallEnd \cup {"open"}])]
    /\ responseId \in [Run -> ResponseId \cup {None}]
    /\ log \in [Run -> Seq({"request", "created", "delta", "call", "retry"})]
    /\ suffix \in [Run -> Nat]
    /\ outcome \in [Run -> {"none", "completed", "skipped", "failed"}]
    /\ code \in [Run -> {"none", "OUTPUT_SCHEMA_INVALID", "checkOutput",
                         "LLM_QUOTA_EXHAUSTED", "LLM_RATE_LIMITED",
                         "LLM_TRANSIENT_ERROR", "LLM_NON_RETRYABLE_ERROR",
                         "LLM_UNKNOWN_ERROR"}]

Init ==
    /\ policy \in Policies
    /\ aborted = FALSE
    /\ pc = [r \in Run |-> "idle"]
    /\ calls = [r \in Run |-> <<>>]
    /\ responseId = [r \in Run |-> None]
    /\ log = [r \in Run |-> <<>>]
    /\ suffix = [r \in Run |-> 0]
    /\ outcome = [r \in Run |-> "none"]
    /\ code = [r \in Run |-> "none"]

\* The executor calls the stage's run.
Start(r) ==
    /\ pc[r] = "idle"
    /\ pc' = [pc EXCEPT ![r] = "top"]
    /\ UNCHANGED <<policy, aborted, calls, responseId, log, suffix, outcome, code>>

Abort == /\ ~aborted
         /\ aborted' = TRUE
         /\ UNCHANGED <<policy, pc, calls, responseId, log, suffix, outcome, code>>

Settle(r, o, c) == /\ pc' = [pc EXCEPT ![r] = "settled"]
                   /\ outcome' = [outcome EXCEPT ![r] = o]
                   /\ code' = [code EXCEPT ![r] = c]

\* What classifyError and the schema check make of the end of a call.
classifyError(end) ==
    CASE end \in Refused   -> "schema_validation"
      [] end = "untagged"  -> "non_retryable"
      [] OTHER             -> end

codeOf(end) ==
    CASE end = "schemaInvalid"   -> "OUTPUT_SCHEMA_INVALID"
      [] end = "contentRefused"  -> "checkOutput"
      [] end = "quota_exhausted" -> "LLM_QUOTA_EXHAUSTED"
      [] end = "rate_limit"      -> "LLM_RATE_LIMITED"
      [] end = "transient"       -> "LLM_TRANSIENT_ERROR"
      [] end = "untagged"        -> "LLM_NON_RETRYABLE_ERROR"

(***************************************************************************)
(* The loop of llmStage.run                                                *)
(***************************************************************************)
\* Begin an attempt: build the request, emit stage:llm-request, call respond.
Request(r) ==
    /\ pc[r] = "top"
    /\ attempt(r) < maxAttempts
    /\ ~aborted
    /\ calls' = [calls EXCEPT ![r] = Append(@, [suffix |-> suffix[r], end |-> "open"])]
    /\ responseId' = [responseId EXCEPT ![r] = None]
    /\ log' = [log EXCEPT ![r] = <<"request">>]
    /\ pc' = [pc EXCEPT ![r] = "calling"]
    /\ UNCHANGED <<policy, aborted, suffix, outcome, code>>

\* The abort check at the top of an attempt: StageAbortedError.
AbortAtTop(r) ==
    /\ pc[r] = "top"
    /\ attempt(r) < maxAttempts
    /\ aborted
    /\ Settle(r, "skipped", "none")
    /\ UNCHANGED <<policy, aborted, calls, responseId, log, suffix>>

\* maxAttempts = 0: the loop body never runs and there is no lastError.
NoAttempts(r) ==
    /\ pc[r] = "top"
    /\ attempt(r) >= maxAttempts
    /\ Settle(r, "failed", "LLM_UNKNOWN_ERROR")
    /\ UNCHANGED <<policy, aborted, calls, responseId, log, suffix>>

\* onResponseCreated, mid-flight: at most one event per attempt.
ResponseCreated(r, id) ==
    /\ pc[r] = "calling"
    /\ responseId[r] = None
    /\ responseId' = [responseId EXCEPT ![r] = id]
    /\ log' = [log EXCEPT ![r] = Append(@, "created")]
    /\ UNCHANGED <<policy, aborted, pc, calls, suffix, outcome, code>>

\* onTextDelta: a chunk that arrives after an abort is dropped.
TextDelta(r) ==
    /\ pc[r] = "calling"
    /\ ~aborted
    /\ Len(SelectSeq(log[r], LAMBDA e : e = "delta")) < MaxDeltas
    /\ log' = [log EXCEPT ![r] = Append(@, "delta")]
    /\ UNCHANGED <<policy, aborted, pc, calls, responseId, suffix, outcome, code>>

Ended(r, end) == calls' = [calls EXCEPT ![r][attempt(r)].end = end]

\* The id of the response, None without one, unless one was reported already;
\* then other events.
LogIdThen(r, id, events) ==
    LET isNew == responseId[r] = None /\ id # None
    IN  /\ responseId' = [responseId EXCEPT ![r] = IF isNew THEN id ELSE @]
        /\ log' = [log EXCEPT ![r] = @ \o (IF isNew THEN <<"created">> ELSE <<>>) \o events]

Succeed(r, id) ==
    /\ pc[r] = "calling"
    /\ Ended(r, "valid")
    /\ LogIdThen(r, id, <<"call">>)
    /\ Settle(r, "completed", "none")
    /\ UNCHANGED <<policy, aborted, suffix>>

MayRetry(r, end) == /\ classifyError(end) \in policy.retryOn
                    /\ attempt(r) < maxAttempts

\* Faulty variants: the first refusal stays quoted; the last output is kept
\* although checkOutput refused it.
Refuse_QuotesFirst(r, end, id) ==
    /\ pc[r] = "calling"
    /\ Ended(r, end)
    /\ \/ /\ MayRetry(r, end)
          /\ LogIdThen(r, id, <<"call", "retry">>)
          /\ suffix' = [suffix EXCEPT ![r] = IF @ = 0 THEN attempt(r) ELSE @]
          /\ pc' = [pc EXCEPT ![r] = "backoff"]
          /\ UNCHANGED <<outcome, code>>
       \/ /\ ~MayRetry(r, end)
          /\ LogIdThen(r, id, <<"call">>)
          /\ Settle(r, "failed", codeOf(end))
          /\ UNCHANGED suffix
    /\ UNCHANGED <<policy, aborted>>
Refuse_KeepsLastOutput(r, end, id) ==
    /\ pc[r] = "calling"
    /\ Ended(r, end)
    /\ \/ /\ MayRetry(r, end)
          /\ LogIdThen(r, id, <<"call", "retry">>)
          /\ suffix' = [suffix EXCEPT ![r] = attempt(r)]
          /\ pc' = [pc EXCEPT ![r] = "backoff"]
          /\ UNCHANGED <<outcome, code>>
       \/ /\ ~MayRetry(r, end)
          /\ LogIdThen(r, id, <<"call">>)
          /\ Settle(r, "completed", "none")
          /\ UNCHANGED suffix
    /\ UNCHANGED <<policy, aborted>>

\* The output was refused: retry with the error quoted, or give up.
Refuse(r, end, id) ==
    /\ pc[r] = "calling"
    /\ Ended(r, end)
    /\ \/ /\ MayRetry(r, end)
          /\ LogIdThen(r, id, <<"call", "retry">>)
          /\ suffix' = [suffix EXCEPT ![r] = attempt(r)]
          /\ pc' = [pc EXCEPT ![r] = "backoff"]
          /\ UNCHANGED <<outcome, code>>
       \/ /\ ~MayRetry(r, end)
          /\ LogIdThen(r, id, <<"call">>)
          /\ Settle(r, "failed", codeOf(end))
          /\ UNCHANGED suffix
    /\ UNCHANGED <<policy, aborted>>

\* respond() rejected, or checkOutput threw after it resolved (untagged, with
\* the id of the response).  An aborted signal decides before the error's tag.
Reject(r, end, id) ==
    /\ pc[r] = "calling"
    /\ Ended(r, end)
    /\ \/ /\ ~aborted
          /\ MayRetry(r, end)
          /\ LogIdThen(r, id, <<"retry">>)
          /\ pc' = [pc EXCEPT ![r] = "backoff"]
          /\ UNCHANGED <<outcome, code>>
       \/ /\ aborted \/ ~MayRetry(r, end)
          /\ LogIdThen(r, id, <<>>)
          /\ IF aborted THEN Settle(r, "skipped", "none")
                        ELSE Settle(r, "failed", codeOf(end))
    /\ UNCHANGED <<policy, aborted, suffix>>

\* The backoff timer fires, or the abort listener resolves it.
BackoffOver(r) ==
    /\ pc[r] = "backoff"
    /\ pc' = [pc EXCEPT ![r] = "top"]
    /\ UNCHANGED <<policy, aborted, calls, responseId, log, suffix, outcome, code>>

CallEnds(r) ==
    \/ \E id \in ResponseId \cup {None} :
          \/ Succeed(r, id)
          \/ \E end \in Refused : Refuse(r, end, id)
          \/ Reject(r, "untagged", id)
    \/ \E end \in Thrown : Reject(r, end, None)

Loop(r) == Request(r) \/ AbortAtTop(r) \/ NoAttempts(r) \/ BackoffOver(r)

Next == \/ Abort
        \/ \E r \in Run : \/ Start(r) \/ Loop(r) \/ CallEnds(r) \/ TextDelta(r)
                          \/ \E id \in ResponseId : ResponseCreated(r, id)

\* The loop's own steps and the timer run; the provider ends every call.
Spec == /\ Init /\ [][Next]_stageVars
        /\ \A r \in Run : WF_stageVars(Loop(r)) /\ WF_stageVars(CallEnds(r))

(***************************************************************************)
(* Properties                                                              *)
(***************************************************************************)
\* Every retry was opted into: each call but the last ended for a reason in
\* retryOn, so quota_exhausted or an untagged error never costs a second call
\* under a policy that does not name it.
RetriesOptedIn ==
    \A r \in Run : \A i \in 1 .. attempt(r) - 1 :
        classifyError(calls[r][i].end) \in policy.retryOn

\* The user message an attempt hands its provider quotes the latest refusal
\* before it, also when a transient error came in between, and nothing when there
\* was none.  What the provider makes of the message is another matter: a turn's
\* replaces it (Conversation).
SuffixIsLatestRefusal ==
    \A r \in Run : \A i \in 1 .. attempt(r) :
        LET quoted == calls[r][i].suffix
        IN  /\ quoted \in 0 .. i - 1
            /\ quoted # 0 => calls[r][quoted].end \in Refused
            /\ \A j \in quoted + 1 .. i - 1 : calls[r][j].end \notin Refused

\* The stage settles with the reason of its last call: skipped only on an
\* abort, completed only on an output that passed both checks, failed with the
\* code of the error that ended the loop.
SettledHonestly ==
    \A r \in Run : pc[r] = "settled" =>
        /\ outcome[r] = "skipped" => aborted
        /\ outcome[r] = "completed" => attempt(r) > 0 /\ calls[r][attempt(r)].end = "valid"
        /\ outcome[r] = "failed" =>
              IF attempt(r) = 0 THEN code[r] = "LLM_UNKNOWN_ERROR"
              ELSE /\ calls[r][attempt(r)].end \notin {"valid", "open"}
                   /\ code[r] = codeOf(calls[r][attempt(r)].end)
=============================================================================
