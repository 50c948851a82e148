---------------------------- MODULE Conversation ----------------------------
(***************************************************************************)
(* A conversation (lib/conversation): each turn runs one LLM stage through *)
(* a provider that is wrapped to chain on the conversation's latest        *)
(* response, and a completed turn moves the chain on.  Nothing keeps a     *)
(* caller from beginning a turn while another runs.                        *)
(*                                                                         *)
(* The turns are stages of Providers, and a pipeline may run others beside *)
(* them.  A message is the one of its turn or stage, abstracted to the     *)
(* refusal it quotes: a stage appends that on a retry, the wrapper of a    *)
(* turn sends the caller's message again.                                  *)
(***************************************************************************)
EXTENDS Providers

VARIABLES
    lastResponseId,   \* the head of the chain
    closed,
    previous,         \* what each turn chains on, read when it begins
    captured,         \* the id its wrapper saw last
    returned          \* the turns whose result the conversation has

conversationVars == <<lastResponseId, closed, previous, captured, returned>>
vars == <<stageVars, providerVars, conversationVars>>

ConversationInit ==
    /\ Init /\ ProviderInit
    /\ lastResponseId = None
    /\ closed = FALSE
    /\ previous = [r \in Run |-> None]
    /\ captured = [r \in Run |-> None]
    /\ returned = {}

\* What a caller may branch from: the response of a turn that completed.
branches == {captured[r] : r \in {t \in returned : outcome[t] = "completed"}} \ {None}

\* turn(): refused once the conversation is closed.
Turn(r) ==
    /\ ~closed /\ r \in setting.turns
    /\ setting.together \/ \A t \in Run : pc[t] # "idle" => t \in returned
    /\ Start(r)
    /\ \E id \in {lastResponseId} \cup branches : previous' = [previous EXCEPT ![r] = id]
    /\ UNCHANGED <<providerVars, lastResponseId, closed, captured, returned>>

\* A pipeline calls a stage that is no turn.
StageStarts(r) ==
    /\ r \in setting.stages
    /\ Start(r)
    /\ UNCHANGED <<providerVars, conversationVars>>

\* The stage's loop; a turn calls respond through the wrapper.
StageStep(r) ==
    /\ \/ Respond(r)
       \/ (AbortAtTop(r) \/ NoAttempts(r) \/ BackoffOver(r)) /\ UNCHANGED <<call, responses>>
    /\ UNCHANGED <<setting, conversationVars>>

\* What the wrapper puts in a request, and what a stage without one leaves there.
chainedOn(r) == previous[r]
quotedBy(r) == IF r \in setting.turns THEN 0 ELSE calls[r][attempt(r)].suffix

ProviderStep(r) ==
    \/ CallStep(r, chainedOn(r), quotedBy(r)) /\ UNCHANGED conversationVars
    \/ /\ Resolved(r)
       /\ captured' = [captured EXCEPT ![r] =
                         IF r \notin setting.turns \/ rawResponseId(r) = None THEN @
                         ELSE rawResponseId(r)]
       /\ UNCHANGED <<lastResponseId, closed, previous, returned>>

\* Faulty variant: every turn moves the chain.
TurnReturns_Always(r) ==
    /\ pc[r] = "settled" /\ r \in setting.turns \ returned
    /\ lastResponseId' = captured[r]
    /\ returned' = returned \cup {r}
    /\ UNCHANGED <<stageVars, providerVars, closed, previous, captured>>

\* The stage has settled; only a completed turn moves the chain.
TurnReturns(r) ==
    /\ pc[r] = "settled" /\ r \in setting.turns \ returned
    /\ lastResponseId' = IF outcome[r] = "completed" THEN captured[r] ELSE lastResponseId
    /\ returned' = returned \cup {r}
    /\ UNCHANGED <<stageVars, providerVars, closed, previous, captured>>

Close ==
    /\ ~closed
    /\ closed' = TRUE
    /\ UNCHANGED <<stageVars, providerVars, lastResponseId, previous, captured, returned>>

Signal == Abort /\ UNCHANGED <<providerVars, conversationVars>>

Server == \E n \in DOMAIN responses : ResponseEnds(n) /\ UNCHANGED conversationVars

ConversationNext ==
    \/ Close \/ Signal \/ Server
    \/ \E r \in Run : \/ Turn(r) \/ TurnReturns(r) \/ StageStarts(r)
                       \/ StageStep(r) \/ ProviderStep(r)

\* The event loop runs every continuation; the service and the network answer
\* or fail.
ConversationSpec ==
    /\ ConversationInit /\ [][ConversationNext]_vars
    /\ WF_vars(Server)
    /\ \A r \in Run : WF_vars(StageStep(r)) /\ WF_vars(ProviderStep(r)) /\ WF_vars(TurnReturns(r))

(***************************************************************************)
(* Properties.                                                             *)
(***************************************************************************)
\* Whatever fails, is retried or overlaps, the service is never asked to go on
\* from a response that was refused or lost: each request of a turn, retries
\* included, is chained on the response the turn found when it began, and that
\* is the one whose output a completed turn returned.
ChainsOnAccepted ==
    \A n \in DOMAIN responses :
        LET before == responses[n].previous
        IN  /\ before = previous[responses[n].run]
            /\ before # None =>
                 \E t \in returned : outcome[t] = "completed" /\ responseId[t] = before

\* What the service is asked with: every request of a stage, each round of its
\* tool calls included, quotes the latest refusal before its attempt, also when a
\* transient error came in between, and nothing when there was none.  A turn
\* asks with its own message every time: no retry of it quotes a refusal.
AsksWithLatestRefusal ==
    \A n \in DOMAIN responses :
        LET asked == responses[n]
            ends(i) == calls[asked.run][i].end
        IN  IF asked.run \in setting.turns THEN asked.quotes = 0
            ELSE /\ asked.quotes \in 0 .. asked.attempt - 1
                 /\ asked.quotes # 0 => ends(asked.quotes) \in Refused
                 /\ \A i \in asked.quotes + 1 .. asked.attempt - 1 : ends(i) \notin Refused

\* The stages behind the conversation behave as LlmStage says, liveness
\* included: the providers end every call, report one id of an attempt and no
\* text after an abort.
StageContract == Spec
=============================================================================
