------------------------------ MODULE Providers -----------------------------
(***************************************************************************)
(* The providers behind an LLM stage: OpenAI's Responses API               *)
(* (extensions/openai) in its four transports, and a chat-completions      *)
(* endpoint (extensions/chat-completions).  A call of respond is one POST  *)
(* per round of the function-tool loop; in background mode the POST only   *)
(* submits and the call polls until the response has ended.                *)
(*                                                                         *)
(* The service is external: it accepts or refuses a POST, generates, and   *)
(* may lose any answer.  What a response says is abstracted to how the     *)
(* code judges it.                                                         *)
(***************************************************************************)
EXTENDS LlmStage

CONSTANTS Settings,     \* what the calls are made with
          MaxRounds     \* maxToolCallRounds

Transport == {"chat", "foreground", "stream", "background", "backgroundStream"}

ASSUME ProviderAssumption ==
    /\ \A s \in Settings : /\ s.transport \in Transport
                           /\ s.policy \in Policies
                           /\ s.tools \in BOOLEAN      \* a function tool is offered
                           /\ s.turns \subseteq Run    \* bound: the turns taken,
                           /\ s.stages \subseteq Run \ s.turns  \* and the other stages
                           /\ s.together \in BOOLEAN   \* turns may overlap
    /\ MaxRounds \in Nat \ {0}

VARIABLES
    setting,    \* fixed
    call,       \* where each stage's call of respond is; submitted, whether a
                \* background call has learnt the id of its response
    responses   \* what the service has accepted, in order, the index the id: the
                \* attempt it answers, the attempt whose refusal its message
                \* quotes, 0 for none, the status of a background response there

providerVars == <<setting, call, responses>>

noCall == [at |-> "none", round |-> 0, id |-> None, submitted |-> FALSE]

ProviderInit ==
    /\ setting \in {s \in Settings : s.policy = policy}
    /\ call = [r \in Run |-> noCall]
    /\ responses = <<>>

transport == setting.transport
runsOneRound == ~setting.tools
refusesTools == setting.tools /\ transport \in {"chat", "background", "backgroundStream"}
at(r, points) == call[r].at \in points
MovesTo(r, point) == call' = [call EXCEPT ![r].at = point]

\* respond rejects with an error that carries this tag.
Throws(r, end) == /\ Reject(r, end, None)
                  /\ MovesTo(r, "none")

(***************************************************************************)
(* One round: the POST and its answer.                                     *)
(***************************************************************************)
\* The stage calls respond.
Respond(r) ==
    /\ Request(r)
    /\ call' = [call EXCEPT ![r] = [noCall EXCEPT !.at = "posting", !.round = 1]]
    /\ UNCHANGED responses

RefuseTools(r) ==
    /\ at(r, {"posting"}) /\ refusesTools
    /\ Throws(r, "untagged")
    /\ UNCHANGED responses

\* The service accepts the request, chained on the previous response, and gives
\* its own a new id; with an aborted signal fetch sends nothing.
Accept(r, previous, quotes) ==
    /\ at(r, {"posting"}) /\ ~refusesTools /\ ~aborted
    /\ Len(responses) + 1 \in ResponseId
    /\ responses' = Append(responses, [run |-> r, attempt |-> attempt(r),
                                       previous |-> previous, quotes |-> quotes,
                                       status |-> "generating",
                                       cancelAsked |-> FALSE])
    /\ call' = [call EXCEPT
                  ![r].at = IF transport \in {"stream", "backgroundStream"} THEN "reading"
                            ELSE "answered",
                  ![r].id = Len(responses')]
    /\ UNCHANGED stageVars

\* The service answers with an HTTP error, or the network with none.
PostFails(r) ==
    /\ at(r, {"posting"}) /\ ~refusesTools
    /\ \E end \in Thrown : Throws(r, end)
    /\ UNCHANGED responses

\* The answer, or the rest of the stream, is lost; the chat endpoint may also
\* exceed the timeout of its request.
AnswerLost(r) ==
    /\ at(r, {"answered", "reading"})
    /\ Throws(r, "transient")
    /\ UNCHANGED responses

\* fetch, or the read of the stream, rejects because of the abort.
FetchAborted(r) ==
    /\ aborted
    /\ at(r, {"posting", "answered", "reading"})
    /\ Throws(r, "untagged")
    /\ UNCHANGED responses

\* Faulty variant: the id of any round is reported as soon as it is known.
Created_AnyRound(r) ==
    /\ at(r, {"reading"})
    /\ ResponseCreated(r, call[r].id)
    /\ UNCHANGED <<call, responses>>

\* response.created, mid-flight: only of a call that sends one request.
Created(r) ==
    /\ at(r, {"reading"}) /\ runsOneRound
    /\ ResponseCreated(r, call[r].id)
    /\ UNCHANGED <<call, responses>>

Delta(r) ==
    /\ at(r, {"reading"})
    /\ TextDelta(r)
    /\ UNCHANGED <<call, responses>>

(***************************************************************************)
(* Judging an envelope.                                                    *)
(***************************************************************************)
\* A response that ended without an answer: content_filter will not change its
\* mind, any other reason for stopping early may; abortError is untagged.
JudgeEnded(r, status) ==
    \/ status \in {"failed", "cancelled"} /\ Throws(r, "untagged")
    \/ status = "incomplete" /\ \E end \in {"untagged", "transient"} : Throws(r, end)

\* A completed one whose answer respond refuses: no text or text that is no
\* JSON; or that names a tool when there is none.
JudgeUnusable(r) == \E end \in {"transient", "untagged"} : Throws(r, end)

\* A completed one that calls a tool.
JudgeToolCall(r) ==
    /\ setting.tools
    /\ MovesTo(r, "handling")
    /\ UNCHANGED stageVars

\* respond resolves, with the id of the last round if the service has ids.
ResolvesWith(r, id) ==
    /\ MovesTo(r, "none")
    /\ \/ Succeed(r, id)
       \/ \E end \in Refused : Refuse(r, end, id)
       \/ Reject(r, "untagged", id)
rawResponseId(r) == IF transport = "chat" THEN None ELSE call[r].id

\* The envelope with this status is at hand.
Judge(r, status) ==
    \/ JudgeEnded(r, status)
    \/ status = "completed" /\ (JudgeUnusable(r) \/ JudgeToolCall(r))

\* The last of the answer arrives, the response ending with it.
Delivers(r, status) ==
    /\ \/ at(r, {"reading"})
       \/ at(r, {"answered"}) /\ transport \in {"chat", "foreground"}
    /\ status \in {"completed"} \cup (IF transport = "chat" THEN {} ELSE {"failed", "incomplete"})
    /\ UNCHANGED responses

Delivered(r) == \E status \in {"completed", "failed", "incomplete"} :
                    Delivers(r, status) /\ Judge(r, status)

(***************************************************************************)
(* The function-tool loop.                                                 *)
(***************************************************************************)
\* The handlers have run: the next round, or ToolLoopExhaustedError.
ToolsDone(r) ==
    /\ at(r, {"handling"})
    /\ IF call[r].round < MaxRounds
       THEN /\ call' = [call EXCEPT ![r].at = "posting", ![r].round = @ + 1]
            /\ UNCHANGED stageVars
       ELSE Throws(r, "untagged")
    /\ UNCHANGED responses

\* An unknown tool or a handler that throws; arguments that are no JSON.
ToolsFail(r) ==
    /\ at(r, {"handling"})
    /\ \E end \in {"untagged", "transient"} : Throws(r, end)
    /\ UNCHANGED responses

(***************************************************************************)
(* Background mode: submit, then poll.                                     *)
(***************************************************************************)
\* Faulty variant: one that stopped early counts as running.
hasEnded_NotIncomplete(r) == responses[call[r].id].status \notin {"generating", "incomplete"}

hasEnded(r) == responses[call[r].id].status # "generating"

\* The submit is answered, perhaps with a response that has ended already.
Submitted(r) ==
    /\ at(r, {"answered"}) /\ transport = "background"
    /\ \/ /\ ~hasEnded(r)
          /\ call' = [call EXCEPT ![r].at = "polling", ![r].submitted = TRUE]
          /\ UNCHANGED stageVars
       \/ Judge(r, responses[call[r].id].status)
    /\ UNCHANGED responses

PollTop(r) ==
    /\ at(r, {"polling"})
    /\ MovesTo(r, IF aborted THEN "cancelling" ELSE "getting")
    /\ UNCHANGED <<stageVars, responses>>

PollAnswered(r) ==
    /\ at(r, {"getting"})
    /\ \/ ~hasEnded(r) /\ MovesTo(r, "delay") /\ UNCHANGED stageVars
       \/ Judge(r, responses[call[r].id].status)
    /\ UNCHANGED responses

\* A poll fails: the network, an HTTP error, or the response has aged out.
PollFails(r) ==
    /\ at(r, {"getting"}) /\ ~aborted
    /\ \E end \in Thrown \ {"quota_exhausted"} : Throws(r, end)
    /\ UNCHANGED responses

\* An abort before the answer to a poll has begun.
PollAborted(r) ==
    /\ aborted /\ at(r, {"getting"})
    /\ MovesTo(r, "cancelling")
    /\ UNCHANGED <<stageVars, responses>>

\* An abort while its body is read: the rejection is made a transient error.
PollBodyAborted(r) ==
    /\ aborted /\ at(r, {"getting"})
    /\ Throws(r, "transient")
    /\ UNCHANGED responses

\* The cancel is sent without a signal; whether it arrives is ignored.
CancelBackground(r) ==
    /\ at(r, {"cancelling"})
    /\ Throws(r, "untagged")
    /\ \E arrives \in BOOLEAN :
          responses' = [responses EXCEPT
              ![call[r].id].cancelAsked = TRUE,
              ![call[r].id].status = IF arrives /\ @ = "generating" THEN "cancelled" ELSE @]

DelayOver(r) ==
    /\ at(r, {"delay"})
    /\ MovesTo(r, "polling")
    /\ UNCHANGED <<stageVars, responses>>

\* A background response ends on the server, whoever may be waiting.
ResponseEnds(n) ==
    /\ transport = "background"
    /\ responses[n].status = "generating"
    /\ \E status \in {"completed", "failed", "incomplete", "cancelled"} :
          responses' = [responses EXCEPT ![n].status = status]
    /\ UNCHANGED <<stageVars, setting, call>>

(***************************************************************************)
(* Steps.                                                                  *)
(***************************************************************************)
Resolved(r) ==
    /\ \/ Delivers(r, "completed")
       \/ /\ \/ at(r, {"answered"}) /\ transport = "background"
             \/ at(r, {"getting"})
          /\ responses[call[r].id].status = "completed"
          /\ UNCHANGED responses
    /\ ResolvesWith(r, rawResponseId(r))
    /\ UNCHANGED setting

\* Every other step of a call.
CallStep(r, previous, quotes) ==
    /\ \/ RefuseTools(r) \/ Accept(r, previous, quotes) \/ PostFails(r) \/ AnswerLost(r)
       \/ FetchAborted(r) \/ Created(r) \/ Delta(r) \/ Delivered(r)
       \/ ToolsDone(r) \/ ToolsFail(r)
       \/ Submitted(r) \/ PollTop(r) \/ PollAnswered(r) \/ PollFails(r)
       \/ PollAborted(r) \/ PollBodyAborted(r) \/ CancelBackground(r) \/ DelayOver(r)
    /\ UNCHANGED setting

(***************************************************************************)
(* Properties.                                                             *)
(***************************************************************************)
\* The events of an attempt tell of one call: the request first; at most one
\* response id, before stage:llm-call, and it is the id of the response whose
\* output was judged, also when that took several rounds; no text after it.
EventsTellTheCall ==
    \A r \in Run :
        LET ids == {i \in DOMAIN log[r] : log[r][i] = "created"}
            ends == {i \in DOMAIN log[r] : log[r][i] = "call"}
        IN  /\ \A i \in DOMAIN log[r] : log[r][i] = "request" <=> i = 1
            /\ \A i, j \in ids : i = j
            /\ \A e \in ends : /\ \A i \in ids : i < e
                               /\ \A j \in e + 1 .. Len(log[r]) : log[r][j] = "retry"
                               /\ responseId[r] = rawResponseId(r)

\* A background call that has learnt the id of its response and is then ended
\* by an abort has asked for the response to be cancelled, or it had ended.
AbortCancels ==
    \A r \in Run :
        outcome[r] = "skipped" /\ call[r].submitted /\ (\A i \in DOMAIN log[r] : log[r][i] # "retry")
            => responses[call[r].id].cancelAsked \/ hasEnded(r)
=============================================================================
