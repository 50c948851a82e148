-------------------------- MODULE ConversationProofs --------------------------
(***************************************************************************)
(* Proofs about Conversation and the providers under it, for every set of  *)
(* turns, policy, transport and bound on the rounds of tool calls: the     *)
(* stages behind a conversation take the steps of LlmStage and no others,  *)
(* what an attempt emits tells of one call, and every request goes on from *)
(* an answer the conversation accepted and quotes the refusal it should.   *)
(***************************************************************************)
EXTENDS Conversation, SequenceTheorems, TLAPS

(***************************************************************************)
(* The inductive invariant, one stage at a time.                           *)
(***************************************************************************)
\* What the attempts of a stage look like while it waits, runs or retries.
AttemptsInOrder(r) ==
    /\ pc[r] = "idle" => attempt(r) = 0
    /\ pc[r] = "calling" => attempt(r) > 0 /\ calls[r][attempt(r)].end = "open"
    /\ pc[r] \in {"top", "backoff"} => attempt(r) = 0 \/ attempt(r) < maxAttempts
    /\ \A i \in 1 .. attempt(r) :
          calls[r][i].end = "open" => pc[r] = "calling" /\ i = attempt(r)

\* A stage that goes on has ended every call for a reason it opted into.
OptedIn(r) ==
    \A i \in 1 .. attempt(r) :
        i < attempt(r) \/ pc[r] \in {"top", "backoff"} =>
            classifyError(calls[r][i].end) \in policy.retryOn

\* q is the latest refusal before attempt i of the calls s, 0 for none.
Quotes(s, i, q) ==
    /\ q \in 0 .. i - 1
    /\ q # 0 => s[q].end \in Refused
    /\ \A j \in q + 1 .. i - 1 : s[j].end \notin Refused

SuffixQuotes(r) ==
    /\ pc[r] # "settled" => Quotes(calls[r], attempt(r) + 1, suffix[r])
    /\ \A i \in 1 .. attempt(r) : Quotes(calls[r], i, calls[r][i].suffix)

SettledSo(r) ==
    pc[r] = "settled" =>
        /\ outcome[r] = "skipped" => aborted
        /\ outcome[r] = "completed" => attempt(r) > 0 /\ calls[r][attempt(r)].end = "valid"
        /\ outcome[r] = "failed" =>
              IF attempt(r) = 0 THEN code[r] = "LLM_UNKNOWN_ERROR"
              ELSE /\ calls[r][attempt(r)].end \notin {"valid", "open"}
                   /\ code[r] = codeOf(calls[r][attempt(r)].end)

StageInv(r) == AttemptsInOrder(r) /\ OptedIn(r) /\ SuffixQuotes(r) /\ SettledSo(r)

IInv == TypeOK /\ \A r \in Run : StageInv(r)

(***************************************************************************)
(* Every step is a step of one stage, or the abort.                        *)
(***************************************************************************)
ResponseIds == ResponseId \cup {None}

\* The steps of r that start, leave or end the loop without a call.
Elsewhere(r) == Start(r) \/ AbortAtTop(r) \/ NoAttempts(r) \/ BackoffOver(r)

Events == {"request", "created", "delta", "call", "retry"}

Codes == {"none", "OUTPUT_SCHEMA_INVALID", "checkOutput", "LLM_QUOTA_EXHAUSTED",
          "LLM_RATE_LIMITED", "LLM_TRANSIENT_ERROR", "LLM_NON_RETRYABLE_ERROR",
          "LLM_UNKNOWN_ERROR"}

\* A code is defined for every error a call can end with.
LEMMA CodeOfError == \A end \in Refused \cup Thrown : codeOf(end) \in Codes
BY DEF codeOf, Codes, Refused, Thrown

\* Reporting the id of a response and events keeps ids ids and events events.
LEMMA LogTyped ==
    ASSUME TypeOK, NEW r \in Run, NEW id \in ResponseIds, NEW events \in Seq(Events),
           LogIdThen(r, id, events)
    PROVE  /\ responseId' \in [Run -> ResponseIds]
           /\ log' \in [Run -> Seq(Events)]
<1>1. responseId' \in [Run -> ResponseIds]
  BY DEF LogIdThen, TypeOK, ResponseIds
<1>2. log \in [Run -> Seq(Events)]
  BY DEF TypeOK, Events
<1> DEFINE new == (IF responseId[r] = None /\ id # None THEN <<"created">> ELSE <<>>)
<1>3. new \in Seq(Events)
  <2>1. <<"created">> \in Seq(Events) /\ << >> \in Seq(Events)
    BY DEF Events
  <2> QED
    BY <2>1
<1> HIDE DEF new
<1>4. log[r] \o new \o events \in Seq(Events)
  BY <1>2, <1>3
<1>5. log' = [log EXCEPT ![r] = log[r] \o new \o events]
  <2>1. log' = [log EXCEPT ![r] = @ \o new \o events]
    BY DEF LogIdThen, new
  <2> QED
    BY <2>1, <1>2
<1> DEFINE after == log[r] \o new \o events
<1> HIDE DEF after
<1>6. log' = [log EXCEPT ![r] = after] /\ after \in Seq(Events)
  BY <1>4, <1>5 DEF after
<1> QED
  BY <1>1, <1>2, <1>6

\* A call that ends is the last one of its stage, and keeps its suffix.
LEMMA EndedCalls ==
    ASSUME TypeOK, NEW r \in Run, pc[r] = "calling", AttemptsInOrder(r),
           NEW end \in CallEnd, Ended(r, end)
    PROVE  /\ calls' \in [Run -> Seq([suffix : Nat, end : CallEnd \cup {"open"}])]
           /\ Len(calls'[r]) = Len(calls[r]) /\ Len(calls[r]) > 0
           /\ calls'[r][Len(calls[r])].end = end
           /\ \A i \in 1 .. Len(calls[r]) : calls'[r][i].suffix = calls[r][i].suffix
           /\ \A i \in 1 .. Len(calls[r]) - 1 : calls'[r][i] = calls[r][i]
           /\ \A q \in Run \ {r} : calls'[q] = calls[q]
<1> DEFINE Rec == [suffix : Nat, end : CallEnd \cup {"open"}]
           s == calls[r]
           n == Len(s)
           t == [s EXCEPT ![n].end = end]
<1>1. s \in Seq(Rec) /\ n \in Nat /\ n > 0
  <2>1. calls \in [Run -> Seq(Rec)]
    BY DEF TypeOK
  <2>2. s \in Seq(Rec)
    BY <2>1
  <2>3. n \in Nat
    BY <2>2
  <2>4. n > 0
    BY DEF AttemptsInOrder, attempt
  <2> QED
    BY <2>2, <2>3, <2>4
<1> HIDE DEF s
<1>2. s[n] \in Rec
  <2>1. n \in 1 .. Len(s)
    BY <1>1
  <2> QED
    BY <1>1, <2>1, ElementOfSeq
<1>3. [s[n] EXCEPT !.end = end] \in Rec
  BY <1>2
<1> DEFINE rec == [s[n] EXCEPT !.end = end]
<1>4. t = [s EXCEPT ![n] = rec] /\ rec.end = end /\ rec.suffix = s[n].suffix
  BY <1>2
<1> HIDE DEF rec, Rec, t
<1>5. t \in Seq(Rec) /\ Len(t) = n
  BY <1>1, <1>3, <1>4, ExceptSeq DEF rec
<1>6. /\ t[n].end = end
      /\ \A i \in 1 .. n : t[i].suffix = s[i].suffix
      /\ \A i \in 1 .. n - 1 : t[i] = s[i]
  BY <1>1, <1>4, ExceptSeq
<1>7. calls \in [Run -> Seq(Rec)] /\ calls' = [calls EXCEPT ![r] = t]
  BY DEF TypeOK, Ended, attempt, t, s, Rec
<1>8. calls'[r] = t /\ \A q \in Run \ {r} : calls'[q] = calls[q]
  BY <1>7
<1>9. calls' \in [Run -> Seq(Rec)]
  BY <1>5, <1>7
<1> QED
  BY <1>1, <1>5, <1>6, <1>8, <1>9 DEF s, Rec

(***************************************************************************)
(* The invariant holds at first, and each step preserves it.               *)
(***************************************************************************)
\* The invariant of a stage the step does not touch.
LEMMA Untouched ==
    ASSUME NEW q \in Run, StageInv(q), policy' = policy, aborted => aborted',
           calls'[q] = calls[q], pc'[q] = pc[q], suffix'[q] = suffix[q],
           outcome'[q] = outcome[q], code'[q] = code[q]
    PROVE  StageInv(q)'
<1>1. AttemptsInOrder(q)'
  BY DEF StageInv, AttemptsInOrder, attempt, maxAttempts
<1>2. OptedIn(q)'
  BY DEF StageInv, OptedIn, attempt
<1>3. SuffixQuotes(q)'
  BY DEF StageInv, SuffixQuotes, Quotes, attempt
<1>4. SettledSo(q)'
  BY DEF StageInv, SettledSo, attempt
<1> QED
  BY <1>1, <1>2, <1>3, <1>4 DEF StageInv

\* What an attempt quotes depends on the attempts before it only.
LEMMA SameQuote ==
    ASSUME NEW s, NEW t, NEW i \in Nat, NEW q, Quotes(s, i, q),
           \A j \in 1 .. i - 1 : t[j].end = s[j].end
    PROVE  Quotes(t, i, q)
BY DEF Quotes

\* Before any stage starts the invariant holds.
LEMMA InitInv == Init => IInv
<1> SUFFICES ASSUME Init PROVE IInv
  OBVIOUS
<1>1. TypeOK
  <2>1. calls \in [Run -> Seq([suffix : Nat, end : CallEnd \cup {"open"}])]
    BY DEF Init
  <2>2. log \in [Run -> Seq({"request", "created", "delta", "call", "retry"})]
    BY DEF Init
  <2>3. /\ policy \in Policies /\ aborted \in BOOLEAN
        /\ pc \in [Run -> {"idle", "top", "calling", "backoff", "settled"}]
        /\ responseId \in [Run -> ResponseId \cup {None}]
        /\ suffix \in [Run -> Nat]
    BY DEF Init
  <2>4. /\ outcome \in [Run -> {"none", "completed", "skipped", "failed"}]
        /\ code \in [Run -> Codes]
    BY DEF Init, Codes
  <2> QED
    BY <2>1, <2>2, <2>3, <2>4 DEF TypeOK, Codes
<1>2. ASSUME NEW r \in Run PROVE StageInv(r)
  <2>1. calls[r] = << >> /\ pc[r] = "idle" /\ suffix[r] = 0
    BY DEF Init
  <2>2. attempt(r) = 0
    BY <2>1 DEF attempt
  <2>3. AttemptsInOrder(r) /\ OptedIn(r) /\ SettledSo(r)
    BY <2>1, <2>2 DEF AttemptsInOrder, OptedIn, SettledSo
  <2>4. SuffixQuotes(r)
    BY <2>1, <2>2 DEF SuffixQuotes, Quotes
  <2> QED
    BY <2>3, <2>4 DEF StageInv
<1> QED
  BY <1>1, <1>2 DEF IInv

\* Starting, leaving or ending the loop, and what the provider reports while a
\* call is open: no attempt is added and none ends.
LEMMA BetweenCalls ==
    ASSUME IInv, NEW r \in Run,
           Elsewhere(r) \/ TextDelta(r) \/ (\E id \in ResponseId : ResponseCreated(r, id))
    PROVE  IInv'
<1> USE DEF IInv
<1>1. /\ calls' = calls /\ suffix' = suffix /\ policy' = policy /\ aborted' = aborted
      /\ \A q \in Run \ {r} : pc'[q] = pc[q] /\ outcome'[q] = outcome[q] /\ code'[q] = code[q]
  BY DEF Elsewhere, Start, AbortAtTop, NoAttempts, BackoffOver, TextDelta, ResponseCreated,
         Settle, TypeOK
<1>2. attempt(r) \in Nat /\ maxAttempts \in Nat
  <2>1. calls[r] \in Seq([suffix : Nat, end : CallEnd \cup {"open"}])
    BY DEF TypeOK
  <2>2. policy \in Policies
    BY DEF TypeOK
  <2> QED
    BY <2>1, <2>2, LlmAssumption DEF attempt, maxAttempts
<1>3. TypeOK'
  <2>1. CASE Elsewhere(r)
    BY <2>1 DEF Elsewhere, Start, AbortAtTop, NoAttempts, BackoffOver, Settle, TypeOK
  <2>2. CASE TextDelta(r)
    <3>1. log \in [Run -> Seq(Events)]
      BY DEF TypeOK, Events
    <3>2. Append(log[r], "delta") \in Seq(Events)
      BY <3>1 DEF Events
    <3>3. log' = [log EXCEPT ![r] = Append(log[r], "delta")]
      BY <2>2, <3>1 DEF TextDelta
    <3>4. log' \in [Run -> Seq(Events)]
      BY <3>1, <3>2, <3>3
    <3> QED
      BY <2>2, <3>4 DEF TextDelta, TypeOK, Events
  <2>3. CASE \E id \in ResponseId : ResponseCreated(r, id)
    <3>1. PICK id \in ResponseId : ResponseCreated(r, id)
      BY <2>3
    <3>2. log \in [Run -> Seq(Events)]
      BY DEF TypeOK, Events
    <3>3. Append(log[r], "created") \in Seq(Events)
      BY <3>2 DEF Events
    <3>4. log' = [log EXCEPT ![r] = Append(log[r], "created")]
      BY <3>1, <3>2 DEF ResponseCreated
    <3>5. log' \in [Run -> Seq(Events)]
      BY <3>2, <3>3, <3>4
    <3>6. responseId' \in [Run -> ResponseId \cup {None}]
      BY <3>1 DEF ResponseCreated, TypeOK
    <3> QED
      BY <3>1, <3>5, <3>6 DEF ResponseCreated, TypeOK, Events
  <2> QED
    BY <2>1, <2>2, <2>3
<1>4. StageInv(r)'
  <2>1. CASE Start(r) \/ BackoffOver(r)
    <3>1. pc'[r] = "top" /\ pc[r] \in {"idle", "backoff"}
      BY <2>1 DEF Start, BackoffOver, TypeOK
    <3>2. AttemptsInOrder(r)'
      BY <1>1, <1>2, <3>1 DEF StageInv, AttemptsInOrder, attempt, maxAttempts
    <3>3. OptedIn(r)'
      BY <1>1, <1>2, <3>1 DEF StageInv, AttemptsInOrder, OptedIn, attempt
    <3>4. SuffixQuotes(r)' /\ SettledSo(r)'
      BY <1>1, <3>1 DEF StageInv, SuffixQuotes, SettledSo, Quotes, attempt
    <3> QED
      BY <3>2, <3>3, <3>4 DEF StageInv
  <2>2. CASE AbortAtTop(r) \/ NoAttempts(r)
    <3>1. pc'[r] = "settled" /\ pc[r] = "top"
      BY <2>2 DEF AbortAtTop, NoAttempts, Settle, TypeOK
    <3>2. AttemptsInOrder(r)' /\ OptedIn(r)' /\ SuffixQuotes(r)'
      BY <1>1, <1>2, <3>1
         DEF StageInv, AttemptsInOrder, OptedIn, SuffixQuotes, Quotes, attempt
    <3>3. SettledSo(r)'
      <4>1. CASE AbortAtTop(r)
        BY <4>1, <1>1 DEF AbortAtTop, Settle, SettledSo, TypeOK
      <4>2. CASE NoAttempts(r)
        <5>1. attempt(r) = 0
          BY <4>2, <1>2 DEF NoAttempts, StageInv, AttemptsInOrder
        <5>2. outcome'[r] = "failed" /\ code'[r] = "LLM_UNKNOWN_ERROR"
          BY <4>2 DEF NoAttempts, Settle, TypeOK
        <5> QED
          BY <5>1, <5>2, <1>1 DEF SettledSo, attempt
      <4> QED
        BY <2>2, <4>1, <4>2
    <3> QED
      BY <3>2, <3>3 DEF StageInv
  <2>3. CASE TextDelta(r) \/ \E id \in ResponseId : ResponseCreated(r, id)
    BY <2>3, <1>1, Untouched DEF TextDelta, ResponseCreated
  <2> QED
    BY <2>1, <2>2, <2>3 DEF Elsewhere
<1>5. \A q \in Run \ {r} : StageInv(q)'
  BY <1>1, Untouched
<1> QED
  BY <1>3, <1>4, <1>5

\* A new attempt quotes the latest refusal.
LEMMA RequestInv == ASSUME IInv, NEW r \in Run, Request(r) PROVE IInv'
<1> USE DEF IInv
<1> DEFINE Rec == [suffix : Nat, end : CallEnd \cup {"open"}]
           n == Len(calls[r])
           new == [suffix |-> suffix[r], end |-> "open"]
<1>1. calls \in [Run -> Seq(Rec)]
  BY DEF TypeOK
<1>2. calls[r] \in Seq(Rec) /\ n \in Nat /\ new \in Rec
  <2>1. calls[r] \in Seq(Rec)
    BY <1>1
  <2>2. suffix[r] \in Nat
    BY DEF TypeOK
  <2> QED
    BY <2>1, <2>2
<1>3. calls'[r] = Append(calls[r], new) /\ \A q \in Run \ {r} : calls'[q] = calls[q]
  BY <1>1 DEF Request
<1> HIDE DEF Rec
<1>4. calls' \in [Run -> Seq(Rec)]
  <2>1. Append(calls[r], new) \in Seq(Rec)
    BY <1>2
  <2>2. calls' = [calls EXCEPT ![r] = Append(calls[r], new)]
    BY <1>1 DEF Request
  <2> QED
    BY <1>1, <2>1, <2>2
<1>5. /\ Len(calls'[r]) = n + 1
      /\ calls'[r][n + 1] = new
      /\ \A i \in 1 .. n : calls'[r][i] = calls[r][i]
  BY <1>2, <1>3
<1>6. /\ pc[r] = "top" /\ pc'[r] = "calling" /\ suffix' = suffix /\ n < maxAttempts
      /\ policy' = policy /\ aborted' = aborted /\ outcome' = outcome /\ code' = code
      /\ \A q \in Run \ {r} : pc'[q] = pc[q]
  BY DEF Request, attempt, TypeOK
<1>7. TypeOK'
  <2>1. log' \in [Run -> Seq(Events)]
    <3>1. <<"request">> \in Seq(Events)
      BY DEF Events
    <3>2. log \in [Run -> Seq(Events)]
      BY DEF TypeOK, Events
    <3> QED
      BY <3>1, <3>2 DEF Request
  <2>2. responseId' \in [Run -> ResponseId \cup {None}]
    BY DEF Request, TypeOK
  <2> QED
    BY <2>1, <2>2, <1>4 DEF Request, TypeOK, Events, Rec
<1>8. StageInv(r)
  OBVIOUS
<1>9. AttemptsInOrder(r)'
  BY <1>2, <1>5, <1>6, <1>8 DEF StageInv, AttemptsInOrder, attempt
<1>10. OptedIn(r)'
  BY <1>2, <1>5, <1>6, <1>8 DEF StageInv, OptedIn, attempt
<1>11. SuffixQuotes(r)'
  <2>1. Quotes(calls[r], n + 1, suffix[r])
    BY <1>6, <1>8 DEF StageInv, SuffixQuotes, attempt
  <2>2. Quotes(calls'[r], n + 1, suffix[r])
    BY <2>1, <1>2, <1>5 DEF Quotes
  <2>3. Quotes(calls'[r], n + 2, suffix[r])
    BY <2>2, <1>2, <1>5 DEF Quotes, Refused
  <2>4. ASSUME NEW i \in 1 .. n PROVE Quotes(calls'[r], i, calls'[r][i].suffix)
    <3>1. Quotes(calls[r], i, calls[r][i].suffix)
      BY <1>8 DEF StageInv, SuffixQuotes, attempt
    <3>2. calls'[r][i] = calls[r][i] /\ i \in Nat
      BY <1>5
    <3>3. \A j \in 1 .. i - 1 : calls'[r][j].end = calls[r][j].end
      BY <1>2, <1>5
    <3> QED
      BY <3>1, <3>2, <3>3, SameQuote
  <2> QED
    BY <2>2, <2>3, <2>4, <1>2, <1>5, <1>6 DEF SuffixQuotes, attempt
<1>12. SettledSo(r)'
  BY <1>6 DEF SettledSo
<1>13. \A q \in Run \ {r} : StageInv(q)'
  BY <1>3, <1>6, Untouched
<1> QED
  BY <1>7, <1>9, <1>10, <1>11, <1>12, <1>13 DEF StageInv

\* A call that ends: the stage retries it, if its reason is opted into and an
\* attempt is left, or settles accordingly.
LEMMA EndInv ==
    ASSUME IInv, NEW r \in Run, pc[r] = "calling", NEW end \in CallEnd, Ended(r, end),
           policy' = policy, aborted' = aborted,
           TypeOK',
           \A q \in Run \ {r} : /\ pc'[q] = pc[q] /\ suffix'[q] = suffix[q]
                                /\ outcome'[q] = outcome[q] /\ code'[q] = code[q],
           pc'[r] \in {"backoff", "settled"},
           pc'[r] = "backoff" =>
              /\ MayRetry(r, end)
              /\ suffix'[r] = IF end \in Refused THEN attempt(r) ELSE suffix[r],
           pc'[r] = "settled" =>
              \/ outcome'[r] = "skipped" /\ aborted
              \/ outcome'[r] = "completed" /\ end = "valid"
              \/ outcome'[r] = "failed" /\ end # "valid" /\ code'[r] = codeOf(end)
    PROVE  IInv'
<1> USE DEF IInv
<1> DEFINE n == Len(calls[r])
<1>1. StageInv(r) /\ AttemptsInOrder(r)
  BY DEF StageInv
<1>2. /\ Len(calls'[r]) = n /\ n > 0
      /\ calls'[r][n].end = end
      /\ \A i \in 1 .. n : calls'[r][i].suffix = calls[r][i].suffix
      /\ \A i \in 1 .. n - 1 : calls'[r][i] = calls[r][i]
      /\ \A q \in Run \ {r} : calls'[q] = calls[q]
  BY <1>1, EndedCalls
<1>3. n \in Nat /\ end # "open"
  <2>1. calls[r] \in Seq([suffix : Nat, end : CallEnd \cup {"open"}])
    BY DEF TypeOK
  <2> QED
    BY <2>1 DEF CallEnd, Refused, Thrown
<1>4. AttemptsInOrder(r)'
  <2>1. pc'[r] = "backoff" => n < maxAttempts
    BY DEF MayRetry, attempt
  <2>2. \A i \in 1 .. n - 1 : calls[r][i].end # "open"
    BY <1>1, <1>3 DEF AttemptsInOrder, attempt
  <2> QED
    BY <1>2, <1>3, <2>1, <2>2 DEF AttemptsInOrder, attempt, maxAttempts
<1>5. OptedIn(r)'
  <2>1. \A i \in 1 .. n - 1 : classifyError(calls[r][i].end) \in policy.retryOn
    BY <1>1, <1>3 DEF StageInv, OptedIn, attempt
  <2>2. \A i \in 1 .. n - 1 : classifyError(calls'[r][i].end) \in policy.retryOn
    BY <1>2, <2>1
  <2>3. pc'[r] = "backoff" => classifyError(calls'[r][n].end) \in policy.retryOn
    BY <1>2 DEF MayRetry
  <2> QED
    BY <1>2, <1>3, <2>2, <2>3 DEF OptedIn, attempt
<1>6. SuffixQuotes(r)'
  <2>1. Quotes(calls[r], n + 1, suffix[r])
    BY <1>1 DEF StageInv, SuffixQuotes, attempt
  <2>2. calls[r][n].end = "open"
    BY <1>1 DEF AttemptsInOrder, attempt
  <2>3. suffix[r] # n
    BY <2>1, <2>2, <1>2, <1>3 DEF Quotes, Refused
  <2>4. Quotes(calls[r], n, suffix[r])
    BY <2>1, <2>3, <1>2, <1>3 DEF Quotes
  <2>5. Quotes(calls'[r], n, suffix[r])
    BY <2>4, <1>2, <1>3, SameQuote
  <2>6. ASSUME pc'[r] = "backoff" PROVE Quotes(calls'[r], n + 1, suffix'[r])
    <3>1. CASE end \in Refused
      <4>1. suffix'[r] = n
        BY <3>1, <2>6 DEF attempt
      <4> QED
        BY <3>1, <4>1, <1>2, <1>3 DEF Quotes
    <3>2. CASE end \notin Refused
      <4>1. suffix'[r] = suffix[r]
        BY <3>2, <2>6
      <4> QED
        BY <3>2, <4>1, <2>5, <1>2, <1>3 DEF Quotes
    <3> QED
      BY <3>1, <3>2
  <2>7. ASSUME NEW i \in 1 .. n PROVE Quotes(calls'[r], i, calls'[r][i].suffix)
    <3>1. Quotes(calls[r], i, calls[r][i].suffix)
      BY <1>1 DEF StageInv, SuffixQuotes, attempt
    <3>2. i \in Nat /\ \A j \in 1 .. i - 1 : calls'[r][j].end = calls[r][j].end
      BY <1>2, <1>3
    <3>3. Quotes(calls'[r], i, calls[r][i].suffix)
      BY <3>1, <3>2, SameQuote
    <3> QED
      BY <3>3, <1>2
  <2> QED
    BY <2>6, <2>7, <1>2 DEF SuffixQuotes, attempt
<1>7. SettledSo(r)'
  BY <1>2, <1>3 DEF SettledSo, attempt
<1>8. \A q \in Run \ {r} : StageInv(q)'
  BY <1>2, Untouched
<1> QED
  BY <1>4, <1>5, <1>6, <1>7, <1>8 DEF StageInv

\* A call that succeeds, is refused or is rejected ends as EndInv says.
LEMMA CallEndsInv == ASSUME IInv, NEW r \in Run, CallEnds(r) PROVE IInv'
<1> USE DEF IInv
<1>1. TypeOK /\ AttemptsInOrder(r)
  BY DEF StageInv
<1>2. ASSUME NEW id \in ResponseIds, Succeed(r, id) PROVE IInv'
  <2>1. pc[r] = "calling" /\ Ended(r, "valid") /\ "valid" \in CallEnd
    BY <1>2 DEF Succeed, CallEnd
  <2>2. calls' \in [Run -> Seq([suffix : Nat, end : CallEnd \cup {"open"}])]
    BY <1>1, <2>1, EndedCalls
  <2>3. <<"call">> \in Seq(Events)
    BY DEF Events
  <2>4. responseId' \in [Run -> ResponseIds] /\ log' \in [Run -> Seq(Events)]
    BY <1>1, <1>2, <2>3, LogTyped DEF Succeed
  <2>5. TypeOK'
    BY <1>1, <1>2, <2>2, <2>4 DEF Succeed, Settle, TypeOK, ResponseIds, Events
  <2>6. /\ pc'[r] = "settled" /\ outcome'[r] = "completed"
        /\ \A q \in Run \ {r} : /\ pc'[q] = pc[q] /\ suffix'[q] = suffix[q]
                                /\ outcome'[q] = outcome[q] /\ code'[q] = code[q]
    BY <1>1, <1>2 DEF Succeed, Settle, TypeOK
  <2> QED
    BY <1>2, <2>1, <2>5, <2>6, EndInv DEF Succeed
<1>3. ASSUME NEW id \in ResponseIds, NEW end \in Refused, Refuse(r, end, id) PROVE IInv'
  <2>1. pc[r] = "calling" /\ Ended(r, end) /\ end \in CallEnd /\ end # "valid"
    BY <1>3 DEF Refuse, CallEnd, Refused
  <2>2. calls' \in [Run -> Seq([suffix : Nat, end : CallEnd \cup {"open"}])]
    BY <1>1, <2>1, EndedCalls
  <2>3. <<"call">> \in Seq(Events) /\ <<"call", "retry">> \in Seq(Events)
    BY DEF Events
  <2>4. responseId' \in [Run -> ResponseIds] /\ log' \in [Run -> Seq(Events)]
    BY <1>1, <1>3, <2>3, LogTyped DEF Refuse
  <2>5. attempt(r) \in Nat /\ codeOf(end) \in Codes
    <3>1. calls[r] \in Seq([suffix : Nat, end : CallEnd \cup {"open"}])
      BY <1>1 DEF TypeOK
    <3> QED
      BY <3>1, CodeOfError DEF attempt
  <2>6. CASE MayRetry(r, end)
    <3>1. /\ pc' = [pc EXCEPT ![r] = "backoff"] /\ suffix' = [suffix EXCEPT ![r] = attempt(r)]
          /\ UNCHANGED <<policy, aborted, outcome, code>>
      BY <1>3, <2>6 DEF Refuse
    <3>2. TypeOK'
      BY <1>1, <2>2, <2>4, <2>5, <3>1 DEF TypeOK, ResponseIds, Events
    <3>3. pc'[r] = "backoff" /\ suffix'[r] = attempt(r)
      BY <1>1, <3>1 DEF TypeOK
    <3>4. \A q \in Run \ {r} : /\ pc'[q] = pc[q] /\ suffix'[q] = suffix[q]
                               /\ outcome'[q] = outcome[q] /\ code'[q] = code[q]
      BY <1>1, <3>1 DEF TypeOK
    <3> QED
      BY <1>3, <2>1, <2>6, <3>1, <3>2, <3>3, <3>4, EndInv
  <2>7. CASE ~MayRetry(r, end)
    <3>1. Settle(r, "failed", codeOf(end)) /\ UNCHANGED <<policy, aborted, suffix>>
      BY <1>3, <2>7 DEF Refuse
    <3>2. TypeOK'
      BY <1>1, <2>2, <2>4, <2>5, <3>1 DEF Settle, TypeOK, ResponseIds, Events, Codes
    <3>3. pc'[r] = "settled" /\ outcome'[r] = "failed" /\ code'[r] = codeOf(end)
      BY <1>1, <3>1 DEF Settle, TypeOK
    <3>4. \A q \in Run \ {r} : /\ pc'[q] = pc[q] /\ suffix'[q] = suffix[q]
                               /\ outcome'[q] = outcome[q] /\ code'[q] = code[q]
      BY <1>1, <3>1 DEF Settle, TypeOK
    <3> QED
      BY <2>1, <3>1, <3>2, <3>3, <3>4, EndInv
  <2> QED
    BY <2>6, <2>7
<1>4. ASSUME NEW id \in ResponseIds, NEW end \in Thrown, Reject(r, end, id) PROVE IInv'
  <2>1. /\ pc[r] = "calling" /\ Ended(r, end)
        /\ end \in CallEnd /\ end # "valid" /\ end \notin Refused
    BY <1>4 DEF Reject, CallEnd, Refused, Thrown
  <2>2. calls' \in [Run -> Seq([suffix : Nat, end : CallEnd \cup {"open"}])]
    BY <1>1, <2>1, EndedCalls
  <2>3. <<"retry">> \in Seq(Events) /\ << >> \in Seq(Events)
    BY DEF Events
  <2>4. responseId' \in [Run -> ResponseIds] /\ log' \in [Run -> Seq(Events)]
    BY <1>1, <1>4, <2>3, LogTyped DEF Reject
  <2>5. codeOf(end) \in Codes
    BY CodeOfError
  <2>6. suffix' = suffix /\ policy' = policy /\ aborted' = aborted
    BY <1>4 DEF Reject
  <2>7. CASE pc' = [pc EXCEPT ![r] = "backoff"] /\ MayRetry(r, end)
             /\ UNCHANGED <<outcome, code>>
    <3>1. TypeOK'
      BY <1>1, <2>2, <2>4, <2>6, <2>7 DEF TypeOK, ResponseIds, Events
    <3>2. pc'[r] = "backoff" /\ suffix'[r] = suffix[r]
      BY <1>1, <2>6, <2>7 DEF TypeOK
    <3>3. \A q \in Run \ {r} : /\ pc'[q] = pc[q] /\ suffix'[q] = suffix[q]
                               /\ outcome'[q] = outcome[q] /\ code'[q] = code[q]
      BY <1>1, <2>6, <2>7 DEF TypeOK
    <3> QED
      BY <2>1, <2>6, <2>7, <3>1, <3>2, <3>3, EndInv
  <2>8. CASE aborted /\ Settle(r, "skipped", "none")
    <3>1. TypeOK'
      BY <1>1, <2>2, <2>4, <2>6, <2>8 DEF Settle, TypeOK, ResponseIds, Events
    <3>2. pc'[r] = "settled" /\ outcome'[r] = "skipped"
      BY <1>1, <2>8 DEF Settle, TypeOK
    <3>3. \A q \in Run \ {r} : /\ pc'[q] = pc[q] /\ suffix'[q] = suffix[q]
                               /\ outcome'[q] = outcome[q] /\ code'[q] = code[q]
      BY <1>1, <2>6, <2>8 DEF Settle, TypeOK
    <3> QED
      BY <2>1, <2>6, <2>8, <3>1, <3>2, <3>3, EndInv
  <2>9. CASE Settle(r, "failed", codeOf(end))
    <3>1. TypeOK'
      BY <1>1, <2>2, <2>4, <2>5, <2>6, <2>9 DEF Settle, TypeOK, ResponseIds, Events, Codes
    <3>2. pc'[r] = "settled" /\ outcome'[r] = "failed" /\ code'[r] = codeOf(end)
      BY <1>1, <2>9 DEF Settle, TypeOK
    <3>3. \A q \in Run \ {r} : /\ pc'[q] = pc[q] /\ suffix'[q] = suffix[q]
                               /\ outcome'[q] = outcome[q] /\ code'[q] = code[q]
      BY <1>1, <2>6, <2>9 DEF Settle, TypeOK
    <3> QED
      BY <2>1, <2>6, <3>1, <3>2, <3>3, EndInv
  <2> QED
    BY <1>4, <2>7, <2>8, <2>9 DEF Reject
<1> QED
  BY <1>2, <1>3, <1>4 DEF CallEnds, ResponseIds, Thrown

(***************************************************************************)
(* The theorems.                                                           *)
(***************************************************************************)
\* Every step preserves the invariant.
LEMMA StepInv == IInv /\ [Next]_stageVars => IInv'
<1> SUFFICES ASSUME IInv, [Next]_stageVars PROVE IInv'
  OBVIOUS
<1>1. CASE Abort
  <2>1. TypeOK'
    BY <1>1 DEF IInv, Abort, TypeOK
  <2>2. \A q \in Run : StageInv(q)'
    BY <1>1, Untouched DEF IInv, Abort
  <2> QED
    BY <2>1, <2>2 DEF IInv
<1>2. ASSUME NEW r \in Run, Request(r) PROVE IInv'
  BY <1>2, RequestInv
<1>3. ASSUME NEW r \in Run, CallEnds(r) PROVE IInv'
  BY <1>3, CallEndsInv
<1>4. ASSUME NEW r \in Run,
             Elsewhere(r) \/ TextDelta(r) \/ (\E id \in ResponseId : ResponseCreated(r, id))
      PROVE  IInv'
  BY <1>4, BetweenCalls
<1>5. CASE UNCHANGED stageVars
  <2>1. TypeOK'
    BY <1>5 DEF IInv, TypeOK, stageVars
  <2>2. \A q \in Run : StageInv(q)'
    BY <1>5, Untouched DEF IInv, stageVars
  <2> QED
    BY <2>1, <2>2 DEF IInv
<1> QED
  BY <1>1, <1>2, <1>3, <1>4, <1>5 DEF Next, Loop, Elsewhere

\* The inductive invariant holds in every reachable state.
THEOREM InvHolds == Spec => []IInv
BY InitInv, StepInv, PTL DEF Spec

\* Every variable of every stage keeps its type.
THEOREM TypeCorrect == Spec => []TypeOK
<1>1. IInv => TypeOK
  BY DEF IInv
<1> QED
  BY <1>1, InvHolds, PTL

\* No stage ever makes a second call that its policy did not opt into.
THEOREM RetriesAreOptedIn == Spec => []RetriesOptedIn
<1>1. IInv => RetriesOptedIn
  <2> SUFFICES ASSUME IInv, NEW r \in Run, NEW i \in 1 .. attempt(r) - 1
               PROVE  classifyError(calls[r][i].end) \in policy.retryOn
    BY DEF RetriesOptedIn
  <2>1. attempt(r) \in Nat
    <3>1. calls[r] \in Seq([suffix : Nat, end : CallEnd \cup {"open"}])
      BY DEF IInv, TypeOK
    <3> QED
      BY <3>1 DEF attempt
  <2> QED
    BY <2>1 DEF IInv, StageInv, OptedIn
<1> QED
  BY <1>1, InvHolds, PTL

\* The message every stage makes for an attempt quotes the latest refusal before it.
THEOREM SuffixCorrect == Spec => []SuffixIsLatestRefusal
<1>1. IInv => SuffixIsLatestRefusal
  BY DEF IInv, StageInv, SuffixQuotes, Quotes, SuffixIsLatestRefusal
<1> QED
  BY <1>1, InvHolds, PTL

\* Every stage settles with the reason of its last call.
THEOREM SettledCorrect == Spec => []SettledHonestly
<1>1. IInv => SettledHonestly
  BY DEF IInv, StageInv, SettledSo, SettledHonestly
<1> QED
  BY <1>1, InvHolds, PTL


(***************************************************************************)
(* The inductive invariant.                                                *)
(***************************************************************************)
Points == {"none", "posting", "answered", "reading", "handling", "polling", "getting",
           "delay", "cancelling"}
Statuses == {"generating", "completed", "failed", "incomplete", "cancelled"}
Response == [run : Run, attempt : Nat, previous : ResponseIds, quotes : Nat,
             status : Statuses, cancelAsked : BOOLEAN]

ConversationTyped ==
    /\ setting \in Settings
    /\ call \in [Run -> [at : Points, round : Nat, id : ResponseIds, submitted : BOOLEAN]]
    /\ responses \in Seq(Response)
    /\ lastResponseId \in ResponseIds
    /\ previous \in [Run -> ResponseIds]
    /\ captured \in [Run -> ResponseIds]
    /\ returned \subseteq Run \cap setting.turns

\* What a stage has emitted while its call is open.
OpenLog(s, reported) ==
    /\ Len(s) > 0 /\ s[1] = "request"
    /\ \A i \in 2 .. Len(s) : s[i] \in {"created", "delta"}
    /\ \A i, j \in 1 .. Len(s) : s[i] = "created" /\ s[j] = "created" => i = j
    /\ reported = None => \A i \in 1 .. Len(s) : s[i] # "created"

\* EventsTellTheCall of a log, the id reported and the id of the response.
Tells(s, reported, id) ==
    LET ids == {i \in DOMAIN s : s[i] = "created"}
        ends == {i \in DOMAIN s : s[i] = "call"}
    IN  /\ \A i \in DOMAIN s : s[i] = "request" <=> i = 1
        /\ \A i, j \in ids : i = j
        /\ \A e \in ends : /\ \A i \in ids : i < e
                           /\ \A j \in e + 1 .. Len(s) : s[j] = "retry"
                           /\ reported = id

\* Where a call is and what its stage knows of it: an id is reported early only
\* by a call of one round, of the response it goes on reading.
CallInv(r) ==
    /\ call[r].at # "none" <=> pc[r] = "calling"
    /\ call[r].at \notin {"none", "posting"} => call[r].id # None
    /\ call[r].at = "reading" => transport \in {"stream", "backgroundStream"}
    /\ call[r].at = "handling" => setting.tools
    /\ call[r].at = "posting" => responseId[r] = None
    /\ pc[r] = "calling" /\ responseId[r] # None =>
          runsOneRound /\ transport # "chat" /\ responseId[r] = call[r].id

LogInv(r) ==
    IF pc[r] = "calling" THEN OpenLog(log[r], responseId[r])
                         ELSE Tells(log[r], responseId[r], rawResponseId(r))

\* The answer of a completed turn that the conversation has.
Accepted(id) == \E t \in returned : outcome[t] = "completed" /\ responseId[t] = id

TurnInv(r) ==
    /\ pc[r] # "settled" => outcome[r] = "none" /\ r \notin returned
    /\ outcome[r] = "completed" /\ r \in setting.turns => captured[r] = responseId[r]
    /\ transport = "chat" => captured[r] = None
    /\ previous[r] # None => Accepted(previous[r])

ChainInv ==
    /\ lastResponseId # None => Accepted(lastResponseId)
    /\ \A n \in DOMAIN responses : /\ responses[n].previous = previous[responses[n].run]
                                   /\ pc[responses[n].run] # "idle"

CInv == /\ ConversationTyped
        /\ \A r \in Run : CallInv(r) /\ LogInv(r) /\ TurnInv(r)
        /\ ChainInv

(***************************************************************************)
(* What a step of a call is.                                               *)
(***************************************************************************)
\* The service forgets no response, nor what it was asked with.
SameRequest(t, s) == /\ t.run = s.run /\ t.attempt = s.attempt
                     /\ t.previous = s.previous /\ t.quotes = s.quotes

RecordsKept ==
    /\ responses' \in Seq(Response)
    /\ Len(responses') = Len(responses)
    /\ \A n \in DOMAIN responses : SameRequest(responses'[n], responses[n])

CallBecomes(r, c) ==
    /\ call' = [call EXCEPT ![r] = c]
    /\ c \in [at : Points, round : Nat, id : ResponseIds, submitted : BOOLEAN]

\* The call rejects, whatever the reason.
Fails(r) ==
    /\ \E end \in Thrown : Reject(r, end, None)
    /\ \E c : CallBecomes(r, c) /\ c.at = "none" /\ c.id = call[r].id
    /\ RecordsKept

\* The call goes on to another point, which the stage does not notice.
GoesOn(r) ==
    /\ UNCHANGED <<stageVars, responses>>
    /\ call[r].at \notin {"none", "posting"}
    /\ \E c : /\ CallBecomes(r, c) /\ c.id = call[r].id
              /\ c.at \notin {"none", "reading"}
              /\ c.at \in {"posting", "handling"} => setting.tools

LEMMA CallTyped ==
    ASSUME ConversationTyped, NEW r \in Run
    PROVE  call[r] \in [at : Points, round : Nat, id : ResponseIds, submitted : BOOLEAN]
BY DEF ConversationTyped

LEMMA MovesIs ==
    ASSUME ConversationTyped, NEW r \in Run, NEW point \in Points, MovesTo(r, point)
    PROVE  \E c : CallBecomes(r, c) /\ c.at = point /\ c.id = call[r].id
<1> DEFINE c == [call[r] EXCEPT !.at = point]
<1>1. call' = [call EXCEPT ![r] = c]
  BY DEF MovesTo
<1>2. /\ c \in [at : Points, round : Nat, id : ResponseIds, submitted : BOOLEAN]
      /\ c.at = point /\ c.id = call[r].id
  BY CallTyped
<1> QED
  BY <1>1, <1>2 DEF CallBecomes

LEMMA ThrowsIs ==
    ASSUME ConversationTyped, NEW r \in Run, NEW end \in Thrown, Throws(r, end), RecordsKept
    PROVE  Fails(r)
<1>1. Reject(r, end, None) /\ MovesTo(r, "none")
  BY DEF Throws
<1> QED
  BY <1>1, MovesIs DEF Fails, Points

LEMMA SameRecords ==
    ASSUME ConversationTyped, responses' = responses
    PROVE  RecordsKept
BY DEF ConversationTyped, RecordsKept, SameRequest

LEMMA MoveGoesOn ==
    ASSUME ConversationTyped, NEW r \in Run,
           NEW point \in Points \ {"none", "reading"}, MovesTo(r, point),
           point \in {"posting", "handling"} => setting.tools,
           call[r].at \notin {"none", "posting"}, UNCHANGED <<stageVars, responses>>
    PROVE  GoesOn(r)
BY MovesIs DEF GoesOn

\* An envelope is judged: the call ends or runs the tools it names.
LEMMA JudgeIs ==
    ASSUME ConversationTyped, NEW r \in Run, NEW status, Judge(r, status),
           responses' = responses, call[r].at \notin {"none", "posting"}
    PROVE  Fails(r) \/ GoesOn(r)
<1>1. CASE \E end \in Thrown : Throws(r, end)
  BY <1>1, SameRecords, ThrowsIs
<1>2. CASE JudgeToolCall(r)
  <2>1. setting.tools /\ MovesTo(r, "handling") /\ UNCHANGED stageVars
    BY <1>2 DEF JudgeToolCall
  <2> QED
    BY <2>1, MoveGoesOn DEF Points
<1> QED
  BY <1>1, <1>2 DEF Judge, JudgeEnded, JudgeUnusable, Thrown

\* A step of a call that does not resolve it rejects, goes on, reports an id or
\* text, or has the service accept a request.
LEMMA CallStepIs ==
    ASSUME ConversationTyped, NEW r \in Run, CallInv(r), NEW before, NEW quotes,
           CallStep(r, before, quotes)
    PROVE  Fails(r) \/ GoesOn(r) \/ Accept(r, before, quotes) \/ Created(r) \/ Delta(r)
<1>1. CASE \/ RefuseTools(r) \/ PostFails(r) \/ AnswerLost(r) \/ FetchAborted(r)
           \/ ToolsFail(r) \/ PollFails(r) \/ PollBodyAborted(r)
  <2>1. responses' = responses /\ \E end \in Thrown : Throws(r, end)
    BY <1>1 DEF RefuseTools, PostFails, AnswerLost, FetchAborted, ToolsFail, PollFails,
                PollBodyAborted, Thrown
  <2> QED
    BY <2>1, SameRecords, ThrowsIs
<1>2. CASE Delivered(r) \/ Submitted(r) \/ PollAnswered(r)
  <2>1. responses' = responses /\ call[r].at \notin {"none", "posting"}
    BY <1>2 DEF Delivered, Delivers, Submitted, PollAnswered, at
  <2>2. CASE \E status : Judge(r, status)
    BY <2>1, <2>2, JudgeIs
  <2>3. CASE /\ at(r, {"answered"})
             /\ call' = [call EXCEPT ![r].at = "polling", ![r].submitted = TRUE]
             /\ UNCHANGED stageVars
    <3> DEFINE c == [call[r] EXCEPT !.at = "polling", !.submitted = TRUE]
    <3>1. CallBecomes(r, c) /\ c.id = call[r].id /\ c.at = "polling"
      <4>1. /\ c \in [at : Points, round : Nat, id : ResponseIds, submitted : BOOLEAN]
            /\ c.id = call[r].id /\ c.at = "polling"
        BY CallTyped DEF Points
      <4>2. call' = [call EXCEPT ![r] = c]
        BY <2>3
      <4> QED
        BY <4>1, <4>2 DEF CallBecomes
    <3> QED
      BY <2>1, <2>3, <3>1 DEF GoesOn
  <2>4. CASE MovesTo(r, "delay") /\ UNCHANGED stageVars
    BY <2>1, <2>4, MoveGoesOn DEF Points
  <2> QED
    BY <1>2, <2>2, <2>3, <2>4 DEF Delivered, Submitted, PollAnswered
<1>3. CASE ToolsDone(r)
  <2>1. CASE Throws(r, "untagged")
    BY <1>3, <2>1, SameRecords, ThrowsIs DEF ToolsDone, Thrown
  <2>2. CASE /\ call' = [call EXCEPT ![r].at = "posting", ![r].round = @ + 1]
             /\ UNCHANGED stageVars
    <3> DEFINE c == [call[r] EXCEPT !.at = "posting", !.round = call[r].round + 1]
    <3>1. CallBecomes(r, c) /\ c.id = call[r].id /\ c.at = "posting"
      <4>1. /\ c \in [at : Points, round : Nat, id : ResponseIds, submitted : BOOLEAN]
            /\ c.id = call[r].id /\ c.at = "posting"
        <5>1. call[r].round + 1 \in Nat /\ "posting" \in Points
          BY CallTyped DEF Points
        <5> QED
          BY <5>1, CallTyped
      <4>2. call' = [call EXCEPT ![r] = c]
        BY <2>2
      <4> QED
        BY <4>1, <4>2 DEF CallBecomes
    <3>2. responses' = responses /\ call[r].at = "handling" /\ setting.tools
      BY <1>3 DEF ToolsDone, at, CallInv
    <3> QED
      BY <2>2, <3>1, <3>2 DEF GoesOn
  <2> QED
    BY <1>3, <2>1, <2>2 DEF ToolsDone
<1>4. CASE PollTop(r) \/ PollAborted(r) \/ DelayOver(r)
  <2>1. /\ \E point \in {"cancelling", "getting", "polling"} : MovesTo(r, point)
        /\ UNCHANGED <<stageVars, responses>>
        /\ call[r].at \notin {"none", "posting"}
    BY <1>4 DEF PollTop, PollAborted, DelayOver, at
  <2> QED
    BY <2>1, MoveGoesOn DEF Points
<1>5. CASE CancelBackground(r)
  <2>1. PICK arrives \in BOOLEAN :
           responses' = [responses EXCEPT
              ![call[r].id].cancelAsked = TRUE,
              ![call[r].id].status = IF arrives /\ @ = "generating" THEN "cancelled" ELSE @]
    BY <1>5 DEF CancelBackground
  <2> DEFINE n == call[r].id
             status == IF arrives /\ responses[n].status = "generating"
                       THEN "cancelled" ELSE responses[n].status
             rec == [[responses[n] EXCEPT !.cancelAsked = TRUE] EXCEPT !.status = status]
  <2>2. responses \in Seq(Response) /\ responses' = [responses EXCEPT ![n] = rec]
    BY <2>1 DEF ConversationTyped
  <2>3. n \in DOMAIN responses => rec \in Response /\ SameRequest(rec, responses[n])
    <3> SUFFICES ASSUME n \in DOMAIN responses
                 PROVE  rec \in Response /\ SameRequest(rec, responses[n])
      OBVIOUS
    <3>1. responses[n] \in Response
      BY <2>2
    <3> HIDE DEF n
    <3>2. status \in Statuses
      BY <3>1 DEF Response, Statuses
    <3> HIDE DEF status
    <3> QED
      BY <3>1, <3>2 DEF Response, SameRequest
  <2> HIDE DEF n, rec
  <2>4. RecordsKept
    <3>1. CASE n \in DOMAIN responses
      BY <2>2, <2>3, <3>1, ExceptSeq DEF RecordsKept, SameRequest
    <3>2. CASE n \notin DOMAIN responses
      <4>1. responses' = responses
        BY <2>2, <3>2
      <4> QED
        BY <4>1, SameRecords
    <3> QED
      BY <3>1, <3>2
  <2> QED
    BY <1>5, <2>4, ThrowsIs DEF CancelBackground, Thrown
<1> QED
  BY <1>1, <1>2, <1>3, <1>4, <1>5 DEF CallStep

(***************************************************************************)
(* What a stage emits.                                                     *)
(***************************************************************************)
Endings == {<<>>, <<"retry">>, <<"call">>, <<"call", "retry">>}

\* How the end of a call shows in its stage.
EndsWith(r, id, events) ==
    /\ pc[r] = "calling"
    /\ events \in Endings
    /\ LogIdThen(r, id, events)
    /\ pc'[r] \in {"backoff", "settled"}
    /\ pc'[r] = "backoff" => outcome'[r] = outcome[r]
    /\ outcome'[r] = "completed" => outcome[r] = "completed" \/ events = <<"call">>
    /\ \A q \in Run \ {r} : pc'[q] = pc[q] /\ outcome'[q] = outcome[q]

LEMMA SuccessEnds ==
    ASSUME TypeOK, NEW r \in Run, NEW id \in ResponseIds, Succeed(r, id)
    PROVE  EndsWith(r, id, <<"call">>)
BY DEF Succeed, Settle, EndsWith, Endings, TypeOK

LEMMA RefusalEnds ==
    ASSUME TypeOK, NEW r \in Run, NEW id \in ResponseIds, NEW end \in Refused,
           Refuse(r, end, id)
    PROVE  EndsWith(r, id, <<"call">>) \/ EndsWith(r, id, <<"call", "retry">>)
BY DEF Refuse, Settle, EndsWith, Endings, TypeOK

LEMMA RejectionEnds ==
    ASSUME TypeOK, NEW r \in Run, NEW id \in ResponseIds, NEW end \in Thrown,
           Reject(r, end, id)
    PROVE  EndsWith(r, id, <<>>) \/ EndsWith(r, id, <<"retry">>)
BY DEF Reject, Settle, EndsWith, Endings, TypeOK

\* The log of an open call goes on to be that of an open call.
LEMMA OpenLogGoesOn ==
    ASSUME NEW s \in Seq(Events), NEW reported, OpenLog(s, reported)
    PROVE  /\ OpenLog(Append(s, "delta"), reported)
           /\ \A id : reported = None /\ id # None => OpenLog(Append(s, "created"), id)
<1>1. /\ Len(s) \in Nat
      /\ \A e : /\ Len(Append(s, e)) = Len(s) + 1
                /\ Append(s, e)[Len(s) + 1] = e
                /\ \A i \in 1 .. Len(s) : Append(s, e)[i] = s[i]
  OBVIOUS
<1>2. OpenLog(Append(s, "delta"), reported)
  BY <1>1 DEF OpenLog
<1>3. ASSUME NEW id, reported = None, id # None PROVE OpenLog(Append(s, "created"), id)
  BY <1>1, <1>3 DEF OpenLog
<1> QED
  BY <1>2, <1>3

\* Whatever is emitted at its end, the log tells of the call: an id before
\* stage:llm-call, and after that a retry at most.
LEMMA EndedLogTells ==
    ASSUME NEW s \in Seq(Events), NEW reported, OpenLog(s, reported),
           NEW mid \in {<<>>, <<"created">>}, mid = <<"created">> => reported = None,
           NEW events \in Endings, NEW settled, NEW id,
           events \in {<<"call">>, <<"call", "retry">>} => settled = id
    PROVE  Tells(s \o mid \o events, settled, id)
<1> DEFINE u == s \o mid
           t == u \o events
<1>1. mid \in Seq(Events) /\ events \in Seq(Events)
  <2>1. /\ <<>> \in Seq(Events) /\ <<"created">> \in Seq(Events)
        /\ <<"retry">> \in Seq(Events) /\ <<"call">> \in Seq(Events)
    BY DEF Events
  <2>2. <<"call", "retry">> \in Seq(Events)
    BY DEF Events
  <2> QED
    BY <2>1, <2>2 DEF Endings
<1>2. /\ u \in Seq(Events) /\ Len(u) \in Nat /\ Len(u) > 0 /\ u[1] = "request"
      /\ \A i \in 2 .. Len(u) : u[i] \in {"created", "delta"}
      /\ \A i, j \in 1 .. Len(u) : u[i] = "created" /\ u[j] = "created" => i = j
  <2>1. CASE mid = <<>>
    <3>1. u = s
      BY <2>1
    <3> QED
      BY <3>1 DEF OpenLog
  <2>2. CASE mid = <<"created">>
    <3>1. u = Append(s, "created")
      BY <2>2
    <3>2. OpenLog(s, None)
      BY <2>2
    <3>3. OpenLog(Append(s, "created"), 1)
      BY <3>2, OpenLogGoesOn DEF None
    <3> QED
      BY <1>1, <3>1, <3>3 DEF OpenLog
  <2> QED
    BY <2>1, <2>2
<1> HIDE DEF u
<1>3. /\ t \in Seq(Events)
      /\ Len(t) = Len(u) + Len(events)
      /\ \A i \in 1 .. Len(u) : t[i] = u[i]
      /\ \A i \in 1 .. Len(events) : t[Len(u) + i] = events[i]
  BY <1>1, <1>2
<1>4. /\ Len(events) \in {0, 1, 2}
      /\ Len(events) = 1 => events[1] \in {"retry", "call"}
      /\ Len(events) = 2 => events[1] = "call" /\ events[2] = "retry"
      /\ Len(events) = 0 \/ events[1] = "retry" \/ settled = id
  BY DEF Endings
<1> HIDE DEF t
<1>5. DOMAIN t = 1 .. Len(t) /\ Len(t) \in Nat
  BY <1>3
<1>6. \A i \in DOMAIN t :
         \/ i \in 1 .. Len(u) /\ t[i] = u[i]
         \/ i = Len(u) + 1 /\ t[i] = events[1] /\ Len(events) \in {1, 2}
         \/ i = Len(u) + 2 /\ t[i] = events[2] /\ Len(events) = 2
  <2> SUFFICES ASSUME NEW i \in DOMAIN t, i \notin 1 .. Len(u)
               PROVE  \/ i = Len(u) + 1 /\ t[i] = events[1] /\ Len(events) \in {1, 2}
                      \/ i = Len(u) + 2 /\ t[i] = events[2] /\ Len(events) = 2
    BY <1>3
  <2> DEFINE k == i - Len(u)
  <2>1. k \in 1 .. Len(events) /\ i = Len(u) + k
    BY <1>2, <1>3, <1>4, <1>5
  <2>2. t[i] = events[k]
    BY <1>3, <2>1
  <2> HIDE DEF k
  <2> QED
    BY <1>2, <1>4, <2>1, <2>2
<1>7. \A i \in DOMAIN t : i \in Nat /\ i > 0
  BY <1>5
<1>8. \A i \in 1 .. Len(u) : u[i] \in {"created", "delta"} \/ i = 1
  BY <1>2
<1>9. \A i \in DOMAIN t : t[i] = "request" <=> i = 1
  BY <1>2, <1>4, <1>6, <1>7, <1>8
<1>10. \A i \in DOMAIN t : t[i] = "created" => i \in 1 .. Len(u) /\ u[i] = "created"
  BY <1>4, <1>6
<1>11. \A i \in DOMAIN t : t[i] = "call" => i = Len(u) + 1 /\ settled = id
  BY <1>2, <1>4, <1>6, <1>8
<1>12. \A i \in DOMAIN t : i > Len(u) + 1 => t[i] = "retry"
  BY <1>2, <1>4, <1>6
<1>13. \A i, j \in DOMAIN t : t[i] = "created" /\ t[j] = "created" => i = j
  BY <1>2, <1>10
<1>14. \A i, e \in DOMAIN t : t[i] = "created" /\ t[e] = "call" => i < e
  BY <1>2, <1>7, <1>10, <1>11
<1>15. \A e \in DOMAIN t : t[e] = "call" => \A j \in e + 1 .. Len(t) : t[j] = "retry"
  <2> SUFFICES ASSUME NEW e \in DOMAIN t, t[e] = "call", NEW j \in e + 1 .. Len(t)
               PROVE  t[j] = "retry"
    OBVIOUS
  <2>1. e = Len(u) + 1 /\ j \in DOMAIN t /\ j > Len(u) + 1
    BY <1>2, <1>5, <1>11
  <2> QED
    BY <1>12, <2>1
<1>16. Tells(t, settled, id)
  BY <1>9, <1>11, <1>13, <1>14, <1>15 DEF Tells
<1> QED
  BY <1>16 DEF t, u

\* The log of a call that ends.
LEMMA EndTells ==
    ASSUME TypeOK, NEW r \in Run, OpenLog(log[r], responseId[r]), NEW id \in ResponseIds,
           NEW events, EndsWith(r, id, events), NEW own,
           events \in {<<"call">>, <<"call", "retry">>} =>
              own = id /\ responseId[r] \in {None, id}
    PROVE  /\ Tells(log'[r], responseId'[r], own)
           /\ events = <<"call">> => responseId'[r] = own
           /\ \A q \in Run \ {r} : log'[q] = log[q] /\ responseId'[q] = responseId[q]
<1> DEFINE mid == IF responseId[r] = None /\ id # None THEN <<"created">> ELSE <<>>
<1>1. /\ log \in [Run -> Seq(Events)] /\ responseId \in [Run -> ResponseIds]
  BY DEF TypeOK, Events, ResponseIds
<1>2. /\ log'[r] = log[r] \o mid \o events
      /\ responseId'[r] = IF responseId[r] = None /\ id # None THEN id ELSE responseId[r]
      /\ \A q \in Run \ {r} : log'[q] = log[q] /\ responseId'[q] = responseId[q]
  BY <1>1 DEF EndsWith, LogIdThen
<1>3. mid \in {<<>>, <<"created">>} /\ (mid = <<"created">> => responseId[r] = None)
  OBVIOUS
<1> HIDE DEF mid
<1>4. events \in {<<"call">>, <<"call", "retry">>} => responseId'[r] = own
  BY <1>2
<1>5. events \in Endings /\ log[r] \in Seq(Events)
  BY <1>1 DEF EndsWith
<1>6. Tells(log[r] \o mid \o events, responseId'[r], own)
  BY <1>3, <1>4, <1>5, EndedLogTells
<1> QED
  BY <1>2, <1>4, <1>6

(***************************************************************************)
(* Each step keeps the invariant.                                          *)
(***************************************************************************)
StageKept(q) == CallInv(q) /\ LogInv(q) /\ TurnInv(q)

\* A step of one stage touches no other, and what was accepted stays so.
LEMMA OthersKept ==
    ASSUME CInv, NEW r \in Run, setting' = setting, returned' = returned,
           \A q \in Run \ {r} :
              /\ pc'[q] = pc[q] /\ log'[q] = log[q] /\ responseId'[q] = responseId[q]
              /\ outcome'[q] = outcome[q] /\ call'[q] = call[q]
              /\ captured'[q] = captured[q] /\ previous'[q] = previous[q],
           r \in returned => outcome'[r] = outcome[r] /\ responseId'[r] = responseId[r]
    PROVE  /\ \A id : Accepted(id) => Accepted(id)'
           /\ \A q \in Run \ {r} : StageKept(q)'
<1>1. \A id : Accepted(id) => Accepted(id)'
  BY DEF Accepted, CInv, ConversationTyped
<1>2. ASSUME NEW q \in Run \ {r} PROVE StageKept(q)'
  <2>1. CallInv(q)'
    BY DEF CInv, CallInv, transport, runsOneRound
  <2>2. LogInv(q)'
    BY DEF CInv, LogInv, rawResponseId, transport
  <2>3. TurnInv(q)'
    <3>1. ASSUME previous[q] # None PROVE Accepted(previous[q])'
      <4>1. Accepted(previous[q])
        BY <3>1 DEF CInv, TurnInv
      <4>2. \E t \in returned' : outcome'[t] = "completed" /\ responseId'[t] = previous[q]
        BY <1>1, <4>1 DEF Accepted
      <4> QED
        BY <4>2 DEF Accepted
    <3> QED
      BY <3>1 DEF CInv, TurnInv, transport, Accepted
  <2> QED
    BY <2>1, <2>2, <2>3 DEF StageKept
<1> QED
  BY <1>1, <1>2

\* The chain stays on accepted answers when no request is added.
LEMMA ChainKept ==
    ASSUME CInv, RecordsKept, previous' = previous, lastResponseId' = lastResponseId,
           \A q \in Run : pc[q] # "idle" => pc'[q] # "idle",
           \A id : Accepted(id) => Accepted(id)'
    PROVE  ChainInv'
<1>1. lastResponseId' # None => Accepted(lastResponseId)'
  BY DEF CInv, ChainInv, Accepted
<1>2. ASSUME NEW n \in DOMAIN responses'
      PROVE  /\ responses'[n].previous = previous'[responses'[n].run]
             /\ pc'[responses'[n].run] # "idle"
  <2>1. n \in DOMAIN responses
    BY DEF RecordsKept, CInv, ConversationTyped
  <2>2. responses[n] \in Response
    BY <2>1 DEF CInv, ConversationTyped
  <2>3. responses[n].run \in Run
    BY <2>2 DEF Response
  <2> QED
    BY <2>1, <2>3 DEF RecordsKept, SameRequest, CInv, ChainInv
<1> QED
  BY <1>1, <1>2 DEF ChainInv

\* Where the call of r is now.
LEMMA CallOf ==
    ASSUME ConversationTyped, NEW r \in Run, NEW c, CallBecomes(r, c)
    PROVE  /\ call' \in [Run -> [at : Points, round : Nat, id : ResponseIds,
                                 submitted : BOOLEAN]]
           /\ call'[r] = c
           /\ \A q \in Run \ {r} : call'[q] = call[q]
BY DEF ConversationTyped, CallBecomes

\* The call of r ends with these events, whether it rejects or resolves.
LEMMA EndKeeps ==
    ASSUME CInv, TypeOK, NEW r \in Run, NEW id \in ResponseIds, NEW events,
           EndsWith(r, id, events), NEW c, CallBecomes(r, c), c.at = "none",
           c.id = call[r].id, RecordsKept, setting' = setting, returned' = returned,
           previous' = previous, lastResponseId' = lastResponseId,
           captured' \in [Run -> ResponseIds],
           \A q \in Run \ {r} : captured'[q] = captured[q],
           transport = "chat" => captured'[r] = captured[r],
           events \in {<<"call">>, <<"call", "retry">>} => id = rawResponseId(r),
           events = <<"call">> /\ r \in setting.turns => captured'[r] = id
    PROVE  CInv'
<1>1. /\ pc[r] = "calling" /\ pc'[r] \in {"backoff", "settled"}
      /\ pc'[r] = "backoff" => outcome'[r] = outcome[r]
      /\ outcome'[r] = "completed" => outcome[r] = "completed" \/ events = <<"call">>
      /\ \A q \in Run \ {r} : pc'[q] = pc[q] /\ outcome'[q] = outcome[q]
  BY DEF EndsWith
<1>2. /\ CallInv(r) /\ OpenLog(log[r], responseId[r]) /\ TurnInv(r)
      /\ outcome[r] = "none" /\ r \notin returned
  BY <1>1 DEF CInv, LogInv, TurnInv
<1>3. /\ call' \in [Run -> [at : Points, round : Nat, id : ResponseIds, submitted : BOOLEAN]]
      /\ call'[r] = c /\ \A q \in Run \ {r} : call'[q] = call[q]
  BY CallOf DEF CInv
<1>4. events \in {<<"call">>, <<"call", "retry">>} =>
         rawResponseId(r) = id /\ responseId[r] \in {None, id}
  BY <1>1, <1>2 DEF CallInv, rawResponseId
<1>5. /\ Tells(log'[r], responseId'[r], rawResponseId(r))
      /\ events = <<"call">> => responseId'[r] = rawResponseId(r)
      /\ \A q \in Run \ {r} : log'[q] = log[q] /\ responseId'[q] = responseId[q]
  BY <1>2, <1>4, EndTells
<1>6. rawResponseId(r)' = rawResponseId(r)
  BY <1>3 DEF rawResponseId, transport
<1>7. /\ \A x : Accepted(x) => Accepted(x)'
      /\ \A q \in Run \ {r} : StageKept(q)'
  BY <1>1, <1>2, <1>3, <1>5, OthersKept
<1>8. CallInv(r)'
  BY <1>1, <1>3 DEF CallInv
<1>9. LogInv(r)'
  BY <1>1, <1>5, <1>6 DEF LogInv
<1>10. TurnInv(r)'
  <2>1. outcome'[r] = "completed" /\ r \in setting.turns => captured'[r] = responseId'[r]
    BY <1>1, <1>2, <1>5
  <2>2. previous[r] # None => Accepted(previous[r])'
    BY <1>2, <1>7 DEF TurnInv, Accepted
  <2>3. pc'[r] # "settled" => outcome'[r] = "none" /\ r \notin returned'
    BY <1>1, <1>2
  <2>4. (transport = "chat")' => captured'[r] = None
    BY <1>2 DEF TurnInv, transport
  <2> QED
    BY <2>1, <2>2, <2>3, <2>4 DEF TurnInv, Accepted
<1>11. ChainInv'
  BY <1>1, <1>7, ChainKept
<1>12. ConversationTyped'
  BY <1>3 DEF CInv, ConversationTyped, RecordsKept
<1> QED
  BY <1>7, <1>8, <1>9, <1>10, <1>11, <1>12 DEF CInv, StageKept

LEMMA FailsKeeps ==
    ASSUME CInv, TypeOK, NEW r \in Run, Fails(r), UNCHANGED <<setting, conversationVars>>
    PROVE  CInv'
<1>1. PICK c : CallBecomes(r, c) /\ c.at = "none" /\ c.id = call[r].id
  BY DEF Fails
<1>2. EndsWith(r, None, <<>>) \/ EndsWith(r, None, <<"retry">>)
  BY RejectionEnds DEF Fails, ResponseIds
<1>3. PICK events \in {<<>>, <<"retry">>} : EndsWith(r, None, events)
  BY <1>2
<1>4. events \notin {<<"call">>, <<"call", "retry">>}
  BY <1>3
<1>5. /\ setting' = setting /\ returned' = returned /\ previous' = previous
      /\ lastResponseId' = lastResponseId /\ captured' = captured
  BY DEF conversationVars
<1>6. captured' \in [Run -> ResponseIds] /\ None \in ResponseIds /\ RecordsKept
  BY <1>5 DEF CInv, ConversationTyped, ResponseIds, Fails
<1> QED
  BY <1>1, <1>3, <1>4, <1>5, <1>6, EndKeeps

LEMMA ResolvedKeeps ==
    ASSUME CInv, TypeOK, NEW r \in Run, Resolved(r),
           captured' = [captured EXCEPT
                          ![r] = IF r \notin setting.turns \/ rawResponseId(r) = None THEN @
                                 ELSE rawResponseId(r)],
           UNCHANGED <<lastResponseId, closed, previous, returned>>
    PROVE  CInv'
<1> DEFINE id == rawResponseId(r)
<1>1. /\ setting' = setting /\ responses' = responses
      /\ call[r].at \notin {"none", "posting"} /\ ResolvesWith(r, id)
  BY DEF Resolved, Delivers, at
<1>2. id \in ResponseIds /\ (id = None <=> transport = "chat")
  BY <1>1, CallTyped DEF rawResponseId, CInv, CallInv, ResponseIds
<1>3. PICK c : CallBecomes(r, c) /\ c.at = "none" /\ c.id = call[r].id
  BY <1>1, MovesIs DEF ResolvesWith, CInv, Points
<1>4. PICK events \in Endings : EndsWith(r, id, events)
  BY <1>1, <1>2, SuccessEnds, RefusalEnds, RejectionEnds DEF ResolvesWith, Endings, Thrown
<1>5. /\ captured \in [Run -> ResponseIds] /\ captured' \in [Run -> ResponseIds]
      /\ \A q \in Run \ {r} : captured'[q] = captured[q]
      /\ captured'[r] = IF r \notin setting.turns \/ id = None THEN captured[r] ELSE id
  BY <1>2 DEF CInv, ConversationTyped
<1>6. r \in setting.turns => captured'[r] = id
  BY <1>2, <1>5 DEF CInv, TurnInv
<1>7. transport = "chat" => captured'[r] = captured[r]
  BY <1>2, <1>5
<1>8. RecordsKept
  BY <1>1, SameRecords DEF CInv
<1> QED
  BY <1>1, <1>2, <1>3, <1>4, <1>5, <1>6, <1>7, <1>8, EndKeeps

\* The steps of a call that its stage does not notice, or that emit text or an
\* id.
LEMMA OpenKeeps ==
    ASSUME CInv, TypeOK, NEW r \in Run, GoesOn(r) \/ Delta(r) \/ Created(r),
           UNCHANGED <<setting, conversationVars>>
    PROVE  CInv'
<1>1. /\ pc[r] = "calling" /\ pc' = pc /\ outcome' = outcome /\ responses' = responses
      /\ \A q \in Run \ {r} : /\ call'[q] = call[q] /\ log'[q] = log[q]
                              /\ responseId'[q] = responseId[q]
      /\ call' \in [Run -> [at : Points, round : Nat, id : ResponseIds, submitted : BOOLEAN]]
  <2>1. CASE GoesOn(r)
    <3>1. PICK c : CallBecomes(r, c)
      BY <2>1 DEF GoesOn
    <3> QED
      BY <2>1, <3>1, CallOf DEF GoesOn, CInv, CallInv, stageVars
  <2>2. CASE Delta(r) \/ Created(r)
    BY <2>2 DEF Delta, Created, TextDelta, ResponseCreated, CInv, ConversationTyped, TypeOK
  <2> QED
    BY <2>1, <2>2
<1>2. /\ setting' = setting /\ returned' = returned /\ previous' = previous
      /\ lastResponseId' = lastResponseId /\ captured' = captured
  BY DEF conversationVars
<1>3. /\ CallInv(r) /\ OpenLog(log[r], responseId[r]) /\ TurnInv(r)
      /\ outcome[r] = "none" /\ r \notin returned
  BY <1>1 DEF CInv, LogInv, TurnInv
<1>4. /\ \A x : Accepted(x) => Accepted(x)'
      /\ \A q \in Run \ {r} : StageKept(q)'
  BY <1>1, <1>2, <1>3, OthersKept
<1>5. CallInv(r)' /\ OpenLog(log[r], responseId[r])'
  <2>1. CASE GoesOn(r)
    <3>1. PICK c : /\ CallBecomes(r, c) /\ c.id = call[r].id
                   /\ c.at \notin {"none", "reading"}
                   /\ c.at \in {"posting", "handling"} => setting.tools
      BY <2>1 DEF GoesOn
    <3>2. call'[r] = c
      BY <3>1, CallOf DEF CInv
    <3>3. responseId' = responseId /\ log' = log /\ call[r].id # None
      BY <2>1, <1>3 DEF GoesOn, stageVars, CallInv
    <3> QED
      BY <1>1, <1>2, <1>3, <3>1, <3>2, <3>3 DEF CallInv, runsOneRound, transport
  <2>2. log \in [Run -> Seq(Events)] /\ responseId \in [Run -> ResponseIds]
    BY DEF TypeOK, Events, ResponseIds
  <2>3. CASE Delta(r)
    <3>1. /\ call' = call /\ responseId' = responseId
          /\ log'[r] = Append(log[r], "delta")
      BY <2>2, <2>3 DEF Delta, TextDelta
    <3>2. OpenLog(log'[r], responseId'[r])
      BY <1>3, <2>2, <3>1, OpenLogGoesOn
    <3> QED
      BY <1>1, <1>2, <1>3, <3>1, <3>2 DEF CallInv, runsOneRound, transport
  <2>4. CASE Created(r)
    <3>1. /\ call' = call /\ responseId[r] = None /\ responseId'[r] = call[r].id
          /\ log'[r] = Append(log[r], "created") /\ call[r].at = "reading" /\ runsOneRound
      BY <2>2, <2>4 DEF Created, ResponseCreated, at
    <3>2. call[r].id # None /\ transport # "chat"
      BY <1>3, <3>1 DEF CallInv
    <3>3. OpenLog(log'[r], responseId'[r])
      BY <1>3, <2>2, <3>1, <3>2, OpenLogGoesOn
    <3> QED
      BY <1>1, <1>2, <1>3, <3>1, <3>2, <3>3 DEF CallInv, runsOneRound, transport
  <2> QED
    BY <2>1, <2>3, <2>4
<1>6. LogInv(r)'
  BY <1>1, <1>5 DEF LogInv
<1>7. TurnInv(r)'
  <2>1. previous[r] # None => Accepted(previous[r])'
    <3> SUFFICES ASSUME previous[r] # None PROVE Accepted(previous[r])'
      OBVIOUS
    <3>1. Accepted(previous[r])
      BY <1>3 DEF TurnInv
    <3>2. \E t \in returned' : outcome'[t] = "completed" /\ responseId'[t] = previous[r]
      BY <1>4, <3>1 DEF Accepted
    <3> QED
      BY <1>2, <3>2 DEF Accepted
  <2> QED
    BY <1>1, <1>2, <1>3, <2>1 DEF TurnInv, transport, Accepted
<1>8. ChainInv'
  BY <1>1, <1>2, <1>4, ChainKept, SameRecords DEF CInv
<1>9. ConversationTyped'
  BY <1>1, <1>2 DEF CInv, ConversationTyped
<1> QED
  BY <1>4, <1>5, <1>6, <1>7, <1>8, <1>9 DEF CInv, StageKept

\* What a turn goes on from stays accepted.
LEMMA PreviousKept ==
    ASSUME NEW r \in Run, TurnInv(r), previous'[r] = previous[r],
           \A id : Accepted(id) => Accepted(id)'
    PROVE  previous'[r] # None => Accepted(previous[r])'
<1> SUFFICES ASSUME previous[r] # None PROVE Accepted(previous[r])'
  OBVIOUS
<1>1. Accepted(previous[r])
  BY DEF TurnInv
<1>2. \E t \in returned' : outcome'[t] = "completed" /\ responseId'[t] = previous[r]
  BY <1>1 DEF Accepted
<1> QED
  BY <1>2 DEF Accepted

\* The service accepts the request of r: the one step that adds to the chain.
LEMMA AcceptKeeps ==
    ASSUME CInv, TypeOK, NEW r \in Run, Accept(r, previous[r], quotedBy(r)),
           attempt(r) \in Nat, quotedBy(r) \in Nat,
           UNCHANGED <<setting, conversationVars>>
    PROVE  CInv'
<1> DEFINE new == [run |-> r, attempt |-> attempt(r), previous |-> previous[r],
                   quotes |-> quotedBy(r), status |-> "generating",
                   cancelAsked |-> FALSE]
           point == IF transport \in {"stream", "backgroundStream"} THEN "reading"
                    ELSE "answered"
           id == Len(responses) + 1
           c == [[call[r] EXCEPT !.at = point] EXCEPT !.id = id]
<1>1. /\ call[r].at = "posting" /\ id \in ResponseId
      /\ responses' = Append(responses, new)
      /\ call' = [call EXCEPT ![r].at = point, ![r].id = Len(responses')]
      /\ UNCHANGED stageVars
  BY DEF Accept, at
<1>2. /\ setting' = setting /\ returned' = returned /\ previous' = previous
      /\ lastResponseId' = lastResponseId /\ captured' = captured
      /\ pc' = pc /\ log' = log /\ responseId' = responseId /\ outcome' = outcome
  BY <1>1 DEF conversationVars, stageVars
<1>3. new \in Response /\ responses \in Seq(Response)
  BY DEF CInv, ConversationTyped, Response, Statuses
<1> HIDE DEF new
<1>4. /\ responses' \in Seq(Response) /\ Len(responses') = id
      /\ responses'[id] = new
      /\ \A n \in DOMAIN responses : responses'[n] = responses[n]
      /\ DOMAIN responses' = DOMAIN responses \cup {id}
  BY <1>1, <1>3
<1>5. /\ c \in [at : Points, round : Nat, id : ResponseIds, submitted : BOOLEAN]
      /\ c.at = point /\ c.id = id
  <2>1. point \in Points /\ id \in ResponseIds
    BY <1>1 DEF Points, ResponseIds
  <2> HIDE DEF point, id
  <2> QED
    BY <2>1, CallTyped DEF CInv
<1>6. call' = [call EXCEPT ![r] = c]
  BY <1>1, <1>4
<1> HIDE DEF c, id
<1>7. /\ call' \in [Run -> [at : Points, round : Nat, id : ResponseIds, submitted : BOOLEAN]]
      /\ call'[r] = c /\ \A q \in Run \ {r} : call'[q] = call[q]
  BY <1>5, <1>6, CallOf DEF CInv, CallBecomes
<1>8. /\ \A x : Accepted(x) => Accepted(x)'
      /\ \A q \in Run \ {r} : StageKept(q)'
  BY <1>2, <1>7, OthersKept
<1>9. /\ pc[r] = "calling" /\ CallInv(r) /\ OpenLog(log[r], responseId[r]) /\ TurnInv(r)
      /\ responseId[r] = None
  BY <1>1 DEF CInv, CallInv, LogInv
<1>10. c.id # None
  BY <1>1, <1>5, LlmAssumption
<1>11. CallInv(r)'
  BY <1>2, <1>5, <1>7, <1>9, <1>10 DEF CallInv, transport
<1>12. LogInv(r)'
  BY <1>2, <1>9 DEF LogInv
<1>13. TurnInv(r)'
  <2>1. previous'[r] # None => Accepted(previous[r])'
    BY <1>2, <1>8, <1>9, PreviousKept
  <2> QED
    BY <1>2, <1>9, <2>1 DEF TurnInv, transport
<1>14. ChainInv'
  <2>1. ASSUME NEW n \in DOMAIN responses'
        PROVE  /\ responses'[n].previous = previous'[responses'[n].run]
               /\ pc'[responses'[n].run] # "idle"
    <3>1. CASE n = id
      BY <1>2, <1>4, <1>9, <3>1 DEF new
    <3>2. CASE n \in DOMAIN responses
      BY <1>2, <1>4, <3>2 DEF CInv, ChainInv
    <3> QED
      BY <1>4, <3>1, <3>2
  <2>2. lastResponseId' # None => Accepted(lastResponseId)'
    <3>1. lastResponseId # None =>
             \E t \in returned' : outcome'[t] = "completed" /\ responseId'[t] = lastResponseId
      BY <1>8 DEF CInv, ChainInv, Accepted
    <3> QED
      BY <1>2, <3>1 DEF Accepted
  <2> QED
    BY <2>1, <2>2 DEF ChainInv
<1>15. ConversationTyped'
  BY <1>2, <1>4, <1>7 DEF CInv, ConversationTyped
<1> QED
  BY <1>8, <1>11, <1>12, <1>13, <1>14, <1>15 DEF CInv, StageKept

\* The stage calls respond.
LEMMA RespondKeeps ==
    ASSUME CInv, TypeOK, NEW r \in Run, Respond(r), UNCHANGED <<setting, conversationVars>>
    PROVE  CInv'
<1> DEFINE c == [[noCall EXCEPT !.at = "posting"] EXCEPT !.round = 1]
<1>1. /\ pc[r] = "top" /\ pc' = [pc EXCEPT ![r] = "calling"]
      /\ log' = [log EXCEPT ![r] = <<"request">>]
      /\ responseId' = [responseId EXCEPT ![r] = None] /\ outcome' = outcome
      /\ responses' = responses
      /\ call' = [call EXCEPT ![r] = [noCall EXCEPT !.at = "posting", !.round = 1]]
  BY DEF Respond, Request
<1>2. CallBecomes(r, c) /\ c.at = "posting" /\ c.id = None
  <2>1. /\ noCall \in [at : Points, round : Nat, id : ResponseIds, submitted : BOOLEAN]
        /\ noCall.id = None /\ "posting" \in Points
    BY DEF noCall, Points, ResponseIds
  <2>2. /\ c \in [at : Points, round : Nat, id : ResponseIds, submitted : BOOLEAN]
        /\ c.at = "posting" /\ c.id = None
    BY <2>1
  <2>3. call' = [call EXCEPT ![r] = c]
    BY <1>1
  <2> QED
    BY <2>2, <2>3 DEF CallBecomes
<1> HIDE DEF c
<1>3. /\ call' \in [Run -> [at : Points, round : Nat, id : ResponseIds, submitted : BOOLEAN]]
      /\ call'[r] = c /\ \A q \in Run \ {r} : call'[q] = call[q]
  BY <1>2, CallOf DEF CInv
<1>4. /\ setting' = setting /\ returned' = returned /\ previous' = previous
      /\ lastResponseId' = lastResponseId /\ captured' = captured
  BY DEF conversationVars
<1>5. /\ pc'[r] = "calling" /\ log'[r] = <<"request">> /\ responseId'[r] = None
      /\ \A q \in Run \ {r} : /\ pc'[q] = pc[q] /\ log'[q] = log[q]
                              /\ responseId'[q] = responseId[q]
  BY <1>1 DEF TypeOK
<1>6. TurnInv(r) /\ outcome[r] = "none" /\ r \notin returned
  BY <1>1 DEF CInv, TurnInv
<1>7. /\ \A x : Accepted(x) => Accepted(x)'
      /\ \A q \in Run \ {r} : StageKept(q)'
  BY <1>1, <1>3, <1>4, <1>5, <1>6, OthersKept
<1>8. CallInv(r)'
  BY <1>2, <1>3, <1>5 DEF CallInv
<1>9. LogInv(r)'
  BY <1>5 DEF LogInv, OpenLog
<1>10. TurnInv(r)'
  <2>1. previous'[r] # None => Accepted(previous[r])'
    BY <1>4, <1>6, <1>7, PreviousKept
  <2> QED
    BY <1>1, <1>4, <1>6, <2>1 DEF TurnInv, transport
<1>11. ChainInv'
  <2>1. RecordsKept
    BY <1>1, SameRecords DEF CInv
  <2>2. \A q \in Run : pc[q] # "idle" => pc'[q] # "idle"
    <3>1. pc'[r] # "idle"
      BY <1>5
    <3> QED
      BY <1>5, <3>1
  <2> QED
    BY <1>4, <1>7, <2>1, <2>2, ChainKept
<1>12. ConversationTyped'
  BY <1>1, <1>3, <1>4 DEF CInv, ConversationTyped
<1> QED
  BY <1>7, <1>8, <1>9, <1>10, <1>11, <1>12 DEF CInv, StageKept

\* The loop ends without a call, or goes on after a backoff.
LEMMA LoopKeeps ==
    ASSUME CInv, TypeOK, NEW r \in Run, AbortAtTop(r) \/ NoAttempts(r) \/ BackoffOver(r),
           UNCHANGED <<call, responses, setting, conversationVars>>
    PROVE  CInv'
<1>1. /\ pc[r] \in {"top", "backoff"} /\ pc'[r] \in {"top", "settled"}
      /\ pc'[r] = "top" => outcome'[r] = outcome[r]
      /\ outcome'[r] \in {outcome[r], "skipped", "failed"}
      /\ log' = log /\ responseId' = responseId
      /\ \A q \in Run \ {r} : pc'[q] = pc[q] /\ outcome'[q] = outcome[q]
  BY DEF AbortAtTop, NoAttempts, BackoffOver, Settle, TypeOK
<1>2. /\ setting' = setting /\ returned' = returned /\ previous' = previous
      /\ lastResponseId' = lastResponseId /\ captured' = captured
      /\ call' = call /\ responses' = responses
  BY DEF conversationVars
<1>3. /\ CallInv(r) /\ LogInv(r) /\ TurnInv(r) /\ outcome[r] = "none" /\ r \notin returned
  BY <1>1 DEF CInv, TurnInv
<1>4. /\ \A x : Accepted(x) => Accepted(x)'
      /\ \A q \in Run \ {r} : StageKept(q)'
  BY <1>1, <1>2, <1>3, OthersKept
<1>5. CallInv(r)' /\ LogInv(r)'
  BY <1>1, <1>2, <1>3 DEF CallInv, LogInv, rawResponseId, transport
<1>6. TurnInv(r)'
  <2>1. previous'[r] # None => Accepted(previous[r])'
    BY <1>2, <1>3, <1>4, PreviousKept
  <2> QED
    BY <1>1, <1>2, <1>3, <2>1 DEF TurnInv, transport
<1>7. ChainInv'
  <2>1. RecordsKept
    BY <1>2, SameRecords DEF CInv
  <2>2. \A q \in Run : pc[q] # "idle" => pc'[q] # "idle"
    BY <1>1
  <2> QED
    BY <1>2, <1>4, <2>1, <2>2, ChainKept
<1>8. ConversationTyped'
  BY <1>2 DEF CInv, ConversationTyped
<1> QED
  BY <1>4, <1>5, <1>6, <1>7, <1>8 DEF CInv, StageKept

\* A caller begins a turn, from the head of the chain or a branch.
LEMMA TurnKeeps ==
    ASSUME CInv, TypeOK, NEW r \in Run, Turn(r)
    PROVE  CInv'
<1>1. PICK id \in {lastResponseId} \cup branches : previous' = [previous EXCEPT ![r] = id]
  BY DEF Turn
<1>2. id \in ResponseIds /\ (id # None => Accepted(id))
  <2>1. CASE id = lastResponseId
    BY <2>1 DEF CInv, ConversationTyped, ChainInv
  <2>2. CASE id \in branches
    <3>1. PICK t \in returned : outcome[t] = "completed" /\ id = captured[t]
      BY <2>2 DEF branches
    <3>2. t \in Run /\ captured[t] = responseId[t] /\ id \in ResponseIds
      BY <3>1 DEF CInv, ConversationTyped, TurnInv
    <3> QED
      BY <3>1, <3>2 DEF Accepted
  <2> QED
    BY <2>1, <2>2
<1>3. /\ pc[r] = "idle" /\ pc' = [pc EXCEPT ![r] = "top"]
      /\ log' = log /\ responseId' = responseId /\ outcome' = outcome
      /\ setting' = setting /\ call' = call /\ responses' = responses
      /\ lastResponseId' = lastResponseId /\ captured' = captured /\ returned' = returned
  BY DEF Turn, Start, providerVars
<1>4. /\ pc'[r] = "top" /\ \A q \in Run \ {r} : pc'[q] = pc[q]
      /\ previous'[r] = id /\ \A q \in Run \ {r} : previous'[q] = previous[q]
      /\ previous' \in [Run -> ResponseIds]
  BY <1>1, <1>2, <1>3 DEF TypeOK, CInv, ConversationTyped
<1>5. CallInv(r) /\ LogInv(r) /\ TurnInv(r) /\ outcome[r] = "none" /\ r \notin returned
  BY <1>3 DEF CInv, TurnInv
<1>6. /\ \A x : Accepted(x) => Accepted(x)'
      /\ \A q \in Run \ {r} : StageKept(q)'
  BY <1>3, <1>4, <1>5, OthersKept
<1>7. CallInv(r)' /\ LogInv(r)'
  BY <1>3, <1>4, <1>5 DEF CallInv, LogInv, rawResponseId, transport
<1>8. TurnInv(r)'
  <2>1. ASSUME id # None PROVE Accepted(previous[r])'
    <3>1. \E t \in returned' : outcome'[t] = "completed" /\ responseId'[t] = id
      BY <1>2, <1>6, <2>1 DEF Accepted
    <3> QED
      BY <1>4, <3>1 DEF Accepted
  <2> QED
    BY <1>3, <1>4, <1>5, <2>1 DEF TurnInv, transport
<1>9. ChainInv'
  <2>1. ASSUME NEW n \in DOMAIN responses
        PROVE  /\ responses[n].previous = previous'[responses[n].run]
               /\ pc'[responses[n].run] # "idle"
    <3>1. responses[n] \in Response
      BY DEF CInv, ConversationTyped
    <3>2. responses[n].run \in Run \ {r}
      BY <1>3, <3>1 DEF CInv, ChainInv, Response
    <3> QED
      BY <1>4, <3>2 DEF CInv, ChainInv
  <2>2. lastResponseId' # None => Accepted(lastResponseId)'
    BY <1>3, <1>6 DEF CInv, ChainInv, Accepted
  <2> QED
    BY <1>3, <2>1, <2>2 DEF ChainInv
<1>10. ConversationTyped'
  BY <1>3, <1>4 DEF CInv, ConversationTyped
<1> QED
  BY <1>6, <1>7, <1>8, <1>9, <1>10 DEF CInv, StageKept

\* A pipeline starts a stage that is no turn: nothing of the conversation moves.
LEMMA StageStartKeeps ==
    ASSUME CInv, TypeOK, NEW r \in Run, StageStarts(r)
    PROVE  CInv'
<1>1. /\ pc[r] = "idle" /\ pc' = [pc EXCEPT ![r] = "top"]
      /\ log' = log /\ responseId' = responseId /\ outcome' = outcome
      /\ setting' = setting /\ call' = call /\ responses' = responses
      /\ lastResponseId' = lastResponseId /\ captured' = captured
      /\ previous' = previous /\ returned' = returned
  BY DEF StageStarts, Start, providerVars, conversationVars
<1>2. pc'[r] = "top" /\ \A q \in Run \ {r} : pc'[q] = pc[q]
  BY <1>1 DEF TypeOK
<1>3. CallInv(r) /\ LogInv(r) /\ TurnInv(r) /\ outcome[r] = "none" /\ r \notin returned
  BY <1>1 DEF CInv, TurnInv
<1>4. /\ \A x : Accepted(x) => Accepted(x)'
      /\ \A q \in Run \ {r} : StageKept(q)'
  BY <1>1, <1>2, <1>3, OthersKept
<1>5. CallInv(r)' /\ LogInv(r)'
  BY <1>1, <1>2, <1>3 DEF CallInv, LogInv, rawResponseId, transport
<1>6. TurnInv(r)'
  <2>1. previous'[r] # None => Accepted(previous[r])'
    BY <1>1, <1>3, <1>4, PreviousKept
  <2> QED
    BY <1>1, <1>2, <1>3, <2>1 DEF TurnInv, transport
<1>7. ChainInv'
  <2>1. RecordsKept
    BY <1>1, SameRecords DEF CInv
  <2>2. \A q \in Run : pc[q] # "idle" => pc'[q] # "idle"
    BY <1>1, <1>2
  <2> QED
    BY <1>1, <1>4, <2>1, <2>2, ChainKept
<1>8. ConversationTyped'
  BY <1>1 DEF CInv, ConversationTyped
<1> QED
  BY <1>4, <1>5, <1>6, <1>7, <1>8 DEF CInv, StageKept

\* The result of a turn moves the chain to an answer that was accepted.
LEMMA ReturnsKeeps ==
    ASSUME CInv, TypeOK, NEW r \in Run, TurnReturns(r)
    PROVE  CInv'
<1>1. /\ pc[r] = "settled" /\ r \in setting.turns /\ returned' = returned \cup {r}
      /\ lastResponseId' = IF outcome[r] = "completed" THEN captured[r] ELSE lastResponseId
      /\ UNCHANGED <<stageVars, providerVars, closed, previous, captured>>
  BY DEF TurnReturns
<1>2. /\ pc' = pc /\ log' = log /\ responseId' = responseId /\ outcome' = outcome
      /\ setting' = setting /\ call' = call /\ responses' = responses
      /\ previous' = previous /\ captured' = captured
  BY <1>1 DEF stageVars, providerVars
<1>3. \A x : Accepted(x) => Accepted(x)'
  BY <1>1, <1>2 DEF Accepted
<1>4. ASSUME NEW q \in Run PROVE StageKept(q)'
  <2>1. CallInv(q)' /\ LogInv(q)'
    BY <1>2 DEF CInv, CallInv, LogInv, rawResponseId, transport, runsOneRound
  <2>2. previous'[q] # None => Accepted(previous[q])'
    BY <1>2, <1>3, PreviousKept DEF CInv
  <2>3. TurnInv(q)'
    BY <1>1, <1>2, <2>2 DEF CInv, TurnInv, transport
  <2> QED
    BY <2>1, <2>3 DEF StageKept
<1>5. ChainInv'
  <2>1. CASE outcome[r] = "completed"
    <3>1. lastResponseId' = responseId[r]
      BY <1>1, <2>1 DEF CInv, TurnInv
    <3>2. \E t \in returned' : outcome'[t] = "completed" /\ responseId'[t] = lastResponseId'
      BY <1>1, <1>2, <2>1, <3>1
    <3> QED
      BY <1>2, <3>2 DEF CInv, ChainInv, Accepted
  <2>2. CASE outcome[r] # "completed"
    <3>1. RecordsKept
      BY <1>2, SameRecords DEF CInv
    <3> QED
      BY <1>1, <1>2, <1>3, <2>2, <3>1, ChainKept
  <2> QED
    BY <2>1, <2>2
<1>6. ConversationTyped'
  BY <1>1, <1>2 DEF CInv, ConversationTyped
<1> QED
  BY <1>4, <1>5, <1>6 DEF CInv, StageKept

\* The close, the abort and the service on its own touch no turn.
LEMMA QuietKeeps ==
    ASSUME CInv, Close \/ Signal \/ Server \/ UNCHANGED vars
    PROVE  CInv'
<1>1. /\ pc' = pc /\ log' = log /\ responseId' = responseId /\ outcome' = outcome
      /\ setting' = setting /\ call' = call
      /\ previous' = previous /\ captured' = captured /\ lastResponseId' = lastResponseId
      /\ returned' = returned
  BY DEF Close, Signal, Server, Abort, ResponseEnds, vars, stageVars, providerVars,
         conversationVars
<1>2. RecordsKept
  <2>1. CASE responses' = responses
    BY <2>1, SameRecords DEF CInv
  <2>2. CASE \E n \in DOMAIN responses, status \in Statuses :
                responses' = [responses EXCEPT ![n].status = status]
    <3>1. PICK n \in DOMAIN responses, status \in Statuses :
             responses' = [responses EXCEPT ![n].status = status]
      BY <2>2
    <3> DEFINE rec == [responses[n] EXCEPT !.status = status]
    <3>2. responses \in Seq(Response) /\ responses[n] \in Response
      BY DEF CInv, ConversationTyped
    <3>3. /\ rec \in Response /\ SameRequest(rec, responses[n])
          /\ responses' = [responses EXCEPT ![n] = rec]
      BY <3>1, <3>2 DEF Response, SameRequest
    <3> HIDE DEF rec
    <3> QED
      BY <3>2, <3>3, ExceptSeq DEF RecordsKept, SameRequest
  <2> QED
    BY <2>1, <2>2 DEF Close, Signal, Server, ResponseEnds, vars, providerVars, Statuses
<1>3. \A x : Accepted(x) => Accepted(x)'
  BY <1>1 DEF Accepted
<1>4. ASSUME NEW q \in Run PROVE StageKept(q)'
  BY <1>1 DEF StageKept, CInv, CallInv, LogInv, TurnInv, Accepted, rawResponseId,
              transport, runsOneRound
<1>5. ChainInv'
  BY <1>1, <1>2, <1>3, ChainKept
<1>6. ConversationTyped'
  BY <1>1, <1>2 DEF CInv, ConversationTyped, RecordsKept
<1> QED
  BY <1>4, <1>5, <1>6 DEF CInv, StageKept

LEMMA ConversationInitKeeps == ConversationInit => CInv
<1> SUFFICES ASSUME ConversationInit PROVE CInv
  OBVIOUS
<1>1. /\ Init /\ setting \in Settings /\ call = [r \in Run |-> noCall] /\ responses = <<>>
      /\ lastResponseId = None /\ previous = [r \in Run |-> None]
      /\ captured = [r \in Run |-> None] /\ returned = {}
  BY DEF ConversationInit, ProviderInit
<1>2. noCall \in [at : Points, round : Nat, id : ResponseIds, submitted : BOOLEAN]
  BY DEF noCall, Points, ResponseIds
<1>3. ConversationTyped
  BY <1>1, <1>2 DEF ConversationTyped, ResponseIds
<1>4. ASSUME NEW r \in Run PROVE CallInv(r) /\ LogInv(r) /\ TurnInv(r)
  <2>1. /\ pc[r] = "idle" /\ log[r] = <<>> /\ responseId[r] = None /\ outcome[r] = "none"
        /\ call[r].at = "none" /\ previous[r] = None /\ captured[r] = None
    BY <1>1 DEF Init, noCall
  <2>2. Tells(log[r], responseId[r], rawResponseId(r))
    BY <2>1 DEF Tells
  <2> QED
    BY <1>1, <2>1, <2>2 DEF CallInv, LogInv, TurnInv
<1>5. ChainInv
  BY <1>1 DEF ChainInv
<1> QED
  BY <1>3, <1>4, <1>5 DEF CInv

\* Every step of the conversation is one of a stage, or of none.
LEMMA StepRefines ==
    ASSUME CInv, TypeOK, [ConversationNext]_vars
    PROVE  [Next]_stageVars
<1>1. CASE Close \/ Server \/ UNCHANGED vars
  BY <1>1 DEF Close, Server, ResponseEnds, vars
<1>2. CASE Signal
  BY <1>2 DEF Signal, Next
<1>3. ASSUME NEW r \in Run, Turn(r) \/ StageStarts(r) PROVE [Next]_stageVars
  BY <1>3 DEF Turn, StageStarts, Next
<1>4. ASSUME NEW r \in Run, StageStep(r) PROVE [Next]_stageVars
  BY <1>4 DEF StageStep, Respond, Next, Loop
<1>5. ASSUME NEW r \in Run, CallStep(r, chainedOn(r), quotedBy(r)) PROVE [Next]_stageVars
  <2>1. Fails(r) \/ GoesOn(r) \/ Accept(r, chainedOn(r), quotedBy(r)) \/ Created(r) \/ Delta(r)
    BY <1>5, CallStepIs DEF CInv
  <2>2. CASE Fails(r)
    BY <2>2 DEF Fails, Next, CallEnds
  <2>3. CASE GoesOn(r) \/ Accept(r, chainedOn(r), quotedBy(r))
    BY <2>3 DEF GoesOn, Accept
  <2>4. CASE Created(r)
    <3>1. call[r].at = "reading" /\ ResponseCreated(r, call[r].id)
      BY <2>4 DEF Created, at
    <3>2. call[r].id \in ResponseId
      BY <3>1, CallTyped DEF CInv, CallInv, ResponseIds
    <3> QED
      BY <3>1, <3>2 DEF Next
  <2>5. CASE Delta(r)
    BY <2>5 DEF Delta, Next
  <2> QED
    BY <2>1, <2>2, <2>3, <2>4, <2>5
<1>6. ASSUME NEW r \in Run, Resolved(r) PROVE [Next]_stageVars
  <2>1. rawResponseId(r) \in ResponseId \cup {None}
    BY CallTyped DEF rawResponseId, CInv, ResponseIds
  <2> QED
    BY <1>6, <2>1 DEF Resolved, ResolvesWith, CallEnds, Next
<1>7. ASSUME NEW r \in Run, TurnReturns(r) PROVE [Next]_stageVars
  BY <1>7 DEF TurnReturns
<1> QED
  BY <1>1, <1>2, <1>3, <1>4, <1>5, <1>6, <1>7 DEF ConversationNext, ProviderStep

\* A call that is open belongs to an attempt, and quotes what its request did.
LEMMA OpenAttempt ==
    ASSUME IInv, NEW r \in Run, pc[r] = "calling"
    PROVE  attempt(r) \in Nat \ {0} /\ quotedBy(r) \in Nat
<1> DEFINE Rec == [suffix : Nat, end : CallEnd \cup {"open"}]
<1>1. calls[r] \in Seq(Rec)
  BY DEF IInv, TypeOK
<1>2. attempt(r) \in Nat \ {0}
  BY <1>1 DEF IInv, StageInv, AttemptsInOrder, attempt
<1>3. calls[r][attempt(r)].suffix \in Nat
  <2> HIDE DEF Rec
  <2>1. attempt(r) \in 1 .. Len(calls[r])
    BY <1>2 DEF attempt
  <2>2. calls[r][attempt(r)] \in Rec
    BY <1>1, <2>1, ElementOfSeq
  <2> QED
    BY <2>2 DEF Rec
<1> QED
  BY <1>2, <1>3 DEF quotedBy

LEMMA StepKeeps ==
    ASSUME CInv, IInv, [ConversationNext]_vars
    PROVE  CInv'
<1> TypeOK
  BY DEF IInv
<1>1. CASE Close \/ Signal \/ Server \/ UNCHANGED vars
  BY <1>1, QuietKeeps
<1>2. ASSUME NEW r \in Run, Turn(r) PROVE CInv'
  BY <1>2, TurnKeeps
<1>3. ASSUME NEW r \in Run, StageStep(r) PROVE CInv'
  BY <1>3, RespondKeeps, LoopKeeps DEF StageStep
<1>4. ASSUME NEW r \in Run, CallStep(r, chainedOn(r), quotedBy(r)), UNCHANGED conversationVars PROVE CInv'
  <2>1. setting' = setting
    BY <1>4 DEF CallStep
  <2>2. Fails(r) \/ GoesOn(r) \/ Accept(r, previous[r], quotedBy(r)) \/ Created(r) \/ Delta(r)
    BY <1>4, CallStepIs DEF CInv, chainedOn
  <2>3. CASE Accept(r, previous[r], quotedBy(r))
    <3>1. pc[r] = "calling"
      BY <2>3 DEF Accept, at, CInv, CallInv
    <3>2. attempt(r) \in Nat /\ quotedBy(r) \in Nat
      BY <3>1, OpenAttempt
    <3> QED
      BY <1>4, <2>1, <2>3, <3>2, AcceptKeeps
  <2> QED
    BY <1>4, <2>1, <2>2, <2>3, FailsKeeps, OpenKeeps
<1>5. ASSUME NEW r \in Run, ProviderStep(r) PROVE CInv'
  BY <1>4, <1>5, ResolvedKeeps DEF ProviderStep
<1>6. ASSUME NEW r \in Run, TurnReturns(r) PROVE CInv'
  BY <1>6, ReturnsKeeps
<1>7. ASSUME NEW r \in Run, StageStarts(r) PROVE CInv'
  BY <1>7, StageStartKeeps
<1> QED
  BY <1>1, <1>2, <1>3, <1>5, <1>6, <1>7 DEF ConversationNext

(***************************************************************************)
(* What the service was asked with.                                        *)
(***************************************************************************)
\* A request belongs to an attempt its stage has begun, and quotes what that
\* attempt was given, or nothing when it is a turn's.
RequestQuotes(asked, attempts, turns) ==
    /\ asked.attempt \in 1 .. Len(attempts[asked.run])
    /\ asked.quotes = IF asked.run \in turns THEN 0
                      ELSE attempts[asked.run][asked.attempt].suffix

QuoteInv == \A n \in DOMAIN responses : RequestQuotes(responses[n], calls, setting.turns)

\* No step takes an attempt back or changes what one was given.
LEMMA SuffixesKept ==
    ASSUME IInv, [Next]_stageVars, NEW r \in Run
    PROVE  /\ Len(calls[r]) \in Nat /\ Len(calls'[r]) \in Nat
           /\ Len(calls[r]) <= Len(calls'[r])
           /\ \A i \in 1 .. Len(calls[r]) : calls'[r][i].suffix = calls[r][i].suffix
<1> DEFINE Rec == [suffix : Nat, end : CallEnd \cup {"open"}]
           Kept == /\ Len(calls[r]) \in Nat /\ Len(calls'[r]) \in Nat
                   /\ Len(calls[r]) <= Len(calls'[r])
                   /\ \A i \in 1 .. Len(calls[r]) : calls'[r][i].suffix = calls[r][i].suffix
<1>1. TypeOK /\ calls \in [Run -> Seq(Rec)] /\ calls[r] \in Seq(Rec)
  BY DEF IInv, TypeOK
<1>2. ASSUME calls'[r] = calls[r] PROVE Kept
  BY <1>1, <1>2
<1>3. ASSUME NEW q \in Run, Request(q) PROVE Kept
  <2>1. CASE q = r
    <3> DEFINE new == [suffix |-> suffix[r], end |-> "open"]
    <3>1. calls'[r] = Append(calls[r], new)
      BY <1>1, <1>3, <2>1 DEF Request
    <3> HIDE DEF new
    <3> QED
      BY <1>1, <3>1
  <2>2. CASE q # r
    BY <1>1, <1>2, <1>3, <2>2 DEF Request
  <2> QED
    BY <2>1, <2>2
<1>4. ASSUME NEW q \in Run, CallEnds(q) PROVE Kept
  <2>1. PICK end \in CallEnd : Ended(q, end)
    BY <1>4 DEF CallEnds, Succeed, Refuse, Reject, CallEnd, Refused, Thrown
  <2>2. pc[q] = "calling" /\ AttemptsInOrder(q)
    BY <1>4 DEF CallEnds, Succeed, Refuse, Reject, IInv, StageInv
  <2>3. /\ Len(calls'[q]) = Len(calls[q])
        /\ \A i \in 1 .. Len(calls[q]) : calls'[q][i].suffix = calls[q][i].suffix
        /\ \A t \in Run \ {q} : calls'[t] = calls[t]
    BY <1>1, <2>1, <2>2, EndedCalls
  <2>4. CASE q = r
    BY <1>1, <2>3, <2>4
  <2>5. CASE q # r
    BY <1>2, <2>3, <2>5
  <2> QED
    BY <2>4, <2>5
<1>5. CASE \/ Abort \/ UNCHANGED stageVars
           \/ \E q \in Run : \/ Elsewhere(q) \/ TextDelta(q)
                            \/ \E id \in ResponseId : ResponseCreated(q, id)
  <2>1. calls' = calls
    BY <1>5 DEF Abort, Elsewhere, Start, AbortAtTop, NoAttempts, BackoffOver, TextDelta,
                ResponseCreated, stageVars
  <2> QED
    BY <1>2, <2>1
<1>6. Kept
  BY <1>3, <1>4, <1>5 DEF Next, Loop, Elsewhere
<1> QED
  BY <1>6

\* A step keeps the requests the service has, or adds the one of an open call.
LEMMA ResponsesGrow ==
    ASSUME CInv, TypeOK, [ConversationNext]_vars
    PROVE  /\ setting' = setting
           /\ \/ RecordsKept
              \/ \E r \in Run : Accept(r, previous[r], quotedBy(r))
<1>1. CASE Server
  <2>1. PICK n \in DOMAIN responses, status \in Statuses :
           responses' = [responses EXCEPT ![n].status = status]
    BY <1>1 DEF Server, ResponseEnds, Statuses
  <2> DEFINE rec == [responses[n] EXCEPT !.status = status]
  <2>2. responses \in Seq(Response) /\ responses[n] \in Response
    BY DEF CInv, ConversationTyped
  <2>3. /\ rec \in Response /\ SameRequest(rec, responses[n])
        /\ responses' = [responses EXCEPT ![n] = rec]
    BY <2>1, <2>2 DEF Response, SameRequest
  <2> HIDE DEF rec
  <2>4. RecordsKept
    BY <2>2, <2>3, ExceptSeq DEF RecordsKept, SameRequest
  <2> QED
    BY <1>1, <2>4 DEF Server, ResponseEnds
<1>2. CASE Close \/ Signal \/ UNCHANGED vars
  <2>1. responses' = responses /\ setting' = setting
    BY <1>2 DEF Close, Signal, vars, providerVars
  <2> QED
    BY <2>1, SameRecords DEF CInv
<1>3. ASSUME NEW r \in Run, Turn(r) \/ StageStarts(r) \/ StageStep(r) \/ TurnReturns(r)
      PROVE  setting' = setting /\ RecordsKept
  <2>1. responses' = responses /\ setting' = setting
    BY <1>3 DEF Turn, StageStarts, StageStep, TurnReturns, Respond, providerVars
  <2> QED
    BY <2>1, SameRecords DEF CInv
<1>4. ASSUME NEW r \in Run, ProviderStep(r)
      PROVE  setting' = setting /\ (RecordsKept \/ Accept(r, previous[r], quotedBy(r)))
  <2>1. CASE Resolved(r)
    <3>1. responses' = responses /\ setting' = setting
      BY <2>1 DEF Resolved, Delivers
    <3> QED
      BY <3>1, SameRecords DEF CInv
  <2>2. CASE CallStep(r, chainedOn(r), quotedBy(r))
    <3>1. setting' = setting
      BY <2>2 DEF CallStep
    <3>2. \/ Fails(r) \/ GoesOn(r) \/ Accept(r, previous[r], quotedBy(r))
          \/ Created(r) \/ Delta(r)
      BY <2>2, CallStepIs DEF CInv, chainedOn
    <3>3. CASE GoesOn(r) \/ Created(r) \/ Delta(r)
      <4>1. responses' = responses
        BY <3>3 DEF GoesOn, Created, Delta
      <4> QED
        BY <3>1, <4>1, SameRecords DEF CInv
    <3> QED
      BY <3>1, <3>2, <3>3 DEF Fails
  <2> QED
    BY <1>4, <2>1, <2>2 DEF ProviderStep
<1> QED
  BY <1>1, <1>2, <1>3, <1>4 DEF ConversationNext

\* The request of an open call quotes what its attempt was given; no later step
\* changes either.
LEMMA StepQuotes ==
    ASSUME CInv, IInv, QuoteInv, [ConversationNext]_vars
    PROVE  QuoteInv'
<1>1. TypeOK
  BY DEF IInv
<1>2. [Next]_stageVars
  BY <1>1, StepRefines
<1>3. setting' = setting
  BY <1>1, ResponsesGrow
<1>4. ASSUME NEW asked \in Response, NEW now, SameRequest(now, asked),
             RequestQuotes(asked, calls, setting.turns)
      PROVE  RequestQuotes(now, calls', setting'.turns)
  <2>1. asked.run \in Run
    BY DEF Response
  <2>2. /\ Len(calls[asked.run]) \in Nat /\ Len(calls'[asked.run]) \in Nat
        /\ Len(calls[asked.run]) <= Len(calls'[asked.run])
        /\ \A i \in 1 .. Len(calls[asked.run]) :
              calls'[asked.run][i].suffix = calls[asked.run][i].suffix
    BY <1>2, <2>1, SuffixesKept
  <2> QED
    BY <1>3, <1>4, <2>2 DEF RequestQuotes, SameRequest
<1>5. responses \in Seq(Response)
  BY DEF CInv, ConversationTyped
<1>6. CASE RecordsKept
  <2>1. ASSUME NEW n \in DOMAIN responses'
        PROVE  RequestQuotes(responses'[n], calls', setting'.turns)
    <3>1. n \in DOMAIN responses /\ responses[n] \in Response
      BY <1>5, <1>6 DEF RecordsKept
    <3>2. /\ RequestQuotes(responses[n], calls, setting.turns)
          /\ SameRequest(responses'[n], responses[n])
      BY <1>6, <3>1 DEF RecordsKept, QuoteInv
    <3> QED
      BY <1>4, <3>1, <3>2
  <2> QED
    BY <2>1 DEF QuoteInv
<1>7. ASSUME NEW r \in Run, Accept(r, previous[r], quotedBy(r)) PROVE QuoteInv'
  <2> DEFINE new == [run |-> r, attempt |-> attempt(r), previous |-> previous[r],
                     quotes |-> quotedBy(r), status |-> "generating",
                     cancelAsked |-> FALSE]
  <2>1. responses' = Append(responses, new) /\ calls' = calls
    BY <1>7 DEF Accept, stageVars
  <2>2. pc[r] = "calling"
    BY <1>7 DEF Accept, at, CInv, CallInv
  <2>3. attempt(r) \in Nat \ {0} /\ quotedBy(r) \in Nat
    BY <2>2, OpenAttempt
  <2>4. RequestQuotes(new, calls', setting'.turns)
    BY <1>3, <2>1, <2>3 DEF RequestQuotes, quotedBy, attempt
  <2> HIDE DEF new
  <2>5. ASSUME NEW n \in DOMAIN responses'
        PROVE  RequestQuotes(responses'[n], calls', setting'.turns)
    <3>1. CASE n \in DOMAIN responses
      <4>1. responses[n] \in Response /\ responses'[n] = responses[n]
        BY <1>5, <2>1, <3>1
      <4>2. RequestQuotes(responses[n], calls, setting.turns)
        BY <3>1 DEF QuoteInv
      <4> QED
        BY <1>4, <4>1, <4>2 DEF SameRequest
    <3>2. CASE n = Len(responses) + 1
      <4>1. responses'[n] = new
        BY <1>5, <2>1, <3>2
      <4> QED
        BY <2>4, <4>1
    <3> QED
      BY <1>5, <2>1, <3>1, <3>2
  <2> QED
    BY <2>5 DEF QuoteInv
<1> QED
  BY <1>1, <1>6, <1>7, ResponsesGrow

(***************************************************************************)
(* The theorems.                                                           *)
(***************************************************************************)
\* The invariant of the stages and that of the conversation over them.
THEOREM ConversationInvariant == ConversationSpec => [](IInv /\ CInv)
<1>1. ConversationInit => IInv /\ CInv
  BY InitInv, ConversationInitKeeps DEF ConversationInit
<1>2. IInv /\ CInv /\ [ConversationNext]_vars => (IInv /\ CInv)'
  <2> SUFFICES ASSUME IInv, CInv, [ConversationNext]_vars PROVE IInv' /\ CInv'
    OBVIOUS
  <2>1. TypeOK
    BY DEF IInv
  <2>2. IInv'
    BY <2>1, StepRefines, StepInv
  <2> QED
    BY <2>2, StepKeeps
<1> QED
  BY <1>1, <1>2, PTL DEF ConversationSpec

\* The providers behind the turns stay within what LlmStage allows a provider:
\* no call that ends twice, no second id of an attempt, no text once aborted.
THEOREM ProvidersRefineStage == ConversationSpec => Init /\ [][Next]_stageVars
<1>1. ConversationInit => Init
  BY DEF ConversationInit
<1>2. IInv /\ CInv /\ [ConversationNext]_vars => [Next]_stageVars
  <2>1. IInv => TypeOK
    BY DEF IInv
  <2> QED
    BY <2>1, StepRefines
<1> QED
  BY <1>1, <1>2, ConversationInvariant, PTL DEF ConversationSpec

\* However the calls end, are retried and overlap, the service is asked by a
\* stage with the latest refusal before the attempt, and by a turn with the
\* turn's own message alone.
THEOREM AsksLatestRefusal == ConversationSpec => []AsksWithLatestRefusal
<1>1. ConversationInit => QuoteInv
  BY DEF ConversationInit, ProviderInit, QuoteInv
<1>2. IInv /\ CInv /\ QuoteInv /\ [ConversationNext]_vars => QuoteInv'
  BY StepQuotes
<1>3. IInv /\ CInv /\ QuoteInv => AsksWithLatestRefusal
  <2> SUFFICES ASSUME IInv, CInv, QuoteInv, NEW n \in DOMAIN responses,
                      responses[n].run \notin setting.turns
               PROVE  Quotes(calls[responses[n].run], responses[n].attempt, responses[n].quotes)
    BY DEF AsksWithLatestRefusal, QuoteInv, RequestQuotes, Quotes
  <2> DEFINE asked == responses[n]
  <2>1. asked \in Response
    BY DEF CInv, ConversationTyped
  <2>2. asked.run \in Run
    BY <2>1 DEF Response
  <2>3. /\ asked.attempt \in 1 .. attempt(asked.run)
        /\ asked.quotes = calls[asked.run][asked.attempt].suffix
    BY DEF QuoteInv, RequestQuotes, attempt
  <2>4. SuffixQuotes(asked.run)
    BY <2>2 DEF IInv, StageInv
  <2> QED
    BY <2>3, <2>4 DEF SuffixQuotes
<1> QED
  BY <1>1, <1>2, <1>3, ConversationInvariant, PTL DEF ConversationSpec

\* Each turn settles with the reason of its last call.
THEOREM TurnsSettleHonestly == ConversationSpec => []SettledHonestly
<1>1. IInv => SettledHonestly
  BY DEF IInv, StageInv, SettledSo, SettledHonestly
<1> QED
  BY <1>1, ConversationInvariant, PTL

\* The events of each attempt tell of one call and the id it is judged by.
THEOREM EventsTell == ConversationSpec => []EventsTellTheCall
<1>1. IInv /\ CInv => EventsTellTheCall
  <2> SUFFICES ASSUME IInv, CInv, NEW r \in Run
               PROVE  Tells(log[r], responseId[r], rawResponseId(r))
    BY DEF EventsTellTheCall, Tells
  <2>1. CASE pc[r] = "calling"
    <3>1. OpenLog(log[r], responseId[r]) /\ log[r] \in Seq(Events)
      BY <2>1 DEF CInv, LogInv, IInv, TypeOK, Events
    <3> QED
      BY <3>1 DEF OpenLog, Tells
  <2>2. CASE pc[r] # "calling"
    BY <2>2 DEF CInv, LogInv
  <2> QED
    BY <2>1, <2>2
<1> QED
  BY <1>1, ConversationInvariant, PTL

\* Every request goes on from the answer the turn began with, and that one was
\* returned by a turn that completed, however turns overlap and are retried.
THEOREM ChainIsAccepted == ConversationSpec => []ChainsOnAccepted
<1>1. CInv => ChainsOnAccepted
  <2> SUFFICES ASSUME CInv, NEW n \in DOMAIN responses
               PROVE  /\ responses[n].previous = previous[responses[n].run]
                      /\ responses[n].previous # None => Accepted(responses[n].previous)
    BY DEF ChainsOnAccepted, Accepted
  <2>1. responses[n] \in Response
    BY DEF CInv, ConversationTyped
  <2>2. responses[n].run \in Run
    BY <2>1 DEF Response
  <2> QED
    BY <2>2 DEF CInv, ChainInv, TurnInv
<1> QED
  BY <1>1, ConversationInvariant, PTL
===============================================================================
