----------------------------- MODULE MCLlmStage -----------------------------
(***************************************************************************)
(* One turn over every transport, with and without a function tool, two    *)
(* that overlap and three in a row; a stage that is no turn over two       *)
(* transports, and one beside a turn.  The policies: the default (two      *)
(* attempts, schema and transient errors), a patient one that opts into    *)
(* rate limits, one that retries transient errors only, one that retries   *)
(* nothing and the degenerate maxAttempts = 0.                             *)
(***************************************************************************)
EXTENDS Conversation

Default == [maxAttempts |-> 2, retryOn |-> {"schema_validation", "transient"}]
Patient == [maxAttempts |-> 3, retryOn |-> {"schema_validation", "transient", "rate_limit"}]
Single == [maxAttempts |-> 3, retryOn |-> {}]
Never == [maxAttempts |-> 0, retryOn |-> {"transient"}]
Hasty == [maxAttempts |-> 2, retryOn |-> {"transient"}]
mc_Policies == {Default, Patient, Single, Never, Hasty}

one(t, w, p) == [transport |-> t, tools |-> w, policy |-> p, turns |-> {1}, stages |-> {},
                 together |-> FALSE]
bare(t, w, p) == [one(t, w, p) EXCEPT !.turns = {}, !.stages = {1}]
mc_Settings ==
    {one(t, w, Default) : t \in Transport, w \in BOOLEAN}
    \cup {bare("stream", FALSE, Patient), bare("foreground", TRUE, Default),
          one("foreground", FALSE, Never)}
    \cup {[one("foreground", FALSE, Hasty) EXCEPT !.turns = {1, 2}, !.together = TRUE],
          [one("foreground", FALSE, Default) EXCEPT !.stages = {2}],
          [one("foreground", FALSE, Single) EXCEPT !.turns = {1, 2, 3}]}
mc_ResponseId == 1..8
=============================================================================
