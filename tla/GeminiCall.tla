----------------------------- MODULE GeminiCall -----------------------------
(***************************************************************************)
(* One request of CAR to the Gemini API, retried: GeminiProvider.classify   *)
(* (providers/gemini.py) and GeminiCodingProvider.propose (coding/gemini.py)*)
(* run the same loop.  A provider object outlives its calls and remembers   *)
(* the usage of the last answer it could read.                              *)
(***************************************************************************)
EXTENDS Integers, Sequences

CONSTANTS MaxAttempts,   \* GeminiProviderConfig.max_attempts
          Tokens,        \* what input and output of an answer may cost
          Parts          \* what its other tokens may add to that, or take off

ASSUME AttemptAssumption == MaxAttempts \in 1..3
ASSUME TokenAssumption == Tokens \subseteq Nat /\ Parts \subseteq Int

(* An SDK error has an HTTP status (0 stands for none); the rest of what    *)
(* classifies it is whether the message CAR keeps of it speaks of a quota.  *)
Status == {0, 400, 401, 403, 404, 408, 429, 500}
(* A number that may be unknown is a set of at most one number.             *)
Unknown == {}
Maybe(numbers) == {Unknown} \cup {{n} : n \in numbers}

(* TokenUsage, as prices: `counted` is that of input and output tokens, and *)
(* `other` what reasoning, cached input and cache writes change in it.      *)
(* Either may be missing.  (Input that cannot be broken down, or with a     *)
(* part that has no rate, is priced no more than input that is missing.)    *)
Usage == [counted : Maybe(Tokens), other : Maybe(Parts)]
NoUsage == [counted |-> Unknown, other |-> Unknown]

(* Statuses with one kind are represented by one of them.                  *)
Error == [status : Status, quota : BOOLEAN]
Answer == [output : {"empty", "invalid", "valid"}, usage : Usage]

VARIABLES
    phase,       \* idle, asking, backoff, over
    coding,      \* propose, not classify
    client,      \* the SDK client: none, open, closed
    attempt,     \* of the loop
    lastUsage,   \* GeminiCodingProvider.last_usage
    failure,     \* what the call raised, or none
    replies      \* history: the kind of each reply of this call

geminiVars == <<phase, coding, client, attempt, lastUsage, failure, replies>>

-----------------------------------------------------------------------------
(* _map_gemini_error and is_retryable                                      *)

HTTPErrorKind ==
    [s \in Status |->
        CASE s = 400 -> "invalid_request"    [] s = 401 -> "authentication_error"
          [] s = 403 -> "permission_denied"  [] s = 404 -> "model_not_found"
          [] s = 408 -> "timeout"            [] s = 500 -> "service_error"
          [] s = 429 -> "rate_limited"       [] OTHER -> "unknown_error"]

Kind(error) ==
    IF error.status = 429 /\ error.quota
    THEN "quota_exhausted" ELSE HTTPErrorKind[error.status]

Retryable(kind) == kind \in {"timeout", "rate_limited", "service_error"}

-----------------------------------------------------------------------------
(* The call                                                                *)

GeminiInit ==
    /\ phase = "idle" /\ coding = FALSE /\ client = "none" /\ attempt = 0
    /\ lastUsage = NoUsage /\ failure = "none" /\ replies = <<>>

(* The client is constructed outside the try: an error there leaves the     *)
(* call with nothing to close.                                              *)
Open(proposes) ==
    /\ phase = "idle" /\ coding' = proposes /\ replies' = <<>>
    /\ \/ /\ phase' = "asking" /\ client' = "open" /\ attempt' = 1
          /\ failure' = "none"
       \/ /\ phase' = "over" /\ client' = "none" /\ attempt' = 0
          /\ failure' = "escaped"
    /\ UNCHANGED lastUsage

End(kind) == phase' = "over" /\ client' = "closed" /\ failure' = kind

(* Mutant: usage the response does not report leaves the earlier one.      *)
Respond_KeepsUsage(answer) ==
    /\ phase = "asking"
    /\ LET kind == IF answer.output = "valid" THEN "none"
                   ELSE "invalid_response"
       IN End(kind) /\ replies' = Append(replies, kind)
    /\ lastUsage' = IF coding /\ answer.output # "empty"
                       /\ answer.usage # NoUsage
                    THEN answer.usage ELSE lastUsage
    /\ UNCHANGED <<coding, attempt>>

(* The kind an answer fails with; only propose records its usage, before    *)
(* the answer is validated.                                                 *)
Respond(answer) ==
    /\ phase = "asking"
    /\ LET kind == IF answer.output = "valid" THEN "none"
                   ELSE "invalid_response"
       IN End(kind) /\ replies' = Append(replies, kind)
    /\ lastUsage' = IF coding /\ answer.output # "empty"
                    THEN answer.usage ELSE lastUsage
    /\ UNCHANGED <<coding, attempt>>

(* Mutant: every error is retried.                                         *)
RaiseError_Retries(error) ==
    /\ phase = "asking" /\ replies' = Append(replies, Kind(error))
    /\ IF attempt < MaxAttempts
       THEN phase' = "backoff" /\ UNCHANGED <<client, failure>>
       ELSE End(Kind(error))
    /\ UNCHANGED <<coding, attempt, lastUsage>>

RaiseError(error) ==
    /\ phase = "asking" /\ replies' = Append(replies, Kind(error))
    /\ IF Retryable(Kind(error)) /\ attempt < MaxAttempts
       THEN phase' = "backoff" /\ UNCHANGED <<client, failure>>
       ELSE End(Kind(error))
    /\ UNCHANGED <<coding, attempt, lastUsage>>

Sleep ==
    /\ phase = "backoff" /\ phase' = "asking" /\ attempt' = attempt + 1
    /\ UNCHANGED <<coding, client, lastUsage, failure, replies>>

(* The user interrupts a request or the sleep: no except clause catches it. *)
Interrupt ==
    /\ phase \in {"asking", "backoff"} /\ End("interrupted")
    /\ UNCHANGED <<coding, attempt, lastUsage, replies>>

(* The call's frame is gone; the provider object is not.                   *)
Return ==
    /\ phase' = "idle" /\ client' = "none" /\ attempt' = 0
    /\ failure' = "none" /\ replies' = <<>>
    /\ UNCHANGED <<coding, lastUsage>>

-----------------------------------------------------------------------------
(* A call asks again only after an error that may pass, asks as often as    *)
(* it may before it gives such an error up, reports the error of its last   *)
(* request, and leaves no client open: the loop of classify and propose     *)
(* (providers/gemini.py:173-188, coding/gemini.py:70-84).                   *)
AttemptsJustified ==
    /\ \A i \in 1..Len(replies) : i < Len(replies) => Retryable(replies[i])
    /\ Len(replies) <= MaxAttempts
    /\ phase = "over" =>
        /\ client # "open"
        /\ failure \notin {"escaped", "interrupted"} =>
              /\ failure = replies[Len(replies)]
              /\ Retryable(failure) => Len(replies) = MaxAttempts
=============================================================================
