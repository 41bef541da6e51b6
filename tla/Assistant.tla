------------------------------ MODULE Assistant -----------------------------
(***************************************************************************)
(* Requests to the AI assistant: the switch of the feature, the keys of    *)
(* the provider, which are tried in turn, the validation of what comes     *)
(* back, and the row that each request leaves in AiRequestLog              *)
(* (AIAssistantService.generate and GeminiProvider).                       *)
(***************************************************************************)
EXTENDS Naturals, Sequences, FiniteSets

CONSTANTS
    Askers,             \* numbers of requests at one time
    KeyCounts,          \* numbers of keys a server may be configured with
    MaxAsked,           \* bound on requests
    MaxMishaps,         \* bound on restarts, failed log rows and turned switches
    None

VARIABLES
    keyCount,           \* how many keys this server has
    assistantOn,        \* ai.assistant.enabled
    nextKey,            \* nextKeyIndex, in the memory of the process
    ask,                \* what a request does next, or what it was told
    tried,              \* the keys a request was sent with, in order
    aiLog,              \* statuses of the rows a request left in AiRequestLog
    starts,             \* by key: requests that began with it since a restart
    asked, mishaps

assistVars == <<keyCount, assistantOn, nextKey, ask, tried, aiLog, starts, asked, mishaps>>

\* chat, insights and recommendations differ in their prompts only.
Features == {"CATEGORIZE", "RECEIPT", "CONTEXT"}
Outcomes == {"answer", "malformed", "retryable", "unreachable", "fatal"}
Ends == {"answer", "invalid", "unavailable", "unconfigured", "forbidden", "refused", "error"}
Reasons == {"NOT_CONFIGURED", "INVALID_RESPONSE", "UNAVAILABLE", "FATAL", "DATABASE"}
Statuses == {"SUCCESS", "FAILED"}

\* A request by what it does next.
Plain == [feature : Features, step : {"check", "start", "validate"}]
Trying == [feature : Features, step : {"try"}, start : Nat, offset : Nat]
Logging == [feature : Features, step : {"log"}, status : Statuses]
Failing == [feature : Features, step : {"fail"}, reason : Reasons]
Ended == [feature : Features, step : {"told"}, told : Ends]
Requests == Plain \cup Trying \cup Logging \cup Failing \cup Ended

TypeOKAssist ==
    /\ keyCount \in Nat /\ assistantOn \in BOOLEAN /\ nextKey \in 0 .. keyCount
    /\ ask \in [Askers -> Requests \cup {None}]
    /\ tried \in [Askers -> Seq(0 .. keyCount - 1)]
    /\ aiLog \in [Askers -> Seq(Statuses)]
    /\ starts \in [0 .. keyCount - 1 -> Nat]

InitAssist ==
    /\ keyCount \in KeyCounts /\ assistantOn = TRUE /\ nextKey = 0
    /\ ask = [r \in Askers |-> None]
    /\ tried = [r \in Askers |-> <<>>] /\ aiLog = [r \in Askers |-> <<>>]
    /\ starts = [k \in 0 .. keyCount - 1 |-> 0] /\ asked = 0 /\ mishaps = 0

Asking(r, step) == ask[r] # None /\ ask[r].step = step
Mishap == mishaps < MaxMishaps /\ mishaps' = mishaps + 1

Goes(r, step) == [feature |-> ask[r].feature, step |-> step]
Told(r, end) == [feature |-> ask[r].feature, step |-> "told", told |-> end]
Fails(r, reason) == [feature |-> ask[r].feature, step |-> "fail", reason |-> reason]
Becomes(r, next) == ask' = [ask EXCEPT ![r] = next]

\* A request without a category to choose from (categorizeTransaction), or
\* over too many days (getContext), is refused; a receipt never is.
Ask(r) ==
    /\ ask[r] = None /\ \A q \in Askers : q < r => ask[q] # None
    /\ asked < MaxAsked /\ asked' = asked + 1
    /\ \E f \in Features :
         \/ Becomes(r, [feature |-> f, step |-> "check"])
         \/ f # "RECEIPT" /\ Becomes(r, [feature |-> f, step |-> "told", told |-> "refused"])
    /\ UNCHANGED <<keyCount, assistantOn, nextKey, tried, aiLog, starts, mishaps>>

EnsureAiAssistantEnabled(r) ==
    /\ Asking(r, "check")
    /\ Becomes(r, IF assistantOn THEN Goes(r, "start") ELSE Told(r, "forbidden"))
    /\ UNCHANGED <<keyCount, assistantOn, nextKey, tried, aiLog, starts, asked, mishaps>>

\* generateStructured takes the next key to begin with ...
Start(r) ==
    /\ Asking(r, "start")
    /\ \/ /\ keyCount = 0 /\ Becomes(r, Fails(r, "NOT_CONFIGURED"))
          /\ UNCHANGED <<nextKey, starts>>
       \/ /\ keyCount > 0
          /\ nextKey' = (nextKey + 1) % keyCount
          /\ starts' = [starts EXCEPT ![nextKey] = @ + 1]
          /\ Becomes(r, [feature |-> ask[r].feature, step |-> "try", start |-> nextKey, offset |-> 0])
    /\ UNCHANGED <<keyCount, assistantOn, tried, aiLog, asked, mishaps>>

KeyAt(start, offset) == (start + offset) % keyCount

\* ... and goes on with the others while one is refused or out of reach
\* (requestWithKey).
Retried == {"retryable", "unreachable"}
Try(r, outcome) ==
    /\ Asking(r, "try")
    /\ tried' = [tried EXCEPT ![r] = Append(@, KeyAt(ask[r].start, ask[r].offset))]
    /\ \/ outcome = "answer" /\ Becomes(r, Goes(r, "validate"))
       \/ outcome = "malformed" /\ Becomes(r, Fails(r, "INVALID_RESPONSE"))
       \/ outcome = "fatal" /\ Becomes(r, Fails(r, "FATAL"))
       \/ /\ outcome \in Retried
          /\ Becomes(r, IF ask[r].offset + 1 < keyCount
                        THEN [ask[r] EXCEPT !.offset = @ + 1] ELSE Fails(r, "UNAVAILABLE"))
    /\ UNCHANGED <<keyCount, assistantOn, nextKey, aiLog, starts, asked, mishaps>>

\* What came back fits its schema or not; so says the row.
Validate(r) ==
    /\ Asking(r, "validate")
    /\ \E status \in Statuses :
         Becomes(r, [feature |-> ask[r].feature, step |-> "log", status |-> status])
    /\ UNCHANGED <<keyCount, assistantOn, nextKey, tried, aiLog, starts, asked, mishaps>>

Logs(r, status) == aiLog' = [aiLog EXCEPT ![r] = Append(@, status)]

\* A category that was no candidate is found when the row is written.
CreateLog(r) ==
    /\ Asking(r, "log")
    /\ \/ /\ Logs(r, ask[r].status) /\ UNCHANGED mishaps
          /\ \/ ask[r].status = "SUCCESS" /\ Becomes(r, Told(r, "answer"))
             \/ ask[r].status = "FAILED" /\ Becomes(r, Told(r, "invalid"))
             \/ ask[r] = [feature |-> "CATEGORIZE", step |-> "log", status |-> "SUCCESS"]
                /\ Becomes(r, Told(r, "invalid"))
       \/ Mishap /\ Becomes(r, Fails(r, "DATABASE")) /\ UNCHANGED aiLog
    /\ UNCHANGED <<keyCount, assistantOn, nextKey, tried, starts, asked>>

ErrorOf(reason) ==
    CASE reason = "NOT_CONFIGURED" -> "unconfigured"
      [] reason = "INVALID_RESPONSE" -> "invalid"
      [] reason \in {"UNAVAILABLE", "FATAL"} -> "unavailable"
      [] reason = "DATABASE" -> "error"

\* The catch of generate: every error but an AppError, which has its row.
LogFailure(r) ==
    /\ Asking(r, "fail")
    /\ \/ Logs(r, "FAILED") /\ Becomes(r, Told(r, ErrorOf(ask[r].reason))) /\ UNCHANGED mishaps
       \/ Mishap /\ Becomes(r, Told(r, "error")) /\ UNCHANGED aiLog
    /\ UNCHANGED <<keyCount, assistantOn, nextKey, tried, starts, asked>>

Forget(r) == /\ tried' = [tried EXCEPT ![r] = <<>>] /\ aiLog' = [aiLog EXCEPT ![r] = <<>>]
Leave(r) ==
    /\ Asking(r, "told") /\ Becomes(r, None) /\ Forget(r)
    /\ UNCHANGED <<keyCount, assistantOn, nextKey, starts, asked, mishaps>>

ToggleFeature ==
    /\ Mishap /\ assistantOn' = ~assistantOn
    /\ UNCHANGED <<keyCount, nextKey, ask, tried, aiLog, starts, asked>>

Restart ==
    /\ Mishap /\ nextKey' = 0 /\ starts' = [k \in DOMAIN starts |-> 0]
    /\ ask' = [r \in Askers |-> None]
    /\ tried' = [r \in Askers |-> <<>>] /\ aiLog' = [r \in Askers |-> <<>>]
    /\ UNCHANGED <<keyCount, assistantOn, asked>>

NextAssist ==
    \/ ToggleFeature \/ Restart
    \/ \E r \in Askers :
         \/ Ask(r) \/ EnsureAiAssistantEnabled(r) \/ Start(r) \/ Validate(r)
         \/ CreateLog(r) \/ LogFailure(r) \/ Leave(r)
         \/ \E outcome \in Outcomes : Try(r, outcome)

-----------------------------------------------------------------------------
AtEnd(r, end) == Asking(r, "told") /\ ask[r].told = end

\* A request leaves at most one row in AiRequestLog, and one that was
\* answered leaves SUCCESS: a row for SUCCESS that cannot be written is
\* replaced by one for FAILED, or by none.  Refused and forbidden requests
\* leave none (AIAssistantService.generate).
LoggedAsTold ==
    \A r \in Askers :
      /\ Len(aiLog[r]) <= 1
      /\ AtEnd(r, "answer") => aiLog[r] = <<"SUCCESS">>
      /\ AtEnd(r, "invalid") => aiLog[r] # <<>>
      /\ AtEnd(r, "unavailable") \/ AtEnd(r, "unconfigured") => aiLog[r] = <<"FAILED">>
      /\ AtEnd(r, "forbidden") \/ AtEnd(r, "refused") => aiLog[r] = <<>>
      /\ AtEnd(r, "error") => aiLog[r] \in {<<>>, <<"FAILED">>}

\* No key is tried twice for a request, and a provider is out of reach when
\* every key was tried, whatever other requests did meanwhile
\* (GeminiProvider.generateStructured).
KeysAreTried ==
    \A r \in Askers :
      LET keys == {tried[r][i] : i \in DOMAIN tried[r]} IN
      /\ Cardinality(keys) = Len(tried[r])
      /\ Asking(r, "fail") => (ask[r].reason = "UNAVAILABLE" => Cardinality(keys) = keyCount)

\* Requests begin with the keys in turn (nextKeyIndex).
KeysTakeTurns == \A k, j \in DOMAIN starts : starts[k] <= starts[j] + 1
=============================================================================
