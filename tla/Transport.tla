----------------------------- MODULE Transport ------------------------------
(* One call of TelemetryTransport.send (transport.py:57-90): up to          *)
(* MaxAttempts POSTs of one event, with a jittered exponential delay between *)
(* them that a Retry-After header of the collector can raise.                *)
(*                                                                          *)
(* Time is counted in half seconds and passes only while the call sleeps.   *)
(* Statuses are one representative of each class the code tells apart.      *)
(* Definitions named Faulty are wrong variants of the next one.             *)
EXTENDS Integers

CONSTANTS
  MaxAttempts,   \* max_attempts
  Asked          \* the delays, in half seconds, a Retry-After header asks for

ASSUME AttemptsAssumption == MaxAttempts \in Nat \ {0}
ASSUME AskedAssumption == Asked \subseteq Int

VARIABLES
  pc,            \* the next step of send
  attempt,       \* attempt
  kind,          \* the kind of result, or "none" before an answer
  retryAfter,    \* retry_after, or None
  \* environment and history
  accepted,      \* the collector took the event
  now,           \* time slept in this call
  notBefore,     \* when the collector asked to be tried again, within a minute
  verdict        \* the collector gave an answer that is not to be retried

vars == <<pc, attempt, kind, retryAfter, accepted, now, notBefore, verdict>>

None == -1

Kinds == {"SUCCESS", "AUTHENTICATION", "RETRIABLE", "PERMANENT"}

Cap == 60          \* 30.0 seconds
ServerCap == 120   \* 60.0 seconds

TypeOK ==
  /\ pc \in {"validate", "post", "decide", "sleep", "returned", "raised",
            "exhausted"}
  /\ attempt \in 1 .. MaxAttempts
  /\ kind \in Kinds \cup {"none"}
  /\ retryAfter \in 0 .. ServerCap \cup {None}
  /\ {accepted, verdict} \subseteq BOOLEAN
  /\ now \in Nat
  /\ notBefore \in Nat

Init ==
  /\ pc = "validate" /\ attempt = 1
  /\ kind = "none" /\ retryAfter = None
  /\ accepted = FALSE /\ verdict = FALSE
  /\ now = 0 /\ notBefore = 0

AtMost(m, n) == IF m < n THEN m ELSE n
AtLeast(m, n) == IF m < n THEN n ELSE m

\* An HTTP status of each class, and what an answer without one counts as.
Statuses == {200, 299, 300, 400, 401, 403, 404, 408, 425, 429, 500, 599, 600}
Malformed == 0

FaultyClassify(status) ==
  IF status \in 200 .. 300 THEN "SUCCESS"
  ELSE IF status \in {401, 403} THEN "AUTHENTICATION"
  ELSE IF status \in {408, 425, 429} \cup 500 .. 599 THEN "RETRIABLE"
  ELSE "PERMANENT"

Classify(status) ==
  IF status \in 200 .. 299 THEN "SUCCESS"
  ELSE IF status \in {401, 403} THEN "AUTHENTICATION"
  ELSE IF status \in {408, 425, 429} \cup 500 .. 599 THEN "RETRIABLE"
  ELSE "PERMANENT"

\* _parse_retry_after: seconds, or the time left to a date, within a minute.
Parse(asked) == AtMost(ServerCap, AtLeast(0, asked))

\* The ceiling of the delay after attempt n: half a second, doubled each time.
MaximumDelay(n) == AtMost(Cap, 2 ^ (n - 1))

\* A random value, clamped to 0..1, scales it: by 0, a half or 1.
Jittered(n) ==
  {d \in 0 .. MaximumDelay(n) : 2 * d \in {0, MaximumDelay(n), 2 * MaximumDelay(n)}}

FaultyRetryDelay(jittered) ==
  IF retryAfter = None THEN jittered ELSE AtMost(retryAfter, jittered)

RetryDelay(jittered) ==
  IF retryAfter = None THEN jittered ELSE AtLeast(retryAfter, jittered)

FaultyGivesAnswerLate == kind # "RETRIABLE"

GivesAnswer == kind # "RETRIABLE" \/ attempt = MaxAttempts

-----------------------------------------------------------------------------
\* A live event has its header fields; a replayed record may lack all but
\* event_id.
Validate ==
  /\ pc = "validate"
  /\ \E complete \in BOOLEAN : pc' = IF complete THEN "post" ELSE "raised"
  /\ UNCHANGED <<attempt, kind, retryAfter, accepted, now, notBefore, verdict>>

\* The collector may have taken the event before the request fails.
PostFails ==
  /\ pc = "post" /\ pc' = "decide"
  /\ kind' = "RETRIABLE" /\ retryAfter' = None
  /\ \E taken \in BOOLEAN : accepted' = (accepted \/ taken)
  /\ notBefore' = now
  /\ UNCHANGED <<attempt, now, verdict>>

Answered(status) ==
  /\ kind' = Classify(status)
  /\ verdict' = (kind' # "RETRIABLE")

\* A collector that answers 2xx has taken the event (external).
Takes(status) ==
  \E taken \in BOOLEAN :
    accepted' = (accepted \/ taken \/ status \in 200 .. 299)

\* An answer without a usable Retry-After header.
PostAnswered ==
  /\ pc = "post" /\ pc' = "decide"
  /\ \E status \in Statuses \cup {Malformed} : Answered(status) /\ Takes(status)
  /\ retryAfter' = None
  /\ notBefore' = now
  /\ UNCHANGED <<attempt, now>>

\* The header counts for a retriable answer only.
PostDeferred ==
  /\ pc = "post" /\ pc' = "decide"
  /\ \E status \in Statuses, asked \in Asked :
       /\ Answered(status) /\ Takes(status)
       /\ retryAfter' = IF kind' = "RETRIABLE" THEN Parse(asked) ELSE None
       /\ notBefore' = now + AtMost(ServerCap, AtLeast(0, asked))
  /\ UNCHANGED <<attempt, now>>

Return ==
  /\ pc = "decide" /\ GivesAnswer
  /\ pc' = "returned"
  /\ UNCHANGED <<attempt, kind, retryAfter, accepted, now, notBefore, verdict>>

Retry ==
  /\ pc = "decide" /\ ~GivesAnswer
  /\ pc' = "sleep"
  /\ UNCHANGED <<attempt, kind, retryAfter, accepted, now, notBefore, verdict>>

\* _sleep(_retry_delay(attempt, retry_after)), then the next attempt; after
\* the last one the loop would end in an AssertionError.
Sleep ==
  /\ pc = "sleep"
  /\ \E jittered \in Jittered(attempt) : now' = now + RetryDelay(jittered)
  /\ IF attempt < MaxAttempts
     THEN pc' = "post" /\ attempt' = attempt + 1
     ELSE pc' = "exhausted" /\ UNCHANGED attempt
  /\ UNCHANGED <<kind, retryAfter, accepted, notBefore, verdict>>

Over == pc \in {"returned", "raised", "exhausted"} /\ UNCHANGED vars

Send ==
  \/ Validate \/ PostFails \/ PostAnswered \/ PostDeferred
  \/ Return \/ Retry \/ Sleep

Next == Send \/ Over

\* A request ends because of its connect and read timeouts, a sleep by itself.
Spec == Init /\ [][Next]_vars /\ WF_vars(Send)

-----------------------------------------------------------------------------
\* Properties.

(* The caller deletes the record of a delivery that counts as a success and  *)
(* parks that of a permanent refusal: a success means that the collector has *)
(* the event (transport.py:119-123), and only an event whose last attempt    *)
(* had no verdict stays for another try (transport.py:86).                   *)
ResultIsEarned ==
  pc = "returned" =>
    /\ kind = "SUCCESS" => accepted
    /\ kind = "RETRIABLE" <=> ~verdict

(* After an answer that settles the event, or before the time a retriable    *)
(* answer asked for (up to a minute), the collector is not called again      *)
(* (transport.py:86-88, 141-146).                                            *)
CollectorIsHeeded == pc = "post" => ~verdict /\ now >= notBefore

(* send returns a result or refuses the payload: its loop never runs out     *)
(* ("retry loop must return a delivery result", transport.py:90).            *)
SendEnds == <>(pc \in {"returned", "raised"})
=============================================================================
