-------------------------- MODULE Transport_proofs --------------------------
(* Theorems about Transport, for every number of attempts and every delay a *)
(* collector may ask for.                                                   *)
EXTENDS Transport, TLAPS

(* What is known of the last answer once it is taken apart: a success was   *)
(* earned, a verdict is there unless it may be retried, and the time asked  *)
(* for is no later than the one the call would wait until.                  *)
AnswerKnown ==
  /\ kind \in Kinds
  /\ kind = "SUCCESS" => accepted
  /\ kind = "RETRIABLE" <=> ~verdict
  /\ retryAfter = None \/ retryAfter \in Nat
  /\ ~verdict => notBefore <= now + (IF retryAfter = None THEN 0 ELSE retryAfter)

IInv ==
  /\ now \in Nat /\ notBefore \in Int
  /\ pc \in {"decide", "sleep", "returned"} => AnswerKnown
  /\ pc = "sleep" => ~verdict
  /\ pc \in {"validate", "post"} => ~verdict /\ now >= notBefore

\* The least and the greatest of two.
LEMMA Bounds ==
  ASSUME NEW m \in Int, NEW n \in Int
  PROVE  /\ AtMost(m, n) \in {m, n} /\ AtMost(m, n) <= m /\ AtMost(m, n) <= n
         /\ AtLeast(m, n) \in {m, n} /\ AtLeast(m, n) >= m /\ AtLeast(m, n) >= n
BY DEF AtMost, AtLeast

\* A header asks for at most a minute, and never for the past.
LEMMA ParseBounds ==
  ASSUME NEW asked \in Int
  PROVE  Parse(asked) \in 0 .. ServerCap
BY DEF Parse, ServerCap, AtMost, AtLeast

LEMMA ClassifyKinds ==
  ASSUME NEW status \in Int
  PROVE  /\ Classify(status) \in Kinds
         /\ Classify(status) = "SUCCESS" => status \in 200 .. 299
BY DEF Classify, Kinds

\* The pause is no shorter than the delay the collector asked for.
LEMMA PauseIsLongEnough ==
  ASSUME AnswerKnown, NEW jittered \in Jittered(attempt)
  PROVE  /\ RetryDelay(jittered) \in Nat
         /\ RetryDelay(jittered) >= IF retryAfter = None THEN 0 ELSE retryAfter
<1>1. jittered \in Nat
  BY DEF Jittered
<1> QED  BY <1>1 DEF AnswerKnown, RetryDelay, AtLeast, None

LEMMA IInvInit == Init => IInv
BY DEF Init, IInv

LEMMA IInvStep == IInv /\ [Next]_vars => IInv'
<1> SUFFICES ASSUME IInv, [Next]_vars PROVE IInv'
  OBVIOUS
<1>1. ASSUME Validate PROVE IInv'
  BY <1>1 DEF Validate, IInv
<1>2. ASSUME PostFails PROVE IInv'
  BY <1>2 DEF PostFails, IInv, AnswerKnown, Kinds, None
<1>3. ASSUME PostAnswered PROVE IInv'
  <2>1. PICK status \in Statuses \cup {Malformed} :
          Answered(status) /\ Takes(status)
    BY <1>3 DEF PostAnswered
  <2>2. status \in Int
    BY DEF Statuses, Malformed
  <2>3. /\ kind' \in Kinds
        /\ kind' = "SUCCESS" => accepted'
        /\ kind' = "RETRIABLE" <=> ~verdict'
    <3>1. kind' = Classify(status) /\ (kind' = "RETRIABLE" <=> ~verdict')
      BY <2>1, Zenon DEF Answered
    <3>2. status \in 200 .. 299 => accepted'
      BY <2>1 DEF Takes
    <3> QED  BY <3>1, <3>2, <2>2, ClassifyKinds
  <2> QED  BY <1>3, <2>3 DEF PostAnswered, IInv, AnswerKnown
<1>4. ASSUME PostDeferred PROVE IInv'
  <2>1. PICK status \in Statuses, asked \in Asked :
          /\ Answered(status) /\ Takes(status)
          /\ retryAfter' = IF kind' = "RETRIABLE" THEN Parse(asked) ELSE None
          /\ notBefore' = now + Parse(asked)
    BY <1>4 DEF PostDeferred, Parse
  <2>2. status \in Int /\ asked \in Int
    BY AskedAssumption DEF Statuses
  <2>3. /\ kind' \in Kinds
        /\ kind' = "SUCCESS" => accepted'
        /\ kind' = "RETRIABLE" <=> ~verdict'
    <3>1. kind' = Classify(status) /\ (kind' = "RETRIABLE" <=> ~verdict')
      BY <2>1, Zenon DEF Answered
    <3>2. status \in 200 .. 299 => accepted'
      BY <2>1 DEF Takes
    <3> QED  BY <3>1, <3>2, <2>2, ClassifyKinds
  <2>4. Parse(asked) \in Nat /\ Parse(asked) # None
    BY <2>2, ParseBounds DEF ServerCap, None
  <2> QED  BY <1>4, <2>1, <2>3, <2>4 DEF PostDeferred, IInv, AnswerKnown
<1>5. ASSUME Return PROVE IInv'
  BY <1>5 DEF Return, IInv, AnswerKnown
<1>6. ASSUME Retry PROVE IInv'
  BY <1>6 DEF Retry, GivesAnswer, IInv, AnswerKnown
<1>7. ASSUME Sleep PROVE IInv'
  <2>1. PICK jittered \in Jittered(attempt) : now' = now + RetryDelay(jittered)
    BY <1>7 DEF Sleep
  <2>2. /\ pc = "sleep" /\ pc' \in {"post", "exhausted"}
        /\ UNCHANGED <<notBefore, verdict>>
    BY <1>7 DEF Sleep
  <2>3. AnswerKnown /\ ~verdict /\ now \in Nat /\ notBefore \in Int
    BY <2>2 DEF IInv
  <2>4. PICK wish \in Nat : /\ wish = IF retryAfter = None THEN 0 ELSE retryAfter
                           /\ notBefore <= now + wish
    BY <2>3 DEF AnswerKnown
  <2>5. RetryDelay(jittered) \in Nat /\ RetryDelay(jittered) >= wish
    BY <2>3, <2>4, PauseIsLongEnough
  <2>6. now' \in Nat /\ now' >= notBefore
    BY <2>1, <2>3, <2>4, <2>5
  <2> QED  BY <2>2, <2>3, <2>6 DEF IInv
<1>8. ASSUME UNCHANGED vars PROVE IInv'
  BY <1>8 DEF vars, IInv, AnswerKnown
<1> QED
  BY <1>1, <1>2, <1>3, <1>4, <1>5, <1>6, <1>7, <1>8 DEF Next, Send, Over

(* A success is never reported of an event the collector lacks, and only an *)
(* event without a verdict is kept for another try (transport.py:86).       *)
THEOREM ResultsAreEarned == Spec => []ResultIsEarned
<1>1. IInv => ResultIsEarned
  BY DEF IInv, AnswerKnown, ResultIsEarned
<1> QED  BY <1>1, IInvInit, IInvStep, PTL DEF Spec

(* No attempt follows a verdict or comes before the time the collector      *)
(* asked for (transport.py:86-88, 141-146).                                 *)
THEOREM TheCollectorIsHeeded == Spec => []CollectorIsHeeded
<1>1. IInv => CollectorIsHeeded
  BY DEF IInv, CollectorIsHeeded
<1> QED  BY <1>1, IInvInit, IInvStep, PTL DEF Spec
=============================================================================
