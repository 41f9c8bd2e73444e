------------------------- MODULE NodeFallbackProofs -------------------------
(***************************************************************************)
(* Proofs about NodeFallback, for every number of connections, sessions,   *)
(* questions and keys: what a POST decides after its await is right,       *)
(* whatever the other connections did while it waited for its body.        *)
(***************************************************************************)
EXTENDS NodeFallback, TLAPS, FiniteSetTheorems

(* The shapes of a step. *)

\* The response of r is x, and afterwards its handler has ended, or awaits a
\* body for a session that exists.
Answer(r, x) ==
    \E w : /\ w = NotAwaiting \/ w \in [route : {"answers", "finalize"}, session : DOMAIN sessions]
           /\ awaiting' = [awaiting EXCEPT ![r] = w]
           /\ reply' = [reply EXCEPT ![r] = x]

QuietStep(r) ==
    \E x : /\ x.code # "OK"
           /\ Answer(r, x)
           /\ UNCHANGED <<sessions, sessionCounter, idempotencyRecords>>

ReplayStep(r) ==
    \E id \in DOMAIN idempotencyRecords :
        /\ Answer(r, Accepted(id, idempotencyRecords[id].response, TRUE))
        /\ UNCHANGED <<sessions, sessionCounter, idempotencyRecords>>

CreateStep(r) ==
    /\ Answer(r, View(sessionCounter, "pending"))
    /\ sessionCounter <= MaxSessions
    /\ sessions' = [s \in DOMAIN sessions \cup {sessionCounter} |->
                      IF s = sessionCounter THEN CreateSessionRecord ELSE sessions[s]]
    /\ sessionCounter' = sessionCounter + 1
    /\ UNCHANGED idempotencyRecords

Completed(session) == [session EXCEPT !.status = "completed", !.completedAt = TRUE]

\* A read moves a session on.
MoveStep(r, s) ==
    /\ s \in DOMAIN sessions
    /\ \E x : x.code # "OK" /\ Answer(r, x)
    /\ \/ sessions' = [sessions EXCEPT ![s] = Advanced(@)]
       \/ /\ sessions[s].status = "submitted"
          /\ sessions' = [sessions EXCEPT ![s] = Completed(@)]
    /\ UNCHANGED <<sessionCounter, idempotencyRecords>>

RecordStep(r, id, payload, response, updated) ==
    /\ id \notin DOMAIN idempotencyRecords
    /\ Cardinality(DOMAIN idempotencyRecords) < MaxMutations
    /\ idempotencyRecords' = [i \in DOMAIN idempotencyRecords \cup {id} |->
         IF i = id THEN [payload |-> payload, response |-> response]
         ELSE idempotencyRecords[i]]
    /\ sessions' = [sessions EXCEPT ![id.session] = updated]
    /\ Answer(r, Accepted(id, response, FALSE))
    /\ UNCHANGED sessionCounter

SaveStep(r, s, q, content, key) ==
    /\ s \in DOMAIN sessions
    /\ LET answer == Saved(sessions[s].answers[q], content, key) IN
       RecordStep(r, [session |-> s, route |-> "answers", key |-> key],
           [question |-> q, content |-> content],
           [status |-> sessions[s].status,
            answerId |-> answer.answerId,
            answerVersion |-> answer.answerVersion],
           [sessions[s] EXCEPT !.answers[q] = answer])

Finalized(session) == [session EXCEPT !.status = "submitted", !.submittedAt = TRUE]

FinalizeStep(r, s, payload, key) ==
    /\ s \in DOMAIN sessions
    /\ MayFinalize(sessions[s])
    /\ RecordStep(r, [session |-> s, route |-> "finalize", key |-> key], payload,
           [status |-> "submitted", answeredCount |-> AnsweredCount(sessions[s])],
           Finalized(sessions[s]))

Shape(r) ==
    \/ QuietStep(r) \/ ReplayStep(r) \/ CreateStep(r)
    \/ \E s \in DOMAIN sessions : MoveStep(r, s)
    \/ \E s \in DOMAIN sessions, key \in Keys :
         \/ \E q \in Questions, content \in Contents : SaveStep(r, s, q, content, key)
         \/ \E payload \in FinalPayloads : FinalizeStep(r, s, payload, key)

\* A request that awaits its body awaits it for a session that exists.
AwaitsSession ==
    \A r \in Requests : Idle(r) \/ awaiting[r].session \in DOMAIN sessions

\* An error ends the handler and changes nothing.
LEMMA ErrorIsQuiet ==
    ASSUME NEW r, NEW code, code # "OK", SendError(r, code) PROVE QuietStep(r)
<1>1. PICK x : x = [code |-> code]
  OBVIOUS
<1>2. x.code # "OK"
  BY <1>1
<1> QED BY <1>1, <1>2 DEF SendError, SendJson, QuietStep, Answer

\* A response made by a read ends the handler.
LEMMA SentIsAnswer ==
    ASSUME NEW r, NEW x, SendJson(r, x) PROVE Answer(r, x)
BY DEF SendJson, Answer

\* What assertIdempotency decides is a refusal, a replay or a new record.
LEMMA VerdictShapes ==
    ASSUME NEW r, NEW id, NEW payload, NEW response, NEW updated,
           AssertIdempotency(r, id, payload, response, updated)
    PROVE  QuietStep(r) \/ ReplayStep(r) \/ RecordStep(r, id, payload, response, updated)
<1>1. CASE SendError(r, "IDEMPOTENCY_KEY_REUSED")
  BY <1>1, ErrorIsQuiet
<1>2. CASE Replay(r, id, payload)
  BY <1>2, SentIsAnswer DEF Replay, ReplayStep
<1>3. CASE /\ id \notin DOMAIN idempotencyRecords
           /\ Cardinality(DOMAIN idempotencyRecords) < MaxMutations
           /\ idempotencyRecords' = [i \in DOMAIN idempotencyRecords \cup {id} |->
                IF i = id THEN [payload |-> payload, response |-> response]
                ELSE idempotencyRecords[i]]
           /\ sessions' = [sessions EXCEPT ![id.session] = updated]
           /\ SendJson(r, Accepted(id, response, FALSE))
           /\ UNCHANGED sessionCounter
  BY <1>3, SentIsAnswer DEF RecordStep
<1> QED BY <1>1, <1>2, <1>3 DEF AssertIdempotency

\* Every step of a connection has one of the shapes.
LEMMA StepShapes ==
    ASSUME AwaitsSession,
           NEW r \in Requests, HandleApi(r) \/ BodyArrives(r) \/ BodyFails(r)
    PROVE  Shape(r)
<1>1. ASSUME NEW body, PostSession(r, body) PROVE Shape(r)
  <2>1. CASE \/ SendError(r, "INTERNAL_SERVER_ERROR")
             \/ SendError(r, "INVALID_JSON") \/ SendError(r, "VALIDATION_ERROR")
    BY <2>1, ErrorIsQuiet DEF Shape
  <2>2. CASE CreateStep(r)
    BY <2>2 DEF Shape
  <2> QED BY <1>1, <2>1, <2>2, SentIsAnswer DEF PostSession, CreateStep
<1>2. ASSUME NEW s, Unknown(r, s) PROVE Shape(r)
  BY <1>2, ErrorIsQuiet DEF Unknown, Shape
<1>3. ASSUME NEW s, NEW status PROVE View(s, status).code # "OK"
  BY DEF View
<1>4. ASSUME NEW s, GetSession(r, s) PROVE Shape(r)
  <2>1. CASE Unknown(r, s)
    BY <1>2, <2>1
  <2>2. CASE /\ s \in DOMAIN sessions
             /\ sessions' = [sessions EXCEPT ![s] = Advanced(@)]
             /\ SendJson(r, View(s, Advanced(sessions[s]).status))
             /\ UNCHANGED <<sessionCounter, idempotencyRecords>>
    BY <1>3, <2>2, SentIsAnswer DEF MoveStep, Shape
  <2> QED BY <1>4, <2>1, <2>2 DEF GetSession
<1>5. ASSUME NEW s, GetQuestionsOrAnswers(r, s) PROVE Shape(r)
  <2>1. CASE Unknown(r, s)
    BY <1>2, <2>1
  <2>2. CASE /\ SendJson(r, View(s, sessions[s].status))
             /\ UNCHANGED <<sessions, sessionCounter, idempotencyRecords>>
    BY <1>3, <2>2, SentIsAnswer DEF QuietStep, Shape
  <2> QED BY <1>5, <2>1, <2>2 DEF GetQuestionsOrAnswers
<1>6. ASSUME NEW s, GetResultSummary(r, s) PROVE Shape(r)
  <2>1. CASE Unknown(r, s)
    BY <1>2, <2>1
  <2>2. CASE SendError(r, "SESSION_STATE_CONFLICT")
    BY <2>2, ErrorIsQuiet DEF Shape
  <2>3. CASE /\ s \in DOMAIN sessions /\ MaySummarize(sessions[s])
             /\ sessions' = IF sessions[s].status = "completed" THEN sessions
                            ELSE [sessions EXCEPT ![s].status = "completed", ![s].completedAt = TRUE]
             /\ SendJson(r, View(s, "completed"))
             /\ UNCHANGED <<sessionCounter, idempotencyRecords>>
    <3>1. CASE sessions[s].status = "completed"
      BY <1>3, <2>3, <3>1, SentIsAnswer DEF QuietStep, Shape
    <3>2. CASE sessions[s].status # "completed"
      <4>1. sessions[s].status = "submitted"
        BY <2>3, <3>2 DEF MaySummarize
      <4>2. sessions' = [sessions EXCEPT ![s] = Completed(@)]
        BY <2>3, <3>2 DEF Completed
      <4> QED BY <1>3, <2>3, <4>1, <4>2, SentIsAnswer DEF MoveStep, Shape
    <3> QED BY <3>1, <3>2
  <2> QED BY <1>6, <2>1, <2>2, <2>3 DEF GetResultSummary
<1>7. ASSUME NEW s, NEW route \in {"answers", "finalize"}, Post(r, route, s) PROVE Shape(r)
  <2>1. CASE SendError(r, "SESSION_NOT_FOUND")
    BY <2>1, ErrorIsQuiet DEF Shape
  <2>2. CASE /\ s \in DOMAIN sessions
             /\ awaiting' = [awaiting EXCEPT ![r] = [route |-> route, session |-> s]]
             /\ reply' = [reply EXCEPT ![r] = NoReply]
             /\ UNCHANGED <<sessions, sessionCounter, idempotencyRecords>>
    <3>1. NoReply.code # "OK"
      BY DEF NoReply
    <3> QED BY <2>2, <3>1 DEF QuietStep, Answer, Shape
  <2> QED BY <1>7, <2>1, <2>2 DEF Post
<1>8. ASSUME NEW q \in Questions \cup {UnknownQuestion}, NEW content \in Contents,
             NEW key \in KeyInputs, SaveBody(r, q, content, key)
      PROVE  Shape(r)
  <2>1. PICK s : s = awaiting[r].session
    OBVIOUS
  <2>2. s \in DOMAIN sessions
    BY <1>8, <2>1 DEF SaveBody, AwaitsSession, Idle, NotAwaiting
  <2>3. CASE \E code \in {"INVALID_JSON", "QUESTION_NOT_IN_SESSION", "VALIDATION_ERROR"} :
               SendError(r, code)
    BY <2>3, ErrorIsQuiet DEF Shape
  <2>4. CASE /\ key \in Keys /\ q \in Questions
             /\ AssertIdempotency(r, [session |-> s, route |-> "answers", key |-> key],
                 [question |-> q, content |-> content],
                 [status |-> sessions[s].status,
                  answerId |-> Saved(sessions[s].answers[q], content, key).answerId,
                  answerVersion |-> Saved(sessions[s].answers[q], content, key).answerVersion],
                 [sessions[s] EXCEPT !.answers[q] = Saved(sessions[s].answers[q], content, key)])
    <3>1. QuietStep(r) \/ ReplayStep(r) \/ SaveStep(r, s, q, content, key)
      BY <2>2, <2>4, VerdictShapes, Zenon DEF SaveStep
    <3> QED BY <2>2, <2>4, <3>1 DEF Shape
  <2> QED BY <1>8, <2>1, <2>3, <2>4 DEF SaveBody
<1>9. ASSUME NEW payload \in FinalPayloads, NEW key \in KeyInputs, FinalizeBody(r, payload, key)
      PROVE  Shape(r)
  <2>1. PICK s : s = awaiting[r].session
    OBVIOUS
  <2>2. s \in DOMAIN sessions
    BY <1>9, <2>1 DEF FinalizeBody, AwaitsSession, Idle, NotAwaiting
  <2>3. CASE \E code \in {"INVALID_JSON", "VALIDATION_ERROR", "SESSION_STATE_CONFLICT"} :
               SendError(r, code)
    BY <2>3, ErrorIsQuiet DEF Shape
  <2>4. CASE /\ key \in Keys /\ MayFinalize(sessions[s])
             /\ AssertIdempotency(r, [session |-> s, route |-> "finalize", key |-> key], payload,
                 [status |-> "submitted", answeredCount |-> AnsweredCount(sessions[s])],
                 [sessions[s] EXCEPT !.status = "submitted", !.submittedAt = TRUE])
    <3>1. QuietStep(r) \/ ReplayStep(r) \/ FinalizeStep(r, s, payload, key)
      BY <2>2, <2>4, VerdictShapes, Zenon DEF FinalizeStep, Finalized
    <3> QED BY <2>2, <2>4, <3>1 DEF Shape
  <2> QED BY <1>9, <2>1, <2>3, <2>4 DEF FinalizeBody
<1>10. CASE BodyFails(r)
  BY <1>10, ErrorIsQuiet DEF BodyFails, Shape
<1>11. CASE HandleApi(r)
  BY <1>1, <1>4, <1>5, <1>6, <1>7, <1>11 DEF HandleApi
<1>12. CASE BodyArrives(r)
  BY <1>8, <1>9, <1>12 DEF BodyArrives
<1> QED BY <1>10, <1>11, <1>12

-----------------------------------------------------------------------------
(* Sessions *)

StoredAnswers ==
    [answerId : Keys \cup {EmptyKey}, answerContent : Contents, answerVersion : Nat]
StoredSessions ==
    [status : Statuses, pollCount : Nat, preparingAt : BOOLEAN, startedAt : BOOLEAN,
     submittedAt : BOOLEAN, completedAt : BOOLEAN, answers : [Questions -> StoredAnswers]]

\* A session whose timestamps tell the same story as its status.
Coherent(session) ==
    /\ session \in StoredSessions
    /\ session.preparingAt <=> session.status # "pending"
    /\ session.startedAt <=> session.status \notin {"pending", "preparing"}
    /\ session.submittedAt <=> session.status \in {"submitted", "completed"}
    /\ session.status = "completed" => session.completedAt

HasFinalize(s) ==
    \E key \in Keys : [session |-> s, route |-> "finalize", key |-> key] \in DOMAIN idempotencyRecords

FallbackInv ==
    /\ sessionCounter \in Nat \ {0}
    /\ DOMAIN sessions = 1..(sessionCounter - 1)
    /\ DOMAIN awaiting = Requests /\ DOMAIN reply = Requests
    /\ AwaitsSession
    /\ \A s \in DOMAIN sessions :
         /\ Coherent(sessions[s])
         /\ (sessions[s].submittedAt \/ sessions[s].completedAt) => HasFinalize(s)
    /\ \A i \in DOMAIN idempotencyRecords :
         /\ i.session \in DOMAIN sessions
         /\ i.route = "finalize" => MayFinalize(sessions[i.session])

\* Whatever a handler leaves in its slot, the requests that await a body await
\* it for sessions that exist, because no session is removed.
LEMMA AnswerKeepsAwaiting ==
    ASSUME FallbackInv, NEW r, NEW x, Answer(r, x), DOMAIN sessions \subseteq DOMAIN sessions'
    PROVE  AwaitsSession' /\ DOMAIN awaiting' = Requests /\ DOMAIN reply' = Requests
BY DEF FallbackInv, AwaitsSession, Idle, Answer, NotAwaiting

\* One session is replaced and the records may have grown by one of its own:
\* what has to be shown of the new session.
LEMMA SessionReplaced ==
    ASSUME FallbackInv, NEW r, NEW x, Answer(r, x),
           NEW s \in DOMAIN sessions, NEW updated, Coherent(updated),
           sessions' = [sessions EXCEPT ![s] = updated], UNCHANGED sessionCounter,
           DOMAIN idempotencyRecords \subseteq DOMAIN idempotencyRecords',
           \A i \in DOMAIN idempotencyRecords' \ DOMAIN idempotencyRecords : i.session = s,
           (updated.submittedAt \/ updated.completedAt) => HasFinalize(s)',
           \A i \in DOMAIN idempotencyRecords' :
              i.session = s /\ i.route = "finalize" => MayFinalize(updated)
    PROVE  FallbackInv'
<1>1. /\ DOMAIN sessions' = DOMAIN sessions /\ sessions'[s] = updated
      /\ \A t \in DOMAIN sessions \ {s} : sessions'[t] = sessions[t]
  OBVIOUS
<1>2. ASSUME NEW t \in DOMAIN sessions
      PROVE  /\ Coherent(sessions'[t])
             /\ (sessions'[t].submittedAt \/ sessions'[t].completedAt) => HasFinalize(t)'
  <2>1. CASE t = s
    BY <1>1, <2>1
  <2>2. CASE t # s
    BY <1>1, <2>2 DEF FallbackInv, HasFinalize
  <2> QED BY <2>1, <2>2
<1>3. \A i \in DOMAIN idempotencyRecords' :
         /\ i.session \in DOMAIN sessions'
         /\ i.route = "finalize" => MayFinalize(sessions'[i.session])
  BY <1>1 DEF FallbackInv
<1>4. AwaitsSession' /\ DOMAIN awaiting' = Requests /\ DOMAIN reply' = Requests
  BY <1>1, AnswerKeepsAwaiting
<1> QED BY <1>1, <1>2, <1>3, <1>4 DEF FallbackInv, Coherent, MayFinalize

\* A read leaves a session record.
LEMMA AdvancedType ==
    ASSUME NEW session \in StoredSessions PROVE Advanced(session) \in StoredSessions
<1>1. session.pollCount + 1 \in Nat
  BY DEF StoredSessions
<1>2. CASE session.status = "pending"
  BY <1>1, <1>2 DEF Advanced, StoredSessions, Statuses
<1>3. CASE session.status = "preparing"
  BY <1>1, <1>3 DEF Advanced, StoredSessions, Statuses
<1>4. CASE session.status \notin {"pending", "preparing"}
  BY <1>4 DEF Advanced
<1> QED BY <1>2, <1>3, <1>4

\* A session that was read is coherent, submitted only if it was before, and
\* takes finalizes if it did before.
LEMMA AdvancedIsCoherent ==
    ASSUME NEW session, Coherent(session)
    PROVE  /\ Coherent(Advanced(session))
           /\ Advanced(session).submittedAt = session.submittedAt
           /\ Advanced(session).completedAt = session.completedAt
           /\ MayFinalize(session) => Advanced(session) = session
           /\ Advanced(session).answers = session.answers
           /\ session.status = "completed" => Advanced(session).status = "completed"
<1>0. Advanced(session) \in StoredSessions
  BY AdvancedType DEF Coherent
<1>1. CASE session.status = "pending"
  <2>1. Advanced(session) = [session EXCEPT !.pollCount = session.pollCount + 1,
                                            !.status = "preparing", !.preparingAt = TRUE]
    BY <1>1 DEF Advanced
  <2>2. ~session.startedAt /\ ~session.submittedAt /\ ~MayFinalize(session)
    BY <1>1 DEF Coherent, MayFinalize
  <2>3. /\ Advanced(session).status = "preparing" /\ Advanced(session).preparingAt = TRUE
        /\ Advanced(session).startedAt = session.startedAt
        /\ Advanced(session).submittedAt = session.submittedAt
        /\ Advanced(session).completedAt = session.completedAt
        /\ Advanced(session).answers = session.answers
    BY <2>1 DEF Coherent, StoredSessions
  <2> QED BY <1>0, <1>1, <2>2, <2>3 DEF Coherent
<1>2. CASE session.status = "preparing"
  <2>1. \/ Advanced(session) = [session EXCEPT !.pollCount = session.pollCount + 1,
                                               !.status = "in_progress", !.startedAt = TRUE]
        \/ Advanced(session) = [session EXCEPT !.pollCount = session.pollCount + 1]
    BY <1>2 DEF Advanced
  <2>2. session.preparingAt /\ ~session.startedAt /\ ~session.submittedAt /\ ~MayFinalize(session)
    BY <1>2 DEF Coherent, MayFinalize
  <2>3. CASE Advanced(session) = [session EXCEPT !.pollCount = session.pollCount + 1,
                                                 !.status = "in_progress", !.startedAt = TRUE]
    <3>1. /\ Advanced(session).status = "in_progress" /\ Advanced(session).startedAt = TRUE
          /\ Advanced(session).preparingAt = session.preparingAt
          /\ Advanced(session).submittedAt = session.submittedAt
          /\ Advanced(session).completedAt = session.completedAt
          /\ Advanced(session).answers = session.answers
      BY <2>3 DEF Coherent, StoredSessions
    <3> QED BY <1>0, <1>2, <2>2, <3>1 DEF Coherent
  <2>4. CASE Advanced(session) = [session EXCEPT !.pollCount = session.pollCount + 1]
    BY <1>2, <2>2, <2>4 DEF Coherent, StoredSessions, Statuses
  <2> QED BY <2>1, <2>3, <2>4
<1>3. CASE session.status \notin {"pending", "preparing"}
  BY <1>3 DEF Advanced, Coherent
<1> QED BY <1>1, <1>2, <1>3

\* Every step keeps the sessions coherent, the results earned and the retries
\* acceptable.
LEMMA FallbackStep ==
    ASSUME FallbackInv, [Next]_vars PROVE FallbackInv'
<1>1. ASSUME NEW r \in Requests, NEW x, Answer(r, x),
             UNCHANGED <<sessions, sessionCounter, idempotencyRecords>>
      PROVE  FallbackInv'
  <2>1. AwaitsSession' /\ DOMAIN awaiting' = Requests /\ DOMAIN reply' = Requests
    BY <1>1, AnswerKeepsAwaiting
  <2> QED BY <1>1, <2>1 DEF FallbackInv, Coherent, HasFinalize, MayFinalize
<1>2. ASSUME NEW r \in Requests, CreateStep(r) PROVE FallbackInv'
  <2>1. sessionCounter \notin DOMAIN sessions
    BY DEF FallbackInv
  <2>2. /\ DOMAIN sessions' = DOMAIN sessions \cup {sessionCounter}
        /\ sessions'[sessionCounter] = CreateSessionRecord
        /\ \A s \in DOMAIN sessions : sessions'[s] = sessions[s]
        /\ sessionCounter' = sessionCounter + 1
        /\ UNCHANGED idempotencyRecords
    BY <1>2, <2>1 DEF CreateStep
  <2>3. /\ Coherent(CreateSessionRecord)
        /\ ~CreateSessionRecord.submittedAt /\ ~CreateSessionRecord.completedAt
    BY ContentAssumption DEF CreateSessionRecord, Coherent, StoredSessions, StoredAnswers, NoAnswer, Statuses
  <2>4. AwaitsSession' /\ DOMAIN awaiting' = Requests /\ DOMAIN reply' = Requests
    BY <1>2, <2>2, AnswerKeepsAwaiting DEF CreateStep
  <2>5. sessionCounter' \in Nat \ {0} /\ DOMAIN sessions' = 1..(sessionCounter' - 1)
    BY <2>2 DEF FallbackInv
  <2>6. \A s \in DOMAIN sessions' :
         /\ Coherent(sessions'[s])
         /\ (sessions'[s].submittedAt \/ sessions'[s].completedAt) => HasFinalize(s)'
    BY <2>2, <2>3 DEF FallbackInv, HasFinalize
  <2>7. \A i \in DOMAIN idempotencyRecords' :
         /\ i.session \in DOMAIN sessions'
         /\ i.route = "finalize" => MayFinalize(sessions'[i.session])
    BY <2>2 DEF FallbackInv
  <2> QED BY <2>4, <2>5, <2>6, <2>7 DEF FallbackInv, Coherent, MayFinalize
<1>3. ASSUME NEW r \in Requests, NEW s \in DOMAIN sessions, MoveStep(r, s) PROVE FallbackInv'
  <2>1. PICK x : Answer(r, x)
    BY <1>3 DEF MoveStep
  <2>2. /\ Coherent(sessions[s]) /\ UNCHANGED <<sessionCounter, idempotencyRecords>>
        /\ (sessions[s].submittedAt \/ sessions[s].completedAt) => HasFinalize(s)'
        /\ \A i \in DOMAIN idempotencyRecords :
             i.session = s /\ i.route = "finalize" => MayFinalize(sessions[s])
    BY <1>3 DEF MoveStep, FallbackInv, HasFinalize
  <2>3. CASE sessions' = [sessions EXCEPT ![s] = Advanced(@)]
    <3>1. PICK updated : updated = Advanced(sessions[s])
      OBVIOUS
    <3>2. /\ Coherent(updated)
          /\ MayFinalize(sessions[s]) => MayFinalize(updated)
          /\ (updated.submittedAt \/ updated.completedAt) => HasFinalize(s)'
      BY <2>2, <3>1, AdvancedIsCoherent
    <3>3. sessions' = [sessions EXCEPT ![s] = updated]
      BY <2>3, <3>1
    <3>4. /\ DOMAIN idempotencyRecords \subseteq DOMAIN idempotencyRecords'
          /\ \A i \in DOMAIN idempotencyRecords' \ DOMAIN idempotencyRecords : i.session = s
          /\ \A i \in DOMAIN idempotencyRecords' :
               i.session = s /\ i.route = "finalize" => MayFinalize(updated)
      BY <2>2, <3>2
    <3> QED BY <2>1, <2>2, <3>2, <3>3, <3>4, SessionReplaced
  <2>4. CASE /\ sessions[s].status = "submitted"
             /\ sessions' = [sessions EXCEPT ![s] = Completed(@)]
    <3>1. PICK updated : updated = Completed(sessions[s])
      OBVIOUS
    <3>2. /\ Coherent(updated) /\ MayFinalize(updated)
          /\ (updated.submittedAt \/ updated.completedAt) => HasFinalize(s)'
      BY <2>2, <2>4, <3>1 DEF Completed, Coherent, StoredSessions, Statuses, MayFinalize
    <3> QED BY <2>1, <2>2, <2>4, <3>1, <3>2, SessionReplaced
  <2> QED BY <1>3, <2>3, <2>4 DEF MoveStep
<1>4. ASSUME NEW r \in Requests, NEW s \in DOMAIN sessions, NEW q \in Questions,
             NEW content \in Contents, NEW key \in Keys, SaveStep(r, s, q, content, key)
      PROVE  FallbackInv'
  <2>1. PICK updated : updated = [sessions[s] EXCEPT !.answers[q] = Saved(sessions[s].answers[q], content, key)]
    OBVIOUS
  <2>2. PICK id, x :
          /\ id.session = s /\ id.route = "answers" /\ Answer(r, x)
          /\ DOMAIN idempotencyRecords' = DOMAIN idempotencyRecords \cup {id}
          /\ sessions' = [sessions EXCEPT ![s] = updated] /\ UNCHANGED sessionCounter
    <3>1. PICK response :
            RecordStep(r, [session |-> s, route |-> "answers", key |-> key],
                       [question |-> q, content |-> content], response, updated)
      BY <1>4, <2>1, Zenon DEF SaveStep
    <3>2. PICK id : id = [session |-> s, route |-> "answers", key |-> key]
      OBVIOUS
    <3>3. PICK x : x = Accepted(id, response, FALSE)
      OBVIOUS
    <3>4. /\ id.session = s /\ id.route = "answers" /\ Answer(r, x)
          /\ DOMAIN idempotencyRecords' = DOMAIN idempotencyRecords \cup {id}
          /\ sessions' = [sessions EXCEPT ![id.session] = updated] /\ UNCHANGED sessionCounter
      BY <3>1, <3>2, <3>3 DEF RecordStep
    <3> QED BY <3>4
  <2>3. Coherent(sessions[s]) /\ sessions[s].answers[q] \in StoredAnswers
    BY DEF FallbackInv, Coherent, StoredSessions
  <2>4. Saved(sessions[s].answers[q], content, key) \in StoredAnswers
    BY <2>3 DEF Saved, StoredAnswers
  <2>5. /\ Coherent(updated)
        /\ MayFinalize(sessions[s]) => MayFinalize(updated)
        /\ updated.submittedAt = sessions[s].submittedAt
        /\ updated.completedAt = sessions[s].completedAt
    BY <2>1, <2>3, <2>4 DEF Coherent, StoredSessions, MayFinalize
  <2>6. (updated.submittedAt \/ updated.completedAt) => HasFinalize(s)'
    BY <2>2, <2>5 DEF FallbackInv, HasFinalize
  <2>7. \A i \in DOMAIN idempotencyRecords' :
          i.session = s /\ i.route = "finalize" => MayFinalize(updated)
    <3>1. \A i \in DOMAIN idempotencyRecords : i.route = "finalize" => MayFinalize(sessions[i.session])
      BY DEF FallbackInv
    <3> QED BY <2>2, <2>5, <3>1
  <2>8. /\ DOMAIN idempotencyRecords \subseteq DOMAIN idempotencyRecords'
        /\ \A i \in DOMAIN idempotencyRecords' \ DOMAIN idempotencyRecords : i.session = s
    BY <2>2
  <2> QED BY <2>2, <2>5, <2>6, <2>7, <2>8, SessionReplaced
<1>5. ASSUME NEW r \in Requests, NEW s \in DOMAIN sessions, NEW payload \in FinalPayloads,
             NEW key \in Keys, FinalizeStep(r, s, payload, key)
      PROVE  FallbackInv'
  <2>1. PICK updated : updated = Finalized(sessions[s])
    OBVIOUS
  <2>2. PICK id, x :
          /\ id = [session |-> s, route |-> "finalize", key |-> key] /\ Answer(r, x)
          /\ DOMAIN idempotencyRecords' = DOMAIN idempotencyRecords \cup {id}
          /\ sessions' = [sessions EXCEPT ![s] = updated] /\ UNCHANGED sessionCounter
    BY <1>5, <2>1 DEF FinalizeStep, RecordStep
  <2>3. Coherent(sessions[s]) /\ MayFinalize(sessions[s])
    BY <1>5 DEF FallbackInv, FinalizeStep
  <2>4. Coherent(updated) /\ MayFinalize(updated)
    BY <2>1, <2>3 DEF Finalized, Coherent, StoredSessions, Statuses, MayFinalize
  <2>5. HasFinalize(s)'
    BY <2>2 DEF HasFinalize
  <2>6. /\ DOMAIN idempotencyRecords \subseteq DOMAIN idempotencyRecords'
        /\ \A i \in DOMAIN idempotencyRecords' \ DOMAIN idempotencyRecords : i.session = s
    BY <2>2
  <2> QED BY <2>2, <2>4, <2>5, <2>6, SessionReplaced
<1>6. CASE UNCHANGED vars
  BY <1>6 DEF vars, FallbackInv, AwaitsSession, Idle, Coherent, HasFinalize, MayFinalize
<1>7. ASSUME NEW r \in Requests, Shape(r) PROVE FallbackInv'
  BY <1>1, <1>2, <1>3, <1>4, <1>5, <1>7 DEF Shape, QuietStep, ReplayStep
<1>8. AwaitsSession
  BY DEF FallbackInv
<1> QED BY <1>6, <1>7, <1>8, StepShapes DEF Next

\* The sessions and records agree in every state.
LEMMA FallbackInvariant == Spec => []FallbackInv
<1>1. Init => FallbackInv
  BY DEF Init, FallbackInv, AwaitsSession, Idle
<1>2. FallbackInv /\ [Next]_vars => FallbackInv'
  BY FallbackStep
<1> QED BY <1>1, <1>2, PTL DEF Spec

\* A completed session, and with it a served result, has an accepted finalize
\* behind it.
THEOREM ResultsFollowFinalize == Spec => []ResultFollowsFinalize
<1>1. FallbackInv => ResultFollowsFinalize
  BY DEF FallbackInv, Coherent, HasFinalize, ResultFollowsFinalize
<1> QED BY <1>1, FallbackInvariant, PTL

\* The status never refuses the retry of an accepted finalize.
THEOREM FallbackRetriesAreNeverStale == Spec => []RetryIsNeverStale
<1>1. FallbackInv => RetryIsNeverStale
  BY DEF FallbackInv, RetryIsNeverStale
<1> QED BY <1>1, FallbackInvariant, PTL

-----------------------------------------------------------------------------
(* Steps *)

LeftByFinalize ==
    \A s \in DOMAIN sessions :
        (sessions[s].status = "completed" /\ sessions'[s].status # "completed") =>
            \E i \in DOMAIN idempotencyRecords' \ DOMAIN idempotencyRecords :
                i.session = s /\ i.route = "finalize"

\* No other shape of step leads out of completed.
LEMMA LeftStep ==
    ASSUME FallbackInv, Next PROVE LeftByFinalize
<1>1. PICK r \in Requests : Shape(r)
  BY StepShapes DEF FallbackInv, Next
<1>2. \A s \in DOMAIN sessions : sessions[s] \in StoredSessions /\ Coherent(sessions[s])
  BY DEF FallbackInv, Coherent
<1>3. CASE QuietStep(r) \/ ReplayStep(r)
  BY <1>3 DEF QuietStep, ReplayStep, LeftByFinalize
<1>4. CASE CreateStep(r)
  <2>1. sessionCounter \notin DOMAIN sessions
    BY DEF FallbackInv
  <2> QED BY <1>4, <2>1 DEF CreateStep, LeftByFinalize
<1>5. ASSUME NEW s \in DOMAIN sessions, MoveStep(r, s) PROVE LeftByFinalize
  <2>1. sessions[s].status = "completed" => Advanced(sessions[s]).status = "completed"
    BY <1>2, AdvancedIsCoherent
  <2> QED BY <1>5, <2>1 DEF MoveStep, LeftByFinalize
<1>6. ASSUME NEW s \in DOMAIN sessions, NEW q \in Questions, NEW content \in Contents,
             NEW key \in Keys, SaveStep(r, s, q, content, key)
      PROVE  LeftByFinalize
  <2>1. PICK updated : updated = [sessions[s] EXCEPT !.answers[q] = Saved(sessions[s].answers[q], content, key)]
    OBVIOUS
  <2>2. sessions' = [sessions EXCEPT ![s] = updated]
    BY <1>6, <2>1 DEF SaveStep, RecordStep
  <2>3. updated.status = sessions[s].status
    BY <1>2, <2>1 DEF StoredSessions
  <2> QED BY <2>2, <2>3 DEF LeftByFinalize
<1>7. ASSUME NEW s \in DOMAIN sessions, NEW payload \in FinalPayloads, NEW key \in Keys,
             FinalizeStep(r, s, payload, key)
      PROVE  LeftByFinalize
  <2>1. PICK id : id = [session |-> s, route |-> "finalize", key |-> key]
    OBVIOUS
  <2>2. /\ id \in DOMAIN idempotencyRecords' \ DOMAIN idempotencyRecords
        /\ \A t \in DOMAIN sessions \ {s} : sessions'[t] = sessions[t]
    BY <1>7, <2>1 DEF FinalizeStep, RecordStep
  <2> QED BY <2>1, <2>2 DEF LeftByFinalize
<1> QED BY <1>1, <1>3, <1>4, <1>5, <1>6, <1>7 DEF Shape

\* A completed session is taken back by a finalize with a new key and by
\* nothing else: no read, no replay, no body that arrives late.
THEOREM CompletedIsLeftOnlyByFinalize == Spec => CompletedIsLeftByFinalize
<1>1. FallbackInv /\ [Next]_vars => [LeftByFinalize]_vars
  BY LeftStep
<1>2. Spec => [][LeftByFinalize]_vars
  BY <1>1, FallbackInvariant, PTL DEF Spec
<1> QED BY <1>2 DEF CompletedIsLeftByFinalize, LeftByFinalize

-----------------------------------------------------------------------------
(* Responses *)

RecordsKept ==
    \A i \in DOMAIN idempotencyRecords :
        i \in DOMAIN idempotencyRecords' /\ idempotencyRecords'[i] = idempotencyRecords[i]

Agrees(x) ==
    x.code = "OK" => /\ x.id \in DOMAIN idempotencyRecords
                     /\ x.response = idempotencyRecords[x.id].response
First(x) == x.code = "OK" /\ ~x.idempotentReplay

ReplyInv ==
    /\ DOMAIN reply = Requests
    /\ \A r \in Requests : Agrees(reply[r])
    /\ \A r, p \in Requests :
         (First(reply[r]) /\ First(reply[p]) /\ reply[r].id = reply[p].id) => r = p

\* A response that agrees with its record, and that is no first response unless
\* its record is new, keeps the responses in agreement.
LEMMA AnswerKeepsReplies ==
    ASSUME ReplyInv, NEW r \in Requests, NEW x, Answer(r, x), RecordsKept, Agrees(x)',
           First(x) => x.id \notin DOMAIN idempotencyRecords
    PROVE  ReplyInv'
<1>1. reply'[r] = x /\ DOMAIN reply' = Requests /\ \A p \in Requests \ {r} : reply'[p] = reply[p]
  BY DEF Answer, ReplyInv
<1>2. ASSUME NEW p \in Requests PROVE Agrees(reply[p])'
  <2>1. CASE p = r
    BY <1>1, <2>1 DEF Agrees
  <2>2. CASE p # r
    BY <1>1, <2>2 DEF ReplyInv, Agrees, RecordsKept
  <2> QED BY <2>1, <2>2
<1>3. \A p \in Requests : First(reply[p]) => reply[p].id \in DOMAIN idempotencyRecords
  BY DEF ReplyInv, First, Agrees
<1>4. \A p, o \in Requests :
        (First(reply[p])' /\ First(reply[o])' /\ reply'[p].id = reply'[o].id) => p = o
  BY <1>1, <1>3 DEF ReplyInv, First
<1> QED BY <1>1, <1>2, <1>4 DEF ReplyInv

\* What a save and a finalize that are accepted have in common.
LEMMA RecordReply ==
    ASSUME NEW r, NEW id, NEW payload, NEW response, NEW updated,
           RecordStep(r, id, payload, response, updated)
    PROVE  /\ RecordsKept
           /\ \E x : /\ Answer(r, x) /\ Agrees(x)'
                     /\ x.id \notin DOMAIN idempotencyRecords
<1>1. PICK x : x = Accepted(id, response, FALSE)
  OBVIOUS
<1>2. x.code = "OK" /\ x.id = id /\ x.response = response
  BY <1>1 DEF Accepted
<1>3. RecordsKept /\ Answer(r, x) /\ id \notin DOMAIN idempotencyRecords
  BY <1>1 DEF RecordStep, RecordsKept
<1>4. Agrees(x)'
  BY <1>2 DEF RecordStep, Agrees
<1> QED BY <1>2, <1>3, <1>4

\* Every step keeps the responses in agreement with the records.
LEMMA ReplyStep ==
    ASSUME FallbackInv, ReplyInv, [Next]_vars PROVE ReplyInv'
<1>1. ASSUME NEW r \in Requests, Shape(r) PROVE ReplyInv'
  <2>1. CASE UNCHANGED idempotencyRecords /\ \E x : x.code # "OK" /\ Answer(r, x)
    BY <2>1, AnswerKeepsReplies DEF RecordsKept, Agrees, First
  <2>2. CASE ReplayStep(r)
    <3>1. PICK id \in DOMAIN idempotencyRecords :
            /\ Answer(r, Accepted(id, idempotencyRecords[id].response, TRUE))
            /\ UNCHANGED idempotencyRecords
      BY <2>2 DEF ReplayStep
    <3>2. PICK x : x = Accepted(id, idempotencyRecords[id].response, TRUE)
      OBVIOUS
    <3>3. x.code = "OK" /\ x.id = id /\ x.response = idempotencyRecords[id].response /\ x.idempotentReplay
      BY <3>2 DEF Accepted
    <3>4. RecordsKept /\ Answer(r, x) /\ Agrees(x)' /\ ~First(x)
      BY <3>1, <3>2, <3>3 DEF RecordsKept, Agrees, First
    <3> QED BY <3>4, AnswerKeepsReplies
  <2>3. CASE \E id, payload, response, updated : RecordStep(r, id, payload, response, updated)
    <3>1. PICK x : /\ RecordsKept /\ Answer(r, x) /\ Agrees(x)'
                   /\ x.id \notin DOMAIN idempotencyRecords
      BY <2>3, RecordReply
    <3> QED BY <3>1, AnswerKeepsReplies
  <2>4. CASE CreateStep(r)
    <3>1. View(sessionCounter, "pending").code # "OK"
      BY DEF View
    <3> QED BY <2>1, <2>4, <3>1 DEF CreateStep
  <2>5. ASSUME NEW s, MoveStep(r, s) PROVE ReplyInv'
    BY <2>1, <2>5 DEF MoveStep
  <2>6. ASSUME NEW s, NEW q, NEW content, NEW key, SaveStep(r, s, q, content, key) PROVE ReplyInv'
    BY <2>3, <2>6, Zenon DEF SaveStep
  <2>7. ASSUME NEW s, NEW payload, NEW key, FinalizeStep(r, s, payload, key) PROVE ReplyInv'
    BY <2>3, <2>7, Zenon DEF FinalizeStep
  <2>8. CASE QuietStep(r)
    BY <2>1, <2>8 DEF QuietStep
  <2> QED BY <1>1, <2>2, <2>4, <2>5, <2>6, <2>7, <2>8 DEF Shape
<1>2. CASE UNCHANGED vars
  BY <1>2 DEF vars, ReplyInv, Agrees, First
<1>3. AwaitsSession
  BY DEF FallbackInv
<1> QED BY <1>1, <1>2, <1>3, StepShapes DEF Next

\* Of the requests with one key that await their bodies together all but one
\* are replays, and every client gets the response of the first.
THEOREM FallbackFirstResponsesAreUnique == Spec => []OneFirstResponse
<1>1. Init => ReplyInv
  BY DEF Init, NoReply, ReplyInv, Agrees, First
<1>2. FallbackInv /\ ReplyInv /\ [Next]_vars => ReplyInv'
  BY ReplyStep
<1>3. ReplyInv => OneFirstResponse
  BY DEF ReplyInv, Agrees, First, OneFirstResponse
<1> QED BY <1>1, <1>2, <1>3, FallbackInvariant, PTL DEF Spec

-----------------------------------------------------------------------------
(* Answers *)

SavesOf(s, q) ==
    {i \in DOMAIN idempotencyRecords :
        i.session = s /\ i.route = "answers" /\ idempotencyRecords[i].payload.question = q}
VersionOf(i) == idempotencyRecords[i].response.answerVersion

\* The versions given for a question are those up to the stored one.
Serial(s, q) ==
    /\ \A i, j \in SavesOf(s, q) : VersionOf(i) = VersionOf(j) => i = j
    /\ {VersionOf(i) : i \in SavesOf(s, q)} = 1..sessions[s].answers[q].answerVersion
AnswersInv == \A s \in DOMAIN sessions, q \in Questions : Serial(s, q)

\* A question nobody saves keeps its saves and its version.
LEMMA UnsavedQuestion ==
    ASSUME NEW s, NEW q, Serial(s, q), RecordsKept,
           \A i \in DOMAIN idempotencyRecords' \ DOMAIN idempotencyRecords :
              ~(i.session = s /\ i.route = "answers" /\ idempotencyRecords'[i].payload.question = q),
           sessions'[s].answers[q] = sessions[s].answers[q]
    PROVE  Serial(s, q)'
<1>1. /\ SavesOf(s, q)' = SavesOf(s, q)
      /\ \A i \in SavesOf(s, q) : VersionOf(i)' = VersionOf(i)
  BY DEF RecordsKept, SavesOf, VersionOf
<1>2. {VersionOf(i) : i \in SavesOf(s, q)}' = {VersionOf(i) : i \in SavesOf(s, q)}
  BY <1>1
<1> QED BY <1>1, <1>2 DEF Serial

\* A save is given the version after the stored one.
LEMMA SavedQuestion ==
    ASSUME NEW s, NEW q, NEW id, Serial(s, q), RecordsKept,
           sessions[s].answers[q].answerVersion \in Nat,
           DOMAIN idempotencyRecords' = DOMAIN idempotencyRecords \cup {id},
           id \notin DOMAIN idempotencyRecords,
           id.session = s, id.route = "answers",
           idempotencyRecords'[id].payload.question = q,
           sessions'[s].answers[q].answerVersion = sessions[s].answers[q].answerVersion + 1,
           idempotencyRecords'[id].response.answerVersion = sessions'[s].answers[q].answerVersion
    PROVE  Serial(s, q)'
<1> DEFINE version == sessions[s].answers[q].answerVersion
           saves == SavesOf(s, q)
<1>1. /\ SavesOf(s, q)' = saves \cup {id} /\ id \notin saves
      /\ \A i \in saves : VersionOf(i)' = VersionOf(i)
      /\ VersionOf(id)' = version + 1
  BY DEF RecordsKept, SavesOf, VersionOf
<1>2. {VersionOf(i) : i \in saves} = 1..version
  BY DEF Serial
<1>3. \A i \in saves : VersionOf(i) \in 1..version
  BY <1>2
<1>4. \A i, j \in SavesOf(s, q)' : VersionOf(i)' = VersionOf(j)' => i = j
  BY <1>1, <1>3 DEF Serial
<1>5. {VersionOf(i) : i \in SavesOf(s, q)}' = 1..(version + 1)
  <2>1. {VersionOf(i) : i \in SavesOf(s, q)}' = {VersionOf(i) : i \in saves} \cup {version + 1}
    BY <1>1
  <2> QED BY <1>2, <2>1
<1> QED BY <1>4, <1>5 DEF Serial

\* A step that adds no record and touches no answer of the sessions there were.
LEMMA UnsavedStep ==
    ASSUME FallbackInv, AnswersInv, UNCHANGED idempotencyRecords,
           \A s \in DOMAIN sessions : sessions'[s].answers = sessions[s].answers,
           \A s \in DOMAIN sessions' \ DOMAIN sessions, q \in Questions :
              sessions'[s].answers[q].answerVersion = 0
    PROVE  AnswersInv'
<1> SUFFICES ASSUME NEW s \in DOMAIN sessions', NEW q \in Questions PROVE Serial(s, q)'
  BY DEF AnswersInv
<1>1. CASE s \in DOMAIN sessions
  <2>1. Serial(s, q) /\ sessions'[s].answers[q] = sessions[s].answers[q]
    BY <1>1 DEF AnswersInv
  <2>2. RecordsKept /\ DOMAIN idempotencyRecords' \ DOMAIN idempotencyRecords = {}
    BY DEF RecordsKept
  <2> QED BY <2>1, <2>2, UnsavedQuestion
<1>2. CASE s \notin DOMAIN sessions
  <2>1. SavesOf(s, q)' = {}
    BY <1>2 DEF SavesOf, FallbackInv
  <2>2. {VersionOf(i) : i \in SavesOf(s, q)}' = {}
    BY <2>1
  <2>3. 1..sessions'[s].answers[q].answerVersion = {}
    BY <1>2
  <2> QED BY <2>1, <2>2, <2>3 DEF Serial
<1> QED BY <1>1, <1>2

\* What an accepted mutation does to the records and to its session.
LEMMA RecordEffect ==
    ASSUME NEW r, NEW id, NEW payload, NEW response, NEW updated,
           RecordStep(r, id, payload, response, updated), id.session \in DOMAIN sessions
    PROVE  /\ RecordsKept /\ id \notin DOMAIN idempotencyRecords
           /\ DOMAIN idempotencyRecords' = DOMAIN idempotencyRecords \cup {id}
           /\ idempotencyRecords'[id].payload = payload
           /\ idempotencyRecords'[id].response = response
           /\ DOMAIN sessions' = DOMAIN sessions
           /\ sessions'[id.session] = updated
           /\ \A s \in DOMAIN sessions \ {id.session} : sessions'[s] = sessions[s]
BY DEF RecordStep, RecordsKept

\* An accepted save takes the next version of its question.
LEMMA SaveKeepsAnswers ==
    ASSUME FallbackInv, AnswersInv, NEW r, NEW s \in DOMAIN sessions, NEW q \in Questions,
           NEW content, NEW key, SaveStep(r, s, q, content, key)
    PROVE  AnswersInv'
<1>1. PICK answer : answer = Saved(sessions[s].answers[q], content, key)
  OBVIOUS
<1>2. PICK id : id = [session |-> s, route |-> "answers", key |-> key]
  OBVIOUS
<1>3. PICK payload, response, updated :
        /\ payload.question = q /\ response.answerVersion = answer.answerVersion
        /\ updated = [sessions[s] EXCEPT !.answers[q] = answer]
        /\ RecordStep(r, id, payload, response, updated)
  <2>1. PICK payload : payload = [question |-> q, content |-> content]
    OBVIOUS
  <2>2. PICK response : response = [status |-> sessions[s].status, answerId |-> answer.answerId,
                                    answerVersion |-> answer.answerVersion]
    OBVIOUS
  <2>3. PICK updated : updated = [sessions[s] EXCEPT !.answers[q] = answer]
    OBVIOUS
  <2>4. payload.question = q /\ response.answerVersion = answer.answerVersion
    BY <2>1, <2>2
  <2>5. RecordStep(r, id, payload, response, updated)
    BY <1>1, <1>2, <2>1, <2>2, <2>3, Zenon DEF SaveStep
  <2> QED BY <2>3, <2>4, <2>5
<1>4. id.session = s /\ id.route = "answers"
  BY <1>2
<1>5. /\ RecordsKept /\ id \notin DOMAIN idempotencyRecords
      /\ DOMAIN idempotencyRecords' = DOMAIN idempotencyRecords \cup {id}
      /\ idempotencyRecords'[id].payload.question = q
      /\ idempotencyRecords'[id].response.answerVersion = answer.answerVersion
      /\ DOMAIN sessions' = DOMAIN sessions
      /\ sessions'[s] = updated
      /\ \A p \in DOMAIN sessions \ {s} : sessions'[p] = sessions[p]
  BY <1>3, <1>4 DEF RecordStep, RecordsKept
<1>6. sessions[s] \in StoredSessions /\ sessions[s].answers[q].answerVersion \in Nat
  BY DEF FallbackInv, Coherent, StoredSessions, StoredAnswers
<1>7. /\ sessions'[s].answers[q] = answer
      /\ \A p \in Questions \ {q} : sessions'[s].answers[p] = sessions[s].answers[p]
  BY <1>3, <1>5, <1>6 DEF StoredSessions
<1>8. Serial(s, q)'
  <2>1. Serial(s, q)
    BY DEF AnswersInv
  <2>2. /\ sessions'[s].answers[q].answerVersion = sessions[s].answers[q].answerVersion + 1
        /\ idempotencyRecords'[id].response.answerVersion = sessions'[s].answers[q].answerVersion
    BY <1>1, <1>5, <1>7 DEF Saved
  <2> QED BY <1>4, <1>5, <1>6, <2>1, <2>2, SavedQuestion
<1>9. ASSUME NEW p \in DOMAIN sessions, NEW o \in Questions, p # s \/ o # q PROVE Serial(p, o)'
  <2>1. Serial(p, o) /\ sessions'[p].answers[o] = sessions[p].answers[o]
    BY <1>5, <1>7, <1>9 DEF AnswersInv
  <2>2. \A i \in DOMAIN idempotencyRecords' \ DOMAIN idempotencyRecords :
          ~(i.session = p /\ i.route = "answers" /\ idempotencyRecords'[i].payload.question = o)
    BY <1>4, <1>5, <1>9
  <2> QED BY <1>5, <2>1, <2>2, UnsavedQuestion
<1> QED BY <1>5, <1>8, <1>9 DEF AnswersInv

\* An accepted finalize leaves the answers and their saves alone.
LEMMA FinalizeKeepsAnswers ==
    ASSUME FallbackInv, AnswersInv, NEW r, NEW s \in DOMAIN sessions, NEW payload, NEW key,
           FinalizeStep(r, s, payload, key)
    PROVE  AnswersInv'
<1>1. PICK id : id = [session |-> s, route |-> "finalize", key |-> key]
  OBVIOUS
<1>2. PICK response, updated :
        updated = Finalized(sessions[s]) /\ RecordStep(r, id, payload, response, updated)
  BY <1>1, Zenon DEF FinalizeStep
<1>3. id.session = s /\ id.route # "answers"
  BY <1>1
<1>4. /\ RecordsKept /\ DOMAIN idempotencyRecords' = DOMAIN idempotencyRecords \cup {id}
      /\ DOMAIN sessions' = DOMAIN sessions /\ sessions'[s] = updated
      /\ \A p \in DOMAIN sessions \ {s} : sessions'[p] = sessions[p]
  BY <1>2, <1>3, RecordEffect
<1>5. updated.answers = sessions[s].answers
  BY <1>2 DEF Finalized, FallbackInv, Coherent, StoredSessions
<1> SUFFICES ASSUME NEW p \in DOMAIN sessions, NEW q \in Questions PROVE Serial(p, q)'
  BY <1>4 DEF AnswersInv
<1>6. Serial(p, q) /\ sessions'[p].answers[q] = sessions[p].answers[q]
  BY <1>4, <1>5 DEF AnswersInv
<1>7. \A i \in DOMAIN idempotencyRecords' \ DOMAIN idempotencyRecords :
        ~(i.session = p /\ i.route = "answers" /\ idempotencyRecords'[i].payload.question = q)
  BY <1>3, <1>4
<1> QED BY <1>4, <1>6, <1>7, UnsavedQuestion

\* Every step keeps the saves of every question in line with its version.
LEMMA AnswersStep ==
    ASSUME FallbackInv, AnswersInv, [Next]_vars PROVE AnswersInv'
<1>1. CASE UNCHANGED <<sessions, idempotencyRecords>>
  BY <1>1, UnsavedStep
<1>2. ASSUME NEW r, CreateStep(r) PROVE AnswersInv'
  <2>1. sessionCounter \notin DOMAIN sessions
    BY DEF FallbackInv
  <2>2. /\ DOMAIN sessions' = DOMAIN sessions \cup {sessionCounter}
        /\ sessions'[sessionCounter] = CreateSessionRecord
        /\ \A s \in DOMAIN sessions : sessions'[s] = sessions[s]
        /\ UNCHANGED idempotencyRecords
    BY <1>2, <2>1 DEF CreateStep
  <2>3. \A q \in Questions : CreateSessionRecord.answers[q].answerVersion = 0
    BY DEF CreateSessionRecord, NoAnswer
  <2> QED BY <2>2, <2>3, UnsavedStep
<1>3. ASSUME NEW r, NEW s \in DOMAIN sessions, MoveStep(r, s) PROVE AnswersInv'
  <2>1. /\ Advanced(sessions[s]).answers = sessions[s].answers
        /\ Completed(sessions[s]).answers = sessions[s].answers
    BY AdvancedIsCoherent DEF FallbackInv, Completed, Coherent, StoredSessions
  <2>2. /\ \A t \in DOMAIN sessions : sessions'[t].answers = sessions[t].answers
        /\ DOMAIN sessions' = DOMAIN sessions /\ UNCHANGED idempotencyRecords
    BY <1>3, <2>1 DEF MoveStep
  <2> QED BY <2>2, UnsavedStep
<1>4. ASSUME NEW r \in Requests, Shape(r) PROVE AnswersInv'
  <2>1. CASE QuietStep(r) \/ ReplayStep(r)
    BY <1>1, <2>1 DEF QuietStep, ReplayStep
  <2> QED BY <1>2, <1>3, <1>4, <2>1, SaveKeepsAnswers, FinalizeKeepsAnswers DEF Shape
<1>5. CASE UNCHANGED vars
  BY <1>1, <1>5 DEF vars
<1>6. AwaitsSession
  BY DEF FallbackInv
<1> QED BY <1>4, <1>5, <1>6, StepShapes DEF Next

\* Saves that await their bodies at the same time never share a version.
THEOREM FallbackVersionsAreSerial == Spec => []VersionsAreSerial
<1>1. Init => AnswersInv
  BY DEF Init, AnswersInv
<1>2. FallbackInv /\ AnswersInv /\ [Next]_vars => AnswersInv'
  BY AnswersStep
<1>3. AnswersInv => VersionsAreSerial
  BY DEF AnswersInv, Serial, SavesOf, VersionOf, VersionsAreSerial
<1> QED BY <1>1, <1>2, <1>3, FallbackInvariant, PTL DEF Spec

-----------------------------------------------------------------------------
(* Types *)

NamedAnswers ==
    {NoAnswer} \cup [answerId : Keys, answerContent : Contents, answerVersion : Nat \ {0}]

\* A session was polled as often as its status says, and a stored answer has
\* the id that its first save drew.
Narrated(session) ==
    /\ session.pollCount = IF session.status = "pending" THEN 0
                           ELSE IF session.status = "preparing" THEN 1 ELSE 2
    /\ \A q \in Questions : session.answers[q] \in NamedAnswers

TypesInv ==
    /\ sessionCounter <= MaxSessions + 1
    /\ \A s \in DOMAIN sessions : Narrated(sessions[s])
    /\ DOMAIN idempotencyRecords \subseteq RecordKeys
    /\ IsFiniteSet(DOMAIN idempotencyRecords)
    /\ Cardinality(DOMAIN idempotencyRecords) <= MaxMutations
    /\ \A r \in Requests : Idle(r) \/ awaiting[r] \in
         [route : {"answers", "finalize"}, session : DOMAIN sessions]

\* A save of a stored answer is a stored answer.
LEMMA SavedIsNamed ==
    ASSUME NEW existing \in NamedAnswers, NEW content \in Contents, NEW key \in Keys
    PROVE  Saved(existing, content, key) \in NamedAnswers
<1>1. CASE existing = NoAnswer
  BY <1>1 DEF Saved, NoAnswer, NamedAnswers
<1>2. CASE existing \in [answerId : Keys, answerContent : Contents, answerVersion : Nat \ {0}]
  <2>1. existing.answerVersion + 1 \in Nat \ {0} /\ existing.answerVersion # 0
    BY <1>2
  <2> QED BY <1>2, <2>1 DEF Saved, NamedAnswers
<1> QED BY <1>1, <1>2 DEF NamedAnswers

\* What the handlers make of a session is narrated when the session is.
LEMMA NarratedSessions ==
    /\ Narrated(CreateSessionRecord)
    /\ \A session : (Coherent(session) /\ Narrated(session)) =>
         /\ Narrated(Advanced(session))
         /\ session.status = "submitted" => Narrated(Completed(session))
         /\ MayFinalize(session) => Narrated(Finalized(session))
<1>1. Narrated(CreateSessionRecord)
  BY DEF Narrated, CreateSessionRecord, NamedAnswers
<1>2. ASSUME NEW session, Coherent(session), Narrated(session)
      PROVE  /\ Narrated(Advanced(session))
             /\ session.status = "submitted" => Narrated(Completed(session))
             /\ MayFinalize(session) => Narrated(Finalized(session))
  <2> session \in StoredSessions
    BY <1>2 DEF Coherent
  <2>1. CASE session.status = "pending"
    <3>1. Advanced(session) = [session EXCEPT !.pollCount = 1, !.status = "preparing",
                                              !.preparingAt = TRUE]
      BY <1>2, <2>1 DEF Advanced, Narrated
    <3>2. /\ Advanced(session).pollCount = 1 /\ Advanced(session).status = "preparing"
          /\ Advanced(session).answers = session.answers
      BY <3>1 DEF StoredSessions
    <3> QED BY <1>2, <2>1, <3>2 DEF Narrated, MayFinalize
  <2>2. CASE session.status = "preparing"
    <3>1. Advanced(session) = [session EXCEPT !.pollCount = 2, !.status = "in_progress",
                                              !.startedAt = TRUE]
      BY <1>2, <2>2 DEF Advanced, Narrated
    <3>2. /\ Advanced(session).pollCount = 2 /\ Advanced(session).status = "in_progress"
          /\ Advanced(session).answers = session.answers
      BY <3>1 DEF StoredSessions
    <3> QED BY <1>2, <2>2, <3>2 DEF Narrated, MayFinalize
  <2>3. CASE session.status \notin {"pending", "preparing"}
    <3>1. session.pollCount = 2 /\ Advanced(session) = session
      BY <1>2, <2>3 DEF Narrated, Advanced
    <3>2. /\ Completed(session).pollCount = 2 /\ Completed(session).status = "completed"
          /\ Completed(session).answers = session.answers
          /\ Finalized(session).pollCount = 2 /\ Finalized(session).status = "submitted"
          /\ Finalized(session).answers = session.answers
      BY <3>1 DEF Completed, Finalized, StoredSessions
    <3> QED BY <1>2, <3>1, <3>2 DEF Narrated
  <2> QED BY <2>1, <2>2, <2>3
<1> QED BY <1>1, <1>2

\* A handler leaves its slot empty or with a session that exists.
LEMMA AnswerKeepsSlots ==
    ASSUME TypesInv, NEW r, NEW x, Answer(r, x), DOMAIN sessions \subseteq DOMAIN sessions',
           DOMAIN awaiting = Requests
    PROVE  \A p \in Requests : Idle(p)' \/ awaiting'[p] \in
             [route : {"answers", "finalize"}, session : DOMAIN sessions']
BY DEF TypesInv, Answer, Idle

\* An accepted mutation adds one record below the bound and narrates its session.
LEMMA RecordKeepsTypes ==
    ASSUME FallbackInv, TypesInv, NEW r, NEW id \in RecordKeys, NEW payload, NEW response,
           NEW updated, Narrated(updated), id.session \in DOMAIN sessions,
           RecordStep(r, id, payload, response, updated)
    PROVE  TypesInv'
<1>1. /\ DOMAIN idempotencyRecords' = DOMAIN idempotencyRecords \cup {id}
      /\ id \notin DOMAIN idempotencyRecords
      /\ DOMAIN sessions' = DOMAIN sessions
      /\ sessions'[id.session] = updated
      /\ \A s \in DOMAIN sessions \ {id.session} : sessions'[s] = sessions[s]
      /\ Cardinality(DOMAIN idempotencyRecords) < MaxMutations
      /\ sessionCounter' = sessionCounter
  BY DEF RecordStep
<1>2. PICK x : Answer(r, x)
  BY DEF RecordStep
<1>3. \A p \in Requests : Idle(p)' \/ awaiting'[p] \in
         [route : {"answers", "finalize"}, session : DOMAIN sessions']
  BY <1>1, <1>2, AnswerKeepsSlots DEF FallbackInv
<1>4. /\ IsFiniteSet(DOMAIN idempotencyRecords')
      /\ Cardinality(DOMAIN idempotencyRecords') <= MaxMutations
  <2>1. Cardinality(DOMAIN idempotencyRecords) \in Nat
    BY FS_CardinalityType DEF TypesInv
  <2>2. /\ IsFiniteSet(DOMAIN idempotencyRecords \cup {id})
        /\ Cardinality(DOMAIN idempotencyRecords \cup {id})
             = Cardinality(DOMAIN idempotencyRecords) + 1
    BY <1>1, FS_AddElement DEF TypesInv
  <2> QED BY <1>1, <2>1, <2>2, BoundAssumption
<1>5. \A s \in DOMAIN sessions' : Narrated(sessions'[s])
  BY <1>1 DEF TypesInv
<1>6. DOMAIN idempotencyRecords' \subseteq RecordKeys
  BY <1>1 DEF TypesInv
<1> QED BY <1>1, <1>3, <1>4, <1>5, <1>6 DEF TypesInv, Narrated

\* Every step keeps the types.
LEMMA TypesStep ==
    ASSUME FallbackInv, TypesInv, [Next]_vars PROVE TypesInv'
<1>1. ASSUME NEW r \in Requests, NEW x, Answer(r, x), UNCHANGED idempotencyRecords,
             DOMAIN sessions \subseteq DOMAIN sessions', sessionCounter' <= MaxSessions + 1,
             \A s \in DOMAIN sessions' : Narrated(sessions'[s])
      PROVE  TypesInv'
  <2>1. \A p \in Requests : Idle(p)' \/ awaiting'[p] \in
           [route : {"answers", "finalize"}, session : DOMAIN sessions']
    BY <1>1, AnswerKeepsSlots DEF FallbackInv
  <2> QED BY <1>1, <2>1 DEF TypesInv, Narrated
<1>2. CASE \E r \in Requests : QuietStep(r) \/ ReplayStep(r)
  <2>1. \E r \in Requests : \E x : Answer(r, x)
    BY <1>2 DEF QuietStep, ReplayStep
  <2>2. UNCHANGED <<sessions, sessionCounter, idempotencyRecords>>
    BY <1>2 DEF QuietStep, ReplayStep
  <2> QED BY <1>1, <2>1, <2>2 DEF TypesInv
<1>3. ASSUME NEW r \in Requests, CreateStep(r) PROVE TypesInv'
  <2>1. sessionCounter \notin DOMAIN sessions
    BY DEF FallbackInv
  <2>2. /\ DOMAIN sessions' = DOMAIN sessions \cup {sessionCounter}
        /\ sessions'[sessionCounter] = CreateSessionRecord
        /\ \A s \in DOMAIN sessions : sessions'[s] = sessions[s]
        /\ sessionCounter' = sessionCounter + 1 /\ sessionCounter <= MaxSessions
        /\ UNCHANGED idempotencyRecords
    BY <1>3, <2>1 DEF CreateStep
  <2>3. \A s \in DOMAIN sessions' : Narrated(sessions'[s])
    BY <2>2, NarratedSessions DEF TypesInv
  <2>4. sessionCounter' <= MaxSessions + 1
    BY <2>2, BoundAssumption DEF FallbackInv
  <2>5. PICK x : Answer(r, x)
    BY <1>3 DEF CreateStep
  <2> QED BY <1>1, <2>2, <2>3, <2>4, <2>5
<1>4. ASSUME NEW r \in Requests, NEW s \in DOMAIN sessions, MoveStep(r, s) PROVE TypesInv'
  <2>1. PICK x : Answer(r, x)
    BY <1>4 DEF MoveStep
  <2>2. Coherent(sessions[s]) /\ Narrated(sessions[s])
    BY DEF FallbackInv, TypesInv
  <2>3. PICK updated : /\ Narrated(updated)
                       /\ sessions' = [sessions EXCEPT ![s] = updated]
    <3>1. CASE sessions' = [sessions EXCEPT ![s] = Advanced(@)]
      BY <2>2, <3>1, NarratedSessions
    <3>2. CASE sessions[s].status = "submitted" /\ sessions' = [sessions EXCEPT ![s] = Completed(@)]
      BY <2>2, <3>2, NarratedSessions
    <3> QED BY <1>4, <3>1, <3>2 DEF MoveStep
  <2>4. \A t \in DOMAIN sessions' : Narrated(sessions'[t])
    BY <2>3 DEF TypesInv
  <2>5. UNCHANGED <<sessionCounter, idempotencyRecords>> /\ DOMAIN sessions' = DOMAIN sessions
    BY <1>4, <2>3 DEF MoveStep
  <2> QED BY <1>1, <2>1, <2>4, <2>5 DEF TypesInv
<1>5. \A s \in DOMAIN sessions : s \in SessionIds
  BY BoundAssumption DEF FallbackInv, TypesInv, SessionIds
<1>6. ASSUME NEW r \in Requests, NEW s \in DOMAIN sessions, NEW q \in Questions,
             NEW content \in Contents, NEW key \in Keys, SaveStep(r, s, q, content, key)
      PROVE  TypesInv'
  <2>1. PICK answer : answer = Saved(sessions[s].answers[q], content, key)
    OBVIOUS
  <2>2. PICK id : id = [session |-> s, route |-> "answers", key |-> key]
    OBVIOUS
  <2>3. PICK updated : updated = [sessions[s] EXCEPT !.answers[q] = answer]
    OBVIOUS
  <2>4. \E payload, response : RecordStep(r, id, payload, response, updated)
    BY <1>6, <2>1, <2>2, <2>3, Zenon DEF SaveStep
  <2>5. id \in RecordKeys /\ id.session = s
    BY <1>5, <2>2 DEF RecordKeys
  <2>6. sessions[s] \in StoredSessions /\ Narrated(sessions[s])
    BY DEF FallbackInv, TypesInv, Coherent
  <2>7. answer \in NamedAnswers
    BY <2>1, <2>6, SavedIsNamed DEF Narrated
  <2>8. /\ updated.pollCount = sessions[s].pollCount /\ updated.status = sessions[s].status
        /\ updated.answers = [sessions[s].answers EXCEPT ![q] = answer]
    BY <2>3, <2>6 DEF StoredSessions
  <2>9. Narrated(updated)
    BY <2>6, <2>7, <2>8 DEF Narrated, StoredSessions
  <2> QED BY <2>4, <2>5, <2>9, RecordKeepsTypes
<1>7. ASSUME NEW r \in Requests, NEW s \in DOMAIN sessions, NEW payload \in FinalPayloads,
             NEW key \in Keys, FinalizeStep(r, s, payload, key)
      PROVE  TypesInv'
  <2>1. PICK id : id = [session |-> s, route |-> "finalize", key |-> key]
    OBVIOUS
  <2>2. PICK updated : updated = Finalized(sessions[s])
    OBVIOUS
  <2>3. \E response : RecordStep(r, id, payload, response, updated)
    BY <1>7, <2>1, <2>2, Zenon DEF FinalizeStep
  <2>4. id \in RecordKeys /\ id.session = s
    BY <1>5, <2>1 DEF RecordKeys
  <2>5. Narrated(updated)
    BY <1>7, <2>2, NarratedSessions DEF FinalizeStep, FallbackInv, TypesInv
  <2> QED BY <2>3, <2>4, <2>5, RecordKeepsTypes
<1>8. ASSUME NEW r \in Requests, Shape(r) PROVE TypesInv'
  BY <1>2, <1>3, <1>4, <1>6, <1>7, <1>8 DEF Shape
<1>9. CASE UNCHANGED vars
  BY <1>9 DEF vars, TypesInv, Narrated, Idle
<1>10. AwaitsSession
  BY DEF FallbackInv
<1> QED BY <1>8, <1>9, <1>10, StepShapes DEF Next

\* The saves of a question have the versions 1, 2, ... of its answer, so there
\* are at least as many records as the version says.
LEMMA VersionIsBounded ==
    ASSUME TypesInv, AnswersInv, NEW s \in DOMAIN sessions, NEW q \in Questions,
           sessions[s].answers[q].answerVersion \in Nat
    PROVE  sessions[s].answers[q].answerVersion <= MaxMutations
<1> DEFINE version == sessions[s].answers[q].answerVersion
           saves == SavesOf(s, q)
           saveOf == [n \in 1..version |-> CHOOSE i \in saves : VersionOf(i) = n]
<1>1. {VersionOf(i) : i \in saves} = 1..version
  BY DEF AnswersInv, Serial
<1>2. \A n \in 1..version : saveOf[n] \in saves /\ VersionOf(saveOf[n]) = n
  BY <1>1
<1>3. saveOf \in Injection(1..version, saves)
  BY <1>2 DEF Injection, IsInjective
<1>4. saves \in SUBSET DOMAIN idempotencyRecords
  BY DEF SavesOf
<1>5. IsFiniteSet(saves) /\ Cardinality(saves) <= MaxMutations /\ Cardinality(saves) \in Nat
  BY <1>4, FS_Subset, FS_CardinalityType, BoundAssumption DEF TypesInv
<1>6. Cardinality(1..version) <= Cardinality(saves)
  BY <1>3, <1>5, FS_Injection
<1>7. Cardinality(1..version) = version
  BY FS_Interval
<1> QED BY <1>5, <1>6, <1>7, BoundAssumption

\* Every variable has its type; a request awaits its body for a session that
\* exists, and no version exceeds the number of accepted mutations.
THEOREM FallbackTypeCorrect == Spec => []TypeOK
<1>1. Init => TypesInv
  BY FS_EmptySet, BoundAssumption DEF Init, TypesInv, Idle
<1>2. FallbackInv /\ TypesInv /\ [Next]_vars => TypesInv'
  BY TypesStep
<1>3. Init => AnswersInv
  BY DEF Init, AnswersInv
<1>4. FallbackInv /\ AnswersInv /\ [Next]_vars => AnswersInv'
  BY AnswersStep
<1>5. FallbackInv /\ AnswersInv /\ TypesInv => TypeOK
  <2> SUFFICES ASSUME FallbackInv, AnswersInv, TypesInv PROVE TypeOK
    OBVIOUS
  <2>1. ASSUME NEW s \in DOMAIN sessions
        PROVE  sessions[s] \in SessionRecords
    <3>1. sessions[s] \in StoredSessions /\ Narrated(sessions[s])
      BY DEF FallbackInv, TypesInv, Coherent
    <3>2. ASSUME NEW q \in Questions
          PROVE  sessions[s].answers[q] \in {NoAnswer} \cup
                   [answerId : Keys, answerContent : Contents, answerVersion : 1..MaxMutations]
      <4>1. sessions[s].answers[q] \in NamedAnswers
        BY <3>1 DEF Narrated
      <4>2. sessions[s].answers[q].answerVersion \in Nat
        BY <3>1 DEF StoredSessions, StoredAnswers
      <4>3. sessions[s].answers[q].answerVersion <= MaxMutations
        BY <4>2, VersionIsBounded
      <4> QED BY <4>1, <4>3, BoundAssumption DEF NamedAnswers
    <3>3. sessions[s].pollCount \in 0..2
      BY <3>1 DEF Narrated
    <3>4. sessions[s].answers \in [Questions -> {NoAnswer} \cup
            [answerId : Keys, answerContent : Contents, answerVersion : 1..MaxMutations]]
      BY <3>1, <3>2 DEF StoredSessions
    <3> QED BY <3>1, <3>3, <3>4 DEF StoredSessions, SessionRecords
  <2>2. sessionCounter \in 1..(MaxSessions + 1)
    BY BoundAssumption DEF FallbackInv, TypesInv
  <2> QED BY <2>1, <2>2 DEF FallbackInv, TypesInv, TypeOK
<1> QED BY <1>1, <1>2, <1>3, <1>4, <1>5, FallbackInvariant, PTL DEF Spec
=============================================================================
