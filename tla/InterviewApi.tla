---------------------------- MODULE InterviewApi ----------------------------
(***************************************************************************)
(* The Go interview API, backend/internal/httpapi.  Every HTTP request     *)
(* runs in a goroutine of its own; Server.mu guards the maps; the events   *)
(* leave through a buffered channel that one goroutine drains.             *)
(*                                                                         *)
(* A handler is one step up to the Unlock that ends its critical section.  *)
(* What it does after the Unlock (the non-blocking send, the second        *)
(* critical section of routeToDLQ, the write of the response) are steps of *)
(* their own, so that other requests run between them.                     *)
(***************************************************************************)
EXTENDS Naturals, Sequences, FiniteSets

CONSTANTS
    Requests,         \* the goroutines that may serve a request at one time
    Questions,        \* questionIds of the fixtures
    UnknownQuestion,  \* any other questionId
    Contents,         \* answer contents, Blank among them
    Blank,            \* a content strings.TrimSpace makes empty
    Keys,             \* idempotency keys
    EmptyKey,         \* a key strings.TrimSpace makes empty
    Malformed,        \* a body that is not JSON
    FinalPayloads,    \* what else a finalize or an evaluation body says
    QueueCapacity,    \* of the channel eventQueue (128 in NewServer)
    MaxSessions,      \* bound: sessions created
    MaxMutations      \* bound: idempotency records

ASSUME QuestionsAssumption == IsFiniteSet(Questions) /\ UnknownQuestion \notin Questions
ASSUME KeysAssumption == EmptyKey \notin Keys /\ Malformed \notin Keys \cup {EmptyKey}
ASSUME ContentsAssumption == Blank \in Contents
ASSUME CapacityAssumption == QueueCapacity \in Nat \ {0}
ASSUME BoundsAssumption == MaxSessions \in Nat /\ MaxMutations \in Nat

VARIABLES
    sessions,    \* Server.sessions: sessionId -> sessionRecord
    counter,     \* Server.counter, the number of the next session
    idempotent,  \* Server.idempotent: record key -> payload and first response
    eventQueue,  \* the channel
    consumed,    \* the events consumeEvents has logged
    dlqRecords,  \* Server.dlqRecords
    pc,          \* where each request is
    envelope,    \* the event a request has to publish
    reply        \* the response a request has to write

serverVars == <<sessions, counter, idempotent>>
eventVars == <<eventQueue, consumed, dlqRecords>>
requestVars == <<pc, envelope, reply>>
vars == <<sessions, counter, idempotent, eventQueue, consumed, dlqRecords,
          pc, envelope, reply>>

-----------------------------------------------------------------------------
(* Data *)

SessionIds == 1..MaxSessions
Statuses == {"pending", "preparing", "in_progress", "submitted", "completed"}
Routes == {"answers", "finalize", "evaluations"}

\* The key of an idempotency record.  The actor is fixed by the route.
\* deriveEventID hashes the same four parts, so it also names the event.
MutationIds == [session : SessionIds, route : Routes, key : Keys]
DeriveEventID(s, route, key) == [session |-> s, route |-> route, key |-> key]

\* The creation event has no fixed id: makeEventID draws a fresh one.
CreatedEvent(s) == DeriveEventID(s, "create", EmptyKey)
NoEvent == DeriveEventID(0, "none", EmptyKey)
EventIds == MutationIds \cup {CreatedEvent(s) : s \in SessionIds}

\* randomHex draws a fresh answerId; it is named after the key of the save
\* that drew it.  A question without an answer has version 0.
NoAnswer == [answerId |-> EmptyKey, answerContent |-> Blank, answerVersion |-> 0]
Answers == {NoAnswer} \cup
           [answerId : Keys, answerContent : Contents, answerVersion : Nat \ {0}]

\* A timestamp of the timeline is whether it is set.
SessionRecords ==
    [status : Statuses, pollCount : Nat,
     preparingAt : BOOLEAN, startedAt : BOOLEAN,
     submittedAt : BOOLEAN, completedAt : BOOLEAN,
     answers : [Questions -> Answers]]

NewSession ==
    [status |-> "pending", pollCount |-> 0,
     preparingAt |-> FALSE, startedAt |-> FALSE,
     submittedAt |-> FALSE, completedAt |-> FALSE,
     answers |-> [q \in Questions |-> NoAnswer]]

\* buildProgress: the answers whose content is not blank.
AnsweredCount(session) ==
    Cardinality({q \in Questions : session.answers[q].answerContent # Blank})

-----------------------------------------------------------------------------
(* Steps the handlers share *)

\* The handler has its response and only writeJSON or writeError is left.
Respond(r, response) ==
    /\ pc' = [pc EXCEPT ![r] = "reply"]
    /\ reply' = [reply EXCEPT ![r] = response]
    /\ UNCHANGED envelope

Refuse(r, errorCode) ==
    Respond(r, [code |-> errorCode]) /\ UNCHANGED <<serverVars, eventVars>>

\* The handler unlocks with an event to publish before it writes its response.
BeginPublish(r, event, response) ==
    /\ pc' = [pc EXCEPT ![r] = "publish"]
    /\ envelope' = [envelope EXCEPT ![r] = event]
    /\ reply' = [reply EXCEPT ![r] = response]
    /\ UNCHANGED eventVars

Accepted(id, response, replay) ==
    [code |-> "OK", id |-> id, response |-> response, idempotentReplay |-> replay]

\* assertIdempotency, and what the three mutating handlers do with its verdict:
\* another payload under the key is refused, ...
ConflictOverwriting(r, id, payload) ==  \* fault: the record is replaced
    /\ id \in DOMAIN idempotent
    /\ idempotent[id].payload # payload
    /\ idempotent' = [idempotent EXCEPT ![id].payload = payload]
    /\ Respond(r, Accepted(id, idempotent[id].response, FALSE))
    /\ UNCHANGED <<sessions, counter, eventVars>>
KeyConflict(r, id, payload) ==
    /\ id \in DOMAIN idempotent
    /\ idempotent[id].payload # payload
    /\ Refuse(r, "IDEMPOTENCY_KEY_REUSED")

ReplayRepublishing(r, id, payload) ==  \* fault: a replay publishes again
    /\ id \in DOMAIN idempotent
    /\ idempotent[id].payload = payload
    /\ BeginPublish(r, id, Accepted(id, idempotent[id].response, TRUE))
    /\ UNCHANGED serverVars
ReplayUnmarked(r, id, payload) ==  \* fault: no idempotentReplay in the response
    /\ id \in DOMAIN idempotent
    /\ idempotent[id].payload = payload
    /\ Respond(r, Accepted(id, idempotent[id].response, FALSE))
    /\ UNCHANGED <<serverVars, eventVars>>

\* ... the same payload gets the first response, ...
KeyReplay(r, id, payload) ==
    /\ id \in DOMAIN idempotent
    /\ idempotent[id].payload = payload
    /\ Respond(r, Accepted(id, idempotent[id].response, TRUE))
    /\ UNCHANGED <<serverVars, eventVars>>

WithRecord(id, record) ==
    [i \in DOMAIN idempotent \cup {id} |-> IF i = id THEN record ELSE idempotent[i]]

\* ... and a new key is recorded together with the update of the session.
KeyAccepted(r, id, payload, response, updated) ==
    /\ id \notin DOMAIN idempotent
    /\ Cardinality(DOMAIN idempotent) < MaxMutations
    /\ idempotent' = WithRecord(id, [payload |-> payload, response |-> response])
    /\ sessions' = [sessions EXCEPT ![id.session] = updated]
    /\ BeginPublish(r, id, Accepted(id, response, FALSE))
    /\ UNCHANGED counter

AssertIdempotencyFresh(r, id, payload, response, updated) ==  \* fault: a replay
    \/ KeyConflict(r, id, payload)        \* gets the response just computed
    \/ /\ id \in DOMAIN idempotent
       /\ idempotent[id].payload = payload
       /\ Respond(r, Accepted(id, response, TRUE))
       /\ UNCHANGED <<serverVars, eventVars>>
    \/ KeyAccepted(r, id, payload, response, updated)

AssertIdempotencyApplying(r, id, payload, response, updated) ==  \* fault: a replay
    \/ KeyConflict(r, id, payload)        \* takes effect again
    \/ /\ id \in DOMAIN idempotent
       /\ idempotent[id].payload = payload
       /\ sessions' = [sessions EXCEPT ![id.session] = updated]
       /\ Respond(r, Accepted(id, idempotent[id].response, TRUE))
       /\ UNCHANGED <<counter, idempotent, eventVars>>
    \/ KeyAccepted(r, id, payload, response, updated)

AssertIdempotency(r, id, payload, response, updated) ==
    \/ KeyConflict(r, id, payload)
    \/ KeyReplay(r, id, payload)
    \/ KeyAccepted(r, id, payload, response, updated)

\* What every read returns of a session: resultAvailable and the answers'
\* "finalized" flag are functions of the status the handler saw.
View(s) == [code |-> "VIEW", session |-> s, status |-> sessions[s].status]

-----------------------------------------------------------------------------
(* The handlers *)

HandleSessionCollection(r, body) ==
    /\ pc[r] = "idle"
    /\ \/ body = Malformed /\ Refuse(r, "INVALID_JSON")
       \/ body = "incomplete" /\ Refuse(r, "VALIDATION_ERROR")
       \/ /\ body = "complete"
          /\ counter <= MaxSessions
          /\ sessions' = [s \in DOMAIN sessions \cup {counter} |->
                            IF s = counter THEN NewSession ELSE sessions[s]]
          /\ counter' = counter + 1
          /\ BeginPublish(r, CreatedEvent(counter),
                          [code |-> "CREATED", session |-> counter])
          /\ UNCHANGED idempotent

PolledSkipping(session) ==  \* fault: the first poll already starts the session
    IF session.status = "pending"
    THEN [session EXCEPT !.pollCount = 1, !.status = "in_progress", !.startedAt = TRUE]
    ELSE session

\* A read moves the session on: the first poll of a pending session prepares
\* it, the second one starts it.
Polled(session) ==
    LET polls == session.pollCount + 1 IN
    IF session.status = "pending" THEN
        [session EXCEPT !.pollCount = polls,
                        !.status = "preparing",
                        !.preparingAt = TRUE]
    ELSE IF session.status = "preparing" /\ polls >= 2 THEN
        [session EXCEPT !.pollCount = polls,
                        !.status = "in_progress",
                        !.startedAt = TRUE]
    ELSE IF session.status = "preparing" THEN
        [session EXCEPT !.pollCount = polls]
    ELSE session

HandleGetSession(r, s) ==
    /\ pc[r] = "idle"
    /\ \/ s \notin DOMAIN sessions /\ Refuse(r, "SESSION_NOT_FOUND")
       \/ /\ s \in DOMAIN sessions
          /\ sessions' = [sessions EXCEPT ![s] = Polled(@)]
          /\ Respond(r, [code |-> "VIEW", session |-> s,
                         status |-> Polled(sessions[s]).status])
          /\ UNCHANGED <<counter, idempotent, eventVars>>

\* GET .../questions and GET .../answers: a snapshot under the lock.
HandleGetQuestionsOrAnswers(r, s) ==
    /\ pc[r] = "idle"
    /\ \/ s \notin DOMAIN sessions /\ Refuse(r, "SESSION_NOT_FOUND")
       \/ /\ s \in DOMAIN sessions
          /\ Respond(r, View(s))
          /\ UNCHANGED <<serverVars, eventVars>>

SavedSameVersion(existing, content, key) ==  \* fault: a later save keeps the version
    [answerId |-> IF existing.answerVersion = 0 THEN key ELSE existing.answerId,
     answerContent |-> content,
     answerVersion |-> 1]
SavedNewId(existing, content, key) ==  \* fault: every save draws an answerId
    [answerId |-> key,
     answerContent |-> content,
     answerVersion |-> existing.answerVersion + 1]
SavedNoId(existing, content, key) ==  \* fault: no save draws one
    [answerId |-> existing.answerId,
     answerContent |-> content,
     answerVersion |-> existing.answerVersion + 1]

\* The answer a save leaves: a first save draws the answerId, a later one
\* keeps it and counts the version up.
Saved(existing, content, key) ==
    [answerId |-> IF existing.answerVersion = 0 THEN key ELSE existing.answerId,
     answerContent |-> content,
     answerVersion |-> existing.answerVersion + 1]

\* There is no guard on the status.
HandleSaveAnswer(r, s, q, content, key) ==
    /\ pc[r] = "idle"
    /\ \/ key = Malformed /\ Refuse(r, "INVALID_JSON")
       \/ key # Malformed /\ s \notin DOMAIN sessions /\ Refuse(r, "SESSION_NOT_FOUND")
       \/ /\ key # Malformed /\ s \in DOMAIN sessions /\ q \notin Questions
          /\ Refuse(r, "QUESTION_NOT_IN_SESSION")
       \/ /\ key = EmptyKey /\ s \in DOMAIN sessions /\ q \in Questions
          /\ Refuse(r, "VALIDATION_ERROR")
       \/ /\ key \in Keys /\ s \in DOMAIN sessions /\ q \in Questions
          /\ LET answer == Saved(sessions[s].answers[q], content, key) IN
             AssertIdempotency(r, DeriveEventID(s, "answers", key),
                 [question |-> q, content |-> content],
                 [status |-> sessions[s].status,
                  answerId |-> answer.answerId,
                  answerVersion |-> answer.answerVersion],
                 [sessions[s] EXCEPT !.answers[q] = answer])

MayFinalizeOnce(session) == session.status = "in_progress"  \* fault: no retry
MayFinalize(session) == session.status \in {"in_progress", "submitted", "completed"}
Finalized(session) == [session EXCEPT !.status = "submitted", !.submittedAt = TRUE]

\* What finalize and evaluations refuse before they look at the status: the
\* key is checked before the session is looked up.
MutationRefused(r, s, key, guard) ==
    \/ key = Malformed /\ Refuse(r, "INVALID_JSON")
    \/ key = EmptyKey /\ Refuse(r, "VALIDATION_ERROR")
    \/ key \in Keys /\ s \notin DOMAIN sessions /\ Refuse(r, "SESSION_NOT_FOUND")
    \/ key \in Keys /\ s \in DOMAIN sessions /\ ~guard /\ Refuse(r, "SESSION_STATE_CONFLICT")

HandleFinalize(r, s, payload, key) ==
    /\ pc[r] = "idle"
    /\ \/ MutationRefused(r, s, key, MayFinalize(sessions[s]))
       \/ /\ key \in Keys /\ s \in DOMAIN sessions
          /\ MayFinalize(sessions[s])
          /\ AssertIdempotency(r, DeriveEventID(s, "finalize", key), payload,
                 [status |-> "submitted",
                  answeredCount |-> AnsweredCount(sessions[s])],
                 Finalized(sessions[s]))

MayEvaluateEarly(session) ==  \* fault: before the final submission
    session.status \in {"in_progress", "submitted", "completed"}
MayEvaluate(session) == session.status \in {"submitted", "completed"}
Evaluated(session) == [session EXCEPT !.status = "completed", !.completedAt = TRUE]

HandleSubmitEvaluation(r, s, payload, key) ==
    /\ pc[r] = "idle"
    /\ \/ MutationRefused(r, s, key, MayEvaluate(sessions[s]))
       \/ /\ key \in Keys /\ s \in DOMAIN sessions
          /\ MayEvaluate(sessions[s])
          /\ AssertIdempotency(r, DeriveEventID(s, "evaluations", key), payload,
                 [status |-> "completed"], Evaluated(sessions[s]))

ResultSummaryCompleting(r, s) ==  \* fault: the read completes the session
    /\ pc[r] = "idle" /\ s \in DOMAIN sessions
    /\ MayEvaluate(sessions[s])
    /\ sessions' = [sessions EXCEPT ![s].status = "completed", ![s].completedAt = TRUE]
    /\ Respond(r, [code |-> "VIEW", session |-> s, status |-> "completed"])
    /\ UNCHANGED <<counter, idempotent, eventVars>>

HandleResultSummary(r, s) ==
    /\ pc[r] = "idle"
    /\ \/ s \notin DOMAIN sessions /\ Refuse(r, "SESSION_NOT_FOUND")
       \/ /\ s \in DOMAIN sessions /\ sessions[s].status # "completed"
          /\ Refuse(r, "SESSION_STATE_CONFLICT")
       \/ /\ s \in DOMAIN sessions /\ sessions[s].status = "completed"
          /\ Respond(r, View(s))
          /\ UNCHANGED <<serverVars, eventVars>>

HandleDLQReplayContract(r) ==
    /\ pc[r] = "idle"
    /\ Respond(r, [code |-> "CONTRACT", deadLetterBacklogCount |-> Len(dlqRecords)])
    /\ UNCHANGED <<serverVars, eventVars>>

-----------------------------------------------------------------------------
(* After the Unlock *)

PublishDropping(r) ==  \* fault: the default branch forgets the event
    /\ pc[r] = "publish"
    /\ eventQueue' = IF Len(eventQueue) < QueueCapacity
                     THEN Append(eventQueue, envelope[r]) ELSE eventQueue
    /\ pc' = [pc EXCEPT ![r] = "reply"]
    /\ envelope' = [envelope EXCEPT ![r] = NoEvent]
    /\ UNCHANGED <<serverVars, consumed, dlqRecords, reply>>

\* publishEvent: select { case eventQueue <- envelope: default: routeToDLQ }.
PublishEvent(r) ==
    /\ pc[r] = "publish"
    /\ \/ /\ Len(eventQueue) < QueueCapacity
          /\ eventQueue' = Append(eventQueue, envelope[r])
          /\ pc' = [pc EXCEPT ![r] = "reply"]
          /\ envelope' = [envelope EXCEPT ![r] = NoEvent]
       \/ /\ Len(eventQueue) >= QueueCapacity
          /\ pc' = [pc EXCEPT ![r] = "dlq"]
          /\ UNCHANGED <<eventQueue, envelope>>
    /\ UNCHANGED <<serverVars, consumed, dlqRecords, reply>>

RouteToDLQWaiting(r) ==  \* fault: waits for the other requests to finish
    /\ pc[r] = "dlq"
    /\ \A p \in Requests \ {r} : pc[p] = "idle"
    /\ dlqRecords' = Append(dlqRecords, envelope[r])
    /\ pc' = [pc EXCEPT ![r] = "reply"]
    /\ envelope' = [envelope EXCEPT ![r] = NoEvent]
    /\ UNCHANGED <<serverVars, eventQueue, consumed, reply>>

\* The replay key and the payload hash are functions of the envelope.
RouteToDLQ(r) ==
    /\ pc[r] = "dlq"
    /\ dlqRecords' = Append(dlqRecords, envelope[r])
    /\ pc' = [pc EXCEPT ![r] = "reply"]
    /\ envelope' = [envelope EXCEPT ![r] = NoEvent]
    /\ UNCHANGED <<serverVars, eventQueue, consumed, reply>>

NoReply == [code |-> "NONE"]

WriteResponse(r) ==
    /\ pc[r] = "reply"
    /\ pc' = [pc EXCEPT ![r] = "idle"]
    /\ reply' = [reply EXCEPT ![r] = NoReply]
    /\ UNCHANGED <<serverVars, eventVars, envelope>>

ConsumeEvents ==
    /\ eventQueue # <<>>
    /\ consumed' = consumed \cup {Head(eventQueue)}
    /\ eventQueue' = Tail(eventQueue)
    /\ UNCHANGED <<serverVars, dlqRecords, requestVars>>

-----------------------------------------------------------------------------

Init ==
    /\ sessions = [s \in {} |-> NewSession]
    /\ counter = 1
    /\ idempotent = [i \in {} |-> NoReply]
    /\ eventQueue = <<>>
    /\ consumed = {}
    /\ dlqRecords = <<>>
    /\ pc = [r \in Requests |-> "idle"]
    /\ envelope = [r \in Requests |-> NoEvent]
    /\ reply = [r \in Requests |-> NoReply]

\* decodeJSONBody and the check of the key; a body that cannot be read is
\* refused like one that is not JSON, with 500 for 400.
KeyInputs == Keys \cup {EmptyKey, Malformed}

Handle(r) ==
    \/ \E body \in {"complete", "incomplete", Malformed} : HandleSessionCollection(r, body)
    \/ \E s \in SessionIds :
         \/ HandleGetSession(r, s)
         \/ HandleGetQuestionsOrAnswers(r, s)
         \/ HandleResultSummary(r, s)
         \/ \E key \in KeyInputs, q \in Questions \cup {UnknownQuestion}, content \in Contents :
              HandleSaveAnswer(r, s, q, content, key)
         \/ \E key \in KeyInputs, payload \in FinalPayloads :
              \/ HandleFinalize(r, s, payload, key)
              \/ HandleSubmitEvaluation(r, s, payload, key)
    \/ HandleDLQReplayContract(r)

\* What the goroutine does without waiting for anybody.
Proceed(r) == PublishEvent(r) \/ RouteToDLQ(r) \/ WriteResponse(r)

Next ==
    \/ \E r \in Requests : Handle(r) \/ Proceed(r)
    \/ ConsumeEvents

Spec == Init /\ [][Next]_vars

\* The Go scheduler runs every goroutine that can run; nothing makes a client
\* send a request.
Fairness ==
    /\ \A r \in Requests : WF_vars(Proceed(r))
    /\ WF_vars(ConsumeEvents)

FairSpec == Spec /\ Fairness
=============================================================================
