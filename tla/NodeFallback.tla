---------------------------- MODULE NodeFallback ----------------------------
(***************************************************************************)
(* The Node fallback of the interview API, frontend/server.js.  Callbacks  *)
(* run one at a time, so a GET is one step; the handler of a POST looks    *)
(* its session up, awaits the body, and goes on when the body is there,    *)
(* with whatever other requests did in between.  There are no events and   *)
(* no evaluations: reading the result completes a submitted session.       *)
(***************************************************************************)
EXTENDS Naturals, FiniteSets

CONSTANTS
    Requests,         \* the connections
    Questions,        \* questionIds of the fixtures
    UnknownQuestion,  \* any other questionId
    Contents,         \* answer contents, Blank among them
    Blank,            \* a content trim() makes empty
    Keys,             \* idempotency keys
    EmptyKey,         \* a missing or empty key
    Malformed,        \* a body that is not JSON
    FinalPayloads,    \* what else the body of a finalize says
    MaxSessions,      \* bound: sessions created
    MaxMutations      \* bound: idempotency records

ASSUME QuestionAssumption == IsFiniteSet(Questions) /\ UnknownQuestion \notin Questions
ASSUME KeyAssumption == EmptyKey \notin Keys /\ Malformed \notin Keys \cup {EmptyKey}
ASSUME ContentAssumption == Blank \in Contents
ASSUME BoundAssumption == MaxSessions \in Nat /\ MaxMutations \in Nat

VARIABLES
    sessions,            \* the map: sessionId -> session
    sessionCounter,
    idempotencyRecords,  \* the map: record key -> payload and first response
    awaiting,            \* the session and route of a POST that awaits its body
    reply                \* the last response on each connection

vars == <<sessions, sessionCounter, idempotencyRecords, awaiting, reply>>

-----------------------------------------------------------------------------

SessionIds == 1..MaxSessions
Statuses == {"pending", "preparing", "in_progress", "submitted", "completed"}
RecordKeys == [session : SessionIds, route : {"answers", "finalize"}, key : Keys]

\* The answerId is random; it is named after the key of the save that drew it.
NoAnswer == [answerId |-> EmptyKey, answerContent |-> Blank, answerVersion |-> 0]

CreateSessionRecord ==
    [status |-> "pending", pollCount |-> 0,
     preparingAt |-> FALSE, startedAt |-> FALSE, submittedAt |-> FALSE, completedAt |-> FALSE,
     answers |-> [q \in Questions |-> NoAnswer]]

AnsweredCount(session) ==
    Cardinality({q \in Questions : session.answers[q].answerContent # Blank})

\* maybeAdvanceSession.
Advanced(session) ==
    LET polls == session.pollCount + 1 IN
    IF session.status = "pending" THEN
        [session EXCEPT !.pollCount = polls, !.status = "preparing", !.preparingAt = TRUE]
    ELSE IF session.status = "preparing" /\ polls >= 2 THEN
        [session EXCEPT !.pollCount = polls, !.status = "in_progress", !.startedAt = TRUE]
    ELSE IF session.status = "preparing" THEN [session EXCEPT !.pollCount = polls]
    ELSE session

-----------------------------------------------------------------------------
(* Responses *)

NoReply == [code |-> "NONE"]
NotAwaiting == [route |-> "none"]
Idle(r) == awaiting[r] = NotAwaiting

\* sendJson and sendError, which end the handler of r.
SendJson(r, response) ==
    /\ reply' = [reply EXCEPT ![r] = response]
    /\ awaiting' = [awaiting EXCEPT ![r] = NotAwaiting]
SendError(r, errorCode) ==
    SendJson(r, [code |-> errorCode])
        /\ UNCHANGED <<sessions, sessionCounter, idempotencyRecords>>

\* A view of a session, made from the status it has when it is sent.
View(s, status) == [code |-> "VIEW", session |-> s, status |-> status]

Accepted(id, response, replay) ==
    [code |-> "OK", id |-> id, response |-> response, idempotentReplay |-> replay]

-----------------------------------------------------------------------------
(* GET: one step *)

Unknown(r, s) == Idle(r) /\ s \notin DOMAIN sessions /\ SendError(r, "SESSION_NOT_FOUND")

\* A read moves the session on.
GetSession(r, s) ==
    \/ Unknown(r, s)
    \/ /\ Idle(r) /\ s \in DOMAIN sessions
       /\ sessions' = [sessions EXCEPT ![s] = Advanced(@)]
       /\ SendJson(r, View(s, Advanced(sessions[s]).status))
       /\ UNCHANGED <<sessionCounter, idempotencyRecords>>

GetQuestionsOrAnswers(r, s) ==
    \/ Unknown(r, s)
    \/ /\ Idle(r) /\ s \in DOMAIN sessions
       /\ SendJson(r, View(s, sessions[s].status))
       /\ UNCHANGED <<sessions, sessionCounter, idempotencyRecords>>

MaySummarizeEarly(session) ==  \* fault: before the final submission
    session.status \in {"in_progress", "submitted", "completed"}
MaySummarize(session) == session.status \in {"submitted", "completed"}

\* Reading the result of a submitted session completes it.
GetResultSummary(r, s) ==
    \/ Unknown(r, s)
    \/ /\ Idle(r) /\ s \in DOMAIN sessions
       /\ ~MaySummarize(sessions[s]) /\ SendError(r, "SESSION_STATE_CONFLICT")
    \/ /\ Idle(r) /\ s \in DOMAIN sessions
       /\ MaySummarize(sessions[s])
       /\ sessions' = IF sessions[s].status = "completed" THEN sessions
                      ELSE [sessions EXCEPT ![s].status = "completed", ![s].completedAt = TRUE]
       /\ SendJson(r, View(s, "completed"))
       /\ UNCHANGED <<sessionCounter, idempotencyRecords>>

-----------------------------------------------------------------------------
(* POST *)

\* Nothing is looked up before the body is there, so this one is one step too,
\* also when the connection breaks.
PostSession(r, body) ==
    /\ Idle(r)
    /\ \/ body = "broken" /\ SendError(r, "INTERNAL_SERVER_ERROR")
       \/ body = Malformed /\ SendError(r, "INVALID_JSON")
       \/ body = "incomplete" /\ SendError(r, "VALIDATION_ERROR")
       \/ /\ body = "complete"
          /\ sessionCounter <= MaxSessions
          /\ sessions' = [s \in DOMAIN sessions \cup {sessionCounter} |->
                            IF s = sessionCounter THEN CreateSessionRecord ELSE sessions[s]]
          /\ sessionCounter' = sessionCounter + 1
          /\ SendJson(r, View(sessionCounter, "pending"))
          /\ UNCHANGED idempotencyRecords

\* ensureSession, and then the handler awaits readJsonBody.
Post(r, route, s) ==
    /\ Idle(r)
    /\ \/ s \notin DOMAIN sessions /\ SendError(r, "SESSION_NOT_FOUND")
       \/ /\ s \in DOMAIN sessions
          /\ awaiting' = [awaiting EXCEPT ![r] = [route |-> route, session |-> s]]
          /\ reply' = [reply EXCEPT ![r] = NoReply]
          /\ UNCHANGED <<sessions, sessionCounter, idempotencyRecords>>

\* The connection breaks while the body is read: the handler throws.
BodyFails(r) == ~Idle(r) /\ SendError(r, "INTERNAL_SERVER_ERROR")

ReplayUnmarked(r, id, payload) ==  \* fault: no idempotentReplay in the response
    /\ id \in DOMAIN idempotencyRecords
    /\ idempotencyRecords[id].payload = payload
    /\ SendJson(r, Accepted(id, idempotencyRecords[id].response, FALSE))
    /\ UNCHANGED <<sessions, sessionCounter, idempotencyRecords>>
ReplayApplying(r, id, payload) ==  \* fault: a replay submits the session again
    /\ id \in DOMAIN idempotencyRecords
    /\ idempotencyRecords[id].payload = payload
    /\ sessions' = IF id.route = "finalize"
                   THEN [sessions EXCEPT ![id.session].status = "submitted"] ELSE sessions
    /\ SendJson(r, Accepted(id, idempotencyRecords[id].response, TRUE))
    /\ UNCHANGED <<sessionCounter, idempotencyRecords>>
Replay(r, id, payload) ==
    /\ id \in DOMAIN idempotencyRecords
    /\ idempotencyRecords[id].payload = payload
    /\ SendJson(r, Accepted(id, idempotencyRecords[id].response, TRUE))
    /\ UNCHANGED <<sessions, sessionCounter, idempotencyRecords>>

\* assertIdempotency, and what the handlers do with its verdict.
AssertIdempotency(r, id, payload, response, updated) ==
    \/ /\ id \in DOMAIN idempotencyRecords
       /\ idempotencyRecords[id].payload # payload
       /\ SendError(r, "IDEMPOTENCY_KEY_REUSED")
    \/ Replay(r, id, payload)
    \/ /\ id \notin DOMAIN idempotencyRecords
       /\ Cardinality(DOMAIN idempotencyRecords) < MaxMutations
       /\ idempotencyRecords' = [i \in DOMAIN idempotencyRecords \cup {id} |->
            IF i = id THEN [payload |-> payload, response |-> response]
            ELSE idempotencyRecords[i]]
       /\ sessions' = [sessions EXCEPT ![id.session] = updated]
       /\ SendJson(r, Accepted(id, response, FALSE))
       /\ UNCHANGED sessionCounter

SavedSameVersion(existing, content, key) ==  \* fault: a later save keeps the version
    [answerId |-> IF existing.answerVersion = 0 THEN key ELSE existing.answerId,
     answerContent |-> content,
     answerVersion |-> 1]
SavedNoId(existing, content, key) ==  \* fault: no save draws an answerId
    [answerId |-> existing.answerId,
     answerContent |-> content,
     answerVersion |-> existing.answerVersion + 1]

\* nextAnswer.
Saved(existing, content, key) ==
    [answerId |-> IF existing.answerVersion = 0 THEN key ELSE existing.answerId,
     answerContent |-> content,
     answerVersion |-> existing.answerVersion + 1]

\* The answer of the session as it is now, not as it was before the await.
SaveBody(r, q, content, key) ==
    LET s == awaiting[r].session
        answer == Saved(sessions[s].answers[q], content, key) IN
    /\ awaiting[r].route = "answers"
    /\ \/ key = Malformed /\ SendError(r, "INVALID_JSON")
       \/ key # Malformed /\ q \notin Questions /\ SendError(r, "QUESTION_NOT_IN_SESSION")
       \/ key = EmptyKey /\ q \in Questions /\ SendError(r, "VALIDATION_ERROR")
       \/ /\ key \in Keys /\ q \in Questions
          /\ AssertIdempotency(r, [session |-> s, route |-> "answers", key |-> key],
                 [question |-> q, content |-> content],
                 [status |-> sessions[s].status,
                  answerId |-> answer.answerId,
                  answerVersion |-> answer.answerVersion],
                 [sessions[s] EXCEPT !.answers[q] = answer])

MayFinalizeOnce(session) == session.status = "in_progress"  \* fault: no retry
MayFinalize(session) == session.status \in {"in_progress", "submitted", "completed"}

\* The status is the one after the await.
FinalizeBody(r, payload, key) ==
    LET s == awaiting[r].session IN
    /\ awaiting[r].route = "finalize"
    /\ \/ key = Malformed /\ SendError(r, "INVALID_JSON")
       \/ key = EmptyKey /\ SendError(r, "VALIDATION_ERROR")
       \/ key \in Keys /\ ~MayFinalize(sessions[s]) /\ SendError(r, "SESSION_STATE_CONFLICT")
       \/ /\ key \in Keys /\ MayFinalize(sessions[s])
          /\ AssertIdempotency(r, [session |-> s, route |-> "finalize", key |-> key], payload,
                 [status |-> "submitted", answeredCount |-> AnsweredCount(sessions[s])],
                 [sessions[s] EXCEPT !.status = "submitted", !.submittedAt = TRUE])

-----------------------------------------------------------------------------

Init ==
    /\ sessions = [s \in {} |-> CreateSessionRecord]
    /\ sessionCounter = 1
    /\ idempotencyRecords = [i \in {} |-> NoReply]
    /\ awaiting = [r \in Requests |-> NotAwaiting]
    /\ reply = [r \in Requests |-> NoReply]

KeyInputs == Keys \cup {EmptyKey, Malformed}

HandleApi(r) ==
    \/ \E body \in {"complete", "incomplete", "broken", Malformed} : PostSession(r, body)
    \/ \E s \in SessionIds :
         \/ GetSession(r, s)
         \/ GetQuestionsOrAnswers(r, s)
         \/ GetResultSummary(r, s)
         \/ \E route \in {"answers", "finalize"} : Post(r, route, s)

BodyArrives(r) ==
    \E key \in KeyInputs :
        \/ \E q \in Questions \cup {UnknownQuestion}, content \in Contents :
             SaveBody(r, q, content, key)
        \/ \E payload \in FinalPayloads : FinalizeBody(r, payload, key)

Next == \E r \in Requests : HandleApi(r) \/ BodyArrives(r) \/ BodyFails(r)

Spec == Init /\ [][Next]_vars

-----------------------------------------------------------------------------
(* Properties *)

SessionRecords ==
    [status : Statuses, pollCount : 0..2, preparingAt : BOOLEAN, startedAt : BOOLEAN,
     submittedAt : BOOLEAN, completedAt : BOOLEAN,
     answers : [Questions -> {NoAnswer} \cup
         [answerId : Keys, answerContent : Contents, answerVersion : 1..MaxMutations]]]

\* Every variable has its type; a request awaits its body for a session that
\* exists, also when it arrives.
TypeOK ==
    /\ sessionCounter \in 1..(MaxSessions + 1)
    /\ DOMAIN sessions = 1..(sessionCounter - 1)
    /\ \A s \in DOMAIN sessions : sessions[s] \in SessionRecords
    /\ DOMAIN idempotencyRecords \subseteq RecordKeys
    /\ \A r \in Requests : Idle(r) \/ awaiting[r] \in
         [route : {"answers", "finalize"}, session : DOMAIN sessions]
    /\ DOMAIN reply = Requests

\* Saves that await their bodies at the same time never share a version: the
\* versions the clients were given are 1, 2, ... up to the one stored.
VersionsAreSerial ==
    \A s \in DOMAIN sessions, q \in Questions :
        LET saves == {i \in DOMAIN idempotencyRecords :
                        /\ i.session = s /\ i.route = "answers"
                        /\ idempotencyRecords[i].payload.question = q}
            version(i) == idempotencyRecords[i].response.answerVersion IN
        /\ \A i, j \in saves : version(i) = version(j) => i = j
        /\ {version(i) : i \in saves} = 1..sessions[s].answers[q].answerVersion

\* Of the requests with one key that await their bodies together all but one
\* are replays, and every client gets the response of the first.
OneFirstResponse ==
    /\ \A r \in Requests : reply[r].code = "OK" =>
         /\ reply[r].id \in DOMAIN idempotencyRecords
         /\ reply[r].response = idempotencyRecords[reply[r].id].response
    /\ \A r, p \in Requests :
         (/\ reply[r].code = "OK" /\ reply[p].code = "OK"
          /\ ~reply[r].idempotentReplay /\ ~reply[p].idempotentReplay
          /\ reply[r].id = reply[p].id) => r = p

\* The timestamps follow the status, and a result was never served, nor a
\* session completed, without an accepted finalize.  The exception is the one
\* of the Go API: completedAt is never cleared, so a session that a finalize
\* with a new key took back (CompletedIsLeftByFinalize) is submitted and still
\* has it.
ResultFollowsFinalize ==
    \A s \in DOMAIN sessions : LET session == sessions[s] IN
        /\ session.preparingAt <=> session.status # "pending"
        /\ session.startedAt <=> session.status \notin {"pending", "preparing"}
        /\ session.submittedAt <=> session.status \in {"submitted", "completed"}
        /\ session.status = "completed" => session.completedAt
        /\ (session.completedAt \/ session.status = "completed") =>
             \E key \in Keys : [session |-> s, route |-> "finalize", key |-> key]
                                 \in DOMAIN idempotencyRecords

\* The retry of an accepted finalize is never refused for the status, whatever
\* happened while it awaited its body.
RetryIsNeverStale ==
    \A i \in DOMAIN idempotencyRecords :
        i.route = "finalize" => MayFinalize(sessions[i.session])

\* A completed session is taken back only by a finalize with a new key, which
\* the interface contract (4.1) does not know either: not by
\* a read, a replay, or a request that awaited its body meanwhile.
CompletedIsLeftByFinalize ==
    [][\A s \in DOMAIN sessions :
         (sessions[s].status = "completed" /\ sessions'[s].status # "completed") =>
            \E i \in DOMAIN idempotencyRecords' \ DOMAIN idempotencyRecords :
                i.session = s /\ i.route = "finalize"]_vars
=============================================================================
