----------------------- MODULE InterviewApiProperties -----------------------
(***************************************************************************)
(* What is checked and proved of InterviewApi.                             *)
(***************************************************************************)
EXTENDS InterviewApi, SequencesExt

InFlight == {envelope[r] : r \in {p \in Requests : pc[p] \in {"publish", "dlq"}}}
Queued == ToSet(eventQueue)
DeadLetters == ToSet(dlqRecords)

\* The events the state owes: one per session and one per accepted mutation.
OwedEvents == {CreatedEvent(s) : s \in DOMAIN sessions} \cup DOMAIN idempotent

-----------------------------------------------------------------------------
(* Type invariant *)

SavePayloads == [question : Questions, content : Contents]
SaveResponses == [status : Statuses, answerId : Keys, answerVersion : Nat]
FinalizeResponses == [status : {"submitted"}, answeredCount : Nat]
EvaluationResponses == [status : {"completed"}]

Records(route) ==
    IF route = "answers" THEN [payload : SavePayloads, response : SaveResponses]
    ELSE IF route = "finalize" THEN [payload : FinalPayloads, response : FinalizeResponses]
    ELSE [payload : FinalPayloads, response : EvaluationResponses]

\* Every variable has its type: the maps are keyed by the sessions created and
\* by accepted mutations, a request that publishes has an event to publish.
TypeOK ==
    /\ counter \in 1..(MaxSessions + 1)
    /\ sessions \in [1..(counter - 1) -> SessionRecords]
    /\ DOMAIN idempotent \subseteq MutationIds
    /\ idempotent = [i \in DOMAIN idempotent |-> idempotent[i]]
    /\ \A i \in DOMAIN idempotent : idempotent[i] \in Records(i.route)
    /\ eventQueue \in Seq(EventIds)
    /\ consumed \subseteq EventIds
    /\ dlqRecords \in Seq(EventIds)
    /\ pc \in [Requests -> {"idle", "publish", "dlq", "reply"}]
    /\ envelope \in [Requests -> EventIds \cup {NoEvent}]
    /\ \A r \in Requests : pc[r] \in {"publish", "dlq"} => envelope[r] \in EventIds
    /\ DOMAIN reply = Requests

-----------------------------------------------------------------------------
(* Sessions *)

\* Two different keys have finalized the session.
FinalizedTwice(s) ==
    \E j, k \in Keys :
        /\ j # k
        /\ {DeriveEventID(s, "finalize", j), DeriveEventID(s, "finalize", k)}
             \subseteq DOMAIN idempotent

\* The timestamps and the poll counter follow the status on every interleaving
\* of polls, finalizes and evaluations, with one exception: handleFinalize does
\* not clear completedAt, so buildTimeline serves it of a session that is only
\* submitted.  That is a completed session taken back, and only a second
\* finalize under a key of its own does that.
Timeline ==
    \A s \in DOMAIN sessions : LET session == sessions[s] IN
        /\ session.preparingAt <=> session.status # "pending"
        /\ session.startedAt <=> session.status \notin {"pending", "preparing"}
        /\ session.submittedAt <=> session.status \in {"submitted", "completed"}
        /\ session.status = "completed" => session.completedAt
        /\ session.completedAt =>
             \/ session.status = "completed"
             \/ session.status = "submitted" /\ FinalizedTwice(s)
        /\ session.pollCount = IF session.status = "pending" THEN 0
                               ELSE IF session.status = "preparing" THEN 1
                               ELSE 2

\* A completed evaluation was preceded by an accepted finalize, and a completed
\* session by an accepted evaluation: no order of requests reaches a result
\* without both.
ResultIsEarned ==
    \A s \in DOMAIN sessions :
        /\ sessions[s].submittedAt =>
             \E key \in Keys : DeriveEventID(s, "finalize", key) \in DOMAIN idempotent
        /\ sessions[s].completedAt =>
             \E key \in Keys : DeriveEventID(s, "evaluations", key) \in DOMAIN idempotent
        /\ (\E key \in Keys : DeriveEventID(s, "evaluations", key) \in DOMAIN idempotent) =>
             sessions[s].submittedAt /\ sessions[s].completedAt

\* handleFinalize and handleSubmitEvaluation look at the status before they
\* look for the idempotency record.  A retry of an accepted request is still
\* never refused for the status, whatever other requests did in between: it
\* gets the first response back.
RetryIsNeverStale ==
    \A i \in DOMAIN idempotent :
        /\ i.session \in DOMAIN sessions
        /\ i.route = "finalize" => MayFinalize(sessions[i.session])
        /\ i.route = "evaluations" => MayEvaluate(sessions[i.session])

-----------------------------------------------------------------------------
(* Answers *)

SavesOf(s, q) ==
    {i \in DOMAIN idempotent :
        i.session = s /\ i.route = "answers" /\ idempotent[i].payload.question = q}
VersionOf(i) == idempotent[i].response.answerVersion

\* Concurrent saves of a question never share a version: the versions the
\* clients were given are 1, 2, ... up to the one stored, each given once.
VersionsAreSerial ==
    \A s \in DOMAIN sessions, q \in Questions :
        /\ \A i, j \in SavesOf(s, q) : VersionOf(i) = VersionOf(j) => i = j
        /\ {VersionOf(i) : i \in SavesOf(s, q)} = 1..sessions[s].answers[q].answerVersion

\* The stored answer is the one whose save was given the highest version, and
\* every save of the question was given the same answerId.  Last means last
\* accepted: a save does not say which version its client has seen, and
\* handleSaveAnswer does not ask, so a save that was overtaken on its way wins
\* over the newer one.  The interface contract (5.7.5) wants that conflict
\* refused; OldSaveNeverOverwrites of InterviewPageProperties shows it is not.
LastAcceptedSaveWins ==
    \A s \in DOMAIN sessions, q \in Questions : LET answer == sessions[s].answers[q] IN
        \A i \in SavesOf(s, q) :
            /\ idempotent[i].response.answerId = answer.answerId
            /\ VersionOf(i) = answer.answerVersion =>
                 idempotent[i].payload.content = answer.answerContent

-----------------------------------------------------------------------------
(* Responses *)

\* A response waiting to be written, first or replayed, is the one stored with
\* its mutation: all the responses to one key agree, in whatever order their
\* goroutines write them.  It is the response of that time: a replayed
\* evaluation says completed of a session a later finalize has taken back.
ResponsesAgree ==
    \A r \in Requests : reply[r].code = "OK" =>
        /\ reply[r].id \in DOMAIN idempotent
        /\ reply[r].response = idempotent[reply[r].id].response

\* A result (or a session view that says resultAvailable) is only ever served
\* for a session with an accepted evaluation, even when it is written after a
\* later finalize has taken the session back.
ServedResultIsEarned ==
    \A r \in Requests : (reply[r].code = "VIEW" /\ reply[r].status = "completed") =>
        \E key \in Keys : DeriveEventID(reply[r].session, "evaluations", key) \in DOMAIN idempotent

\* Two goroutines never both hold the first response of one key: of concurrent
\* requests with the same key all but one are replays.
OneFirstResponse ==
    \A r, p \in Requests :
        (/\ reply[r].code = "OK" /\ reply[p].code = "OK"
         /\ ~reply[r].idempotentReplay /\ ~reply[p].idempotentReplay
         /\ reply[r].id = reply[p].id) => r = p

-----------------------------------------------------------------------------
(* Events *)

\* No event is lost: an accepted mutation or a created session has its event
\* with a goroutine, in the channel, in the log or among the dead letters; and
\* none is invented.
NoEventLost == InFlight \cup Queued \cup consumed \cup DeadLetters = OwedEvents

\* No event is published twice: the four places are disjoint and none of them
\* holds an event twice.  A replay publishes nothing.
NoEventTwice ==
    /\ \A r, p \in Requests :
         (pc[r] \in {"publish", "dlq"} /\ pc[p] \in {"publish", "dlq"}
            /\ envelope[r] = envelope[p]) => r = p
    /\ IsInjective(eventQueue)
    /\ IsInjective(dlqRecords)
    /\ InFlight \cap (Queued \cup consumed \cup DeadLetters) = {}
    /\ Queued \cap (consumed \cup DeadLetters) = {}
    /\ consumed \cap DeadLetters = {}

\* A client that gets the first 200 or 201 of a mutation can count on its event:
\* the response is not written before the event is in the channel, in the log
\* or among the dead letters.
EventBeforeFirstResponse ==
    \A r \in Requests : pc[r] = "reply" =>
        /\ (reply[r].code = "OK" /\ ~reply[r].idempotentReplay) =>
             reply[r].id \in Queued \cup consumed \cup DeadLetters
        /\ reply[r].code = "CREATED" =>
             CreatedEvent(reply[r].session) \in Queued \cup consumed \cup DeadLetters

-----------------------------------------------------------------------------
(* Steps *)

\* A session changes only by a poll, which touches no answer and takes the two
\* preparing steps, or with a new idempotency record of its own: a refused or
\* replayed request never changes it.
NoUnrecordedChange ==
    [][\A s \in DOMAIN sessions : sessions'[s] # sessions[s] =>
         \/ \E i \in DOMAIN idempotent' \ DOMAIN idempotent : i.session = s
         \/ /\ sessions'[s].answers = sessions[s].answers
            /\ <<sessions[s].status, sessions'[s].status>> \in
                 {<<"pending", "preparing">>, <<"preparing", "in_progress">>}]_vars

\* The first response stored under a key is there for good, and no mutation
\* disappears.
RecordsAreForever ==
    [][\A i \in DOMAIN idempotent :
         i \in DOMAIN idempotent' /\ idempotent'[i] = idempotent[i]]_vars

-----------------------------------------------------------------------------
(* The abstract specification *)

SessionStatus == [s \in DOMAIN sessions |-> sessions[s].status]
Outbox == InFlight \cup Queued

Lifecycle == INSTANCE SessionLifecycle WITH
    status <- SessionStatus,
    accepted <- DOMAIN idempotent,
    outbox <- Outbox,
    delivered <- consumed,
    dead <- DeadLetters

\* The API with its goroutines, channel and dead letters implements the
\* abstract lifecycle with its outbox.
ImplementsLifecycle == Lifecycle!Spec

-----------------------------------------------------------------------------
(* Liveness *)

\* Every event that was published ends in the log or among the dead letters.
EveryEventSettles ==
    \A e \in EventIds : e \in InFlight \cup Queued ~> e \in consumed \cup DeadLetters

\* Every request is answered: no handler waits for a full channel, nor for
\* another request.
EveryRequestIsAnswered == \A r \in Requests : pc[r] # "idle" ~> pc[r] = "idle"

-----------------------------------------------------------------------------
(* What the documents say and the code does not do *)

\* "finalize and evaluations may succeed only once" (interface contract 5.7.6).
FinalActionsSucceedOnce ==
    \A i, j \in DOMAIN idempotent :
        (i.session = j.session /\ i.route = j.route /\ i.route \in {"finalize", "evaluations"})
            => i = j

\* "completed: the evaluation is submitted, the result summary is stable and
\* readable" (interface contract 4.1).
CompletedIsStable ==
    [][\A s \in DOMAIN sessions :
         sessions[s].status = "completed" => sessions'[s].status = "completed"]_vars

\* "submitted: the candidate has made the final submission" (interface contract
\* 4.1), which GET .../answers reports as finalized: true for every answer.
FinalizedAnswersAreFinal ==
    [][\A s \in DOMAIN sessions :
         sessions[s].status \in {"submitted", "completed"} =>
            sessions'[s].answers = sessions[s].answers]_vars
=============================================================================
