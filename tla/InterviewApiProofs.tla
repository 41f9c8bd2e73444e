------------------------- MODULE InterviewApiProofs -------------------------
(***************************************************************************)
(* Proofs about InterviewApi, for every number of goroutines, sessions,    *)
(* questions, keys and every channel capacity.                             *)
(***************************************************************************)
EXTENDS InterviewApiProperties, TLAPS, FiniteSetTheorems

(* The shapes of a step.  The proofs below go by shape, not by handler. *)

\* The request has a refusal or the body of a read to write and changed nothing.
QuietStep(r) ==
    \E response :
        /\ response.code \notin {"OK", "CREATED"}
        /\ response.code = "VIEW" =>
             response.session \in DOMAIN sessions
               /\ response.status = sessions[response.session].status
        /\ pc[r] = "idle"
        /\ Respond(r, response)
        /\ UNCHANGED <<serverVars, eventVars>>

ReplayStep(r) ==
    \E id \in DOMAIN idempotent :
        \E payload : pc[r] = "idle" /\ KeyReplay(r, id, payload)

CreateStep(r) ==
    /\ pc[r] = "idle"
    /\ counter <= MaxSessions
    /\ sessions' = [s \in DOMAIN sessions \cup {counter} |->
                      IF s = counter THEN NewSession ELSE sessions[s]]
    /\ counter' = counter + 1
    /\ BeginPublish(r, CreatedEvent(counter), [code |-> "CREATED", session |-> counter])
    /\ UNCHANGED idempotent

PollStep(r, s) ==
    /\ pc[r] = "idle"
    /\ s \in DOMAIN sessions
    /\ sessions' = [sessions EXCEPT ![s] = Polled(@)]
    /\ Respond(r, [code |-> "VIEW", session |-> s, status |-> Polled(sessions[s]).status])
    /\ UNCHANGED <<counter, idempotent, eventVars>>

\* A save, a finalize or an evaluation is accepted.
SaveStep(r, s, q, content, key) ==
    /\ pc[r] = "idle"
    /\ LET answer == Saved(sessions[s].answers[q], content, key) IN
       KeyAccepted(r, DeriveEventID(s, "answers", key),
           [question |-> q, content |-> content],
           [status |-> sessions[s].status,
            answerId |-> answer.answerId,
            answerVersion |-> answer.answerVersion],
           [sessions[s] EXCEPT !.answers[q] = answer])

FinalizeStep(r, s, payload, key) ==
    /\ pc[r] = "idle"
    /\ MayFinalize(sessions[s])
    /\ KeyAccepted(r, DeriveEventID(s, "finalize", key), payload,
           [status |-> "submitted", answeredCount |-> AnsweredCount(sessions[s])],
           Finalized(sessions[s]))

EvaluationStep(r, s, payload, key) ==
    /\ pc[r] = "idle"
    /\ MayEvaluate(sessions[s])
    /\ KeyAccepted(r, DeriveEventID(s, "evaluations", key), payload,
           [status |-> "completed"], Evaluated(sessions[s]))

AcceptStep(r) ==
    \E s \in DOMAIN sessions, key \in Keys :
        \/ \E q \in Questions, content \in Contents : SaveStep(r, s, q, content, key)
        \/ \E payload \in FinalPayloads :
             FinalizeStep(r, s, payload, key) \/ EvaluationStep(r, s, payload, key)

\* Every step of a handler has one of the shapes.
LEMMA HandlerShapes ==
    ASSUME NEW r \in Requests, Handle(r), DOMAIN sessions \subseteq SessionIds
    PROVE  \/ QuietStep(r) \/ ReplayStep(r) \/ CreateStep(r)
           \/ \E s \in SessionIds : PollStep(r, s)
           \/ AcceptStep(r)
<1> DEFINE Goal == \/ QuietStep(r) \/ ReplayStep(r) \/ CreateStep(r)
                   \/ \E s \in SessionIds : PollStep(r, s)
                   \/ AcceptStep(r)
<1>1. ASSUME NEW code, code \notin {"OK", "CREATED", "VIEW"}, pc[r] = "idle", Refuse(r, code)
      PROVE  QuietStep(r)
  <2>1. [code |-> code].code = code
    OBVIOUS
  <2> QED BY <1>1, <2>1 DEF QuietStep, Refuse
<1>2. ASSUME NEW s \in DOMAIN sessions, pc[r] = "idle", Respond(r, View(s)),
             UNCHANGED <<serverVars, eventVars>>
      PROVE  QuietStep(r)
  BY <1>2 DEF QuietStep, View
<1>3. ASSUME NEW body, HandleSessionCollection(r, body)
      PROVE  Goal
  BY <1>3, <1>1 DEF HandleSessionCollection, CreateStep
<1>4. ASSUME NEW s \in SessionIds, HandleGetSession(r, s)
      PROVE  Goal
  BY <1>4, <1>1 DEF HandleGetSession, PollStep
<1>5. ASSUME NEW s \in SessionIds, HandleGetQuestionsOrAnswers(r, s)
      PROVE  Goal
  BY <1>5, <1>1, <1>2 DEF HandleGetQuestionsOrAnswers
<1>6. ASSUME NEW s \in SessionIds, HandleResultSummary(r, s)
      PROVE  Goal
  BY <1>6, <1>1, <1>2 DEF HandleResultSummary
<1>7. ASSUME HandleDLQReplayContract(r)
      PROVE  Goal
  BY <1>7 DEF HandleDLQReplayContract, QuietStep
<1>8. ASSUME NEW s \in SessionIds, NEW key \in KeyInputs,
             NEW q \in Questions \cup {UnknownQuestion}, NEW content \in Contents,
             HandleSaveAnswer(r, s, q, content, key)
      PROVE  Goal
  <2>1. CASE /\ key \in Keys /\ s \in DOMAIN sessions /\ q \in Questions
             /\ LET answer == Saved(sessions[s].answers[q], content, key) IN
                AssertIdempotency(r, DeriveEventID(s, "answers", key),
                    [question |-> q, content |-> content],
                    [status |-> sessions[s].status,
                     answerId |-> answer.answerId,
                     answerVersion |-> answer.answerVersion],
                    [sessions[s] EXCEPT !.answers[q] = answer])
    <3>1. pc[r] = "idle"
      BY <1>8 DEF HandleSaveAnswer
    <3> QED BY <2>1, <3>1, <1>1
            DEF AssertIdempotency, KeyConflict, ReplayStep, KeyReplay, AcceptStep, SaveStep
  <2> QED BY <1>8, <2>1, <1>1 DEF HandleSaveAnswer
<1>9. ASSUME NEW s \in SessionIds, NEW key \in KeyInputs, NEW payload \in FinalPayloads,
             HandleFinalize(r, s, payload, key)
      PROVE  Goal
  <2>1. CASE MutationRefused(r, s, key, MayFinalize(sessions[s]))
    BY <1>9, <2>1, <1>1 DEF MutationRefused, HandleFinalize
  <2>2. CASE ~MutationRefused(r, s, key, MayFinalize(sessions[s]))
    BY <1>9, <2>2, <1>1
       DEF HandleFinalize, AssertIdempotency, KeyConflict, ReplayStep, KeyReplay,
           AcceptStep, FinalizeStep
  <2> QED BY <2>1, <2>2
<1>10. ASSUME NEW s \in SessionIds, NEW key \in KeyInputs, NEW payload \in FinalPayloads,
             HandleSubmitEvaluation(r, s, payload, key)
      PROVE  Goal
  <2>1. CASE MutationRefused(r, s, key, MayEvaluate(sessions[s]))
    BY <1>10, <2>1, <1>1 DEF MutationRefused, HandleSubmitEvaluation
  <2>2. CASE ~MutationRefused(r, s, key, MayEvaluate(sessions[s]))
    BY <1>10, <2>2, <1>1
       DEF HandleSubmitEvaluation, AssertIdempotency, KeyConflict, ReplayStep, KeyReplay,
           AcceptStep, EvaluationStep
  <2> QED BY <2>1, <2>2
<1> QED BY <1>3, <1>4, <1>5, <1>6, <1>7, <1>8, <1>9, <1>10 DEF Handle

-----------------------------------------------------------------------------
(* Types *)

\* buildProgress counts.
LEMMA AnsweredCountIsNat ==
    ASSUME NEW session PROVE AnsweredCount(session) \in Nat
<1> DEFINE Answered == {q \in Questions : session.answers[q].answerContent # Blank}
<1>1. IsFiniteSet(Answered)
  BY QuestionsAssumption, FS_Subset
<1> QED BY <1>1, FS_CardinalityType DEF AnsweredCount

\* A poll leaves a session record.
LEMMA PolledType ==
    ASSUME NEW session \in SessionRecords PROVE Polled(session) \in SessionRecords
<1>1. session.pollCount + 1 \in Nat
  BY DEF SessionRecords
<1>2. CASE session.status = "pending"
  BY <1>1, <1>2 DEF Polled, SessionRecords, Statuses
<1>3. CASE session.status = "preparing"
  BY <1>1, <1>3 DEF Polled, SessionRecords, Statuses
<1>4. CASE session.status \notin {"pending", "preparing"}
  BY <1>4 DEF Polled
<1> QED BY <1>2, <1>3, <1>4

\* What a poll does to a session, by status.
LEMMA PolledFields ==
    ASSUME NEW session \in SessionRecords
    PROVE  /\ Polled(session).answers = session.answers
           /\ Polled(session).submittedAt = session.submittedAt
           /\ Polled(session).completedAt = session.completedAt
           /\ session.status = "pending" =>
                /\ Polled(session).status = "preparing"
                /\ Polled(session).pollCount = session.pollCount + 1
                /\ Polled(session).preparingAt = TRUE
                /\ Polled(session).startedAt = session.startedAt
           /\ session.status = "preparing" /\ session.pollCount = 1 =>
                /\ Polled(session).status = "in_progress"
                /\ Polled(session).pollCount = 2
                /\ Polled(session).preparingAt = session.preparingAt
                /\ Polled(session).startedAt = TRUE
           /\ session.status \notin {"pending", "preparing"} => Polled(session) = session
<1>1. CASE session.status = "pending"
  BY <1>1 DEF Polled, SessionRecords
<1>2. CASE session.status = "preparing"
  BY <1>2 DEF Polled, SessionRecords
<1>3. CASE session.status \notin {"pending", "preparing"}
  BY <1>3 DEF Polled
<1> QED BY <1>1, <1>2, <1>3

\* A save with a valid key leaves an answer.
LEMMA SavedType ==
    ASSUME NEW existing \in Answers, NEW content \in Contents, NEW key \in Keys
    PROVE  /\ Saved(existing, content, key) \in Answers
           /\ Saved(existing, content, key).answerId \in Keys
           /\ Saved(existing, content, key).answerVersion \in Nat \ {0}
<1>1. CASE existing = NoAnswer
  BY <1>1 DEF Saved, Answers, NoAnswer
<1>2. CASE existing \in [answerId : Keys, answerContent : Contents, answerVersion : Nat \ {0}]
  BY <1>2 DEF Saved, Answers
<1> QED BY <1>1, <1>2 DEF Answers

\* An accepted mutation keeps the types if its record and the session it
\* leaves have theirs.
LEMMA AcceptedType ==
    ASSUME TypeOK,
           NEW r \in Requests, NEW id \in MutationIds, id.session \in DOMAIN sessions,
           NEW payload, NEW response,
           [payload |-> payload, response |-> response] \in Records(id.route),
           NEW updated \in SessionRecords,
           KeyAccepted(r, id, payload, response, updated)
    PROVE  TypeOK'
<1>1. id \in EventIds
  BY DEF EventIds
<1>2. DOMAIN idempotent' = DOMAIN idempotent \cup {id}
  BY DEF KeyAccepted, WithRecord
<1>3. \A i \in DOMAIN idempotent' :
        idempotent'[i] = IF i = id THEN [payload |-> payload, response |-> response]
                         ELSE idempotent[i]
  BY DEF KeyAccepted, WithRecord
<1>4. /\ DOMAIN idempotent' \subseteq MutationIds
      /\ idempotent' = [i \in DOMAIN idempotent' |-> idempotent'[i]]
      /\ \A i \in DOMAIN idempotent' : idempotent'[i] \in Records(i.route)
  <2>1. DOMAIN idempotent' \subseteq MutationIds
    BY <1>2 DEF TypeOK
  <2>2. idempotent' = [i \in DOMAIN idempotent' |-> idempotent'[i]]
    BY DEF KeyAccepted, WithRecord
  <2>3. ASSUME NEW i \in DOMAIN idempotent' PROVE idempotent'[i] \in Records(i.route)
    BY <1>2, <1>3 DEF TypeOK
  <2> QED BY <2>1, <2>2, <2>3
<1>5. sessions' \in [1..(counter' - 1) -> SessionRecords] /\ counter' = counter
  BY DEF KeyAccepted, TypeOK
<1>6. /\ pc' \in [Requests -> {"idle", "publish", "dlq", "reply"}]
      /\ envelope' \in [Requests -> EventIds \cup {NoEvent}]
      /\ \A p \in Requests : pc'[p] \in {"publish", "dlq"} => envelope'[p] \in EventIds
      /\ DOMAIN reply' = Requests
  BY <1>1 DEF KeyAccepted, BeginPublish, TypeOK
<1>7. UNCHANGED eventVars
  BY DEF KeyAccepted, BeginPublish
<1> QED BY <1>4, <1>5, <1>6, <1>7 DEF TypeOK, eventVars, Records

\* Every step of the API, whatever the request, keeps the types.
THEOREM TypeStep == TypeOK /\ [Next]_vars => TypeOK'
<1> SUFFICES ASSUME TypeOK, [Next]_vars PROVE TypeOK'
  OBVIOUS
<1> USE BoundsAssumption
<1>0. DOMAIN sessions = 1..(counter - 1) /\ DOMAIN sessions \subseteq SessionIds
  BY DEF TypeOK, SessionIds
<1>1. ASSUME NEW r \in Requests, QuietStep(r) PROVE TypeOK'
  BY <1>1 DEF QuietStep, Respond, TypeOK, serverVars, eventVars
<1>2. ASSUME NEW r \in Requests, ReplayStep(r) PROVE TypeOK'
  BY <1>2 DEF ReplayStep, KeyReplay, Respond, TypeOK, serverVars, eventVars
<1>3. ASSUME NEW r \in Requests, CreateStep(r) PROVE TypeOK'
  <2>1. NewSession \in SessionRecords
    BY ContentsAssumption DEF NewSession, SessionRecords, NoAnswer, Answers, Statuses
  <2>2. /\ counter' \in 1..(MaxSessions + 1)
        /\ sessions' \in [1..(counter' - 1) -> SessionRecords]
    BY <1>0, <1>3, <2>1 DEF CreateStep, TypeOK
  <2>3. CreatedEvent(counter) \in EventIds
    BY <1>3 DEF CreateStep, EventIds, SessionIds, TypeOK
  <2>4. /\ pc' \in [Requests -> {"idle", "publish", "dlq", "reply"}]
        /\ envelope' \in [Requests -> EventIds \cup {NoEvent}]
        /\ \A p \in Requests : pc'[p] \in {"publish", "dlq"} => envelope'[p] \in EventIds
        /\ DOMAIN reply' = Requests
    BY <1>3, <2>3 DEF CreateStep, BeginPublish, TypeOK
  <2>5. UNCHANGED <<idempotent, eventVars>>
    BY <1>3 DEF CreateStep, BeginPublish
  <2> QED BY <2>2, <2>4, <2>5 DEF TypeOK, eventVars
<1>4. ASSUME NEW r \in Requests, NEW s \in SessionIds, PollStep(r, s) PROVE TypeOK'
  <2>1. sessions[s] \in SessionRecords
    BY <1>4 DEF PollStep, TypeOK
  <2>2. sessions' \in [1..(counter - 1) -> SessionRecords]
    BY <1>0, <1>4, <2>1, PolledType DEF PollStep, TypeOK
  <2> QED BY <1>4, <2>2 DEF PollStep, Respond, TypeOK, eventVars
<1>5. ASSUME NEW r \in Requests, AcceptStep(r) PROVE TypeOK'
  <2>1. PICK s \in DOMAIN sessions, key \in Keys :
          \/ \E q \in Questions, content \in Contents : SaveStep(r, s, q, content, key)
          \/ \E payload \in FinalPayloads :
                FinalizeStep(r, s, payload, key) \/ EvaluationStep(r, s, payload, key)
    BY <1>5 DEF AcceptStep
  <2>2. s \in SessionIds /\ sessions[s] \in SessionRecords
    BY <1>0 DEF TypeOK
  <2>3. ASSUME NEW q \in Questions, NEW content \in Contents, SaveStep(r, s, q, content, key)
        PROVE  TypeOK'
    <3> DEFINE answer == Saved(sessions[s].answers[q], content, key)
               id == DeriveEventID(s, "answers", key)
               payload == [question |-> q, content |-> content]
               response == [status |-> sessions[s].status,
                            answerId |-> answer.answerId,
                            answerVersion |-> answer.answerVersion]
               updated == [sessions[s] EXCEPT !.answers[q] = answer]
    <3>1. /\ sessions[s].answers \in [Questions -> Answers]
          /\ sessions[s].status \in Statuses
      BY <2>2 DEF SessionRecords
    <3>2. answer \in Answers /\ answer.answerId \in Keys /\ answer.answerVersion \in Nat
      BY <3>1, SavedType
    <3>3. updated \in SessionRecords
      BY <2>2, <3>1, <3>2 DEF SessionRecords
    <3>4. payload \in SavePayloads /\ response \in SaveResponses
      BY <3>1, <3>2 DEF SavePayloads, SaveResponses
    <3>5. /\ id \in MutationIds /\ id.session = s
          /\ [payload |-> payload, response |-> response] \in Records(id.route)
      BY <2>2, <3>4 DEF DeriveEventID, MutationIds, Routes, Records
    <3>6. KeyAccepted(r, id, payload, response, updated)
      BY <2>3 DEF SaveStep
    <3> HIDE DEF id, payload, response, updated
    <3> QED BY <3>3, <3>5, <3>6, AcceptedType
  <2>4. ASSUME NEW payload \in FinalPayloads, FinalizeStep(r, s, payload, key)
        PROVE  TypeOK'
    <3> DEFINE id == DeriveEventID(s, "finalize", key)
               response == [status |-> "submitted", answeredCount |-> AnsweredCount(sessions[s])]
               updated == Finalized(sessions[s])
    <3>1. updated \in SessionRecords
      BY <2>2 DEF Finalized, SessionRecords, Statuses
    <3>2. response \in FinalizeResponses
      BY AnsweredCountIsNat DEF FinalizeResponses
    <3>3. /\ id \in MutationIds /\ id.session = s
          /\ [payload |-> payload, response |-> response] \in Records(id.route)
      BY <2>2, <3>2 DEF DeriveEventID, MutationIds, Routes, Records
    <3>4. KeyAccepted(r, id, payload, response, updated)
      BY <2>4 DEF FinalizeStep
    <3> HIDE DEF id, response, updated
    <3> QED BY <3>1, <3>3, <3>4, AcceptedType
  <2>5. ASSUME NEW payload \in FinalPayloads, EvaluationStep(r, s, payload, key)
        PROVE  TypeOK'
    <3> DEFINE id == DeriveEventID(s, "evaluations", key)
               response == [status |-> "completed"]
               updated == Evaluated(sessions[s])
    <3>1. updated \in SessionRecords
      BY <2>2 DEF Evaluated, SessionRecords, Statuses
    <3>2. /\ id \in MutationIds /\ id.session = s
          /\ [payload |-> payload, response |-> response] \in Records(id.route)
      BY <2>2 DEF DeriveEventID, MutationIds, Routes, Records, EvaluationResponses
    <3>3. KeyAccepted(r, id, payload, response, updated)
      BY <2>5 DEF EvaluationStep
    <3> HIDE DEF id, response, updated
    <3> QED BY <3>1, <3>2, <3>3, AcceptedType
  <2> QED BY <2>1, <2>3, <2>4, <2>5
<1>6. ASSUME NEW r \in Requests, Proceed(r) PROVE TypeOK'
  <2>1. CASE PublishEvent(r)
    <3>1. envelope[r] \in EventIds
      BY <1>6, <2>1 DEF PublishEvent, TypeOK
    <3>2. eventQueue' \in Seq(EventIds)
      <4>1. eventQueue \in Seq(EventIds)
        BY DEF TypeOK
      <4>2. eventQueue' = eventQueue \/ eventQueue' = Append(eventQueue, envelope[r])
        BY <2>1 DEF PublishEvent
      <4>3. Append(eventQueue, envelope[r]) \in Seq(EventIds)
        BY <3>1, <4>1
      <4> QED BY <4>1, <4>2, <4>3
    <3>3. /\ pc' \in [Requests -> {"idle", "publish", "dlq", "reply"}]
          /\ envelope' \in [Requests -> EventIds \cup {NoEvent}]
          /\ \A p \in Requests : pc'[p] \in {"publish", "dlq"} => envelope'[p] \in EventIds
      BY <2>1, <3>1 DEF PublishEvent, TypeOK
    <3> QED BY <2>1, <3>2, <3>3 DEF PublishEvent, TypeOK, serverVars
  <2>2. CASE RouteToDLQ(r)
    BY <1>6, <2>2 DEF RouteToDLQ, TypeOK, serverVars
  <2>3. CASE WriteResponse(r)
    BY <1>6, <2>3 DEF WriteResponse, TypeOK, serverVars, eventVars
  <2> QED BY <1>6, <2>1, <2>2, <2>3 DEF Proceed
<1>7. ASSUME ConsumeEvents PROVE TypeOK'
  BY <1>7 DEF ConsumeEvents, TypeOK, serverVars, requestVars
<1>8. CASE UNCHANGED vars
  BY <1>8 DEF vars, TypeOK
<1>9. ASSUME NEW r \in Requests, Handle(r) PROVE TypeOK'
  BY <1>0, <1>1, <1>2, <1>3, <1>4, <1>5, <1>9, HandlerShapes
<1> QED BY <1>6, <1>7, <1>8, <1>9 DEF Next

\* NewServer starts with the types.
LEMMA TypeInit == Init => TypeOK
BY BoundsAssumption DEF Init, TypeOK, Records

\* The types hold in every reachable state.
THEOREM TypeCorrect == Spec => []TypeOK
BY TypeInit, TypeStep, PTL DEF Spec
-----------------------------------------------------------------------------
(* Sessions *)

\* The status of a session and its records: the strengthening of the three
\* invariants about sessions is their conjunction with the types.
SessionInv == TypeOK /\ Timeline /\ ResultIsEarned /\ RetryIsNeverStale

\* A step that leaves the sessions and the records alone keeps them all.
LEMMA SessionInvFrame ==
    ASSUME SessionInv, TypeOK', UNCHANGED <<sessions, idempotent>>
    PROVE  SessionInv'
BY DEF SessionInv, Timeline, FinalizedTwice, ResultIsEarned, RetryIsNeverStale

\* A session that was finalized twice stays so: records do not go away.
LEMMA FinalizedTwiceStays ==
    ASSUME NEW s, DOMAIN idempotent \subseteq DOMAIN idempotent', FinalizedTwice(s)
    PROVE  FinalizedTwice(s)'
BY DEF FinalizedTwice

\* One session s is replaced by updated, and the records may have grown by one
\* record of s: what has to be shown of updated.
LEMMA SessionInvUpdate ==
    ASSUME SessionInv, TypeOK',
           NEW s \in DOMAIN sessions, NEW updated,
           sessions' = [sessions EXCEPT ![s] = updated],
           DOMAIN idempotent \subseteq DOMAIN idempotent',
           \A i \in DOMAIN idempotent' \ DOMAIN idempotent : i.session = s,
           /\ updated.preparingAt <=> updated.status # "pending"
           /\ updated.startedAt <=> updated.status \notin {"pending", "preparing"}
           /\ updated.submittedAt <=> updated.status \in {"submitted", "completed"}
           /\ updated.status = "completed" => updated.completedAt
           /\ updated.pollCount = IF updated.status = "pending" THEN 0
                                  ELSE IF updated.status = "preparing" THEN 1
                                  ELSE 2,
           updated.completedAt =>
             \/ updated.status = "completed"
             \/ updated.status = "submitted" /\ FinalizedTwice(s)',
           /\ updated.submittedAt =>
                \E key \in Keys : DeriveEventID(s, "finalize", key) \in DOMAIN idempotent'
           /\ updated.completedAt =>
                \E key \in Keys : DeriveEventID(s, "evaluations", key) \in DOMAIN idempotent'
           /\ (\E key \in Keys : DeriveEventID(s, "evaluations", key) \in DOMAIN idempotent') =>
                updated.submittedAt /\ updated.completedAt,
           \A i \in DOMAIN idempotent' : i.session = s =>
                /\ i.route = "finalize" => MayFinalize(updated)
                /\ i.route = "evaluations" => MayEvaluate(updated)
    PROVE  SessionInv'
<1>1. /\ DOMAIN sessions' = DOMAIN sessions
      /\ sessions'[s] = updated
      /\ \A t \in DOMAIN sessions \ {s} : sessions'[t] = sessions[t]
  OBVIOUS
<1>2. Timeline'
  <2> SUFFICES ASSUME NEW t \in DOMAIN sessions PROVE
        /\ sessions'[t].preparingAt <=> sessions'[t].status # "pending"
        /\ sessions'[t].startedAt <=> sessions'[t].status \notin {"pending", "preparing"}
        /\ sessions'[t].submittedAt <=> sessions'[t].status \in {"submitted", "completed"}
        /\ sessions'[t].status = "completed" => sessions'[t].completedAt
        /\ sessions'[t].completedAt =>
             \/ sessions'[t].status = "completed"
             \/ sessions'[t].status = "submitted" /\ FinalizedTwice(t)'
        /\ sessions'[t].pollCount = IF sessions'[t].status = "pending" THEN 0
                                    ELSE IF sessions'[t].status = "preparing" THEN 1 ELSE 2
    BY <1>1 DEF Timeline
  <2>1. CASE t = s
    BY <1>1, <2>1
  <2>2. CASE t # s
    BY <1>1, <2>2, FinalizedTwiceStays DEF SessionInv, Timeline
  <2> QED BY <2>1, <2>2
<1>3. ResultIsEarned'
  <2> SUFFICES ASSUME NEW t \in DOMAIN sessions PROVE
        /\ sessions'[t].submittedAt =>
             \E key \in Keys : DeriveEventID(t, "finalize", key) \in DOMAIN idempotent'
        /\ sessions'[t].completedAt =>
             \E key \in Keys : DeriveEventID(t, "evaluations", key) \in DOMAIN idempotent'
        /\ (\E key \in Keys : DeriveEventID(t, "evaluations", key) \in DOMAIN idempotent') =>
             sessions'[t].submittedAt /\ sessions'[t].completedAt
    BY <1>1 DEF ResultIsEarned
  <2>1. CASE t = s
    BY <1>1, <2>1
  <2>2. CASE t # s
    <3>1. \A key \in Keys, route \in Routes :
            DeriveEventID(t, route, key) \in DOMAIN idempotent' <=>
            DeriveEventID(t, route, key) \in DOMAIN idempotent
      BY <2>2 DEF DeriveEventID
    <3> QED BY <1>1, <2>2, <3>1 DEF SessionInv, ResultIsEarned, Routes
  <2> QED BY <2>1, <2>2
<1>4. RetryIsNeverStale'
  <2> SUFFICES ASSUME NEW i \in DOMAIN idempotent' PROVE
        /\ i.session \in DOMAIN sessions'
        /\ i.route = "finalize" => MayFinalize(sessions'[i.session])
        /\ i.route = "evaluations" => MayEvaluate(sessions'[i.session])
    BY DEF RetryIsNeverStale, MayFinalize, MayEvaluate
  <2>1. CASE i.session = s
    BY <1>1, <2>1
  <2>2. CASE i.session # s
    BY <1>1, <2>2 DEF SessionInv, RetryIsNeverStale
  <2> QED BY <2>1, <2>2
<1> QED BY <1>2, <1>3, <1>4 DEF SessionInv

\* Every step keeps the timeline, the earned results and the retries together:
\* each needs the others where a finalize takes a completed session back.
THEOREM SessionStep == SessionInv /\ [Next]_vars => SessionInv'
<1> SUFFICES ASSUME SessionInv, [Next]_vars PROVE SessionInv'
  OBVIOUS
<1>0. /\ TypeOK /\ TypeOK'
      /\ DOMAIN sessions \subseteq SessionIds
      /\ \A s \in DOMAIN sessions : sessions[s] \in SessionRecords
      /\ \A i \in DOMAIN idempotent : i.session \in DOMAIN sessions
  BY TypeStep, BoundsAssumption DEF SessionInv, TypeOK, SessionIds, RetryIsNeverStale
<1>1. ASSUME NEW r \in Requests, QuietStep(r) PROVE SessionInv'
  BY <1>0, <1>1, SessionInvFrame DEF QuietStep, serverVars
<1>2. ASSUME NEW r \in Requests, ReplayStep(r) PROVE SessionInv'
  BY <1>0, <1>2, SessionInvFrame DEF ReplayStep, KeyReplay, serverVars
<1>3. ASSUME NEW r \in Requests, CreateStep(r) PROVE SessionInv'
  <2>1. /\ DOMAIN sessions' = DOMAIN sessions \cup {counter}
        /\ counter \notin DOMAIN sessions
        /\ sessions'[counter] = NewSession
        /\ \A s \in DOMAIN sessions : sessions'[s] = sessions[s]
        /\ idempotent' = idempotent
    BY <1>0, <1>3, BoundsAssumption DEF CreateStep, TypeOK
  <2>2. \A key, route : DeriveEventID(counter, route, key) \notin DOMAIN idempotent
    BY <1>0, <2>1 DEF DeriveEventID
  <2>3. Timeline'
    BY <2>1, FinalizedTwiceStays DEF SessionInv, Timeline, NewSession
  <2>4. ResultIsEarned'
    BY <2>1, <2>2 DEF SessionInv, ResultIsEarned, NewSession
  <2>5. RetryIsNeverStale'
    BY <1>0, <2>1 DEF SessionInv, RetryIsNeverStale, MayFinalize, MayEvaluate
  <2> QED BY <1>0, <2>3, <2>4, <2>5 DEF SessionInv
<1>4. ASSUME NEW r \in Requests, NEW s \in SessionIds, PollStep(r, s) PROVE SessionInv'
  <2> DEFINE updated == Polled(sessions[s])
  <2>1. /\ s \in DOMAIN sessions /\ sessions[s] \in SessionRecords
        /\ sessions' = [sessions EXCEPT ![s] = updated]
        /\ idempotent' = idempotent
    BY <1>0, <1>4 DEF PollStep
  <2>2. /\ sessions[s].preparingAt <=> sessions[s].status # "pending"
        /\ sessions[s].startedAt <=> sessions[s].status \notin {"pending", "preparing"}
        /\ sessions[s].submittedAt <=> sessions[s].status \in {"submitted", "completed"}
        /\ sessions[s].status = "completed" => sessions[s].completedAt
        /\ sessions[s].completedAt =>
             \/ sessions[s].status = "completed"
             \/ sessions[s].status = "submitted" /\ FinalizedTwice(s)
        /\ sessions[s].pollCount = IF sessions[s].status = "pending" THEN 0
                                   ELSE IF sessions[s].status = "preparing" THEN 1 ELSE 2
    BY <2>1 DEF SessionInv, Timeline
  <2>3. CASE sessions[s].status \notin {"pending", "preparing"}
    <3>0. updated = sessions[s]
      BY <2>1, <2>3, PolledFields
    <3> HIDE DEF updated
    <3>1. sessions' = sessions
      BY <1>0, <2>1, <3>0 DEF TypeOK
    <3> QED BY <1>0, <2>1, <3>1, SessionInvFrame
  <2>4. CASE sessions[s].status \in {"pending", "preparing"}
    <3>1. /\ updated.submittedAt = sessions[s].submittedAt
          /\ updated.completedAt = sessions[s].completedAt
      BY <2>1, PolledFields
    <3>2. /\ updated.preparingAt <=> updated.status # "pending"
          /\ updated.startedAt <=> updated.status \notin {"pending", "preparing"}
          /\ updated.submittedAt <=> updated.status \in {"submitted", "completed"}
          /\ updated.status = "completed" => updated.completedAt
          /\ updated.pollCount = IF updated.status = "pending" THEN 0
                                 ELSE IF updated.status = "preparing" THEN 1 ELSE 2
      <4>1. CASE sessions[s].status = "pending"
        <5>1. /\ updated.status = "preparing"
              /\ updated.pollCount = sessions[s].pollCount + 1
              /\ updated.preparingAt = TRUE
              /\ updated.startedAt = sessions[s].startedAt
          BY <2>1, <4>1, PolledFields
        <5>2. sessions[s].pollCount = 0
          BY <2>2, <4>1
        <5> HIDE DEF updated
        <5> QED BY <2>2, <3>1, <4>1, <5>1, <5>2
      <4>2. CASE sessions[s].status = "preparing"
        BY <2>1, <2>2, <3>1, <4>2, PolledFields
      <4> QED BY <2>4, <4>1, <4>2
    <3>3. \A i \in DOMAIN idempotent' : i.session = s =>
             /\ i.route = "finalize" => MayFinalize(updated)
             /\ i.route = "evaluations" => MayEvaluate(updated)
      BY <2>1, <2>4 DEF SessionInv, RetryIsNeverStale, MayFinalize, MayEvaluate
    <3>4. /\ updated.submittedAt =>
               \E key \in Keys : DeriveEventID(s, "finalize", key) \in DOMAIN idempotent'
          /\ updated.completedAt =>
               \E key \in Keys : DeriveEventID(s, "evaluations", key) \in DOMAIN idempotent'
          /\ (\E key \in Keys : DeriveEventID(s, "evaluations", key) \in DOMAIN idempotent') =>
               updated.submittedAt /\ updated.completedAt
      BY <2>1, <3>1 DEF SessionInv, ResultIsEarned
    <3>5. /\ DOMAIN idempotent \subseteq DOMAIN idempotent'
          /\ \A i \in DOMAIN idempotent' \ DOMAIN idempotent : i.session = s
      BY <2>1
    <3>6. ~updated.completedAt
      BY <2>2, <2>4, <3>1
    <3> HIDE DEF updated
    <3> QED BY <1>0, <2>1, <3>2, <3>3, <3>4, <3>5, <3>6, SessionInvUpdate
  <2> QED BY <2>3, <2>4
<1>5. ASSUME NEW r \in Requests, AcceptStep(r) PROVE SessionInv'
  <2>1. PICK s \in DOMAIN sessions, key \in Keys :
          \/ \E q \in Questions, content \in Contents : SaveStep(r, s, q, content, key)
          \/ \E payload \in FinalPayloads :
                FinalizeStep(r, s, payload, key) \/ EvaluationStep(r, s, payload, key)
    BY <1>5 DEF AcceptStep
  <2>2. /\ sessions[s] \in SessionRecords
        /\ sessions[s].preparingAt <=> sessions[s].status # "pending"
        /\ sessions[s].startedAt <=> sessions[s].status \notin {"pending", "preparing"}
        /\ sessions[s].submittedAt <=> sessions[s].status \in {"submitted", "completed"}
        /\ sessions[s].status = "completed" => sessions[s].completedAt
        /\ sessions[s].completedAt =>
             \/ sessions[s].status = "completed"
             \/ sessions[s].status = "submitted" /\ FinalizedTwice(s)
        /\ sessions[s].pollCount = IF sessions[s].status = "pending" THEN 0
                                   ELSE IF sessions[s].status = "preparing" THEN 1 ELSE 2
    BY <1>0 DEF SessionInv, Timeline
  <2>3. /\ sessions[s].submittedAt =>
             \E k \in Keys : DeriveEventID(s, "finalize", k) \in DOMAIN idempotent
        /\ sessions[s].completedAt =>
             \E k \in Keys : DeriveEventID(s, "evaluations", k) \in DOMAIN idempotent
        /\ (\E k \in Keys : DeriveEventID(s, "evaluations", k) \in DOMAIN idempotent) =>
             sessions[s].submittedAt /\ sessions[s].completedAt
    BY DEF SessionInv, ResultIsEarned
  <2>4. \A i \in DOMAIN idempotent : i.session = s =>
           /\ i.route = "finalize" => MayFinalize(sessions[s])
           /\ i.route = "evaluations" => MayEvaluate(sessions[s])
    BY DEF SessionInv, RetryIsNeverStale
  <2>5. ASSUME NEW q \in Questions, NEW content \in Contents, SaveStep(r, s, q, content, key)
        PROVE  SessionInv'
    <3> DEFINE id == DeriveEventID(s, "answers", key)
               updated == [sessions[s] EXCEPT
                             !.answers[q] = Saved(sessions[s].answers[q], content, key)]
    <3>1. /\ id.session = s /\ id.route = "answers"
          /\ DOMAIN idempotent' = DOMAIN idempotent \cup {id}
          /\ sessions' = [sessions EXCEPT ![s] = updated]
      BY <2>5 DEF SaveStep, KeyAccepted, WithRecord, DeriveEventID
    <3>2. /\ updated.status = sessions[s].status
          /\ updated.pollCount = sessions[s].pollCount
          /\ updated.preparingAt = sessions[s].preparingAt
          /\ updated.startedAt = sessions[s].startedAt
          /\ updated.submittedAt = sessions[s].submittedAt
          /\ updated.completedAt = sessions[s].completedAt
      BY <2>2 DEF SessionRecords
    <3>3. \A k : /\ DeriveEventID(s, "finalize", k) # id
                 /\ DeriveEventID(s, "evaluations", k) # id
      BY DEF DeriveEventID
    <3> HIDE DEF id, updated
    <3>4. \A i \in DOMAIN idempotent' : i.session = s =>
             /\ i.route = "finalize" => MayFinalize(updated)
             /\ i.route = "evaluations" => MayEvaluate(updated)
      BY <2>4, <3>1, <3>2 DEF MayFinalize, MayEvaluate
    <3>5. /\ updated.preparingAt <=> updated.status # "pending"
          /\ updated.startedAt <=> updated.status \notin {"pending", "preparing"}
          /\ updated.submittedAt <=> updated.status \in {"submitted", "completed"}
          /\ updated.status = "completed" => updated.completedAt
          /\ updated.pollCount = IF updated.status = "pending" THEN 0
                                 ELSE IF updated.status = "preparing" THEN 1 ELSE 2
      BY <2>2, <3>2
    <3>6. /\ updated.submittedAt =>
               \E k \in Keys : DeriveEventID(s, "finalize", k) \in DOMAIN idempotent'
          /\ updated.completedAt =>
               \E k \in Keys : DeriveEventID(s, "evaluations", k) \in DOMAIN idempotent'
          /\ (\E k \in Keys : DeriveEventID(s, "evaluations", k) \in DOMAIN idempotent') =>
               updated.submittedAt /\ updated.completedAt
      BY <2>3, <3>1, <3>2, <3>3
    <3>7. /\ DOMAIN idempotent \subseteq DOMAIN idempotent'
          /\ \A i \in DOMAIN idempotent' \ DOMAIN idempotent : i.session = s
      BY <3>1
    <3>8. updated.completedAt =>
             \/ updated.status = "completed"
             \/ updated.status = "submitted" /\ FinalizedTwice(s)'
      BY <2>2, <3>2, <3>7, FinalizedTwiceStays
    <3> QED BY <1>0, <3>1, <3>4, <3>5, <3>6, <3>7, <3>8, SessionInvUpdate
  <2>6. ASSUME NEW payload \in FinalPayloads, FinalizeStep(r, s, payload, key)
        PROVE  SessionInv'
    <3> DEFINE id == DeriveEventID(s, "finalize", key)
               updated == Finalized(sessions[s])
    <3>1. /\ id.session = s /\ id.route = "finalize"
          /\ DOMAIN idempotent' = DOMAIN idempotent \cup {id}
          /\ id \notin DOMAIN idempotent
          /\ sessions' = [sessions EXCEPT ![s] = updated]
          /\ MayFinalize(sessions[s])
      BY <2>6 DEF FinalizeStep, KeyAccepted, WithRecord, DeriveEventID
    <3>2. /\ updated.status = "submitted"
          /\ updated.pollCount = sessions[s].pollCount
          /\ updated.preparingAt = sessions[s].preparingAt
          /\ updated.startedAt = sessions[s].startedAt
          /\ updated.submittedAt = TRUE
          /\ updated.completedAt = sessions[s].completedAt
      BY <2>2 DEF SessionRecords, Finalized
    <3>3. \A k : DeriveEventID(s, "evaluations", k) # id
      BY DEF DeriveEventID
    <3>4. \E k \in Keys : DeriveEventID(s, "finalize", k) \in DOMAIN idempotent'
      BY <3>1
    <3>5. ASSUME updated.completedAt PROVE FinalizedTwice(s)'
      <4>1. sessions[s].submittedAt
        BY <2>2, <3>2, <3>5
      <4>2. PICK k \in Keys : DeriveEventID(s, "finalize", k) \in DOMAIN idempotent
        BY <2>3, <4>1
      <4>3. k # key
        BY <3>1, <4>2
      <4> QED BY <3>1, <4>2, <4>3 DEF FinalizedTwice
    <3> HIDE DEF id, updated
    <3>6. /\ updated.preparingAt <=> updated.status # "pending"
          /\ updated.startedAt <=> updated.status \notin {"pending", "preparing"}
          /\ updated.submittedAt <=> updated.status \in {"submitted", "completed"}
          /\ updated.status = "completed" => updated.completedAt
          /\ updated.pollCount = IF updated.status = "pending" THEN 0
                                 ELSE IF updated.status = "preparing" THEN 1 ELSE 2
      BY <2>2, <3>1, <3>2 DEF MayFinalize
    <3>7. /\ updated.completedAt =>
               \E k \in Keys : DeriveEventID(s, "evaluations", k) \in DOMAIN idempotent'
          /\ (\E k \in Keys : DeriveEventID(s, "evaluations", k) \in DOMAIN idempotent') =>
               updated.submittedAt /\ updated.completedAt
      BY <2>3, <3>1, <3>2, <3>3
    <3>8. MayFinalize(updated) /\ MayEvaluate(updated)
      BY <3>2 DEF MayFinalize, MayEvaluate
    <3> QED BY <1>0, <3>1, <3>2, <3>4, <3>5, <3>6, <3>7, <3>8,
              SessionInvUpdate
  <2>7. ASSUME NEW payload \in FinalPayloads, EvaluationStep(r, s, payload, key)
        PROVE  SessionInv'
    <3> DEFINE id == DeriveEventID(s, "evaluations", key)
               updated == Evaluated(sessions[s])
    <3>1. /\ id.session = s /\ id.route = "evaluations"
          /\ DOMAIN idempotent' = DOMAIN idempotent \cup {id}
          /\ sessions' = [sessions EXCEPT ![s] = updated]
          /\ MayEvaluate(sessions[s])
      BY <2>7 DEF EvaluationStep, KeyAccepted, WithRecord, DeriveEventID
    <3>2. /\ updated.status = "completed"
          /\ updated.pollCount = sessions[s].pollCount
          /\ updated.preparingAt = sessions[s].preparingAt
          /\ updated.startedAt = sessions[s].startedAt
          /\ updated.submittedAt = sessions[s].submittedAt
          /\ updated.completedAt = TRUE
      BY <2>2 DEF SessionRecords, Evaluated
    <3>3. \E k \in Keys : DeriveEventID(s, "evaluations", k) \in DOMAIN idempotent'
      BY <3>1
    <3> HIDE DEF id, updated
    <3>4. /\ updated.preparingAt <=> updated.status # "pending"
          /\ updated.startedAt <=> updated.status \notin {"pending", "preparing"}
          /\ updated.submittedAt <=> updated.status \in {"submitted", "completed"}
          /\ updated.status = "completed" => updated.completedAt
          /\ updated.pollCount = IF updated.status = "pending" THEN 0
                                 ELSE IF updated.status = "preparing" THEN 1 ELSE 2
      BY <2>2, <3>1, <3>2 DEF MayEvaluate
    <3>5. /\ updated.submittedAt =>
               \E k \in Keys : DeriveEventID(s, "finalize", k) \in DOMAIN idempotent'
          /\ updated.submittedAt /\ updated.completedAt
      BY <2>2, <2>3, <3>1, <3>2 DEF MayEvaluate
    <3>6. MayFinalize(updated) /\ MayEvaluate(updated)
      BY <3>2 DEF MayFinalize, MayEvaluate
    <3> QED BY <1>0, <3>1, <3>2, <3>3, <3>4, <3>5, <3>6, SessionInvUpdate
  <2> QED BY <2>1, <2>5, <2>6, <2>7
<1>6. ASSUME NEW r \in Requests, Proceed(r) PROVE SessionInv'
  BY <1>0, <1>6, SessionInvFrame
     DEF Proceed, PublishEvent, RouteToDLQ, WriteResponse, serverVars
<1>7. ASSUME ConsumeEvents PROVE SessionInv'
  BY <1>0, <1>7, SessionInvFrame DEF ConsumeEvents, serverVars
<1>8. CASE UNCHANGED vars
  BY <1>0, <1>8, SessionInvFrame DEF vars
<1>9. ASSUME NEW r \in Requests, Handle(r) PROVE SessionInv'
  BY <1>0, <1>1, <1>2, <1>3, <1>4, <1>5, <1>9, HandlerShapes
<1> QED BY <1>6, <1>7, <1>8, <1>9 DEF Next

\* NewServer has neither sessions nor records.
LEMMA SessionInit == Init => SessionInv
BY TypeInit DEF Init, SessionInv, Timeline, ResultIsEarned, RetryIsNeverStale

\* The three session invariants and the types hold together in every state.
LEMMA SessionInvariant == Spec => []SessionInv
BY SessionInit, SessionStep, PTL DEF Spec

\* The timeline of every session follows its status, but for the completedAt
\* of a session that a second finalize took back.
THEOREM TimelineCorrect == Spec => []Timeline
<1>1. SessionInv => Timeline
  BY DEF SessionInv
<1> QED BY <1>1, SessionInvariant, PTL

\* No session has a result without a final submission and an evaluation.
THEOREM ResultIsAlwaysEarned == Spec => []ResultIsEarned
<1>1. SessionInv => ResultIsEarned
  BY DEF SessionInv
<1> QED BY <1>1, SessionInvariant, PTL

\* A retry of an accepted finalize or evaluation passes the status guard.
THEOREM RetriesAreNeverStale == Spec => []RetryIsNeverStale
<1>1. SessionInv => RetryIsNeverStale
  BY DEF SessionInv
<1> QED BY <1>1, SessionInvariant, PTL
-----------------------------------------------------------------------------
(* Events *)

\* A value not yet in a sequence is appended: its set grows by it and it stays
\* free of duplicates.
LEMMA AppendFresh ==
    ASSUME NEW S, NEW seq \in Seq(S), NEW e \in S
    PROVE  /\ ToSet(Append(seq, e)) = ToSet(seq) \cup {e}
           /\ IsInjective(seq) /\ e \notin ToSet(seq) => IsInjective(Append(seq, e))
<1>1. /\ Append(seq, e) \in Seq(S)
      /\ Len(Append(seq, e)) = Len(seq) + 1
      /\ \A i \in 1..Len(seq) : Append(seq, e)[i] = seq[i]
      /\ Append(seq, e)[Len(seq) + 1] = e
      /\ DOMAIN seq = 1..Len(seq) /\ DOMAIN Append(seq, e) = 1..(Len(seq) + 1)
      /\ Len(seq) \in Nat
  OBVIOUS
<1>2. ToSet(Append(seq, e)) = ToSet(seq) \cup {e}
  BY <1>1 DEF ToSet
<1>3. ASSUME IsInjective(seq), e \notin ToSet(seq) PROVE IsInjective(Append(seq, e))
  <2> SUFFICES ASSUME NEW i \in 1..(Len(seq) + 1), NEW j \in 1..(Len(seq) + 1),
                      Append(seq, e)[i] = Append(seq, e)[j]
               PROVE  i = j
    BY <1>1 DEF IsInjective
  <2>1. \A k \in 1..Len(seq) : seq[k] # e
    BY <1>1, <1>3 DEF ToSet
  <2>2. CASE i \in 1..Len(seq) /\ j \in 1..Len(seq)
    BY <1>1, <1>3, <2>2 DEF IsInjective
  <2>3. CASE i = Len(seq) + 1 \/ j = Len(seq) + 1
    BY <1>1, <2>1, <2>3
  <2> QED BY <1>1, <2>2, <2>3
<1> QED BY <1>2, <1>3

\* The head of a sequence without duplicates is taken off: exactly it leaves
\* the set.
LEMMA TailOfInjective ==
    ASSUME NEW S, NEW seq \in Seq(S), seq # <<>>, IsInjective(seq)
    PROVE  /\ Head(seq) \in ToSet(seq)
           /\ ToSet(Tail(seq)) = ToSet(seq) \ {Head(seq)}
           /\ IsInjective(Tail(seq))
<1>1. /\ Len(seq) \in Nat /\ Len(seq) >= 1
      /\ Tail(seq) \in Seq(S) /\ Len(Tail(seq)) = Len(seq) - 1
      /\ DOMAIN seq = 1..Len(seq) /\ DOMAIN Tail(seq) = 1..(Len(seq) - 1)
      /\ \A i \in 1..(Len(seq) - 1) : Tail(seq)[i] = seq[i + 1]
      /\ Head(seq) = seq[1]
  OBVIOUS
<1>2. \A i, j \in 1..Len(seq) : seq[i] = seq[j] => i = j
  BY <1>1 DEF IsInjective
<1>3. Head(seq) \in ToSet(seq)
  BY <1>1 DEF ToSet
<1>4. ToSet(Tail(seq)) = ToSet(seq) \ {Head(seq)}
  <2>1. ASSUME NEW x \in ToSet(Tail(seq)) PROVE x \in ToSet(seq) \ {Head(seq)}
    <3>1. PICK i \in 1..(Len(seq) - 1) : x = seq[i + 1]
      BY <1>1 DEF ToSet
    <3>2. i + 1 \in 1..Len(seq) /\ i + 1 # 1 /\ 1 \in 1..Len(seq)
      BY <1>1
    <3> QED BY <1>1, <1>2, <3>1, <3>2 DEF ToSet
  <2>2. ASSUME NEW x \in ToSet(seq) \ {Head(seq)} PROVE x \in ToSet(Tail(seq))
    <3>1. PICK i \in 1..Len(seq) : x = seq[i]
      BY <1>1 DEF ToSet
    <3>2. i - 1 \in 1..(Len(seq) - 1) /\ (i - 1) + 1 = i
      BY <1>1, <3>1
    <3> QED BY <1>1, <3>1, <3>2 DEF ToSet
  <2> QED BY <2>1, <2>2
<1>5. IsInjective(Tail(seq))
  <2> SUFFICES ASSUME NEW i \in 1..(Len(seq) - 1), NEW j \in 1..(Len(seq) - 1),
                      Tail(seq)[i] = Tail(seq)[j]
               PROVE  i = j
    BY <1>1 DEF IsInjective
  <2>1. i + 1 \in 1..Len(seq) /\ j + 1 \in 1..Len(seq)
    BY <1>1
  <2> QED BY <1>1, <1>2, <2>1
<1> QED BY <1>3, <1>4, <1>5

EventInv == SessionInv /\ NoEventLost /\ NoEventTwice

\* The request r has an event of its own: no other request holds it.
Publishing(r) == pc[r] \in {"publish", "dlq"}

\* What happens to the set InFlight when one request enters or leaves.
LEMMA InFlightFrame ==
    ASSUME NEW r \in Requests, pc \in [Requests -> {"idle", "publish", "dlq", "reply"}],
           DOMAIN envelope = Requests,
           NEW to \in {"idle", "reply"},
           pc' = [pc EXCEPT ![r] = to], ~Publishing(r), UNCHANGED envelope
    PROVE  /\ InFlight' = InFlight
           /\ \A p \in Requests : Publishing(p)' <=> Publishing(p)
<1>1. \A p \in Requests : Publishing(p)' <=> Publishing(p)
  BY DEF Publishing
<1> QED BY <1>1 DEF InFlight, Publishing

\* A request that unlocks with an event adds it to the events in flight.
LEMMA InFlightEnter ==
    ASSUME NEW r \in Requests, pc \in [Requests -> {"idle", "publish", "dlq", "reply"}],
           DOMAIN envelope = Requests, NEW e,
           ~Publishing(r),
           pc' = [pc EXCEPT ![r] = "publish"], envelope' = [envelope EXCEPT ![r] = e]
    PROVE  /\ InFlight' = InFlight \cup {e}
           /\ Publishing(r)' /\ envelope'[r] = e
           /\ \A p \in Requests \ {r} :
                (Publishing(p)' <=> Publishing(p)) /\ envelope'[p] = envelope[p]
<1>1. /\ Publishing(r)' /\ envelope'[r] = e
      /\ \A p \in Requests \ {r} :
            (Publishing(p)' <=> Publishing(p)) /\ envelope'[p] = envelope[p]
  BY DEF Publishing
<1>2. InFlight = {envelope[p] : p \in {x \in Requests : Publishing(x)}}
  BY DEF InFlight, Publishing
<1>3. InFlight' = {envelope'[p] : p \in {x \in Requests : Publishing(x)'}}
  BY DEF InFlight, Publishing
<1>4. InFlight' = InFlight \cup {e}
  BY <1>1, <1>2, <1>3
<1> QED BY <1>1, <1>4

\* A request that hands its event over takes it out of the events in flight.
LEMMA InFlightLeave ==
    ASSUME NEW r \in Requests, pc \in [Requests -> {"idle", "publish", "dlq", "reply"}],
           DOMAIN envelope = Requests, NEW e,
           \A p \in Requests : Publishing(p) /\ envelope[p] = envelope[r] => p = r,
           Publishing(r),
           pc' = [pc EXCEPT ![r] = "reply"], envelope' = [envelope EXCEPT ![r] = e]
    PROVE  /\ InFlight' = InFlight \ {envelope[r]} /\ envelope[r] \in InFlight
           /\ ~Publishing(r)'
           /\ \A p \in Requests \ {r} :
                (Publishing(p)' <=> Publishing(p)) /\ envelope'[p] = envelope[p]
<1>1. /\ ~Publishing(r)'
      /\ \A p \in Requests \ {r} :
            (Publishing(p)' <=> Publishing(p)) /\ envelope'[p] = envelope[p]
  BY DEF Publishing
<1>2. InFlight = {envelope[p] : p \in {x \in Requests : Publishing(x)}}
  BY DEF InFlight, Publishing
<1>3. InFlight' = {envelope'[p] : p \in {x \in Requests : Publishing(x)'}}
  BY DEF InFlight, Publishing
<1>4. envelope[r] \in InFlight
  BY <1>2
<1>5. InFlight' = InFlight \ {envelope[r]}
  BY <1>1, <1>2, <1>3
<1> QED BY <1>1, <1>4, <1>5
\* What the three acceptances have in common.
LEMMA KeyAcceptedEffect ==
    ASSUME NEW r, NEW id, NEW payload, NEW response, NEW updated,
           KeyAccepted(r, id, payload, response, updated)
    PROVE  /\ id \notin DOMAIN idempotent
           /\ DOMAIN idempotent' = DOMAIN idempotent \cup {id}
           /\ DOMAIN sessions' = DOMAIN sessions
           /\ pc' = [pc EXCEPT ![r] = "publish"]
           /\ envelope' = [envelope EXCEPT ![r] = id]
           /\ UNCHANGED eventVars
BY DEF KeyAccepted, WithRecord, BeginPublish

\* What a newly accepted mutation does to the places an event can be in.
LEMMA AcceptEffect ==
    ASSUME NEW r, AcceptStep(r)
    PROVE  \E id : /\ id \notin DOMAIN idempotent
                   /\ DOMAIN idempotent' = DOMAIN idempotent \cup {id}
                   /\ id.route \in Routes
                   /\ DOMAIN sessions' = DOMAIN sessions
                   /\ pc[r] = "idle"
                   /\ pc' = [pc EXCEPT ![r] = "publish"]
                   /\ envelope' = [envelope EXCEPT ![r] = id]
                   /\ UNCHANGED eventVars
<1>1. PICK s \in DOMAIN sessions, key \in Keys :
        \/ \E q \in Questions, content \in Contents : SaveStep(r, s, q, content, key)
        \/ \E payload \in FinalPayloads :
              FinalizeStep(r, s, payload, key) \/ EvaluationStep(r, s, payload, key)
  BY DEF AcceptStep
<1>2. PICK route \in Routes :
        /\ pc[r] = "idle"
        /\ \E payload, response, updated :
             KeyAccepted(r, DeriveEventID(s, route, key), payload, response, updated)
  BY <1>1 DEF SaveStep, FinalizeStep, EvaluationStep, Routes
<1>3. DeriveEventID(s, route, key).route = route
  BY DEF DeriveEventID
<1> QED BY <1>2, <1>3, KeyAcceptedEffect

\* A request starts to publish an event that was not owed before.
LEMMA PublishingStarts ==
    ASSUME EventInv, SessionInv', NEW r \in Requests, NEW e, pc[r] = "idle",
           pc' = [pc EXCEPT ![r] = "publish"], envelope' = [envelope EXCEPT ![r] = e],
           UNCHANGED eventVars,
           e \notin OwedEvents, OwedEvents' = OwedEvents \cup {e}
    PROVE  EventInv'
<1>1. /\ pc \in [Requests -> {"idle", "publish", "dlq", "reply"}]
      /\ DOMAIN envelope = Requests
      /\ ~Publishing(r)
  BY DEF EventInv, SessionInv, TypeOK, Publishing
<1>2. /\ InFlight' = InFlight \cup {e}
      /\ Publishing(r)' /\ envelope'[r] = e
      /\ \A p \in Requests \ {r} :
            (Publishing(p)' <=> Publishing(p)) /\ envelope'[p] = envelope[p]
  BY <1>1, InFlightEnter
<1>3. Queued' = Queued /\ DeadLetters' = DeadLetters /\ consumed' = consumed
  BY DEF eventVars, Queued, DeadLetters
<1>4. NoEventLost'
  BY <1>2, <1>3 DEF EventInv, NoEventLost
<1>5. e \notin InFlight \cup Queued \cup consumed \cup DeadLetters
  BY DEF EventInv, NoEventLost
<1>6. \A p \in Requests : Publishing(p) => envelope[p] \in InFlight
  BY DEF InFlight, Publishing
<1>7. \A p, o \in Requests :
        Publishing(p)' /\ Publishing(o)' /\ envelope'[p] = envelope'[o] => p = o
  BY <1>2, <1>5, <1>6 DEF EventInv, NoEventTwice, Publishing
<1>8. NoEventTwice'
  BY <1>2, <1>3, <1>5, <1>7 DEF EventInv, NoEventTwice, Publishing, eventVars
<1> QED BY <1>4, <1>8 DEF EventInv

\* A request hands its event to the channel or to the dead letters.
LEMMA PublishingEnds ==
    ASSUME EventInv, SessionInv', NEW r \in Requests, Publishing(r),
           pc' = [pc EXCEPT ![r] = "reply"], envelope' = [envelope EXCEPT ![r] = NoEvent],
           UNCHANGED <<sessions, idempotent, consumed>>,
           \/ /\ Queued' = Queued \cup {envelope[r]} /\ UNCHANGED dlqRecords
              /\ envelope[r] \notin Queued => IsInjective(eventQueue)'
           \/ /\ DeadLetters' = DeadLetters \cup {envelope[r]} /\ UNCHANGED eventQueue
              /\ envelope[r] \notin DeadLetters => IsInjective(dlqRecords)'
    PROVE  EventInv'
<1>1. /\ pc \in [Requests -> {"idle", "publish", "dlq", "reply"}]
      /\ DOMAIN envelope = Requests
      /\ \A p \in Requests : Publishing(p) /\ envelope[p] = envelope[r] => p = r
  BY DEF EventInv, NoEventTwice, SessionInv, TypeOK, Publishing
<1>2. /\ InFlight' = InFlight \ {envelope[r]} /\ envelope[r] \in InFlight
      /\ ~Publishing(r)'
      /\ \A p \in Requests \ {r} :
            (Publishing(p)' <=> Publishing(p)) /\ envelope'[p] = envelope[p]
  BY <1>1, InFlightLeave
<1>3. \/ Queued' = Queued \cup {envelope[r]} /\ DeadLetters' = DeadLetters
      \/ DeadLetters' = DeadLetters \cup {envelope[r]} /\ Queued' = Queued
  BY DEF Queued, DeadLetters
<1>4. OwedEvents' = OwedEvents
  BY DEF OwedEvents
<1>5. NoEventLost'
  BY <1>2, <1>3, <1>4 DEF EventInv, NoEventLost
<1>6. envelope[r] \notin Queued \cup consumed \cup DeadLetters
  BY <1>2 DEF EventInv, NoEventTwice
<1>7. IsInjective(eventQueue)' /\ IsInjective(dlqRecords)'
  BY <1>6 DEF EventInv, NoEventTwice, IsInjective
<1>8. \A p, o \in Requests :
        Publishing(p)' /\ Publishing(o)' /\ envelope'[p] = envelope'[o] => p = o
  BY <1>2 DEF EventInv, NoEventTwice, Publishing
<1>9. NoEventTwice'
  BY <1>2, <1>3, <1>6, <1>7, <1>8 DEF EventInv, NoEventTwice, Publishing
<1> QED BY <1>5, <1>9 DEF EventInv

\* A request that holds no event goes on to write its response or to the next
\* request.
LEMMA EventInvFrame ==
    ASSUME EventInv, SessionInv', NEW r \in Requests, ~Publishing(r),
           NEW to \in {"idle", "reply"}, pc' = [pc EXCEPT ![r] = to],
           UNCHANGED <<envelope, eventVars, idempotent>>, DOMAIN sessions' = DOMAIN sessions
    PROVE  EventInv'
<1>1. pc \in [Requests -> {"idle", "publish", "dlq", "reply"}] /\ DOMAIN envelope = Requests
  BY DEF EventInv, SessionInv, TypeOK
<1>2. InFlight' = InFlight /\ \A p \in Requests : Publishing(p)' <=> Publishing(p)
  BY <1>1, InFlightFrame
<1>3. Queued' = Queued /\ DeadLetters' = DeadLetters /\ OwedEvents' = OwedEvents
  BY DEF eventVars, Queued, DeadLetters, OwedEvents
<1> QED BY <1>2, <1>3 DEF EventInv, NoEventLost, NoEventTwice, Publishing, eventVars

\* Every step keeps each owed event in exactly one place.
THEOREM EventStep == EventInv /\ [Next]_vars => EventInv'
<1> SUFFICES ASSUME EventInv, [Next]_vars PROVE EventInv'
  OBVIOUS
<1>0. /\ SessionInv /\ SessionInv' /\ TypeOK
      /\ DOMAIN sessions \subseteq SessionIds
      /\ \A i \in DOMAIN idempotent : i.session \in DOMAIN sessions /\ i.route \in Routes
  BY SessionStep, BoundsAssumption
     DEF EventInv, SessionInv, TypeOK, SessionIds, RetryIsNeverStale, MutationIds
<1>1. ASSUME NEW r \in Requests, QuietStep(r) PROVE EventInv'
  BY <1>0, <1>1, EventInvFrame DEF QuietStep, Respond, serverVars, Publishing
<1>2. ASSUME NEW r \in Requests, ReplayStep(r) PROVE EventInv'
  BY <1>0, <1>2, EventInvFrame DEF ReplayStep, KeyReplay, Respond, serverVars, Publishing
<1>3. ASSUME NEW r \in Requests, CreateStep(r) PROVE EventInv'
  <2>1. /\ DOMAIN sessions' = DOMAIN sessions \cup {counter}
        /\ counter \notin DOMAIN sessions
        /\ idempotent' = idempotent
    BY <1>0, <1>3, BoundsAssumption DEF CreateStep, TypeOK
  <2>2. CreatedEvent(counter) \notin OwedEvents
    <3>1. CreatedEvent(counter).route = "create" /\ CreatedEvent(counter).session = counter
      BY DEF CreatedEvent, DeriveEventID
    <3>2. \A s \in DOMAIN sessions : CreatedEvent(s).session = s
      BY DEF CreatedEvent, DeriveEventID
    <3> QED BY <1>0, <2>1, <3>1, <3>2 DEF OwedEvents, Routes
  <2>3. OwedEvents' = OwedEvents \cup {CreatedEvent(counter)}
    BY <2>1 DEF OwedEvents
  <2> QED BY <1>0, <1>3, <2>2, <2>3, PublishingStarts DEF CreateStep, BeginPublish
<1>4. ASSUME NEW r \in Requests, NEW s \in SessionIds, PollStep(r, s) PROVE EventInv'
  BY <1>0, <1>4, EventInvFrame DEF PollStep, Respond, Publishing
<1>5. ASSUME NEW r \in Requests, AcceptStep(r) PROVE EventInv'
  <2>1. PICK id : /\ id \notin DOMAIN idempotent
                  /\ DOMAIN idempotent' = DOMAIN idempotent \cup {id}
                  /\ id.route \in Routes
                  /\ DOMAIN sessions' = DOMAIN sessions
                  /\ pc[r] = "idle"
                  /\ pc' = [pc EXCEPT ![r] = "publish"]
                  /\ envelope' = [envelope EXCEPT ![r] = id]
                  /\ UNCHANGED eventVars
    BY <1>5, AcceptEffect
  <2>2. id \notin OwedEvents
    <3>1. \A s : CreatedEvent(s).route = "create"
      BY DEF CreatedEvent, DeriveEventID
    <3> QED BY <2>1, <3>1 DEF OwedEvents, Routes
  <2>3. OwedEvents' = OwedEvents \cup {id}
    BY <2>1 DEF OwedEvents
  <2> QED BY <1>0, <2>1, <2>2, <2>3, PublishingStarts
<1>6. ASSUME NEW r \in Requests, PublishEvent(r) PROVE EventInv'
  <2>1. /\ Publishing(r) /\ envelope[r] \in EventIds /\ eventQueue \in Seq(EventIds)
        /\ UNCHANGED <<sessions, idempotent, consumed, dlqRecords>>
    BY <1>0, <1>6 DEF PublishEvent, Publishing, TypeOK, serverVars
  <2>2. CASE /\ eventQueue' = Append(eventQueue, envelope[r])
             /\ pc' = [pc EXCEPT ![r] = "reply"]
             /\ envelope' = [envelope EXCEPT ![r] = NoEvent]
    <3>1. /\ Queued' = Queued \cup {envelope[r]}
          /\ envelope[r] \notin Queued => IsInjective(eventQueue)'
      BY <2>1, <2>2, AppendFresh DEF Queued, EventInv, NoEventTwice, IsInjective
    <3> QED BY <1>0, <2>1, <2>2, <3>1, PublishingEnds
  <2>3. CASE pc' = [pc EXCEPT ![r] = "dlq"] /\ UNCHANGED <<eventQueue, envelope>>
    <3>1. \A p \in Requests : Publishing(p)' <=> Publishing(p)
      BY <1>0, <2>1, <2>3 DEF Publishing, TypeOK
    <3>2. /\ InFlight' = InFlight /\ Queued' = Queued /\ DeadLetters' = DeadLetters
          /\ OwedEvents' = OwedEvents
      BY <2>1, <2>3, <3>1 DEF InFlight, Publishing, Queued, DeadLetters, OwedEvents
    <3> QED BY <1>0, <2>1, <2>3, <3>1, <3>2
            DEF EventInv, NoEventLost, NoEventTwice, Publishing
  <2> QED BY <1>6, <2>2, <2>3 DEF PublishEvent
<1>7. ASSUME NEW r \in Requests, RouteToDLQ(r) PROVE EventInv'
  <2>1. /\ Publishing(r) /\ envelope[r] \in EventIds /\ dlqRecords \in Seq(EventIds)
        /\ UNCHANGED <<sessions, idempotent, consumed, eventQueue>>
        /\ dlqRecords' = Append(dlqRecords, envelope[r])
        /\ pc' = [pc EXCEPT ![r] = "reply"]
        /\ envelope' = [envelope EXCEPT ![r] = NoEvent]
    BY <1>0, <1>7 DEF RouteToDLQ, Publishing, TypeOK, serverVars
  <2>2. /\ DeadLetters' = DeadLetters \cup {envelope[r]}
        /\ envelope[r] \notin DeadLetters => IsInjective(dlqRecords)'
    BY <2>1, AppendFresh DEF DeadLetters, EventInv, NoEventTwice, IsInjective
  <2> QED BY <1>0, <2>1, <2>2, PublishingEnds
<1>8. ASSUME NEW r \in Requests, WriteResponse(r) PROVE EventInv'
  BY <1>0, <1>8, EventInvFrame DEF WriteResponse, serverVars, Publishing
<1>9. ASSUME ConsumeEvents PROVE EventInv'
  <2>1. /\ eventQueue \in Seq(EventIds) /\ eventQueue # <<>> /\ IsInjective(eventQueue)
        /\ consumed' = consumed \cup {Head(eventQueue)}
        /\ eventQueue' = Tail(eventQueue)
        /\ UNCHANGED <<sessions, idempotent, dlqRecords, pc, envelope>>
    BY <1>0, <1>9 DEF ConsumeEvents, EventInv, NoEventTwice, TypeOK, serverVars, requestVars
  <2>2. /\ Head(eventQueue) \in Queued
        /\ Queued' = Queued \ {Head(eventQueue)}
        /\ IsInjective(eventQueue)'
    BY <2>1, TailOfInjective DEF Queued, IsInjective
  <2>3. InFlight' = InFlight /\ DeadLetters' = DeadLetters /\ OwedEvents' = OwedEvents
    BY <2>1 DEF InFlight, DeadLetters, OwedEvents
  <2>4. NoEventLost'
    BY <2>1, <2>2, <2>3 DEF EventInv, NoEventLost
  <2>5. NoEventTwice'
    BY <2>1, <2>2, <2>3 DEF EventInv, NoEventTwice, IsInjective
  <2> QED BY <1>0, <2>4, <2>5 DEF EventInv
<1>10. CASE UNCHANGED vars
  BY <1>0, <1>10
     DEF vars, EventInv, NoEventLost, NoEventTwice, InFlight, Queued, DeadLetters, OwedEvents,
         IsInjective
<1>11. ASSUME NEW r \in Requests, Handle(r) PROVE EventInv'
  BY <1>0, <1>1, <1>2, <1>3, <1>4, <1>5, <1>11, HandlerShapes
<1> QED BY <1>6, <1>7, <1>8, <1>9, <1>10, <1>11 DEF Next, Proceed

\* NewServer owes no event and holds none.
LEMMA EventInit == Init => EventInv
BY SessionInit
   DEF Init, EventInv, NoEventLost, NoEventTwice, InFlight, Queued, DeadLetters, OwedEvents,
       ToSet, IsInjective

\* Each owed event is in exactly one place in every state.
LEMMA EventInvariant == Spec => []EventInv
BY EventInit, EventStep, PTL DEF Spec

\* No event of an accepted mutation or a created session is ever lost.
THEOREM EventsAreNeverLost == Spec => []NoEventLost
<1>1. EventInv => NoEventLost
  BY DEF EventInv
<1> QED BY <1>1, EventInvariant, PTL

\* No event is ever in two places or twice in one.
THEOREM EventsAreNeverDoubled == Spec => []NoEventTwice
<1>1. EventInv => NoEventTwice
  BY DEF EventInv
<1> QED BY <1>1, EventInvariant, PTL

=============================================================================
