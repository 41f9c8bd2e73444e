------------------------ MODULE InterviewApiRefines -------------------------
(***************************************************************************)
(* InterviewApi implements SessionLifecycle.                               *)
(***************************************************************************)
EXTENDS InterviewApiProofs

\* A step that leaves the mapped variables alone is an abstract stutter.
LEMMA StutterFrame ==
    ASSUME UNCHANGED <<SessionStatus, DOMAIN idempotent, Outbox, consumed, DeadLetters>>
    PROVE  [Lifecycle!Next]_(Lifecycle!vars)
BY DEF Lifecycle!vars

\* The concrete events are events of the abstract specification.
LEMMA EventIdsAreEvents == EventIds \subseteq Lifecycle!Events
BY DEF EventIds, MutationIds, CreatedEvent, DeriveEventID, SessionIds, Routes,
       Lifecycle!Events, Lifecycle!SessionIds

\* NewServer maps to the abstract initial state.
LEMMA RefinementInit == Init => Lifecycle!Init
BY DEF Init, Lifecycle!Init, SessionStatus, Outbox, InFlight, Queued, DeadLetters, ToSet

\* An acceptance maps to the abstract Accept with the same guard and effect.
LEMMA AcceptRefines ==
    ASSUME EventInv, NEW r \in Requests, NEW s \in DOMAIN sessions, sessions[s] \in SessionRecords,
           NEW route, NEW key, NEW payload, NEW response,
           NEW updated, NEW guard, sessions[s].status \in guard,
           pc[r] = "idle",
           KeyAccepted(r, DeriveEventID(s, route, key), payload, response, updated)
    PROVE  Lifecycle!Accept(s, route, key, guard, updated.status)
<1> DEFINE id == DeriveEventID(s, route, key)
<1>1. id = Lifecycle!Mutation(s, route, key) /\ id.session = s
  BY DEF DeriveEventID, Lifecycle!Mutation
<1>2. /\ id \notin DOMAIN idempotent
      /\ DOMAIN idempotent' = DOMAIN idempotent \cup {id}
      /\ pc' = [pc EXCEPT ![r] = "publish"]
      /\ envelope' = [envelope EXCEPT ![r] = id]
      /\ UNCHANGED eventVars
  BY KeyAcceptedEffect
<1>3. sessions' = [sessions EXCEPT ![s] = updated]
  BY <1>1 DEF KeyAccepted
<1>4. SessionStatus' = [SessionStatus EXCEPT ![s] = updated.status]
  BY <1>3 DEF SessionStatus
<1>5. InFlight' = InFlight \cup {id}
  BY <1>2, InFlightEnter DEF EventInv, SessionInv, TypeOK, Publishing
<1>6. Outbox' = Outbox \cup {id} /\ DeadLetters' = DeadLetters /\ consumed' = consumed
  BY <1>2, <1>5 DEF Outbox, Queued, DeadLetters, eventVars
<1>7. s \in DOMAIN SessionStatus /\ SessionStatus[s] \in guard
  BY DEF SessionStatus
<1> QED BY <1>1, <1>2, <1>4, <1>6, <1>7 DEF Lifecycle!Accept

\* Every step of the API maps to one abstract step or to a stutter.
THEOREM RefinementStep ==
    EventInv /\ [Next]_vars => [Lifecycle!Next]_(Lifecycle!vars)
<1> SUFFICES ASSUME EventInv, [Next]_vars PROVE [Lifecycle!Next]_(Lifecycle!vars)
  OBVIOUS
<1>0. /\ SessionInv /\ TypeOK
      /\ DOMAIN sessions \subseteq SessionIds /\ SessionIds = Lifecycle!SessionIds
      /\ \A s \in DOMAIN sessions : sessions[s] \in SessionRecords
      /\ pc \in [Requests -> {"idle", "publish", "dlq", "reply"}]
      /\ DOMAIN envelope = Requests
  BY BoundsAssumption DEF EventInv, SessionInv, TypeOK, SessionIds, Lifecycle!SessionIds
<1>1. ASSUME NEW r \in Requests, ~Publishing(r), NEW to \in {"idle", "reply"},
             pc' = [pc EXCEPT ![r] = to], UNCHANGED <<envelope, eventVars>>
      PROVE  UNCHANGED <<Outbox, consumed, DeadLetters>>
  BY <1>0, <1>1, InFlightFrame DEF Outbox, Queued, DeadLetters, eventVars
<1>2. ASSUME NEW r \in Requests, QuietStep(r) \/ ReplayStep(r) \/ WriteResponse(r)
      PROVE  [Lifecycle!Next]_(Lifecycle!vars)
  <2>1. UNCHANGED <<Outbox, consumed, DeadLetters>>
    BY <1>1, <1>2 DEF QuietStep, ReplayStep, KeyReplay, Respond, WriteResponse, Publishing
  <2>2. UNCHANGED <<SessionStatus, DOMAIN idempotent>>
    BY <1>2 DEF QuietStep, ReplayStep, KeyReplay, WriteResponse, serverVars, SessionStatus
  <2> QED BY <2>1, <2>2, StutterFrame
<1>3. ASSUME NEW r \in Requests, CreateStep(r)
      PROVE  [Lifecycle!Next]_(Lifecycle!vars)
  <2>1. /\ counter \notin DOMAIN sessions /\ counter \in SessionIds
        /\ idempotent' = idempotent
        /\ SessionStatus' = [t \in DOMAIN SessionStatus \cup {counter} |->
                               IF t = counter THEN "pending" ELSE SessionStatus[t]]
    BY <1>0, <1>3, BoundsAssumption DEF CreateStep, TypeOK, SessionIds, SessionStatus, NewSession
  <2>2. InFlight' = InFlight \cup {CreatedEvent(counter)}
    BY <1>0, <1>3, InFlightEnter DEF CreateStep, BeginPublish, Publishing
  <2>3. Outbox' = Outbox \cup {Lifecycle!Created(counter)}
    BY <1>3, <2>2 DEF CreateStep, BeginPublish, eventVars, Outbox, Queued, CreatedEvent,
                      DeriveEventID, Lifecycle!Created, Lifecycle!Mutation
  <2>4. UNCHANGED <<consumed, DeadLetters>>
    BY <1>3 DEF CreateStep, BeginPublish, eventVars, DeadLetters
  <2>5. counter \in Lifecycle!SessionIds \ DOMAIN SessionStatus
    BY <1>0, <2>1 DEF SessionStatus
  <2>6. Lifecycle!Open(counter)
    BY <2>1, <2>3, <2>4, <2>5 DEF Lifecycle!Open
  <2> QED BY <2>5, <2>6 DEF Lifecycle!Next
<1>4. ASSUME NEW r \in Requests, NEW s \in SessionIds, PollStep(r, s)
      PROVE  [Lifecycle!Next]_(Lifecycle!vars)
  <2>1. UNCHANGED <<Outbox, consumed, DeadLetters, DOMAIN idempotent>>
    BY <1>1, <1>4 DEF PollStep, Respond, Publishing
  <2>2. /\ s \in DOMAIN SessionStatus
        /\ SessionStatus[s] = sessions[s].status
        /\ SessionStatus' = [SessionStatus EXCEPT ![s] = Polled(sessions[s]).status]
    BY <1>4 DEF PollStep, SessionStatus
  <2>3. CASE sessions[s].status \notin {"pending", "preparing"}
    <3>1. Polled(sessions[s]).status = SessionStatus[s]
      BY <1>0, <1>4, <2>2, <2>3, PolledFields DEF PollStep
    <3>2. SessionStatus' = SessionStatus
      BY <2>2, <3>1 DEF SessionStatus
    <3> QED BY <2>1, <3>2, StutterFrame
  <2>4. CASE sessions[s].status \in {"pending", "preparing"}
    <3>1. \/ sessions[s].status = "pending" /\ Polled(sessions[s]).status = "preparing"
          \/ sessions[s].status = "preparing" /\ Polled(sessions[s]).status = "in_progress"
      BY <1>0, <1>4, <2>4, PolledFields DEF PollStep, SessionInv, Timeline
    <3>2. Lifecycle!Advance(s)
      BY <2>1, <2>2, <3>1 DEF Lifecycle!Advance
    <3> QED BY <1>0, <3>2 DEF Lifecycle!Next
  <2> QED BY <2>3, <2>4
<1>5. ASSUME NEW r \in Requests, AcceptStep(r)
      PROVE  [Lifecycle!Next]_(Lifecycle!vars)
  <2>1. PICK s \in DOMAIN sessions, key \in Keys :
          \/ \E q \in Questions, content \in Contents : SaveStep(r, s, q, content, key)
          \/ \E payload \in FinalPayloads :
               FinalizeStep(r, s, payload, key) \/ EvaluationStep(r, s, payload, key)
    BY <1>5 DEF AcceptStep
  <2>2. s \in Lifecycle!SessionIds /\ sessions[s] \in SessionRecords
    BY <1>0
  <2>3. ASSUME NEW q \in Questions, NEW content \in Contents, SaveStep(r, s, q, content, key)
        PROVE  Lifecycle!Save(s, key)
    <3> DEFINE updated == [sessions[s] EXCEPT
                             !.answers[q] = Saved(sessions[s].answers[q], content, key)]
    <3>1. updated.status = sessions[s].status /\ sessions[s].status \in Statuses
      BY <2>2 DEF SessionRecords
    <3>2. PICK payload, response :
            KeyAccepted(r, DeriveEventID(s, "answers", key), payload, response, updated)
      BY <2>3 DEF SaveStep
    <3>3. pc[r] = "idle"
      BY <2>3 DEF SaveStep
    <3> HIDE DEF updated
    <3>4. Lifecycle!Accept(s, "answers", key, {sessions[s].status}, updated.status)
      BY <2>2, <3>2, <3>3, AcceptRefines
    <3> QED BY <3>1, <3>4 DEF Lifecycle!Save, Statuses
  <2>4. ASSUME NEW payload \in FinalPayloads, FinalizeStep(r, s, payload, key)
        PROVE  Lifecycle!Finalize(s, key)
    <3>1. Finalized(sessions[s]).status = "submitted"
      BY <2>2 DEF SessionRecords, Finalized
    <3>2. sessions[s].status \in {"in_progress", "submitted", "completed"} /\ pc[r] = "idle"
      BY <2>4 DEF FinalizeStep, MayFinalize
    <3>3. PICK response : KeyAccepted(r, DeriveEventID(s, "finalize", key), payload, response,
                                      Finalized(sessions[s]))
      BY <2>4 DEF FinalizeStep
    <3>4. Lifecycle!Accept(s, "finalize", key, {"in_progress", "submitted", "completed"},
                           Finalized(sessions[s]).status)
      BY <2>2, <3>2, <3>3, AcceptRefines
    <3> QED BY <3>1, <3>4 DEF Lifecycle!Finalize
  <2>5. ASSUME NEW payload \in FinalPayloads, EvaluationStep(r, s, payload, key)
        PROVE  Lifecycle!Evaluate(s, key)
    <3>1. Evaluated(sessions[s]).status = "completed"
      BY <2>2 DEF SessionRecords, Evaluated
    <3>2. sessions[s].status \in {"submitted", "completed"} /\ pc[r] = "idle"
      BY <2>5 DEF EvaluationStep, MayEvaluate
    <3>3. PICK response : KeyAccepted(r, DeriveEventID(s, "evaluations", key), payload, response,
                                      Evaluated(sessions[s]))
      BY <2>5 DEF EvaluationStep
    <3>4. Lifecycle!Accept(s, "evaluations", key, {"submitted", "completed"},
                           Evaluated(sessions[s]).status)
      BY <2>2, <3>2, <3>3, AcceptRefines
    <3> QED BY <3>1, <3>4 DEF Lifecycle!Evaluate
  <2> QED BY <2>1, <2>2, <2>3, <2>4, <2>5 DEF Lifecycle!Next
<1>6. ASSUME NEW r \in Requests, PublishEvent(r)
      PROVE  [Lifecycle!Next]_(Lifecycle!vars)
  <2>1. /\ Publishing(r) /\ envelope[r] \in EventIds /\ eventQueue \in Seq(EventIds)
        /\ UNCHANGED <<sessions, idempotent, consumed, dlqRecords>>
        /\ \A p \in Requests : Publishing(p) /\ envelope[p] = envelope[r] => p = r
    BY <1>0, <1>6 DEF PublishEvent, Publishing, TypeOK, serverVars, EventInv, NoEventTwice
  <2>2. CASE /\ eventQueue' = Append(eventQueue, envelope[r])
             /\ pc' = [pc EXCEPT ![r] = "reply"]
             /\ envelope' = [envelope EXCEPT ![r] = NoEvent]
    <3>1. InFlight' = InFlight \ {envelope[r]} /\ envelope[r] \in InFlight
      BY <1>0, <2>1, <2>2, InFlightLeave
    <3>2. Queued' = Queued \cup {envelope[r]}
      BY <2>1, <2>2, AppendFresh DEF Queued
    <3> QED BY <2>1, <3>1, <3>2, StutterFrame DEF Outbox, SessionStatus, DeadLetters
  <2>3. CASE pc' = [pc EXCEPT ![r] = "dlq"] /\ UNCHANGED <<eventQueue, envelope>>
    <3>1. \A p \in Requests : Publishing(p)' <=> Publishing(p)
      BY <1>0, <2>1, <2>3 DEF Publishing
    <3>2. InFlight' = InFlight
      BY <2>3, <3>1 DEF InFlight, Publishing
    <3> QED BY <2>1, <2>3, <3>2, StutterFrame DEF Outbox, Queued, SessionStatus, DeadLetters
  <2> QED BY <1>6, <2>2, <2>3 DEF PublishEvent
<1>7. ASSUME NEW r \in Requests, RouteToDLQ(r)
      PROVE  [Lifecycle!Next]_(Lifecycle!vars)
  <2>1. /\ Publishing(r) /\ envelope[r] \in EventIds /\ dlqRecords \in Seq(EventIds)
        /\ UNCHANGED <<sessions, idempotent, consumed, eventQueue>>
        /\ dlqRecords' = Append(dlqRecords, envelope[r])
        /\ pc' = [pc EXCEPT ![r] = "reply"]
        /\ envelope' = [envelope EXCEPT ![r] = NoEvent]
        /\ \A p \in Requests : Publishing(p) /\ envelope[p] = envelope[r] => p = r
    BY <1>0, <1>7 DEF RouteToDLQ, Publishing, TypeOK, serverVars, EventInv, NoEventTwice
  <2>2. InFlight' = InFlight \ {envelope[r]} /\ envelope[r] \in InFlight
    BY <1>0, <2>1, InFlightLeave
  <2>3. DeadLetters' = DeadLetters \cup {envelope[r]} /\ Queued' = Queued
    BY <2>1, AppendFresh DEF DeadLetters, Queued
  <2>4. envelope[r] \notin Queued
    BY <2>2 DEF EventInv, NoEventTwice
  <2>5. envelope[r] \in Outbox /\ Outbox' = Outbox \ {envelope[r]}
    BY <2>2, <2>3, <2>4 DEF Outbox
  <2>6. Lifecycle!DeadLetter(envelope[r])
    BY <2>1, <2>3, <2>5 DEF Lifecycle!DeadLetter, SessionStatus
  <2> QED BY <2>1, <2>6, EventIdsAreEvents DEF Lifecycle!Next
<1>8. ASSUME ConsumeEvents
      PROVE  [Lifecycle!Next]_(Lifecycle!vars)
  <2>1. /\ eventQueue \in Seq(EventIds) /\ eventQueue # <<>> /\ IsInjective(eventQueue)
        /\ consumed' = consumed \cup {Head(eventQueue)}
        /\ eventQueue' = Tail(eventQueue)
        /\ UNCHANGED <<sessions, idempotent, dlqRecords, pc, envelope>>
    BY <1>0, <1>8 DEF ConsumeEvents, EventInv, NoEventTwice, TypeOK, serverVars, requestVars
  <2>2. /\ Head(eventQueue) \in Queued
        /\ Queued' = Queued \ {Head(eventQueue)}
    BY <2>1, TailOfInjective DEF Queued
  <2>3. Head(eventQueue) \in EventIds
    BY <2>1
  <2>4. InFlight' = InFlight /\ DeadLetters' = DeadLetters
    BY <2>1 DEF InFlight, DeadLetters
  <2>5. Outbox' = Outbox \ {Head(eventQueue)}
    BY <2>2, <2>4 DEF Outbox, EventInv, NoEventTwice
  <2>6. Lifecycle!Deliver(Head(eventQueue))
    BY <2>1, <2>2, <2>4, <2>5 DEF Lifecycle!Deliver, SessionStatus, Outbox
  <2> QED BY <2>3, <2>6, EventIdsAreEvents DEF Lifecycle!Next
<1>9. CASE UNCHANGED vars
  BY <1>9, StutterFrame
     DEF vars, SessionStatus, Outbox, InFlight, Queued, DeadLetters
<1>10. ASSUME NEW r \in Requests, Handle(r) PROVE [Lifecycle!Next]_(Lifecycle!vars)
  BY <1>0, <1>2, <1>3, <1>4, <1>5, <1>10, HandlerShapes
<1> QED BY <1>2, <1>6, <1>7, <1>8, <1>9, <1>10 DEF Next, Proceed

\* The API implements the abstract lifecycle with its outbox.
THEOREM ApiImplementsLifecycle == Spec => ImplementsLifecycle
<1>1. Init => Lifecycle!Init
  BY RefinementInit
<1>2. EventInv /\ [Next]_vars => [Lifecycle!Next]_(Lifecycle!vars)
  BY RefinementStep
<1> QED BY <1>1, <1>2, EventInvariant, PTL DEF Spec, ImplementsLifecycle, Lifecycle!Spec
=============================================================================
