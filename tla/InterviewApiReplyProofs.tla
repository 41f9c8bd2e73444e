---------------------- MODULE InterviewApiReplyProofs ----------------------
(***************************************************************************)
(* Proofs about the records and the responses of InterviewApi: what a      *)
(* client was told stays true, whatever the other goroutines do between    *)
(* the Unlock of its handler and the write of its response.                *)
(***************************************************************************)
EXTENDS InterviewApiProofs

-----------------------------------------------------------------------------
(* Records *)

RecordsKept ==
    \A i \in DOMAIN idempotent : i \in DOMAIN idempotent' /\ idempotent'[i] = idempotent[i]

\* An accepted mutation adds its record and replaces none.
LEMMA AcceptedKeeps ==
    ASSUME NEW r, NEW id, NEW payload, NEW response, NEW updated,
           KeyAccepted(r, id, payload, response, updated)
    PROVE  /\ RecordsKept
           /\ id \in DOMAIN idempotent' \ DOMAIN idempotent
           /\ idempotent'[id].response = response
           /\ sessions' = [sessions EXCEPT ![id.session] = updated]
           /\ reply' = [reply EXCEPT ![r] = Accepted(id, response, FALSE)]
BY DEF KeyAccepted, WithRecord, RecordsKept, BeginPublish

\* What the three acceptances have in common, with their response.
LEMMA AcceptReply ==
    ASSUME NEW r, AcceptStep(r)
    PROVE  \E id, response, updated :
             /\ RecordsKept
             /\ id \in DOMAIN idempotent' \ DOMAIN idempotent
             /\ idempotent'[id].response = response
             /\ sessions' = [sessions EXCEPT ![id.session] = updated]
             /\ pc[r] = "idle" /\ pc' = [pc EXCEPT ![r] = "publish"]
             /\ envelope' = [envelope EXCEPT ![r] = id]
             /\ reply' = [reply EXCEPT ![r] = Accepted(id, response, FALSE)]
             /\ UNCHANGED eventVars
<1>1. PICK id, payload, response, updated :
        pc[r] = "idle" /\ KeyAccepted(r, id, payload, response, updated)
  BY Zenon DEF AcceptStep, SaveStep, FinalizeStep, EvaluationStep
<1>2. /\ RecordsKept
      /\ id \in DOMAIN idempotent' \ DOMAIN idempotent
      /\ idempotent'[id].response = response
      /\ sessions' = [sessions EXCEPT ![id.session] = updated]
      /\ reply' = [reply EXCEPT ![r] = Accepted(id, response, FALSE)]
  BY <1>1, AcceptedKeeps
<1>3. /\ pc' = [pc EXCEPT ![r] = "publish"] /\ envelope' = [envelope EXCEPT ![r] = id]
      /\ UNCHANGED eventVars
  BY <1>1 DEF KeyAccepted, BeginPublish
<1> QED BY <1>1, <1>2, <1>3, Zenon

\* No step of any goroutine removes or replaces a record.
LEMMA RecordsStep ==
    ASSUME TypeOK, Next PROVE RecordsKept
<1>1. DOMAIN sessions \subseteq SessionIds
  BY BoundsAssumption DEF TypeOK, SessionIds
<1>2. ASSUME NEW r \in Requests, Handle(r) PROVE RecordsKept
  <2>1. CASE AcceptStep(r)
    BY <2>1, AcceptReply
  <2>2. CASE UNCHANGED idempotent
    BY <2>2 DEF RecordsKept
  <2>3. AcceptStep(r) \/ UNCHANGED idempotent
    BY <1>1, <1>2, HandlerShapes
       DEF QuietStep, ReplayStep, KeyReplay, CreateStep, PollStep, serverVars
  <2> QED BY <2>1, <2>2, <2>3
<1>3. ASSUME NEW r \in Requests, Proceed(r) PROVE RecordsKept
  BY <1>3 DEF Proceed, PublishEvent, RouteToDLQ, WriteResponse, serverVars, RecordsKept
<1>4. CASE ConsumeEvents
  BY <1>4 DEF ConsumeEvents, serverVars, RecordsKept
<1> QED BY <1>2, <1>3, <1>4 DEF Next

\* The first response stored under a key is there for good.
THEOREM RecordsAreKeptForever == Spec => RecordsAreForever
<1>1. TypeOK /\ [Next]_vars => [RecordsKept]_vars
  BY RecordsStep
<1>2. Spec => [][RecordsKept]_vars
  BY <1>1, TypeCorrect, PTL DEF Spec
<1> QED BY <1>2 DEF RecordsAreForever, RecordsKept

-----------------------------------------------------------------------------
(* Changes of a session *)

ChangeIsRecorded ==
    \A s \in DOMAIN sessions : sessions'[s] # sessions[s] =>
         \/ \E i \in DOMAIN idempotent' \ DOMAIN idempotent : i.session = s
         \/ /\ sessions'[s].answers = sessions[s].answers
            /\ <<sessions[s].status, sessions'[s].status>> \in
                 {<<"pending", "preparing">>, <<"preparing", "in_progress">>}

\* A poll touches no answer, and of a session whose poll counter agrees with
\* its status it takes one of the two preparing steps or changes nothing.
LEMMA PollMoves ==
    ASSUME NEW session \in SessionRecords,
           session.status = "preparing" => session.pollCount = 1
    PROVE  \/ Polled(session) = session
           \/ /\ Polled(session).answers = session.answers
              /\ <<session.status, Polled(session).status>> \in
                   {<<"pending", "preparing">>, <<"preparing", "in_progress">>}
<1>1. CASE session.status = "pending"
  BY <1>1 DEF Polled, SessionRecords
<1>2. CASE session.status = "preparing"
  BY <1>2 DEF Polled, SessionRecords
<1>3. CASE session.status \notin {"pending", "preparing"}
  BY <1>3 DEF Polled
<1> QED BY <1>1, <1>2, <1>3

\* Every step of every goroutine leaves a session alone, polls it, or records
\* the mutation that changes it.
LEMMA ChangeStep ==
    ASSUME SessionInv, Next PROVE ChangeIsRecorded
<1>1. /\ TypeOK /\ DOMAIN sessions \subseteq SessionIds
      /\ \A s \in DOMAIN sessions : sessions[s] \in SessionRecords
  BY BoundsAssumption DEF SessionInv, TypeOK, SessionIds
<1>2. ASSUME NEW r \in Requests, QuietStep(r) \/ ReplayStep(r) PROVE ChangeIsRecorded
  BY <1>2 DEF QuietStep, ReplayStep, KeyReplay, serverVars, ChangeIsRecorded
<1>3. ASSUME NEW r \in Requests, CreateStep(r) PROVE ChangeIsRecorded
  <2>1. counter \notin DOMAIN sessions
    BY <1>1, BoundsAssumption DEF TypeOK
  <2> QED BY <1>3, <2>1 DEF CreateStep, ChangeIsRecorded
<1>4. ASSUME NEW r \in Requests, NEW s \in SessionIds, PollStep(r, s) PROVE ChangeIsRecorded
  <2>1. s \in DOMAIN sessions /\ sessions' = [sessions EXCEPT ![s] = Polled(@)]
    BY <1>4 DEF PollStep
  <2>2. sessions[s].status = "preparing" => sessions[s].pollCount = 1
    BY <2>1 DEF SessionInv, Timeline
  <2>3. \/ Polled(sessions[s]) = sessions[s]
        \/ /\ Polled(sessions[s]).answers = sessions[s].answers
           /\ <<sessions[s].status, Polled(sessions[s]).status>> \in
                {<<"pending", "preparing">>, <<"preparing", "in_progress">>}
    BY <1>1, <2>1, <2>2, PollMoves
  <2> QED BY <2>1, <2>3 DEF ChangeIsRecorded
<1>5. ASSUME NEW r \in Requests, AcceptStep(r) PROVE ChangeIsRecorded
  BY <1>5, AcceptReply DEF ChangeIsRecorded
<1>6. ASSUME NEW r \in Requests, Handle(r) PROVE ChangeIsRecorded
  BY <1>1, <1>2, <1>3, <1>4, <1>5, <1>6, HandlerShapes
<1>7. ASSUME NEW r \in Requests, Proceed(r) PROVE ChangeIsRecorded
  BY <1>7 DEF Proceed, PublishEvent, RouteToDLQ, WriteResponse, serverVars, ChangeIsRecorded
<1>8. CASE ConsumeEvents
  BY <1>8 DEF ConsumeEvents, serverVars, ChangeIsRecorded
<1> QED BY <1>6, <1>7, <1>8 DEF Next

\* A refused or replayed request never changes a session, and a read only
\* takes it from pending over preparing to in progress.
THEOREM NoChangeGoesUnrecorded == Spec => NoUnrecordedChange
<1>1. SessionInv /\ [Next]_vars => [ChangeIsRecorded]_vars
  BY ChangeStep
<1>2. Spec => [][ChangeIsRecorded]_vars
  BY <1>1, SessionInvariant, PTL DEF Spec
<1> QED BY <1>2 DEF NoUnrecordedChange, ChangeIsRecorded

-----------------------------------------------------------------------------
(* Responses *)

Agrees(x) ==
    x.code = "OK" => x.id \in DOMAIN idempotent /\ x.response = idempotent[x.id].response

Earned(x) ==
    (x.code = "VIEW" /\ x.status = "completed") =>
        \E key \in Keys : DeriveEventID(x.session, "evaluations", key) \in DOMAIN idempotent

First(x) == x.code = "OK" /\ ~x.idempotentReplay

\* Where an event is that is no longer with its goroutine.
Settled == Queued \cup consumed \cup DeadLetters

\* The event of a first response is the one the goroutine has to publish, and
\* has settled once it has not.
Backed(x, at, event) ==
    /\ First(x) => /\ at \in {"publish", "dlq"} => event = x.id
                   /\ at = "reply" => x.id \in Settled
    /\ x.code = "CREATED" => /\ at \in {"publish", "dlq"} => event = CreatedEvent(x.session)
                             /\ at = "reply" => CreatedEvent(x.session) \in Settled

ReplyInv ==
    /\ \A r \in Requests :
         Agrees(reply[r]) /\ Earned(reply[r]) /\ Backed(reply[r], pc[r], envelope[r])
    /\ \A r, p \in Requests :
         (First(reply[r]) /\ First(reply[p]) /\ reply[r].id = reply[p].id) => r = p

\* A handler puts its response into the slot of its goroutine, and changes
\* nothing another goroutine's response depends on.
LEMMA HandlerReplies ==
    ASSUME TypeOK, ReplyInv, NEW r \in Requests, NEW x, NEW to, NEW event,
           RecordsKept, UNCHANGED eventVars,
           reply' = [reply EXCEPT ![r] = x], pc' = [pc EXCEPT ![r] = to],
           envelope' = [envelope EXCEPT ![r] = event],
           Agrees(x)', Earned(x)', Backed(x, to, event),
           First(x) => x.id \notin DOMAIN idempotent
    PROVE  ReplyInv'
<1>1. /\ reply'[r] = x /\ pc'[r] = to /\ envelope'[r] = event
      /\ \A p \in Requests \ {r} :
           reply'[p] = reply[p] /\ pc'[p] = pc[p] /\ envelope'[p] = envelope[p]
  BY DEF TypeOK
<1>2. ASSUME NEW p \in Requests
      PROVE  Agrees(reply[p])' /\ Earned(reply[p])' /\ Backed(reply[p], pc[p], envelope[p])'
  <2>1. CASE p = r
    BY <1>1, <2>1 DEF Agrees, Earned, Backed, Settled, Queued, DeadLetters, First, eventVars
  <2>2. CASE p # r
    <3>1. Agrees(reply[p])' /\ Earned(reply[p])'
      BY <1>1, <2>2 DEF ReplyInv, Agrees, Earned, RecordsKept
    <3>2. Backed(reply[p], pc[p], envelope[p])'
      BY <1>1, <2>2 DEF ReplyInv, Backed, Settled, Queued, DeadLetters, First, eventVars
    <3> QED BY <3>1, <3>2
  <2> QED BY <2>1, <2>2
<1>3. \A p \in Requests : First(reply[p]) => reply[p].id \in DOMAIN idempotent
  BY DEF ReplyInv, First, Agrees
<1>4. \A p, o \in Requests :
        (First(reply[p])' /\ First(reply[o])' /\ reply'[p].id = reply'[o].id) => p = o
  BY <1>1, <1>3 DEF ReplyInv, First
<1> QED BY <1>2, <1>4 DEF ReplyInv

\* What the goroutines do after the Unlock, and the consumer: a response stays
\* as it is or is written, events settle and stay settled.
LEMMA LaterStep ==
    ASSUME TypeOK, ReplyInv, NEW r \in Requests, NEW to, NEW event,
           Publishing(r), UNCHANGED idempotent, UNCHANGED reply,
           pc' = [pc EXCEPT ![r] = to], envelope' = [envelope EXCEPT ![r] = event],
           Settled \subseteq Settled',
           \/ to = "dlq" /\ event = envelope[r]
           \/ to = "reply" /\ envelope[r] \in Settled'
    PROVE  ReplyInv'
<1>1. /\ pc'[r] = to /\ envelope'[r] = event
      /\ \A p \in Requests \ {r} : pc'[p] = pc[p] /\ envelope'[p] = envelope[p]
  BY DEF TypeOK
<1>2. ASSUME NEW p \in Requests
      PROVE  Agrees(reply[p])' /\ Earned(reply[p])' /\ Backed(reply[p], pc[p], envelope[p])'
  <2>1. Agrees(reply[p])' /\ Earned(reply[p])'
    BY DEF ReplyInv, Agrees, Earned
  <2>2. Backed(reply[p], pc[p], envelope[p])
    BY DEF ReplyInv
  <2>3. CASE p = r
    <3>1. First(reply[r]) => envelope[r] = reply[r].id
      BY <2>2, <2>3 DEF Backed, Publishing
    <3>2. reply[r].code = "CREATED" => envelope[r] = CreatedEvent(reply[r].session)
      BY <2>2, <2>3 DEF Backed, Publishing
    <3> QED BY <1>1, <2>1, <2>3, <3>1, <3>2 DEF Backed, First
  <2>4. CASE p # r
    BY <1>1, <2>1, <2>2, <2>4 DEF Backed, First
  <2> QED BY <2>3, <2>4
<1> QED BY <1>2 DEF ReplyInv, First

\* Every step keeps what the responses say true.
LEMMA ReplyStep ==
    ASSUME EventInv, ReplyInv, [Next]_vars PROVE ReplyInv'
<1>1. /\ SessionInv /\ TypeOK /\ DOMAIN sessions \subseteq SessionIds
      /\ pc \in [Requests -> {"idle", "publish", "dlq", "reply"}]
      /\ DOMAIN envelope = Requests /\ envelope = [r \in Requests |-> envelope[r]]
  BY BoundsAssumption DEF EventInv, SessionInv, TypeOK, SessionIds
<1>2. ASSUME NEW s \in DOMAIN sessions, sessions[s].status = "completed"
      PROVE  \E key \in Keys : DeriveEventID(s, "evaluations", key) \in DOMAIN idempotent
  BY <1>1, <1>2 DEF SessionInv, Timeline, ResultIsEarned
<1>3. ASSUME NEW r \in Requests, QuietStep(r) PROVE ReplyInv'
  <2>1. PICK x :
          /\ x.code \notin {"OK", "CREATED"}
          /\ x.code = "VIEW" => x.session \in DOMAIN sessions /\ x.status = sessions[x.session].status
          /\ Respond(r, x) /\ UNCHANGED <<serverVars, eventVars>>
    BY <1>3 DEF QuietStep
  <2>2. Agrees(x)' /\ Backed(x, "reply", envelope[r]) /\ ~First(x)
    BY <2>1 DEF Agrees, Backed, First
  <2>3. Earned(x)'
    BY <1>2, <2>1 DEF Earned, serverVars
  <2>4. RecordsKept
    BY <2>1 DEF RecordsKept, serverVars
  <2>5. /\ reply' = [reply EXCEPT ![r] = x] /\ pc' = [pc EXCEPT ![r] = "reply"]
        /\ envelope' = [envelope EXCEPT ![r] = envelope[r]]
    BY <1>1, <2>1 DEF Respond
  <2> QED BY <1>1, <2>1, <2>2, <2>3, <2>4, <2>5, HandlerReplies
<1>4. ASSUME NEW r \in Requests, ReplayStep(r) PROVE ReplyInv'
  <2>1. PICK id \in DOMAIN idempotent :
          /\ Respond(r, Accepted(id, idempotent[id].response, TRUE))
          /\ UNCHANGED <<serverVars, eventVars>>
    BY <1>4 DEF ReplayStep, KeyReplay
  <2>2. PICK x : x = Accepted(id, idempotent[id].response, TRUE)
    OBVIOUS
  <2>3. /\ reply' = [reply EXCEPT ![r] = x] /\ pc' = [pc EXCEPT ![r] = "reply"]
        /\ envelope' = [envelope EXCEPT ![r] = envelope[r]]
    BY <1>1, <2>1, <2>2 DEF Respond
  <2>4. Agrees(x)' /\ Earned(x)' /\ Backed(x, "reply", envelope[r]) /\ ~First(x)
    <3>1. x.code = "OK" /\ x.id = id /\ x.response = idempotent[id].response /\ x.idempotentReplay
      BY <2>2 DEF Accepted
    <3> QED BY <2>1, <3>1 DEF Agrees, Earned, Backed, First, serverVars
  <2>5. RecordsKept
    BY <2>1 DEF RecordsKept, serverVars
  <2> QED BY <1>1, <2>1, <2>3, <2>4, <2>5, HandlerReplies
<1>5. ASSUME NEW r \in Requests, CreateStep(r) PROVE ReplyInv'
  <2>1. PICK x : x = [code |-> "CREATED", session |-> counter]
    OBVIOUS
  <2>2. /\ reply' = [reply EXCEPT ![r] = x] /\ pc' = [pc EXCEPT ![r] = "publish"]
        /\ envelope' = [envelope EXCEPT ![r] = CreatedEvent(counter)]
        /\ UNCHANGED <<idempotent, eventVars>>
    BY <1>5, <2>1 DEF CreateStep, BeginPublish
  <2>3. Agrees(x)' /\ Earned(x)' /\ Backed(x, "publish", CreatedEvent(counter)) /\ ~First(x)
    BY <2>1 DEF Agrees, Earned, Backed, First
  <2>4. RecordsKept
    BY <2>2 DEF RecordsKept
  <2> QED BY <1>1, <2>2, <2>3, <2>4, HandlerReplies
<1>6. ASSUME NEW r \in Requests, NEW s \in SessionIds, PollStep(r, s) PROVE ReplyInv'
  <2>1. PICK x : x = [code |-> "VIEW", session |-> s, status |-> Polled(sessions[s]).status]
    OBVIOUS
  <2>2. /\ reply' = [reply EXCEPT ![r] = x] /\ pc' = [pc EXCEPT ![r] = "reply"]
        /\ envelope' = [envelope EXCEPT ![r] = envelope[r]]
        /\ UNCHANGED <<idempotent, eventVars>> /\ s \in DOMAIN sessions
    BY <1>1, <1>6, <2>1 DEF PollStep, Respond
  <2>3. x.status = "completed" => sessions[s].status = "completed"
    <3>1. sessions[s] \in SessionRecords
      BY <1>1, <2>2 DEF TypeOK
    <3> QED BY <2>1, <3>1 DEF Polled, SessionRecords
  <2>4. Agrees(x)' /\ Earned(x)' /\ Backed(x, "reply", envelope[r]) /\ ~First(x)
    BY <1>2, <2>1, <2>2, <2>3 DEF Agrees, Earned, Backed, First
  <2>5. RecordsKept
    BY <2>2 DEF RecordsKept
  <2> QED BY <1>1, <2>2, <2>4, <2>5, HandlerReplies
<1>7. ASSUME NEW r \in Requests, AcceptStep(r) PROVE ReplyInv'
  <2>1. PICK id, response, updated :
             /\ RecordsKept
             /\ id \in DOMAIN idempotent' \ DOMAIN idempotent
             /\ idempotent'[id].response = response
             /\ sessions' = [sessions EXCEPT ![id.session] = updated]
             /\ pc[r] = "idle" /\ pc' = [pc EXCEPT ![r] = "publish"]
             /\ envelope' = [envelope EXCEPT ![r] = id]
             /\ reply' = [reply EXCEPT ![r] = Accepted(id, response, FALSE)]
             /\ UNCHANGED eventVars
    BY <1>7, AcceptReply
  <2> DEFINE x == Accepted(id, response, FALSE)
  <2>2. x.code = "OK" /\ x.id = id /\ x.response = response
    BY DEF Accepted
  <2> HIDE DEF x
  <2>3. Agrees(x)' /\ Earned(x)' /\ Backed(x, "publish", id)
    BY <2>1, <2>2 DEF Agrees, Earned, Backed
  <2>4. reply' = [reply EXCEPT ![r] = x]
    BY <2>1 DEF x
  <2> QED BY <1>1, <2>1, <2>2, <2>3, <2>4, HandlerReplies
<1>8. ASSUME NEW r \in Requests, PublishEvent(r) PROVE ReplyInv'
  <2>1. /\ Publishing(r) /\ envelope[r] \in EventIds /\ eventQueue \in Seq(EventIds)
        /\ UNCHANGED <<idempotent, reply, consumed, dlqRecords>>
    BY <1>1, <1>8 DEF PublishEvent, Publishing, TypeOK, serverVars
  <2>2. CASE /\ eventQueue' = Append(eventQueue, envelope[r])
             /\ pc' = [pc EXCEPT ![r] = "reply"]
             /\ envelope' = [envelope EXCEPT ![r] = NoEvent]
    <3>1. Settled \subseteq Settled' /\ envelope[r] \in Settled'
      BY <2>1, <2>2, AppendFresh DEF Settled, Queued, DeadLetters
    <3> QED BY <1>1, <2>1, <2>2, <3>1, LaterStep
  <2>3. CASE pc' = [pc EXCEPT ![r] = "dlq"] /\ UNCHANGED <<eventQueue, envelope>>
    <3>1. Settled \subseteq Settled' /\ envelope' = [envelope EXCEPT ![r] = envelope[r]]
      BY <1>1, <2>1, <2>3 DEF Settled, Queued, DeadLetters
    <3> QED BY <1>1, <2>1, <2>3, <3>1, LaterStep
  <2> QED BY <1>8, <2>2, <2>3 DEF PublishEvent
<1>9. ASSUME NEW r \in Requests, RouteToDLQ(r) PROVE ReplyInv'
  <2>1. /\ Publishing(r) /\ envelope[r] \in EventIds /\ dlqRecords \in Seq(EventIds)
        /\ UNCHANGED <<idempotent, reply, consumed, eventQueue>>
        /\ dlqRecords' = Append(dlqRecords, envelope[r])
        /\ pc' = [pc EXCEPT ![r] = "reply"]
        /\ envelope' = [envelope EXCEPT ![r] = NoEvent]
    BY <1>1, <1>9 DEF RouteToDLQ, Publishing, TypeOK, serverVars
  <2>2. Settled \subseteq Settled' /\ envelope[r] \in Settled'
    BY <2>1, AppendFresh DEF Settled, Queued, DeadLetters
  <2> QED BY <1>1, <2>1, <2>2, LaterStep
<1>10. ASSUME NEW r \in Requests, WriteResponse(r) PROVE ReplyInv'
  <2>1. /\ reply' = [reply EXCEPT ![r] = NoReply] /\ pc' = [pc EXCEPT ![r] = "idle"]
        /\ envelope' = [envelope EXCEPT ![r] = envelope[r]]
        /\ UNCHANGED <<idempotent, eventVars>>
    BY <1>1, <1>10 DEF WriteResponse, serverVars
  <2>2. Agrees(NoReply)' /\ Earned(NoReply)' /\ Backed(NoReply, "idle", envelope[r]) /\ ~First(NoReply)
    BY DEF NoReply, Agrees, Earned, Backed, First
  <2>3. RecordsKept
    BY <2>1 DEF RecordsKept
  <2> QED BY <1>1, <2>1, <2>2, <2>3, HandlerReplies
<1>11. CASE ConsumeEvents
  <2>1. /\ eventQueue \in Seq(EventIds) /\ eventQueue # <<>> /\ IsInjective(eventQueue)
        /\ consumed' = consumed \cup {Head(eventQueue)}
        /\ eventQueue' = Tail(eventQueue)
        /\ UNCHANGED <<idempotent, dlqRecords, pc, envelope, reply>>
    BY <1>1, <1>11 DEF ConsumeEvents, EventInv, NoEventTwice, TypeOK, serverVars, requestVars
  <2>2. Head(eventQueue) \in Queued /\ Queued' = Queued \ {Head(eventQueue)}
    BY <2>1, TailOfInjective DEF Queued, IsInjective
  <2>3. Settled' = Settled
    BY <2>1, <2>2 DEF Settled, DeadLetters
  <2> QED BY <2>1, <2>3 DEF ReplyInv, Agrees, Earned, Backed, First
<1>12. CASE UNCHANGED vars
  BY <1>12 DEF vars, ReplyInv, Agrees, Earned, Backed, First, Settled, Queued, DeadLetters
<1>13. ASSUME NEW r \in Requests, Handle(r) PROVE ReplyInv'
  BY <1>1, <1>3, <1>4, <1>5, <1>6, <1>7, <1>13, HandlerShapes
<1> QED BY <1>8, <1>9, <1>10, <1>11, <1>12, <1>13 DEF Next, Proceed

\* What the responses say is true in every state.
LEMMA ReplyInvariant == Spec => []ReplyInv
<1>1. Init => ReplyInv
  BY DEF Init, NoReply, ReplyInv, Agrees, Earned, Backed, First
<1>2. EventInv /\ ReplyInv /\ [Next]_vars => ReplyInv'
  BY ReplyStep
<1> QED BY <1>1, <1>2, EventInvariant, PTL DEF Spec

\* All the responses to one key agree, in whatever order they are written.
THEOREM ResponsesAlwaysAgree == Spec => []ResponsesAgree
<1>1. ReplyInv => ResponsesAgree
  BY DEF ReplyInv, Agrees, ResponsesAgree
<1> QED BY <1>1, ReplyInvariant, PTL

\* No client sees a result before an evaluation was accepted.
THEOREM ServedResultsAreEarned == Spec => []ServedResultIsEarned
<1>1. ReplyInv => ServedResultIsEarned
  BY DEF ReplyInv, Earned, ServedResultIsEarned
<1> QED BY <1>1, ReplyInvariant, PTL

\* Of the requests with one key all but one are answered as replays.
THEOREM FirstResponsesAreUnique == Spec => []OneFirstResponse
<1>1. ReplyInv => OneFirstResponse
  BY DEF ReplyInv, First, OneFirstResponse
<1> QED BY <1>1, ReplyInvariant, PTL

\* A first response is written after its event has left the goroutine.
THEOREM EventsPrecedeFirstResponses == Spec => []EventBeforeFirstResponse
<1>1. ReplyInv => EventBeforeFirstResponse
  BY DEF ReplyInv, Backed, First, Settled, EventBeforeFirstResponse
<1> QED BY <1>1, ReplyInvariant, PTL

-----------------------------------------------------------------------------
(* Answers *)

\* The saves of one question and the answer that is stored of them.
AnswersOf(s, q) ==
    LET answer == sessions[s].answers[q] IN
    /\ \A i, j \in SavesOf(s, q) : VersionOf(i) = VersionOf(j) => i = j
    /\ {VersionOf(i) : i \in SavesOf(s, q)} = 1..answer.answerVersion
    /\ \A i \in SavesOf(s, q) :
         /\ idempotent[i].response.answerId = answer.answerId
         /\ VersionOf(i) = answer.answerVersion =>
              idempotent[i].payload.content = answer.answerContent

AnswersInv == \A s \in DOMAIN sessions, q \in Questions : AnswersOf(s, q)

\* A question nobody saves keeps its saves and its answer.
LEMMA UnsavedQuestion ==
    ASSUME NEW s, NEW q, AnswersOf(s, q), RecordsKept,
           \A i \in DOMAIN idempotent' \ DOMAIN idempotent :
              ~(i.session = s /\ i.route = "answers" /\ idempotent'[i].payload.question = q),
           sessions'[s].answers[q] = sessions[s].answers[q]
    PROVE  AnswersOf(s, q)'
<1>1. /\ SavesOf(s, q)' = SavesOf(s, q)
      /\ \A i \in SavesOf(s, q) : idempotent'[i] = idempotent[i] /\ VersionOf(i)' = VersionOf(i)
  BY DEF RecordsKept, SavesOf, VersionOf
<1>2. {VersionOf(i) : i \in SavesOf(s, q)}' = {VersionOf(i) : i \in SavesOf(s, q)}
  BY <1>1
<1> QED BY <1>1, <1>2 DEF AnswersOf

\* A save is given the version after the stored one, and the stored answer is
\* its own.
LEMMA SavedQuestion ==
    ASSUME NEW s, NEW q, NEW content, NEW key, NEW id,
           AnswersOf(s, q), RecordsKept, sessions[s].answers[q].answerVersion \in Nat,
           DOMAIN idempotent' = DOMAIN idempotent \cup {id}, id \notin DOMAIN idempotent,
           id.session = s, id.route = "answers",
           sessions'[s].answers[q] = Saved(sessions[s].answers[q], content, key),
           idempotent'[id].payload.question = q,
           idempotent'[id].payload.content = content,
           idempotent'[id].response.answerId = sessions'[s].answers[q].answerId,
           idempotent'[id].response.answerVersion = sessions'[s].answers[q].answerVersion
    PROVE  AnswersOf(s, q)'
<1> DEFINE answer == sessions[s].answers[q]
           saves == SavesOf(s, q)
<1>1. /\ SavesOf(s, q)' = saves \cup {id} /\ id \notin saves
      /\ \A i \in saves : idempotent'[i] = idempotent[i] /\ VersionOf(i)' = VersionOf(i)
  BY DEF RecordsKept, SavesOf, VersionOf
<1>2. /\ sessions'[s].answers[q].answerVersion = answer.answerVersion + 1
      /\ sessions'[s].answers[q].answerContent = content
      /\ sessions'[s].answers[q].answerId = IF answer.answerVersion = 0 THEN key ELSE answer.answerId
      /\ VersionOf(id)' = answer.answerVersion + 1
  BY DEF Saved, VersionOf
<1>3. \A i \in saves : VersionOf(i) \in 1..answer.answerVersion
  BY DEF AnswersOf
<1>4. \A i, j \in SavesOf(s, q)' : VersionOf(i)' = VersionOf(j)' => i = j
  BY <1>1, <1>2, <1>3 DEF AnswersOf
<1>5. {VersionOf(i) : i \in SavesOf(s, q)}' = 1..(answer.answerVersion + 1)
  <2>1. {VersionOf(i) : i \in SavesOf(s, q)}'
          = {VersionOf(i) : i \in saves} \cup {answer.answerVersion + 1}
    BY <1>1, <1>2
  <2>2. {VersionOf(i) : i \in saves} = 1..answer.answerVersion
    BY DEF AnswersOf
  <2> QED BY <2>1, <2>2
<1>6. ASSUME NEW i \in SavesOf(s, q)'
      PROVE  /\ idempotent'[i].response.answerId = sessions'[s].answers[q].answerId
             /\ VersionOf(i)' = sessions'[s].answers[q].answerVersion =>
                  idempotent'[i].payload.content = sessions'[s].answers[q].answerContent
  <2>1. CASE i = id
    BY <1>2, <2>1
  <2>2. CASE i \in saves
    <3>1. answer.answerVersion # 0 /\ VersionOf(i) # answer.answerVersion + 1
      BY <1>3, <2>2
    <3> QED BY <1>1, <1>2, <2>2, <3>1 DEF AnswersOf
  <2> QED BY <1>1, <2>1, <2>2
<1> QED BY <1>2, <1>4, <1>5, <1>6 DEF AnswersOf

\* A step that adds no record and touches no answer of the sessions there were;
\* a session created has no saves, because every record has a session.
LEMMA UnsavedStep ==
    ASSUME SessionInv, AnswersInv, UNCHANGED idempotent,
           DOMAIN sessions \subseteq DOMAIN sessions',
           \A s \in DOMAIN sessions : sessions'[s].answers = sessions[s].answers,
           \A s \in DOMAIN sessions' \ DOMAIN sessions, q \in Questions :
              sessions'[s].answers[q].answerVersion = 0
    PROVE  AnswersInv'
<1> SUFFICES ASSUME NEW s \in DOMAIN sessions', NEW q \in Questions PROVE AnswersOf(s, q)'
  BY DEF AnswersInv
<1>1. CASE s \in DOMAIN sessions
  <2>1. AnswersOf(s, q) /\ sessions'[s].answers[q] = sessions[s].answers[q]
    BY <1>1 DEF AnswersInv
  <2>2. RecordsKept /\ DOMAIN idempotent' \ DOMAIN idempotent = {}
    BY DEF RecordsKept
  <2> QED BY <2>1, <2>2, UnsavedQuestion
<1>2. CASE s \notin DOMAIN sessions
  <2>1. SavesOf(s, q)' = {}
    BY <1>2 DEF SavesOf, SessionInv, RetryIsNeverStale
  <2>2. {VersionOf(i) : i \in SavesOf(s, q)}' = {}
    BY <2>1
  <2>3. 1..sessions'[s].answers[q].answerVersion = {}
    BY <1>2
  <2> QED BY <2>1, <2>2, <2>3 DEF AnswersOf
<1> QED BY <1>1, <1>2

\* An accepted finalize or evaluation leaves the answers and their saves alone.
LEMMA FinalActionKeepsAnswers ==
    ASSUME AnswersInv, NEW r, NEW id, NEW payload, NEW response, NEW updated,
           KeyAccepted(r, id, payload, response, updated),
           id.session \in DOMAIN sessions, id.route # "answers",
           updated.answers = sessions[id.session].answers
    PROVE  AnswersInv'
<1>1. /\ RecordsKept /\ DOMAIN idempotent' \ DOMAIN idempotent = {id}
      /\ DOMAIN sessions' = DOMAIN sessions
      /\ sessions'[id.session] = updated
      /\ \A s \in DOMAIN sessions \ {id.session} : sessions'[s] = sessions[s]
  BY DEF KeyAccepted, WithRecord, RecordsKept
<1> SUFFICES ASSUME NEW s \in DOMAIN sessions, NEW q \in Questions PROVE AnswersOf(s, q)'
  BY <1>1 DEF AnswersInv
<1>2. AnswersOf(s, q) /\ sessions'[s].answers[q] = sessions[s].answers[q]
  BY <1>1 DEF AnswersInv
<1> QED BY <1>1, <1>2, UnsavedQuestion

\* An accepted save takes the next version of its question and leaves the
\* other questions alone.
LEMMA SaveKeepsAnswers ==
    ASSUME TypeOK, AnswersInv, NEW r, NEW s \in DOMAIN sessions, NEW q \in Questions,
           NEW content, NEW key, SaveStep(r, s, q, content, key)
    PROVE  AnswersInv'
<1>1. PICK answer : answer = Saved(sessions[s].answers[q], content, key)
  OBVIOUS
<1>2. PICK id : id = DeriveEventID(s, "answers", key)
  OBVIOUS
<1>3. id.session = s /\ id.route = "answers"
  BY <1>2 DEF DeriveEventID
<1>4. KeyAccepted(r, id, [question |-> q, content |-> content],
          [status |-> sessions[s].status, answerId |-> answer.answerId,
           answerVersion |-> answer.answerVersion],
          [sessions[s] EXCEPT !.answers[q] = answer])
  BY <1>1, <1>2 DEF SaveStep
<1>5. /\ RecordsKept /\ id \notin DOMAIN idempotent
      /\ DOMAIN idempotent' = DOMAIN idempotent \cup {id}
      /\ idempotent'[id].payload = [question |-> q, content |-> content]
      /\ idempotent'[id].response = [status |-> sessions[s].status, answerId |-> answer.answerId,
                                     answerVersion |-> answer.answerVersion]
      /\ DOMAIN sessions' = DOMAIN sessions
      /\ sessions'[s] = [sessions[s] EXCEPT !.answers[q] = answer]
      /\ \A p \in DOMAIN sessions \ {s} : sessions'[p] = sessions[p]
  BY <1>3, <1>4 DEF KeyAccepted, WithRecord, RecordsKept
<1>6. /\ sessions[s] \in SessionRecords /\ sessions[s].answers \in [Questions -> Answers]
      /\ sessions[s].answers[q].answerVersion \in Nat
  BY DEF TypeOK, SessionRecords, Answers, NoAnswer
<1>7. /\ sessions'[s].answers[q] = answer
      /\ \A p \in Questions \ {q} : sessions'[s].answers[p] = sessions[s].answers[p]
  BY <1>5, <1>6 DEF SessionRecords
<1>8. AnswersOf(s, q)'
  <2>1. AnswersOf(s, q)
    BY DEF AnswersInv
  <2>2. /\ idempotent'[id].payload.question = q /\ idempotent'[id].payload.content = content
        /\ idempotent'[id].response.answerId = sessions'[s].answers[q].answerId
        /\ idempotent'[id].response.answerVersion = sessions'[s].answers[q].answerVersion
    BY <1>5, <1>7
  <2>3. sessions'[s].answers[q] = Saved(sessions[s].answers[q], content, key)
    BY <1>1, <1>7
  <2>4. RecordsKept /\ id \notin DOMAIN idempotent /\ DOMAIN idempotent' = DOMAIN idempotent \cup {id}
    BY <1>5
  <2> QED BY <1>3, <1>6, <2>1, <2>2, <2>3, <2>4, SavedQuestion, ZenonT(60)
<1>9. ASSUME NEW p \in DOMAIN sessions, NEW o \in Questions, p # s \/ o # q
      PROVE  AnswersOf(p, o)'
  <2>1. AnswersOf(p, o) /\ sessions'[p].answers[o] = sessions[p].answers[o]
    BY <1>5, <1>7, <1>9 DEF AnswersInv
  <2>2. \A i \in DOMAIN idempotent' \ DOMAIN idempotent :
          ~(i.session = p /\ i.route = "answers" /\ idempotent'[i].payload.question = o)
    BY <1>3, <1>5, <1>9
  <2> QED BY <1>5, <2>1, <2>2, UnsavedQuestion
<1> QED BY <1>5, <1>8, <1>9 DEF AnswersInv

\* Every step keeps the saves of every question in line with its answer.
LEMMA AnswersStep ==
    ASSUME SessionInv, AnswersInv, [Next]_vars PROVE AnswersInv'
<1>1. /\ TypeOK /\ DOMAIN sessions \subseteq SessionIds
      /\ \A s \in DOMAIN sessions : sessions[s] \in SessionRecords
  BY BoundsAssumption DEF SessionInv, TypeOK, SessionIds
<1>2. CASE UNCHANGED <<sessions, idempotent>>
  BY <1>2, UnsavedStep
<1>3. ASSUME NEW r \in Requests, CreateStep(r) PROVE AnswersInv'
  <2>1. counter \notin DOMAIN sessions
    BY <1>1, BoundsAssumption DEF TypeOK
  <2>2. /\ DOMAIN sessions' = DOMAIN sessions \cup {counter} /\ sessions'[counter] = NewSession
        /\ \A s \in DOMAIN sessions : sessions'[s] = sessions[s]
        /\ UNCHANGED idempotent
    BY <1>3, <2>1 DEF CreateStep
  <2>3. \A q \in Questions : NewSession.answers[q].answerVersion = 0
    BY DEF NewSession, NoAnswer
  <2> QED BY <2>2, <2>3, UnsavedStep
<1>4. ASSUME NEW r \in Requests, NEW s \in SessionIds, PollStep(r, s) PROVE AnswersInv'
  <2>1. /\ s \in DOMAIN sessions /\ sessions' = [sessions EXCEPT ![s] = Polled(@)]
        /\ UNCHANGED idempotent
    BY <1>4 DEF PollStep
  <2>2. Polled(sessions[s]).answers = sessions[s].answers
    BY <1>1, <2>1, PolledFields
  <2> QED BY <2>1, <2>2, UnsavedStep
<1>5. ASSUME NEW r \in Requests, AcceptStep(r) PROVE AnswersInv'
  <2>1. PICK s \in DOMAIN sessions, key \in Keys :
          \/ \E q \in Questions, content \in Contents : SaveStep(r, s, q, content, key)
          \/ \E payload \in FinalPayloads :
               FinalizeStep(r, s, payload, key) \/ EvaluationStep(r, s, payload, key)
    BY <1>5 DEF AcceptStep
  <2>2. ASSUME NEW q \in Questions, NEW content \in Contents, SaveStep(r, s, q, content, key)
        PROVE  AnswersInv'
    BY <1>1, <2>2, SaveKeepsAnswers
  <2>3. ASSUME NEW route, route # "answers", NEW payload, NEW response, NEW updated,
               updated.answers = sessions[s].answers,
               KeyAccepted(r, DeriveEventID(s, route, key), payload, response, updated)
        PROVE  AnswersInv'
    <3>1. PICK id : id = DeriveEventID(s, route, key)
      OBVIOUS
    <3>2. id.session = s /\ id.route = route
      BY <3>1 DEF DeriveEventID
    <3> QED BY <2>3, <3>1, <3>2, FinalActionKeepsAnswers
  <2>4. ASSUME NEW payload \in FinalPayloads, FinalizeStep(r, s, payload, key)
        PROVE  AnswersInv'
    <3>1. Finalized(sessions[s]).answers = sessions[s].answers
      BY <1>1 DEF Finalized, SessionRecords
    <3> QED BY <2>3, <2>4, <3>1 DEF FinalizeStep
  <2>5. ASSUME NEW payload \in FinalPayloads, EvaluationStep(r, s, payload, key)
        PROVE  AnswersInv'
    <3>1. Evaluated(sessions[s]).answers = sessions[s].answers
      BY <1>1 DEF Evaluated, SessionRecords
    <3> QED BY <2>3, <2>5, <3>1 DEF EvaluationStep
  <2> QED BY <2>1, <2>2, <2>4, <2>5
<1>6. ASSUME NEW r \in Requests, Handle(r) PROVE AnswersInv'
  <2>1. ASSUME QuietStep(r) \/ ReplayStep(r) PROVE UNCHANGED <<sessions, idempotent>>
    BY <2>1 DEF QuietStep, ReplayStep, KeyReplay, serverVars
  <2> QED BY <1>1, <1>2, <1>3, <1>4, <1>5, <1>6, <2>1, HandlerShapes
<1>7. ASSUME NEW r \in Requests, Proceed(r) PROVE AnswersInv'
  BY <1>2, <1>7 DEF Proceed, PublishEvent, RouteToDLQ, WriteResponse, serverVars
<1>8. CASE ConsumeEvents
  BY <1>2, <1>8 DEF ConsumeEvents, serverVars
<1>9. CASE UNCHANGED vars
  BY <1>2, <1>9 DEF vars
<1> QED BY <1>6, <1>7, <1>8, <1>9 DEF Next

\* The saves and the stored answers agree in every state.
LEMMA AnswersInvariant == Spec => []AnswersInv
<1>1. Init => AnswersInv
  BY DEF Init, AnswersInv
<1>2. SessionInv /\ AnswersInv /\ [Next]_vars => AnswersInv'
  BY AnswersStep
<1> QED BY <1>1, <1>2, SessionInvariant, PTL DEF Spec

\* Concurrent saves of a question are given the versions 1, 2, ... once each.
THEOREM VersionsAlwaysSerial == Spec => []VersionsAreSerial
<1>1. AnswersInv => VersionsAreSerial
  BY DEF AnswersInv, AnswersOf, VersionsAreSerial
<1> QED BY <1>1, AnswersInvariant, PTL

\* The stored answer is the one of the save that was given the highest version,
\* whichever version that save had seen.
THEOREM TheLastAcceptedSaveWins == Spec => []LastAcceptedSaveWins
<1>1. AnswersInv => LastAcceptedSaveWins
  BY DEF AnswersInv, AnswersOf, LastAcceptedSaveWins
<1> QED BY <1>1, AnswersInvariant, PTL
=============================================================================
