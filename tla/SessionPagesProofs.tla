------------------------- MODULE SessionPagesProofs -------------------------
(***************************************************************************)
(* The safety invariants of SessionPages, for every number of waiting      *)
(* requests and every bound: no step of the candidate, a timer, the server *)
(* or a continuation breaks the inductive invariant PagesInv.              *)
(***************************************************************************)
EXTENDS SessionPages, TLAPS, FiniteSetTheorems

-----------------------------------------------------------------------------
(* The inductive invariant *)

Reads == Routes \cup {"tick"}

SentRequests ==
    [phase : {"sent"}, kind : Reads \cup {"summary"}, at : {0}, orphan : BOOLEAN]
    \cup [phase : {"sent"}, kind : {"finalize"}, at : 1..MaxTime, orphan : BOOLEAN]

Results ==
    [phase : {"answered"}, kind : Reads, result : Statuses]
    \cup [phase : {"answered"}, kind : {"summary"}, result : {"OK", "SESSION_STATE_CONFLICT"}]
    \cup [phase : {"answered"}, kind : {"finalize"},
          result : {"OK", "SESSION_STATE_CONFLICT", "IDEMPOTENCY_KEY_REUSED"}]

Requests == {NoCall} \cup SentRequests \cup Results

\* Every request is one the page sends, every result one its endpoint gives.
CallsTyped == call \in [Calls -> Requests]

\* The launch pages whose first refresh still runs; each starts an interval.
Opening == {c \in Calls : /\ call[c] # NoCall
                          /\ call[c].kind = "launch"
                          /\ call[c].phase = "sent" => ~call[c].orphan}

\* A launch page that opens holds the place of the interval it will start.
IntervalsAreOpened == intervals + Cardinality(Opening) <= Cardinality(Calls)

PlainTypes ==
    /\ status \in Statuses
    /\ route \in Routes
    /\ shown \in [page : {"none", "error"} \cup Routes, status : Statuses]
    /\ intervals \in Nat /\ jumps \in 0..MaxJumps
    /\ moves \in 0..MaxMoves /\ clock \in 0..MaxTime

\* There is one record at most, under the key of the session.
OneRecord ==
    /\ records \subseteq [key : {0}, finalizedAt : 1..MaxTime]
    /\ \A a, b \in records : a = b

\* The session is past its interview exactly when finalize has a record.
RecordedIsSubmitted == (records # {}) <=> (status \in {"submitted", "completed"})

\* A summary is only given of a completed session.
SummaryIsOfCompleted ==
    \A c \in Calls : (Answered(c, "summary") /\ call[c].result = "OK") => status = "completed"

PagesInv ==
    /\ PlainTypes /\ CallsTyped /\ IntervalsAreOpened
    /\ OneRecord /\ RecordedIsSubmitted
    /\ PageIsNeverAhead /\ SummaryIsOfCompleted

-----------------------------------------------------------------------------
(* Types *)

\* What an action does to the requests: it changes that of c alone, or it is
\* a reload.
OneCallChanges(c) == \E request \in Requests : call' = [call EXCEPT ![c] = request]

\* A request to which the request of c changes keeps the type of all of them.
LEMMA OneCallTyped ==
    ASSUME CallsTyped, NEW c \in Calls, OneCallChanges(c)
    PROVE  CallsTyped'
BY DEF CallsTyped, OneCallChanges

\* Routes and statuses are what requests name and bring.
LEMMA RequestFacts ==
    /\ NoCall \in Requests
    /\ \A kind \in Reads \cup {"summary"} : Sent(kind, 0) \in Requests
    /\ \A at \in 1..MaxTime : Sent("finalize", at) \in Requests
    /\ \A kind \in Reads, s \in Statuses :
         [phase |-> "answered", kind |-> kind, result |-> s] \in Requests
    /\ \A s \in {"OK", "SESSION_STATE_CONFLICT"} :
         [phase |-> "answered", kind |-> "summary", result |-> s] \in Requests
    /\ \A s \in {"OK", "SESSION_STATE_CONFLICT", "IDEMPOTENCY_KEY_REUSED"} :
         [phase |-> "answered", kind |-> "finalize", result |-> s] \in Requests
BY DEF Requests, SentRequests, Results, Sent

\* The parts of a request, by its phase and kind.
LEMMA RequestParts ==
    ASSUME CallsTyped, NEW c \in Calls
    PROVE  /\ call[c] = NoCall \/ call[c] \in SentRequests \/ call[c] \in Results
           /\ call[c].phase \in {"none", "sent", "answered"}
           /\ call[c] = NoCall <=> call[c].phase = "none"
           /\ call[c].phase = "sent" => call[c] \in SentRequests
           /\ call[c].phase = "answered" => call[c] \in Results
           /\ call[c] \in SentRequests =>
                /\ call[c].phase = "sent" /\ call[c].orphan \in BOOLEAN
                /\ call[c].kind = "finalize" => call[c].at \in 1..MaxTime
           /\ call[c] \in Results =>
                /\ call[c].phase = "answered"
                /\ call[c].kind \in Reads => call[c].result \in Statuses
BY DEF CallsTyped, Requests, SentRequests, Results, NoCall, Reads, Routes

\* Every action of the pages keeps the types.
LEMMA TypesKept ==
    ASSUME PlainTypes, CallsTyped, [Next]_vars
    PROVE  PlainTypes' /\ CallsTyped'
<1> USE PageBoundsAssumption
<1>1. ASSUME NEW c \in Calls, NEW target \in Routes, Navigate(c, target)
      PROVE  PlainTypes' /\ CallsTyped'
  <2>1. target \in Reads /\ OneCallChanges(c)
    BY <1>1, RequestFacts DEF Navigate, NavigateTo, Render, OneCallChanges, Reads
  <2> QED BY <1>1, <2>1, OneCallTyped
      DEF Navigate, NavigateTo, Render, Move, PlainTypes, serverVars, Routes, Statuses
<1>2. ASSUME NEW c \in Calls, RetryRender(c)
      PROVE  PlainTypes' /\ CallsTyped'
  <2>1. route \in Reads /\ OneCallChanges(c)
    BY <1>2, RequestFacts DEF RetryRender, Render, OneCallChanges, Reads, PlainTypes
  <2> QED BY <1>2, <2>1, OneCallTyped
      DEF RetryRender, Render, Move, PlainTypes, serverVars, Routes, Statuses
<1>3. ASSUME NEW c \in Calls, Reload(c)
      PROVE  PlainTypes' /\ CallsTyped'
  <2>1. Sent(route, 0) \in Requests
    BY RequestFacts DEF PlainTypes, Reads
  <2>2. ASSUME NEW x \in Calls, call[x].phase = "sent"
        PROVE  [call[x] EXCEPT !.orphan = TRUE] \in Requests
    BY <2>2, RequestParts DEF Requests, SentRequests
  <2>3. CallsTyped'
    BY <1>3, <2>1, <2>2, RequestFacts DEF Reload, CallsTyped
  <2> QED BY <1>3, <2>3
      DEF Reload, Move, PlainTypes, serverVars, NoPage, Routes, Statuses
<1>4. ASSUME NEW c \in Calls, ClickFinalize(c)
      PROVE  PlainTypes' /\ CallsTyped'
  <2>1. PICK at \in {clock, clock + 1} \cap (1..MaxTime) :
          clock' = at /\ Send(c, "finalize", at)
    BY <1>4 DEF ClickFinalize
  <2>2. OneCallChanges(c)
    BY <2>1, RequestFacts DEF Send, OneCallChanges
  <2> QED BY <1>4, <2>1, <2>2, OneCallTyped
      DEF ClickFinalize, PlainTypes, serverVars, pageVars
<1>5. ASSUME NEW c \in Calls, Tick(c)
      PROVE  PlainTypes' /\ CallsTyped'
  <2>1. OneCallChanges(c)
    BY <1>5, RequestFacts DEF Tick, Send, OneCallChanges, Reads
  <2> QED BY <1>5, <2>1, OneCallTyped
      DEF Tick, PlainTypes, serverVars, pageVars, countVars
<1>6. ASSUME NEW c \in Calls, Jump(c)
      PROVE  PlainTypes' /\ CallsTyped'
  <2>1. OneCallChanges(c)
    BY <1>6, RequestFacts DEF Jump, Render, OneCallChanges, Reads, Routes
  <2> QED BY <1>6, <2>1, OneCallTyped
      DEF Jump, Render, PlainTypes, serverVars, countVars, Routes
<1>7. ASSUME NEW c \in Calls, ServeSession(c)
      PROVE  PlainTypes' /\ CallsTyped'
  <2>1. Polled(status) \in Statuses
    BY DEF Polled, Statuses, PlainTypes
  <2>2. call[c].kind \in Reads
    BY <1>7 DEF ServeSession, Reads
  <2>3. OneCallChanges(c)
    BY <1>7, <2>1, <2>2, RequestFacts DEF ServeSession, Answer, OneCallChanges, CallsTyped
  <2> QED BY <1>7, <2>1, <2>3, OneCallTyped
      DEF ServeSession, PlainTypes, pageVars, countVars
<1>8. ASSUME NEW c \in Calls, ServeSummary(c)
      PROVE  PlainTypes' /\ CallsTyped'
  <2>1. OneCallChanges(c)
    BY <1>8, RequestFacts DEF ServeSummary, Answer, OneCallChanges, CallsTyped
  <2> QED BY <1>8, <2>1, OneCallTyped
      DEF ServeSummary, PlainTypes, serverVars, pageVars, countVars
<1>9. ASSUME NEW c \in Calls, ServeFinalize(c)
      PROVE  PlainTypes' /\ CallsTyped'
  <2>1. \E result \in {"OK", "SESSION_STATE_CONFLICT", "IDEMPOTENCY_KEY_REUSED"} :
          Answer(c, result)
    BY <1>9 DEF ServeFinalize
  <2>2. call[c].kind = "finalize"
    BY <1>9 DEF ServeFinalize
  <2>3. OneCallChanges(c)
    BY <2>1, <2>2, RequestFacts DEF Answer, OneCallChanges, CallsTyped
  <2>4. status' \in Statuses
    BY <1>9 DEF ServeFinalize, serverVars, PlainTypes, Statuses
  <2> QED BY <1>9, <2>3, <2>4, OneCallTyped
      DEF ServeFinalize, PlainTypes, pageVars, countVars
<1>10. ASSUME ServeEvaluation
       PROVE  PlainTypes' /\ CallsTyped'
  BY <1>10 DEF ServeEvaluation, PlainTypes, CallsTyped, pageVars, countVars, Statuses
<1>11. ASSUME NEW c \in Calls, Done(c)
       PROVE  CallsTyped'
  BY <1>11, OneCallTyped, RequestFacts DEF Done, OneCallChanges
<1>12. ASSUME NEW c \in Calls, Refreshed(c) \/ RefreshFails(c)
       PROVE  PlainTypes' /\ CallsTyped'
  <2>1. CallsTyped'
    BY <1>11, <1>12 DEF Refreshed, RefreshFails
  <2>2. intervals' \in Nat /\ jumps' \in 0..MaxJumps
    BY <1>12 DEF Refreshed, RefreshFails, OneMoreJump, PlainTypes
  <2> QED BY <1>12, <2>1, <2>2
      DEF Refreshed, RefreshFails, PlainTypes, serverVars, countVars
<1>13. ASSUME NEW c \in Calls, InterviewLoaded(c)
       PROVE  PlainTypes' /\ CallsTyped'
  <2>1. call[c].result \in Statuses
    BY <1>13, RequestParts DEF InterviewLoaded, Answered, Reads, Routes
  <2>2. CASE \E target \in Routes : NavigateTo(c, target)
    <3>1. PICK target \in Routes : NavigateTo(c, target)
      BY <2>2
    <3>2. OneCallChanges(c)
      BY <3>1, RequestFacts DEF NavigateTo, Render, OneCallChanges, Reads
    <3> QED BY <1>13, <3>1, <3>2, OneCallTyped
        DEF InterviewLoaded, NavigateTo, Render, PlainTypes, serverVars, countVars,
            Routes, Statuses
  <2>3. CASE /\ shown' = [page |-> "interview", status |-> call[c].result]
             /\ Done(c) /\ UNCHANGED <<route, intervals, jumps>>
    BY <1>11, <1>13, <2>1, <2>3 DEF InterviewLoaded, PlainTypes, serverVars, countVars, Routes
  <2> QED BY <1>13, <2>2, <2>3 DEF InterviewLoaded, Routes
<1>14. ASSUME NEW c \in Calls, FinishLoaded(c)
       PROVE  PlainTypes' /\ CallsTyped'
  <2>1. call[c].result \in Statuses
    BY <1>14, RequestParts DEF FinishLoaded, Answered, Reads, Routes
  <2>2. CASE NavigateTo(c, "launch")
    <3>2. OneCallChanges(c)
      BY <2>2, RequestFacts DEF NavigateTo, Render, OneCallChanges, Reads, Routes
    <3> QED BY <1>14, <2>2, <3>2, OneCallTyped
        DEF FinishLoaded, NavigateTo, Render, PlainTypes, serverVars, countVars,
            Routes, Statuses
  <2>3. CASE /\ shown' = [page |-> "finish", status |-> call[c].result]
             /\ Done(c) /\ UNCHANGED <<route, intervals, jumps>>
    BY <1>11, <1>14, <2>1, <2>3 DEF FinishLoaded, PlainTypes, serverVars, countVars, Routes
  <2>4. CASE call' = [call EXCEPT ![c] = Sent("summary", 0)] /\ UNCHANGED pageVars
    <3>1. OneCallChanges(c)
      BY <2>4, RequestFacts DEF OneCallChanges
    <3> QED BY <1>14, <2>4, <3>1, OneCallTyped
        DEF FinishLoaded, PlainTypes, serverVars, countVars, pageVars
  <2> QED BY <1>14, <2>2, <2>3, <2>4 DEF FinishLoaded
<1>15. ASSUME NEW c \in Calls, SummaryLoaded(c) \/ LoadFails(c)
       PROVE  PlainTypes' /\ CallsTyped'
  BY <1>11, <1>15
  DEF SummaryLoaded, LoadFails, ShowError, PlainTypes, serverVars, countVars, Routes, Statuses
<1>16. ASSUME NEW c \in Calls, FinalizeReturned(c)
       PROVE  PlainTypes' /\ CallsTyped'
  <2>1. CASE Render(c, route) /\ UNCHANGED <<route, jumps>>
    <3>1. OneCallChanges(c)
      BY <2>1, RequestFacts DEF Render, OneCallChanges, Reads, PlainTypes
    <3> QED BY <1>16, <2>1, <3>1, OneCallTyped
        DEF FinalizeReturned, Render, PlainTypes, serverVars, countVars, Routes, Statuses
  <2>2. CASE Done(c) /\ UNCHANGED pageVars
    BY <1>11, <1>16, <2>2 DEF FinalizeReturned, PlainTypes, serverVars, countVars, pageVars
  <2> QED BY <1>16, <2>1, <2>2 DEF FinalizeReturned
<1>17. ASSUME NEW c \in Calls, OrphanIsLost(c) \/ FinalizeFails(c)
       PROVE  PlainTypes' /\ CallsTyped'
  BY <1>11, <1>17
  DEF OrphanIsLost, FinalizeFails, Done, PlainTypes, serverVars, countVars, pageVars
<1>18. ASSUME UNCHANGED vars
       PROVE  PlainTypes' /\ CallsTyped'
  BY <1>18 DEF vars, PlainTypes, CallsTyped, serverVars, countVars, pageVars
<1> QED
  BY <1>1, <1>2, <1>3, <1>4, <1>5, <1>6, <1>7, <1>8, <1>9, <1>10, <1>12, <1>13, <1>14,
     <1>15, <1>16, <1>17, <1>18
  DEF Next, Candidate, Serve, Continue, Lose

-----------------------------------------------------------------------------
(* The intervals *)

\* What a step does to the opening launch pages and the intervals: a new page
\* stops them all, no page opens, or one of the pages that open starts its own.
IntervalStep ==
    \/ intervals' = 0
    \/ intervals' = intervals /\ Opening' \subseteq Opening
    \/ \E c \in Opening : intervals' = intervals + 1 /\ Opening' \subseteq Opening \ {c}

\* A request that changes opens a launch page only when it becomes the load of one.
LEMMA OpeningChange ==
    ASSUME CallsTyped, NEW c \in Calls, NEW request, call' = [call EXCEPT ![c] = request],
           \/ request = NoCall
           \/ request.kind # "launch"
           \/ c \in Opening
    PROVE  /\ Opening' \subseteq Opening
           /\ request = NoCall => Opening' \subseteq Opening \ {c}
BY DEF Opening, CallsTyped

\* Every action is one of the three.
LEMMA EveryStepIsAnIntervalStep ==
    ASSUME PlainTypes, CallsTyped, [Next]_vars
    PROVE  IntervalStep
<1> USE DEF IntervalStep
<1>1. ASSUME NEW c \in Calls, \/ \E target \in Routes : Navigate(c, target)
                              \/ RetryRender(c) \/ Reload(c) \/ Jump(c)
      PROVE  IntervalStep
  BY <1>1 DEF Navigate, NavigateTo, RetryRender, Reload, Jump, Render
<1>2. ASSUME NEW c \in Calls, ClickFinalize(c) \/ Tick(c)
      PROVE  IntervalStep
  <2>1. PICK kind \in {"finalize", "tick"}, at \in Nat : Send(c, kind, at)
    BY <1>2 DEF ClickFinalize, Tick
  <2>2. Sent(kind, at).kind # "launch"
    BY DEF Sent
  <2>3. Opening' \subseteq Opening
    BY <2>1, <2>2, OpeningChange DEF Send
  <2> QED BY <1>2, <2>3 DEF ClickFinalize, Tick, pageVars
<1>3. ASSUME NEW c \in Calls, Serve(c)
      PROVE  IntervalStep
  <2>1. PICK result : Answer(c, result)
    BY <1>3 DEF Serve, ServeSession, ServeSummary, ServeFinalize
  <2>2. PICK request : request = IF call[c].orphan THEN NoCall
                                 ELSE [phase |-> "answered", kind |-> call[c].kind,
                                       result |-> result]
    OBVIOUS
  <2>3. call' = [call EXCEPT ![c] = request]
    BY <2>1, <2>2 DEF Answer, CallsTyped
  <2>4. call[c].phase = "sent"
    BY <1>3 DEF Serve, ServeSession, ServeSummary, ServeFinalize
  <2>5. request = NoCall \/ request.kind # "launch" \/ c \in Opening
    BY <2>2, <2>4 DEF Opening, NoCall
  <2>6. Opening' \subseteq Opening
    BY <2>3, <2>5, OpeningChange
  <2>7. intervals' = intervals
    BY <1>3 DEF Serve, ServeSession, ServeSummary, ServeFinalize, pageVars
  <2> QED BY <2>6, <2>7
<1>4. ASSUME ServeEvaluation \/ UNCHANGED vars
      PROVE  IntervalStep
  BY <1>4 DEF ServeEvaluation, vars, pageVars, Opening
<1>5. ASSUME NEW c \in Calls, Done(c)
      PROVE  Opening' \subseteq Opening \ {c}
  BY <1>5, OpeningChange DEF Done
<1>6. ASSUME NEW c \in Calls, Refreshed(c) \/ RefreshFails(c)
      PROVE  IntervalStep
  <2>1. Opening' \subseteq Opening \ {c}
    BY <1>5, <1>6 DEF Refreshed, RefreshFails
  <2>2. CASE intervals' = intervals
    BY <2>1, <2>2
  <2>3. CASE intervals' # intervals
    <3>1. intervals' = intervals + 1 /\ call[c].kind = "launch"
      BY <1>6, <2>3 DEF Refreshed, RefreshFails, Answered
    <3>2. c \in Opening
      BY <1>6, <3>1 DEF Refreshed, RefreshFails, Fails, Answered, Opening, NoCall
    <3> QED BY <2>1, <3>1, <3>2
  <2> QED BY <2>2, <2>3
<1>7. ASSUME NEW c \in Calls,
             \/ InterviewLoaded(c) \/ FinishLoaded(c) \/ SummaryLoaded(c)
             \/ FinalizeReturned(c) \/ OrphanIsLost(c) \/ FinalizeFails(c) \/ LoadFails(c)
      PROVE  IntervalStep
  <2>1. \/ intervals' = 0
        \/ intervals' = intervals /\ Done(c)
        \/ intervals' = intervals /\ call' = [call EXCEPT ![c] = Sent("summary", 0)]
    BY <1>7
    DEF InterviewLoaded, FinishLoaded, SummaryLoaded, FinalizeReturned, OrphanIsLost,
        FinalizeFails, LoadFails, ShowError, NavigateTo, Render, Done, pageVars
  <2>2. Sent("summary", 0).kind # "launch"
    BY DEF Sent
  <2> QED BY <1>5, <2>1, <2>2, OpeningChange
<1> QED
  BY <1>1, <1>2, <1>3, <1>4, <1>6, <1>7 DEF Next, Candidate, Continue, Lose

\* The set of the opening pages is finite, and no larger than that of the requests.
LEMMA OpeningIsFinite ==
    IsFiniteSet(Opening) /\ Cardinality(Opening) \in Nat
    /\ Cardinality(Opening) <= Cardinality(Calls)
<1>1. Opening \in SUBSET Calls
  BY DEF Opening
<1> QED BY <1>1, CallsAssumption, FS_Subset, FS_CardinalityType

\* Each of the three keeps an interval or a place for it within the requests.
LEMMA IntervalsKept ==
    ASSUME PlainTypes, IntervalsAreOpened, IntervalStep
    PROVE  IntervalsAreOpened'
<1>1. Opening' \in SUBSET Calls
  BY DEF Opening
<1>2. Cardinality(Opening') <= Cardinality(Calls) /\ Cardinality(Opening') \in Nat
  BY <1>1, CallsAssumption, FS_Subset, FS_CardinalityType
<1>3. intervals \in Nat /\ Cardinality(Calls) \in Nat
  BY CallsAssumption, FS_CardinalityType DEF PlainTypes
<1>4. CASE intervals' = 0
  BY <1>2, <1>3, <1>4 DEF IntervalsAreOpened
<1>5. CASE intervals' = intervals /\ Opening' \subseteq Opening
  <2>1. Cardinality(Opening') <= Cardinality(Opening)
    BY <1>5, OpeningIsFinite, FS_Subset
  <2> QED BY <1>2, <1>3, <1>5, <2>1, OpeningIsFinite DEF IntervalsAreOpened
<1>6. ASSUME NEW c \in Opening, intervals' = intervals + 1, Opening' \subseteq Opening \ {c}
      PROVE  IntervalsAreOpened'
  <2>1. IsFiniteSet(Opening \ {c}) /\ Cardinality(Opening \ {c}) = Cardinality(Opening) - 1
    BY OpeningIsFinite, FS_RemoveElement
  <2>2. Cardinality(Opening') <= Cardinality(Opening \ {c})
    BY <1>6, <2>1, FS_Subset
  <2> QED BY <1>2, <1>3, <1>6, <2>1, <2>2, OpeningIsFinite DEF IntervalsAreOpened
<1> QED BY <1>4, <1>5, <1>6 DEF IntervalStep

-----------------------------------------------------------------------------
(* The record of finalize *)

\* Only finalize adds a record, and only a poll, finalize and the evaluation
\* change the status.
ServerStep ==
    \/ UNCHANGED <<status, records>>
    \/ status' = Polled(status) /\ UNCHANGED records
    \/ status = "submitted" /\ status' = "completed" /\ UNCHANGED records
    \/ /\ status \notin {"pending", "preparing"} /\ status' = "submitted"
       /\ \E at \in 1..MaxTime :
            /\ ~\E old \in records : old.key = 0
            /\ records' = records \cup {[key |-> 0, finalizedAt |-> at]}

LEMMA EveryStepIsAServerStep ==
    ASSUME CallsTyped, [Next]_vars
    PROVE  ServerStep
<1>1. ASSUME NEW c \in Calls, ServeFinalize(c)
      PROVE  ServerStep
  <2>1. call[c].at \in 1..MaxTime
    BY <1>1, RequestParts DEF ServeFinalize
  <2> QED BY <1>1, <2>1 DEF ServeFinalize, ServerStep, serverVars, FinalizeKey
<1>2. ASSUME NEW c \in Calls, Candidate(c) \/ Tick(c) \/ Jump(c)
      PROVE  ServerStep
  BY <1>2 DEF ServerStep, Candidate, Navigate, RetryRender, Reload, ClickFinalize,
              Tick, Jump, serverVars
<1>3. ASSUME NEW c \in Calls, Continue(c) \/ Lose(c)
      PROVE  ServerStep
  BY <1>3 DEF ServerStep, Continue, Lose, Refreshed, InterviewLoaded, FinishLoaded,
              SummaryLoaded, FinalizeReturned, OrphanIsLost, RefreshFails, FinalizeFails,
              LoadFails, ShowError, serverVars
<1>4. ASSUME NEW c \in Calls, ServeSession(c) \/ ServeSummary(c)
      PROVE  ServerStep
  BY <1>4 DEF ServerStep, ServeSession, ServeSummary, serverVars
<1>5. ASSUME ServeEvaluation \/ UNCHANGED vars
      PROVE  ServerStep
  BY <1>5 DEF ServerStep, ServeEvaluation, vars, serverVars
<1> QED BY <1>1, <1>2, <1>3, <1>4, <1>5 DEF Next, Serve

\* The key of the session admits the first finalize and no other.
LEMMA OneRecordKept ==
    ASSUME PlainTypes, OneRecord, RecordedIsSubmitted, ServerStep
    PROVE  OneRecord' /\ RecordedIsSubmitted'
<1>1. ASSUME records' = records,
             status' \in {"submitted", "completed"} <=> status \in {"submitted", "completed"}
      PROVE  OneRecord' /\ RecordedIsSubmitted'
  BY <1>1 DEF OneRecord, RecordedIsSubmitted
<1>2. ASSUME NEW at \in 1..MaxTime, status' = "submitted",
             ~\E old \in records : old.key = 0,
             records' = records \cup {[key |-> 0, finalizedAt |-> at]}
      PROVE  OneRecord' /\ RecordedIsSubmitted'
  <2>1. records = {}
    BY <1>2 DEF OneRecord
  <2> QED BY <1>2, <2>1 DEF OneRecord, RecordedIsSubmitted
<1>3. CASE \E at \in 1..MaxTime :
             /\ ~\E old \in records : old.key = 0
             /\ records' = records \cup {[key |-> 0, finalizedAt |-> at]}
             /\ status' = "submitted"
  BY <1>2, <1>3
<1>4. CASE UNCHANGED <<status, records>>
  BY <1>1, <1>4
<1>5. CASE status' = Polled(status) /\ UNCHANGED records
  BY <1>1, <1>5 DEF Polled
<1>6. CASE status = "submitted" /\ status' = "completed" /\ UNCHANGED records
  BY <1>1, <1>6
<1> QED BY <1>3, <1>4, <1>5, <1>6 DEF ServerStep

\* A poll, finalize and the evaluation take the session forward.
LEMMA StatusAdvances ==
    ASSUME PlainTypes, RecordedIsSubmitted, OneRecord, ServerStep
    PROVE  /\ Rank(status) <= Rank(status') /\ Rank(status) \in Nat /\ Rank(status') \in Nat
           /\ status = "completed" => status' = "completed"
<1>1. status \in {"pending", "preparing", "in_progress"} \/ records # {}
  BY DEF PlainTypes, Statuses, RecordedIsSubmitted
<1>2. records # {} => \E old \in records : old.key = 0
  BY DEF OneRecord
<1>3. \/ status' = status \/ status' = Polled(status)
      \/ status = "submitted" /\ status' = "completed"
      \/ status = "in_progress" /\ status' = "submitted"
  BY <1>1, <1>2 DEF ServerStep
<1>4. status \in Statuses
  BY DEF PlainTypes
<1>5. status = "completed" => status' = "completed"
  BY <1>3 DEF Polled
<1> QED BY <1>3, <1>4, <1>5 DEF Polled, Rank, Statuses

-----------------------------------------------------------------------------
(* What the pages show *)

\* A step shows nothing new, or a status that a result brought.
ShownStep ==
    \/ shown'.status \in {shown.status, "pending"}
    \/ \E c \in Calls : /\ call[c].phase = "answered" /\ call[c].kind \in Reads
                        /\ shown'.status = call[c].result
    \/ \E c \in Calls : /\ Answered(c, "summary") /\ call[c].result = "OK"
                        /\ shown'.status = "completed"

LEMMA EveryStepIsAShownStep ==
    ASSUME PlainTypes, [Next]_vars
    PROVE  ShownStep
<1> USE DEF ShownStep
<1>1. ASSUME NEW c \in Calls, Candidate(c) \/ Tick(c) \/ Jump(c)
      PROVE  ShownStep
  BY <1>1 DEF Candidate, Navigate, NavigateTo, RetryRender, Reload, Render, ClickFinalize,
              Tick, Jump, pageVars, NoPage
<1>2. ASSUME NEW c \in Calls, InterviewLoaded(c)
      PROVE  ShownStep
  BY <1>2 DEF InterviewLoaded, Answered, NavigateTo, Render, Reads, Routes
<1>3. ASSUME NEW c \in Calls, FinishLoaded(c)
      PROVE  ShownStep
  BY <1>3 DEF FinishLoaded, Answered, NavigateTo, Render, Reads, Routes, pageVars
<1>4. ASSUME NEW c \in Calls, SummaryLoaded(c)
      PROVE  ShownStep
  BY <1>4 DEF SummaryLoaded
<1>5. ASSUME NEW c \in Calls, Refreshed(c) \/ FinalizeReturned(c) \/ Lose(c) \/ Serve(c)
      PROVE  ShownStep
  BY <1>5 DEF Refreshed, FinalizeReturned, Render, Lose, OrphanIsLost, RefreshFails,
              FinalizeFails, LoadFails, ShowError, Serve, ServeSession, ServeSummary,
              ServeFinalize, pageVars
<1>6. ASSUME ServeEvaluation \/ UNCHANGED vars
      PROVE  ShownStep
  BY <1>6 DEF ServeEvaluation, vars, pageVars
<1> QED BY <1>1, <1>2, <1>3, <1>4, <1>5, <1>6 DEF Next, Continue

\* A step answers a request with the status it leaves, with a summary of a
\* completed session, or with what is no status.
ResultStep ==
    \A c \in Calls : call'[c].phase = "answered" =>
        \/ call'[c] = call[c]
        \/ call'[c].kind \in Reads /\ call'[c].result = status'
        \/ /\ call'[c].kind = "summary"
           /\ call'[c].result = IF status = "completed" THEN "OK" ELSE "SESSION_STATE_CONFLICT"
        \/ /\ call'[c].kind = "finalize"
           /\ call'[c].result \in {"OK", "SESSION_STATE_CONFLICT", "IDEMPOTENCY_KEY_REUSED"}

LEMMA EveryStepIsAResultStep ==
    ASSUME CallsTyped, [Next]_vars
    PROVE  ResultStep
<1>1. ASSUME NEW c \in Calls, NEW request, request.phase # "answered",
             call' = [call EXCEPT ![c] = request]
      PROVE  ResultStep
  BY <1>1 DEF ResultStep, CallsTyped
<1>2. NoCall.phase # "answered" /\ \A kind, at : Sent(kind, at).phase # "answered"
  BY DEF NoCall, Sent
<1>3. ASSUME NEW c \in Calls, \/ \E target \in Routes : Navigate(c, target)
                              \/ RetryRender(c) \/ ClickFinalize(c) \/ Tick(c) \/ Jump(c)
                              \/ Continue(c) \/ Lose(c)
      PROVE  ResultStep
  <2>1. \/ call' = [call EXCEPT ![c] = NoCall]
        \/ \E kind, at : call' = [call EXCEPT ![c] = Sent(kind, at)]
    BY <1>3 DEF Navigate, NavigateTo, RetryRender, ClickFinalize, Tick, Jump, Render, Send,
                Continue, Lose, Done, Refreshed, InterviewLoaded, FinishLoaded, SummaryLoaded,
                FinalizeReturned, OrphanIsLost, RefreshFails, FinalizeFails, LoadFails, ShowError
  <2> QED BY <1>1, <1>2, <2>1
<1>4. ASSUME NEW c \in Calls, Reload(c)
      PROVE  ResultStep
  <2>1. ASSUME NEW x \in Calls
        PROVE  call'[x].phase # "answered"
    <3>1. CASE x # c /\ call[x].phase = "sent"
      <4>1. call[x] \in SentRequests
        BY <3>1, RequestParts
      <4>2. call'[x] = [call[x] EXCEPT !.orphan = TRUE]
        BY <1>4, <3>1 DEF Reload
      <4> QED BY <4>1, <4>2 DEF SentRequests
    <3> QED BY <1>2, <1>4, <3>1 DEF Reload
  <2> QED BY <2>1 DEF ResultStep
<1>5. ASSUME NEW c \in Calls, NEW result, Answer(c, result),
             call[c].phase = "sent",
             \/ call[c].kind \in Reads /\ result = status'
             \/ /\ call[c].kind = "summary"
                /\ result = IF status = "completed" THEN "OK" ELSE "SESSION_STATE_CONFLICT"
             \/ /\ call[c].kind = "finalize"
                /\ result \in {"OK", "SESSION_STATE_CONFLICT", "IDEMPOTENCY_KEY_REUSED"}
      PROVE  ResultStep
  <2>1. \A x \in Calls : x # c => call'[x] = call[x]
    BY <1>5 DEF Answer, CallsTyped
  <2>2. \/ call'[c] = NoCall
        \/ call'[c] = [phase |-> "answered", kind |-> call[c].kind, result |-> result]
    BY <1>5 DEF Answer, CallsTyped
  <2> QED BY <1>2, <1>5, <2>1, <2>2 DEF ResultStep
<1>6. ASSUME NEW c \in Calls, ServeSession(c)
      PROVE  ResultStep
  BY <1>5, <1>6 DEF ServeSession, Reads
<1>7. ASSUME NEW c \in Calls, ServeSummary(c)
      PROVE  ResultStep
  BY <1>5, <1>7 DEF ServeSummary
<1>8. ASSUME NEW c \in Calls, ServeFinalize(c)
      PROVE  ResultStep
  <2>1. \E result \in {"OK", "SESSION_STATE_CONFLICT", "IDEMPOTENCY_KEY_REUSED"} :
          Answer(c, result)
    BY <1>8 DEF ServeFinalize
  <2> QED BY <1>5, <1>8, <2>1 DEF ServeFinalize
<1>9. ASSUME ServeEvaluation \/ UNCHANGED vars
      PROVE  ResultStep
  BY <1>9 DEF ServeEvaluation, vars, ResultStep
<1> QED BY <1>3, <1>4, <1>6, <1>7, <1>8, <1>9 DEF Next, Candidate, Serve

\* The ranks of the statuses, and of what is none.
LEMMA RankFacts ==
    /\ Rank("pending") = 0 /\ Rank("completed") = 4
    /\ \A s \in Statuses : Rank(s) \in 0..4
BY DEF Rank, Statuses

\* The pages stay behind the server.
LEMMA NeverAheadKept ==
    ASSUME PlainTypes, CallsTyped, OneRecord, RecordedIsSubmitted,
           PageIsNeverAhead, SummaryIsOfCompleted,
           ServerStep, ShownStep, ResultStep, PlainTypes', CallsTyped'
    PROVE  PageIsNeverAhead' /\ SummaryIsOfCompleted'
<1>1. /\ Rank(status) <= Rank(status') /\ Rank(status) \in Nat /\ Rank(status') \in Nat
      /\ status = "completed" => status' = "completed"
  BY StatusAdvances
<1>2. Rank(shown.status) \in 0..4 /\ Rank(shown'.status) \in 0..4
  BY RankFacts DEF PlainTypes
<1>3. Rank(shown'.status) <= Rank(status')
  <2>1. CASE shown'.status \in {shown.status, "pending"}
    BY <1>1, <1>2, <2>1, RankFacts DEF PageIsNeverAhead
  <2>2. ASSUME NEW c \in Calls, call[c].phase = "answered", call[c].kind \in Reads,
               shown'.status = call[c].result
        PROVE  Rank(shown'.status) <= Rank(status')
    <3>1. call[c].result \in Statuses
      BY <2>2, RequestParts
    <3> QED BY <1>1, <1>2, <2>2, <3>1 DEF PageIsNeverAhead
  <2>3. ASSUME NEW c \in Calls, Answered(c, "summary"), call[c].result = "OK",
               shown'.status = "completed"
        PROVE  Rank(shown'.status) <= Rank(status')
    <3>1. status' = "completed"
      BY <1>1, <2>3 DEF SummaryIsOfCompleted
    <3> QED BY <1>2, <2>3, <3>1
  <2> QED BY <2>1, <2>2, <2>3 DEF ShownStep
<1>4. ASSUME NEW c \in Calls, call'[c].phase = "answered", call'[c].result \in Statuses
      PROVE  Rank(call'[c].result) <= Rank(status')
  <2>1. CASE call'[c] = call[c]
    <3>1. Rank(call[c].result) <= Rank(status) /\ Rank(call[c].result) \in 0..4
      BY <1>4, <2>1, RankFacts DEF PageIsNeverAhead
    <3> QED BY <1>1, <2>1, <3>1
  <2>2. CASE call'[c].result = status'
    BY <1>1, <2>2
  <2>3. call'[c].result \notin {"OK", "SESSION_STATE_CONFLICT", "IDEMPOTENCY_KEY_REUSED"}
    BY <1>4 DEF Statuses
  <2> QED BY <1>4, <2>1, <2>2, <2>3 DEF ResultStep
<1>5. ASSUME NEW c \in Calls, call'[c].phase = "answered", call'[c].kind = "summary",
             call'[c].result = "OK"
      PROVE  status' = "completed"
  BY <1>1, <1>5 DEF ResultStep, SummaryIsOfCompleted, Answered, Reads, Routes
<1> QED BY <1>3, <1>4, <1>5 DEF PageIsNeverAhead, SummaryIsOfCompleted, Answered

-----------------------------------------------------------------------------
(* The theorems *)

\* A session just created satisfies the invariant: one launch page opens.
LEMMA InitPagesInv == Init => PagesInv
<1> SUFFICES ASSUME Init PROVE PagesInv
  OBVIOUS
<1>1. PICK opened \in Calls :
        call = [x \in Calls |-> IF x = opened THEN Sent("launch", 0) ELSE NoCall]
  BY DEF Init
<1>2. CallsTyped
  BY <1>1, RequestFacts DEF CallsTyped, Reads, Routes
<1>3. PlainTypes
  BY PageBoundsAssumption DEF Init, PlainTypes, Statuses, Routes
<1>4. IntervalsAreOpened
  BY OpeningIsFinite, CallsAssumption, FS_CardinalityType DEF Init, IntervalsAreOpened
<1>5. OneRecord /\ RecordedIsSubmitted
  BY DEF Init, OneRecord, RecordedIsSubmitted
<1>6. \A c \in Calls : call[c].phase # "answered"
  BY <1>1 DEF Sent, NoCall
<1>7. PageIsNeverAhead /\ SummaryIsOfCompleted
  BY <1>6, RankFacts DEF Init, PageIsNeverAhead, SummaryIsOfCompleted, Answered
<1> QED BY <1>2, <1>3, <1>4, <1>5, <1>7 DEF PagesInv

\* Every step keeps it.
LEMMA NextPagesInv == PagesInv /\ [Next]_vars => PagesInv'
<1> SUFFICES ASSUME PagesInv, [Next]_vars PROVE PagesInv'
  OBVIOUS
<1> USE DEF PagesInv
<1>1. PlainTypes' /\ CallsTyped'
  BY TypesKept
<1>2. IntervalsAreOpened'
  BY IntervalsKept, EveryStepIsAnIntervalStep
<1>3. ServerStep /\ ShownStep /\ ResultStep
  BY EveryStepIsAServerStep, EveryStepIsAShownStep, EveryStepIsAResultStep
<1>4. OneRecord' /\ RecordedIsSubmitted'
  BY <1>3, OneRecordKept
<1>5. PageIsNeverAhead' /\ SummaryIsOfCompleted'
  BY <1>1, <1>3, NeverAheadKept
<1> QED BY <1>1, <1>2, <1>4, <1>5

\* Every reachable state of the pages satisfies the invariant.
THEOREM PagesInvariant == Spec => []PagesInv
BY InitPagesInv, NextPagesInv, PTL DEF Spec

\* Every variable has its type; a launch page starts one interval at most, so
\* there are never more of them than requests may wait.
THEOREM PagesTypeCorrect == Spec => []TypeOK
<1>1. PagesInv => TypeOK
  <2> SUFFICES ASSUME PagesInv PROVE TypeOK
    OBVIOUS
  <2>1. intervals \in 0..Cardinality(Calls)
    BY OpeningIsFinite, CallsAssumption, FS_CardinalityType
    DEF PagesInv, PlainTypes, IntervalsAreOpened
  <2>2. records \subseteq [key : 0..MaxTime, finalizedAt : 1..MaxTime]
    BY PageBoundsAssumption DEF PagesInv, OneRecord
  <2>3. \A c \in Calls : call[c].phase \in {"none", "sent", "answered"}
    BY RequestParts DEF PagesInv
  <2> QED BY <2>1, <2>2, <2>3 DEF PagesInv, PlainTypes, TypeOK
<1> QED BY <1>1, PagesInvariant, PTL

\* However often the candidate clicks finalize, reloads and retries, and
\* however many requests are lost, the server records one finalize at most.
THEOREM PagesFinalizeOnceAlways == Spec => []PagesFinalizeOnce
<1>1. PagesInv => PagesFinalizeOnce
  <2> SUFFICES ASSUME PagesInv PROVE PagesFinalizeOnce
    OBVIOUS
  <2>1. CASE records = {}
    BY <2>1, FS_EmptySet DEF PagesFinalizeOnce
  <2>2. CASE records # {}
    <3>1. PICK record \in records : records = {record}
      BY <2>2 DEF PagesInv, OneRecord
    <3> QED BY <3>1, FS_Singleton DEF PagesFinalizeOnce
  <2> QED BY <2>1, <2>2
<1> QED BY <1>1, PagesInvariant, PTL

\* No page and no response on its way is ahead of the server, in whatever
\* order the loads of the pages, their timers and the server's steps overlap.
THEOREM PagesNeverAhead == Spec => []PageIsNeverAhead
<1>1. PagesInv => PageIsNeverAhead
  BY DEF PagesInv
<1> QED BY <1>1, PagesInvariant, PTL

\* The server side of the pages: a session moves forward only, and the first
\* finalize that was recorded stays the only one.
SessionAdvances ==
    [][/\ Rank(status) <= Rank(status')
       /\ records # {} => records' = records]_<<status, records>>

\* No click, retry, reload, late load or poll takes a session to an earlier
\* status, or replaces the finalize that was recorded (handleFinalize).
THEOREM PagesNeverTakeBack == Spec => SessionAdvances
<1>1. PagesInv /\ [Next]_vars =>
        [/\ Rank(status) <= Rank(status')
         /\ records # {} => records' = records]_<<status, records>>
  <2> SUFFICES ASSUME PagesInv, [Next]_vars
               PROVE  /\ Rank(status) <= Rank(status')
                      /\ records # {} => records' = records
    OBVIOUS
  <2>1. ServerStep
    BY EveryStepIsAServerStep DEF PagesInv
  <2>2. Rank(status) <= Rank(status')
    BY <2>1, StatusAdvances DEF PagesInv
  <2>3. records # {} => records' = records
    BY <2>1 DEF PagesInv, OneRecord, ServerStep
  <2> QED BY <2>2, <2>3
<1> QED BY <1>1, PagesInvariant, PTL DEF Spec, SessionAdvances
=============================================================================
