---------------------------- MODULE SessionPages ----------------------------
(***************************************************************************)
(* The way of a candidate through the launch, interview and finish pages   *)
(* of one session, frontend/public/app.js: the polling interval, the       *)
(* delayed jump to the interview, page loads that overlap, the finalize    *)
(* button and its retries, against the session on the server.  The answers *)
(* of the interview page are in InterviewPage.                             *)
(*                                                                         *)
(* An action is the code from one await, timer or event to the next.       *)
(***************************************************************************)
EXTENDS Naturals, FiniteSets

CONSTANTS
    Calls,      \* the requests of the page that may wait at one time
    MaxMoves,   \* bound: navigations of the candidate, retries and reloads
    MaxTime,    \* bound: milliseconds in which the finalize button is clicked
    MaxJumps    \* bound: waiting jumps, further ones are not counted

ASSUME CallsAssumption == IsFiniteSet(Calls)
ASSUME PageBoundsAssumption == MaxMoves \in Nat /\ MaxTime \in Nat /\ MaxJumps \in Nat

VARIABLES
    status,     \* server: of the session
    records,    \* server: the idempotency records of finalize
    route,      \* window.location
    shown,      \* the page in appElement and the status it was made from
    intervals,  \* running polling intervals, each with its cleanup task
    jumps,      \* running timeouts that navigate to the interview
    call,       \* the waiting requests
    moves,
    clock       \* the millisecond of the last click

serverVars == <<status, records>>
pageVars == <<route, shown, intervals, jumps>>
countVars == <<moves, clock>>
vars == <<serverVars, pageVars, call, countVars>>

-----------------------------------------------------------------------------

Routes == {"launch", "interview", "finish"}
Statuses == {"pending", "preparing", "in_progress", "submitted", "completed"}
NoCall == [phase |-> "none"]
NoPage == [page |-> "none", status |-> "pending"]

FinalizeKeyPerClick(at) == at  \* fault: the key is made from the time
\* The key is made from the session alone, the payload from the time as well.
FinalizeKey(at) == 0

\* handleGetSession; the poll count is a function of the status.
Polled(s) ==
    IF s = "pending" THEN "preparing" ELSE IF s = "preparing" THEN "in_progress" ELSE s

Sent(kind, at) == [phase |-> "sent", kind |-> kind, at |-> at, orphan |-> FALSE]
Send(c, kind, at) ==
    call[c] = NoCall /\ call' = [call EXCEPT ![c] = Sent(kind, at)]

RenderKeepingIntervals(c, target) ==  \* fault: no cleanup task
    /\ UNCHANGED intervals
    /\ shown' = IF target = "launch" THEN [page |-> "launch", status |-> "pending"] ELSE shown
    /\ call' = [call EXCEPT ![c] = Sent(target, 0)]

\* render(): the cleanup tasks stop the intervals; the launch page shows at
\* once, the others after their requests.
Render(c, target) ==
    /\ intervals' = 0
    /\ shown' = IF target = "launch" THEN [page |-> "launch", status |-> "pending"] ELSE shown
    /\ call' = [call EXCEPT ![c] = Sent(target, 0)]

NavigateTo(c, target) == route' = target /\ Render(c, target) /\ UNCHANGED jumps

-----------------------------------------------------------------------------
(* The candidate *)

Move == moves < MaxMoves /\ moves' = moves + 1 /\ UNCHANGED clock

\* A button that leads to another page, or the history of the browser.
Navigate(c, target) ==
    /\ Move
    /\ target # route /\ call[c] = NoCall
    /\ NavigateTo(c, target)
    /\ UNCHANGED serverVars

RetryRender(c) ==
    /\ Move
    /\ shown.page = "error" /\ call[c] = NoCall
    /\ Render(c, route)
    /\ UNCHANGED <<serverVars, route, jumps>>

\* A request already sent may still reach the server.
Reload(c) ==
    /\ Move
    /\ call[c].phase # "sent"
    /\ shown' = IF route = "launch" THEN [page |-> "launch", status |-> "pending"] ELSE NoPage
    /\ intervals' = 0 /\ jumps' = 0
    /\ call' = [x \in Calls |->
                  IF x = c THEN Sent(route, 0)
                  ELSE IF call[x].phase = "sent" THEN [call[x] EXCEPT !.orphan = TRUE]
                  ELSE NoCall]
    /\ UNCHANGED <<serverVars, route>>

\* The button is enabled on a page made from a session in progress, and stays so.
ClickFinalize(c) ==
    /\ shown = [page |-> "finish", status |-> "in_progress"]
    /\ \E at \in {clock, clock + 1} \cap (1..MaxTime) :
         clock' = at /\ Send(c, "finalize", at)
    /\ UNCHANGED <<serverVars, pageVars, moves>>

-----------------------------------------------------------------------------
(* Timers *)

\* The interval of the launch page polls again.
Tick(c) ==
    /\ intervals > 0
    /\ Send(c, "tick", 0)
    /\ UNCHANGED <<serverVars, pageVars, countVars>>

\* No cleanup task stops the jump: it navigates wherever the candidate is.
Jump(c) ==
    /\ jumps > 0 /\ call[c] = NoCall
    /\ jumps' = jumps - 1
    /\ route' = "interview"
    /\ Render(c, "interview")
    /\ UNCHANGED <<serverVars, countVars>>

-----------------------------------------------------------------------------
(* The server *)

Answer(c, result) ==
    call' = [call EXCEPT ![c] = IF @.orphan THEN NoCall
                                ELSE [phase |-> "answered", kind |-> @.kind, result |-> result]]

ServeSession(c) ==
    /\ call[c].phase = "sent" /\ call[c].kind \in Routes \cup {"tick"}
    /\ status' = Polled(status)
    /\ Answer(c, Polled(status))
    /\ UNCHANGED <<records, pageVars, countVars>>

ServeSummary(c) ==
    /\ call[c].phase = "sent" /\ call[c].kind = "summary"
    /\ Answer(c, IF status = "completed" THEN "OK" ELSE "SESSION_STATE_CONFLICT")
    /\ UNCHANGED <<serverVars, pageVars, countVars>>

ServeFinalize(c) ==
    LET key == FinalizeKey(call[c].at)
        record == [key |-> key, finalizedAt |-> call[c].at]
        early == status \in {"pending", "preparing"}
        taken == \E old \in records : old.key = key IN
    /\ call[c].phase = "sent" /\ call[c].kind = "finalize"
    /\ \/ /\ early \/ (taken /\ record \notin records)
          /\ Answer(c, IF early THEN "SESSION_STATE_CONFLICT" ELSE "IDEMPOTENCY_KEY_REUSED")
          /\ UNCHANGED serverVars
       \/ /\ ~early /\ record \in records
          /\ Answer(c, "OK") /\ UNCHANGED serverVars
       \/ /\ ~early /\ ~taken
          /\ records' = records \cup {record} /\ status' = "submitted"
          /\ Answer(c, "OK")
    /\ UNCHANGED <<pageVars, countVars>>

\* The interviewer's evaluation of a submitted session.
ServeEvaluation ==
    /\ status = "submitted" /\ status' = "completed"
    /\ UNCHANGED <<records, pageVars, call, countVars>>

OrphanIsLost(c) ==
    /\ call[c].phase = "sent" /\ call[c].orphan
    /\ call' = [call EXCEPT ![c] = NoCall]
    /\ UNCHANGED <<serverVars, pageVars, countVars>>

-----------------------------------------------------------------------------
(* Continuations *)

Done(c) == call' = [call EXCEPT ![c] = NoCall]
Answered(c, kind) == call[c].phase = "answered" /\ call[c].kind = kind

OneMoreJump == IF jumps < MaxJumps THEN jumps + 1 ELSE jumps

RefreshedOnce(c) ==  \* fault: renderLaunch does not start its interval
    /\ \/ Answered(c, "launch") \/ Answered(c, "tick")
    /\ jumps' = IF call[c].result = "in_progress" THEN OneMoreJump ELSE jumps
    /\ Done(c)
    /\ UNCHANGED <<serverVars, route, shown, intervals, countVars>>

\* refreshStatus: a started session is left for the interview in 600 ms.  The
\* first refresh of renderLaunch goes on to start the interval.
Refreshed(c) ==
    /\ \/ Answered(c, "launch") /\ intervals' = intervals + 1
       \/ Answered(c, "tick") /\ UNCHANGED intervals
    /\ jumps' = IF call[c].result = "in_progress" THEN OneMoreJump ELSE jumps
    /\ Done(c)
    /\ UNCHANGED <<serverVars, route, shown, countVars>>

InterviewLoaded(c) ==
    LET s == call[c].result IN
    /\ Answered(c, "interview")
    /\ \/ /\ s \in {"submitted", "completed"} /\ NavigateTo(c, "finish")
       \/ /\ s = "in_progress"
          /\ shown' = [page |-> "interview", status |-> s]
          /\ Done(c) /\ UNCHANGED <<route, intervals, jumps>>
       \/ /\ s \in {"pending", "preparing"} /\ NavigateTo(c, "launch")
    /\ UNCHANGED <<serverVars, countVars>>

\* The summary of an overlapping load may be shown with the session of this one
\* (state.resultSummary is shared); what the page offers goes by the session.
FinishLoaded(c) ==
    LET s == call[c].result IN
    /\ Answered(c, "finish")
    /\ \/ /\ s \in {"pending", "preparing"} /\ NavigateTo(c, "launch")
       \/ /\ s \in {"in_progress", "submitted"}
          /\ shown' = [page |-> "finish", status |-> s]
          /\ Done(c) /\ UNCHANGED <<route, intervals, jumps>>
       \/ /\ s = "completed"
          /\ call' = [call EXCEPT ![c] = Sent("summary", 0)]
          /\ UNCHANGED pageVars
    /\ UNCHANGED <<serverVars, countVars>>

ShowError(c) ==
    /\ shown' = [page |-> "error", status |-> "pending"]
    /\ Done(c)
    /\ UNCHANGED <<serverVars, route, intervals, jumps, countVars>>

SummaryLoaded(c) ==
    /\ Answered(c, "summary")
    /\ shown' = IF call[c].result = "OK" THEN [page |-> "finish", status |-> "completed"]
                ELSE [page |-> "error", status |-> "pending"]
    /\ Done(c)
    /\ UNCHANGED <<serverVars, route, intervals, jumps, countVars>>

FinalizeReturned(c) ==
    /\ Answered(c, "finalize")
    /\ \/ call[c].result = "OK" /\ Render(c, route) /\ UNCHANGED <<route, jumps>>
       \/ call[c].result # "OK" /\ Done(c) /\ UNCHANGED pageVars
    /\ UNCHANGED <<serverVars, countVars>>

\* The request or its response is lost.  refreshStatus shows the message, the
\* finalize button alerts, the others end in the error page.
Fails(c) == call[c] # NoCall /\ (call[c].phase = "sent" => ~call[c].orphan)

RefreshFails(c) ==
    /\ Fails(c)
    /\ \/ call[c].kind = "launch" /\ intervals' = intervals + 1
       \/ call[c].kind = "tick" /\ UNCHANGED intervals
    /\ Done(c)
    /\ UNCHANGED <<serverVars, route, shown, jumps, countVars>>

FinalizeFails(c) ==
    /\ Fails(c) /\ call[c].kind = "finalize"
    /\ Done(c)
    /\ UNCHANGED <<serverVars, pageVars, countVars>>

LoadFails(c) ==
    Fails(c) /\ call[c].kind \in {"interview", "finish", "summary"} /\ ShowError(c)

-----------------------------------------------------------------------------

\* A session just created, whose launch page is being opened.
Init ==
    /\ status = "pending" /\ records = {}
    /\ route = "launch" /\ shown = [page |-> "launch", status |-> "pending"]
    /\ intervals = 0 /\ jumps = 0
    /\ \E c \in Calls : call = [x \in Calls |-> IF x = c THEN Sent("launch", 0) ELSE NoCall]
    /\ moves = 0 /\ clock = 0

Candidate(c) ==
    \/ \E target \in Routes : Navigate(c, target)
    \/ RetryRender(c)
    \/ Reload(c)
    \/ ClickFinalize(c)

Serve(c) == ServeSession(c) \/ ServeSummary(c) \/ ServeFinalize(c)

Continue(c) ==
    \/ Refreshed(c)
    \/ InterviewLoaded(c) \/ FinishLoaded(c)
    \/ SummaryLoaded(c)
    \/ FinalizeReturned(c)

Lose(c) == OrphanIsLost(c) \/ RefreshFails(c) \/ FinalizeFails(c) \/ LoadFails(c)

Next ==
    \/ \E c \in Calls :
         Candidate(c) \/ Tick(c) \/ Jump(c) \/ Serve(c) \/ Continue(c) \/ Lose(c)
    \/ ServeEvaluation

Spec == Init /\ [][Next]_vars

\* Timers fire and callbacks run; a network that fails again and again still
\* lets requests through again and again.  The candidate and the interviewer
\* need not do anything.
Fairness ==
    \A c \in Calls :
        /\ SF_vars(Tick(c)) /\ SF_vars(Jump(c))
        /\ SF_vars(Serve(c)) /\ SF_vars(Continue(c))

FairSpec == Spec /\ Fairness

-----------------------------------------------------------------------------
(* Properties *)

\* Every variable has its type.
TypeOK ==
    /\ status \in Statuses
    /\ records \subseteq [key : 0..MaxTime, finalizedAt : 1..MaxTime]
    /\ route \in Routes
    /\ shown \in [page : {"none", "error"} \cup Routes, status : Statuses]
    /\ intervals \in 0..Cardinality(Calls) /\ jumps \in 0..MaxJumps
    /\ \A c \in Calls : call[c].phase \in {"none", "sent", "answered"}
    /\ moves \in 0..MaxMoves /\ clock \in 0..MaxTime

\* However often the candidate clicks, reloads and retries after a lost
\* response, the pages finalize the session at most once.
PagesFinalizeOnce == Cardinality(records) <= 1

Rank(s) ==
    CASE s = "pending" -> 0 [] s = "preparing" -> 1 [] s = "in_progress" -> 2
      [] s = "submitted" -> 3 [] s = "completed" -> 4

\* No page shows, and no response on its way says, more than has happened on
\* the server: the pages never take a session back.
PageIsNeverAhead ==
    /\ Rank(shown.status) <= Rank(status)
    /\ \A c \in Calls : (call[c].phase = "answered" /\ call[c].result \in Statuses) =>
         Rank(call[c].result) <= Rank(status)

\* A launch page whose session is not yet submitted is left for the interview.
LaunchIsLeft ==
    (route = "launch" /\ Rank(status) <= 2) ~> (route # "launch" \/ Rank(status) > 2)

\* "The first attempt fails, a click on retry succeeds" (CLOA-47 10.3): no
\* finalize of the page is refused for its key.
RetryOfFinalizeSucceeds ==
    \A c \in Calls : Answered(c, "finalize") => call[c].result # "IDEMPOTENCY_KEY_REUSED"
=============================================================================
