-------------------------- MODULE PlatformConsole --------------------------
(***************************************************************************)
(* The platform console of the browser, frontend/public/app.js: overview,  *)
(* runs, run detail and alerts against a platform API that answers late,   *)
(* is not there yet (the answers that switch to the mock store) or fails;  *)
(* the response cache, the label of the mode and the ACK of an alert; and  *)
(* the home page that creates a session.  The pages of a session are in    *)
(* SessionPages and InterviewPage.                                         *)
(*                                                                         *)
(* An action is the code from one await, timer or event to the next.  The  *)
(* API is not part of the repository: it is what the page takes it for.    *)
(***************************************************************************)
EXTENDS PlatformQuery

CONSTANTS
    Calls,       \* bound: slots for the requests that wait at one time, numbers
    Items,       \* the rows of each store ("api", "mock") and list view
    MockStatus,  \* the alerts of the mock store and their status when the page loads
    Typed,       \* the locations the user types
    Filters,     \* the parameters a submitted filter form has, of each list view
    CanAckAlert, \* the permission
    TTL,         \* the ticks of the clock a response stays in the cache
    MaxMoves     \* bound: what the user does

ASSUME ConsoleBoundsAssumption ==
    /\ Calls \subseteq Nat /\ Calls # {}
    /\ TTL \in Nat \ {0} /\ MaxMoves \in Nat

ASSUME MockAssumption == MockStatus \in [DOMAIN MockStatus -> {"open", "acked"}]

ASSUME LocationsAssumption ==
    /\ ListViews = {"runs", "alerts"}
    /\ \A loc \in Typed :
         /\ loc.view \in {"runs", "alerts", "home", "overview", "detail"}
         /\ loc.view \in ListViews => IsRaw(loc.params)
    /\ \A view \in ListViews : \A raw \in Filters[view] : IsRaw(raw)

\* An id names one row of its list.
ASSUME ItemsAssumption ==
    \A source \in {"api", "mock"}, view \in ListViews :
        LET items == Items[source][view] IN
        /\ items \in Seq({items[i] : i \in DOMAIN items})
        /\ \A i, j \in DOMAIN items : items[i].id = items[j].id => i = j

VARIABLES
    api,         \* the status of the alerts of the API
    sessions,    \* how many sessions the interview API has created
    mock,        \* platformMockStore: the status of its alerts
    location,    \* window.location: the view, its parameters, platformMock as typed
    first,       \* the location the document was loaded with
    mode,        \* state.platformMode
    cache,       \* platformResponseCache, a function from the keys it has
    call,        \* the waiting requests
    shown,       \* the page in appElement
    acked,       \* history: the alerts whose ACK the API has confirmed
    sinceMock,   \* history: ticks since a load fell back to the mock store
    moves

vars == <<api, sessions, mock, location, first, mode, cache, call, shown, acked, sinceMock, moves>>

-----------------------------------------------------------------------------

\* The page does not tell resolved alerts from acked ones.
Statuses == {"open", "acked"}
Ids(source, view) == {Items[source][view][i].id : i \in DOMAIN Items[source][view]}

\* getPlatformMockOverride
Override(loc) ==
    CASE loc.mock \in {"1", "on", "true"} -> "on"
      [] loc.mock \in {"0", "off", "false"} -> "off"
      [] OTHER -> "none"

\* The home page and the pages of a session ask the platform nothing.
InConsole(loc) == loc.view \notin {"home", "session"}

\* The location a button leads to: platformMock is not carried over.
At(view, params) == [view |-> view, params |-> params, mock |-> Absent]
Menu == {At(view, <<>>) : view \in {"home", "overview", "runs", "alerts"}}

\* What a response is asked for and cached under.
Key(loc) ==
    [view |-> loc.view,
     arg |-> IF loc.view \in ListViews THEN NormalizeQuery(loc.view, loc.params) ELSE loc.params]

Value(source, view, status) ==
    [source |-> source, status |-> IF view = "alerts" THEN status ELSE <<>>]

\* The mock resolver throws for a run it does not know.
MockKnows(key) == key.view = "detail" => key.arg \in Ids("mock", "runs")

Shown(key, value, label, hit, late, superseded) ==
    [page |-> "shown", key |-> key, value |-> value, label |-> label, hit |-> hit,
     late |-> late, superseded |-> superseded, acking |-> {}]
Failed(key, superseded) == [page |-> "failed", key |-> key, superseded |-> superseded]

MockPage(key, store, superseded) ==
    IF MockKnows(key)
    THEN Shown(key, Value("mock", key.view, store), "mock", FALSE, FALSE, superseded)
    ELSE Failed(key, superseded)

NoCall == [kind |-> "none"]
\* The slots have no meaning of their own: a request takes the first free one.
FirstSlot(c) == \A d \in Calls : c <= d
FirstFree(c) == call[c] = NoCall /\ \A d \in Calls : d < c => call[d] # NoCall
Load(key) ==
    [kind |-> "load", outcome |-> "none", key |-> key, value |-> <<>>,
     late |-> FALSE, superseded |-> FALSE]

\* clearPlatformCache while a load waits, a newer render while a load waits.
Late(calls) ==
    [c \in Calls |-> IF calls[c].kind = "load" THEN [calls[c] EXCEPT !.late = TRUE] ELSE calls[c]]
Superseded(calls) ==
    [c \in Calls |-> IF calls[c].kind = "load" THEN [calls[c] EXCEPT !.superseded = TRUE] ELSE calls[c]]

-----------------------------------------------------------------------------
(* render() *)

HitWhenStored(cached, key) == key \in DOMAIN cached  \* fault: no expiry
\* withPlatformCache: expireAt lies after the present.
Hit(cached, key) == key \in DOMAIN cached /\ cached[key].left > 0

\* What a render shows before its first await has come back.
PageAtOnce(loc, cached, store, label) ==
    LET key == Key(loc) IN
    CASE loc.view = "home" -> [page |-> "home", key |-> key, creating |-> {}]
      [] loc.view = "session" -> [page |-> "session", key |-> key]
      [] InConsole(loc) /\ Override(loc) = "on" -> MockPage(key, store, FALSE)
      [] InConsole(loc) /\ Override(loc) # "on" /\ Hit(cached, key) ->
           Shown(key, cached[key].value, label, TRUE, cached[key].late, FALSE)
      [] OTHER -> [page |-> "loading", key |-> key]

\* c is the free call of the render, or the call whose continuation renders.
Render(c, loc, calls, cached, store, label) ==
    LET page == PageAtOnce(loc, cached, store, label) IN
    /\ location' = loc
    /\ cache' = cached
    /\ mode' = IF InConsole(loc) /\ Override(loc) = "on" THEN "mock" ELSE label
    /\ shown' = page
    /\ call' = [Superseded(calls) EXCEPT ![c] =
                  IF page.page = "loading" THEN Load(Key(loc)) ELSE NoCall]

-----------------------------------------------------------------------------
(* The user *)

Move == moves < MaxMoves /\ moves' = moves + 1

\* Previous and next page, enabled within the range of the pager.
PagerQueries(key, total) ==
    {[key.arg EXCEPT !.page = SafePage(total, key.arg) + step] :
       step \in {d \in {-1, 1} : SafePage(total, key.arg) + d \in 1..TotalPages(total, key.arg)}}

\* The items and the total of a list page; the API filters as the mock does.
Rows(page) == ApplyFilter(page.key.view, Items[page.value.source][page.key.view], page.key.arg)

\* The queries the page asks for are normalised and written to the URL.
ListAt(view, raw) == At(view, BuildQueryString(NormalizeQuery(view, raw)))

FormTargets(view) == {ListAt(view, raw) : raw \in Filters[view]}
PagerTargets(page) ==
    {ListAt(page.key.view, query) : query \in PagerQueries(page.key, Rows(page).total)}
RowTargets(page) ==
    {At("detail", run) : run \in
       {Rows(page).items[i].run : i \in DOMAIN Rows(page).items} \ {Absent}}

\* Where the buttons of the page lead; a page that loads offers its own URL.
Targets(page) ==
    CASE page.page = "home" -> {At("overview", <<>>)}
      [] page.page = "session" -> {}
      [] page.page = "loading" -> Menu \cup {location}
      [] page.page = "shown" /\ page.key.view \in ListViews ->
           Menu \cup FormTargets(page.key.view) \cup PagerTargets(page) \cup RowTargets(page)
      [] page.page = "failed" /\ page.key.view \in ListViews ->
           Menu \cup {ListAt(page.key.view, page.key.arg)}
      [] OTHER -> Menu

Navigate(c, loc) ==
    /\ Move
    /\ FirstFree(c)
    /\ loc \in Targets(shown)
    /\ Render(c, loc, call, cache, mock, mode)
    /\ UNCHANGED <<api, sessions, mock, first, acked, sinceMock>>

BackSilently(c) ==  \* fault: popstate is not listened to
    /\ Move
    /\ FirstFree(c)
    /\ location' = first
    /\ UNCHANGED <<api, sessions, mock, first, mode, cache, call, shown, acked, sinceMock>>

\* The history of the browser, back to the location of the document.
Back(c) ==
    /\ Move
    /\ FirstFree(c)
    /\ Render(c, first, call, cache, mock, mode)
    /\ UNCHANGED <<api, sessions, mock, first, acked, sinceMock>>

\* The button of an open alert; disabled while its request waits.  Under
\* platformMock=on the mock store answers at once, or throws for an alert of
\* the API that a late load brought.
ClickAck(c, alert) ==
    /\ Move
    /\ CanAckAlert /\ FirstFree(c)
    /\ shown.page = "shown" /\ shown.key.view = "alerts"
    /\ \E i \in DOMAIN Rows(shown).items : Rows(shown).items[i].id = alert
    /\ shown.value.status[alert] = "open"
    /\ \A x \in shown.acking : call[x].alert # alert
    /\ \/ /\ Override(location) = "on"
          /\ IF alert \in DOMAIN mock
             THEN /\ mock' = [mock EXCEPT ![alert] = IF @ = "open" THEN "acked" ELSE @]
                  /\ Render(c, location, Late(call), <<>>, mock', "mock")
             ELSE mode' = "mock" /\ UNCHANGED <<mock, location, cache, call, shown>>
       \/ /\ Override(location) # "on"
          /\ call' = [call EXCEPT ![c] = [kind |-> "ack", outcome |-> "none", alert |-> alert]]
          /\ shown' = [shown EXCEPT !.acking = @ \cup {c}]
          /\ UNCHANGED <<mock, location, mode, cache>>
    /\ UNCHANGED <<api, sessions, first, acked, sinceMock>>

\* The button is disabled while its request waits.
ClickCreate(c) ==
    /\ Move
    /\ FirstFree(c)
    /\ shown.page = "home" /\ shown.creating = {}
    /\ call' = [call EXCEPT ![c] = [kind |-> "create", outcome |-> "none", session |-> 0]]
    /\ shown' = [shown EXCEPT !.creating = {c}]
    /\ UNCHANGED <<api, sessions, mock, location, first, mode, cache, acked, sinceMock>>

-----------------------------------------------------------------------------
(* The APIs and the clock *)

Sent(c, kind) == call[c].kind = kind /\ call[c].outcome = "none"

\* The API is taken to filter and to cut pages as the mock store does.
\* Unavailable are 404, 501 and 503; an error is any other, or a lost message.
ServeLoad(c) ==
    /\ Sent(c, "load")
    /\ \/ call' = [call EXCEPT ![c].outcome = "ok",
                              ![c].value = Value("api", call[c].key.view, api)]
       \/ \E outcome \in {"unavailable", "error"} : call' = [call EXCEPT ![c].outcome = outcome]
    /\ UNCHANGED <<api, sessions, mock, location, first, mode, cache, shown, acked, sinceMock, moves>>

\* The API does not know the alerts of the mock store; an ACK may have its
\* effect and its answer be lost.
ServeAck(c) ==
    /\ Sent(c, "ack")
    /\ \/ /\ call[c].alert \in DOMAIN api
          /\ api' = [api EXCEPT ![call[c].alert] = IF @ = "open" THEN "acked" ELSE @]
          /\ \E outcome \in {"ok", "error"} : call' = [call EXCEPT ![c].outcome = outcome]
       \/ /\ UNCHANGED api
          /\ \E outcome \in {"unavailable", "error"} : call' = [call EXCEPT ![c].outcome = outcome]
    /\ UNCHANGED <<sessions, mock, location, first, mode, cache, shown, acked, sinceMock, moves>>

\* Every request that arrives creates a session: there is no idempotency key.
ServeCreate(c) ==
    /\ Sent(c, "create")
    /\ \/ /\ sessions' = sessions + 1
          /\ \E outcome \in {"ok", "error"} :
               call' = [call EXCEPT ![c].outcome = outcome, ![c].session = sessions']
       \/ call' = [call EXCEPT ![c].outcome = "error"] /\ UNCHANGED sessions
    /\ UNCHANGED <<api, mock, location, first, mode, cache, shown, acked, sinceMock, moves>>

\* Another user acknowledges the alert.
Progress(alert) ==
    /\ api[alert] = "open" /\ api' = [api EXCEPT ![alert] = "acked"]
    /\ UNCHANGED <<sessions, mock, location, first, mode, cache, call, shown, acked, sinceMock, moves>>

Tick ==
    /\ \E key \in DOMAIN cache : cache[key].left > 0
    /\ cache' = [key \in DOMAIN cache |->
                   [cache[key] EXCEPT !.left = IF @ > 0 THEN @ - 1 ELSE 0]]
    /\ sinceMock' = AtMost(TTL, sinceMock + 1)
    /\ UNCHANGED <<api, sessions, mock, location, first, mode, call, shown, acked, moves>>

-----------------------------------------------------------------------------
(* Continuations *)

Answered(c, kind) == call[c].kind = kind /\ call[c].outcome # "none"

\* shouldUsePlatformMockFallback, by the location at the time of the answer.
FallsBack(c) ==
    IF Override(location) # "none" THEN Override(location) = "on"
    ELSE call[c].outcome = "unavailable"

Store(c, value) ==
    cache' = [key \in DOMAIN cache \cup {call[c].key} |->
                IF key = call[c].key
                THEN [value |-> value, left |-> TTL, late |-> call[c].late]
                ELSE cache[key]]

\* The response is cached and shown, wherever the user is by now.
LoadReturns(c) ==
    LET load == call[c] IN
    /\ Answered(c, "load") /\ load.outcome = "ok"
    /\ mode' = "api"
    /\ Store(c, load.value)
    /\ shown' = Shown(load.key, load.value, "api", FALSE, load.late, load.superseded)
    /\ call' = [call EXCEPT ![c] = NoCall]
    /\ UNCHANGED <<api, sessions, mock, location, first, acked, sinceMock, moves>>

LoadFallsBackSilently(c) ==  \* fault: the mode is not set
    LET load == call[c] IN
    /\ Answered(c, "load") /\ load.outcome # "ok" /\ FallsBack(c)
    /\ IF MockKnows(load.key) THEN Store(c, Value("mock", load.key.view, mock)) ELSE UNCHANGED cache
    /\ shown' = IF MockKnows(load.key)
                THEN [MockPage(load.key, mock, load.superseded) EXCEPT !.label = mode]
                ELSE Failed(load.key, load.superseded)
    /\ sinceMock' = 0
    /\ call' = [call EXCEPT ![c] = NoCall]
    /\ UNCHANGED <<api, sessions, mock, location, first, mode, acked, moves>>

\* The answer of the mock store is cached as the answer of the API is.
LoadFallsBack(c) ==
    LET load == call[c] IN
    /\ Answered(c, "load") /\ load.outcome # "ok" /\ FallsBack(c)
    /\ mode' = "mock"
    /\ IF MockKnows(load.key) THEN Store(c, Value("mock", load.key.view, mock)) ELSE UNCHANGED cache
    /\ shown' = MockPage(load.key, mock, load.superseded)
    /\ sinceMock' = 0
    /\ call' = [call EXCEPT ![c] = NoCall]
    /\ UNCHANGED <<api, sessions, mock, location, first, acked, moves>>

LoadFailsSilently(c) ==  \* fault: no failure page
    /\ Answered(c, "load") /\ call[c].outcome # "ok" /\ ~FallsBack(c)
    /\ call' = [call EXCEPT ![c] = NoCall]
    /\ UNCHANGED <<api, sessions, mock, location, first, mode, cache, shown, acked, sinceMock, moves>>

LoadFails(c) ==
    /\ Answered(c, "load") /\ call[c].outcome # "ok" /\ ~FallsBack(c)
    /\ shown' = Failed(call[c].key, call[c].superseded)
    /\ call' = [call EXCEPT ![c] = NoCall]
    /\ UNCHANGED <<api, sessions, mock, location, first, mode, cache, acked, sinceMock, moves>>

AckReturnsKeepingCache(c) ==  \* fault: the cache is not cleared
    /\ Answered(c, "ack") /\ call[c].outcome = "ok"
    /\ acked' = acked \cup {call[c].alert}
    /\ Render(c, location, Late(call), cache, mock, "api")
    /\ UNCHANGED <<api, sessions, mock, first, sinceMock, moves>>

\* A successful ACK clears the cache and renders the page of the location.
AckReturns(c) ==
    /\ Answered(c, "ack") /\ call[c].outcome = "ok"
    /\ acked' = acked \cup {call[c].alert}
    /\ Render(c, location, Late(call), <<>>, mock, "api")
    /\ UNCHANGED <<api, sessions, mock, first, sinceMock, moves>>

AckFallsBack(c) ==
    /\ Answered(c, "ack") /\ call[c].outcome # "ok" /\ FallsBack(c)
    /\ call[c].alert \in DOMAIN mock
    /\ mock' = [mock EXCEPT ![call[c].alert] = IF @ = "open" THEN "acked" ELSE @]
    /\ Render(c, location, Late(call), <<>>, mock', "mock")
    /\ UNCHANGED <<api, sessions, first, acked, sinceMock, moves>>

\* The message is shown and the button, if it is still there, enabled again.
AckFails(c) ==
    /\ Answered(c, "ack") /\ call[c].outcome # "ok"
    /\ \/ ~FallsBack(c) /\ UNCHANGED mode
       \/ FallsBack(c) /\ call[c].alert \notin DOMAIN mock /\ mode' = "mock"
    /\ shown' = IF shown.page = "shown" THEN [shown EXCEPT !.acking = @ \ {c}] ELSE shown
    /\ call' = [call EXCEPT ![c] = NoCall]
    /\ UNCHANGED <<api, sessions, mock, location, first, cache, acked, sinceMock, moves>>

\* The new session's launch page, wherever the user is by now.  What happens
\* there, its loads and its delayed jump, is in SessionPages.
CreateReturns(c) ==
    /\ Answered(c, "create") /\ call[c].outcome = "ok"
    /\ Render(c, At("session", call[c].session), call, cache, mock, mode)
    /\ UNCHANGED <<api, sessions, mock, first, acked, sinceMock, moves>>

CreateFails(c) ==
    /\ Answered(c, "create") /\ call[c].outcome # "ok"
    /\ shown' = IF shown.page = "home" THEN [shown EXCEPT !.creating = @ \ {c}] ELSE shown
    /\ call' = [call EXCEPT ![c] = NoCall]
    /\ UNCHANGED <<api, sessions, mock, location, first, mode, cache, acked, sinceMock, moves>>

-----------------------------------------------------------------------------

\* A document just loaded at a typed location; a reload is a new behaviour.
Init ==
    /\ api = [alert \in Ids("api", "alerts") |-> "open"] /\ sessions = 0
    /\ mock = MockStatus
    /\ location \in Typed /\ first = location
    /\ mode = IF InConsole(location) /\ Override(location) = "on" THEN "mock" ELSE "api"
    /\ cache = <<>> /\ acked = {} /\ sinceMock = TTL /\ moves = 0
    /\ shown = PageAtOnce(location, <<>>, MockStatus, "api")
    /\ call = [c \in Calls |->
                 IF FirstSlot(c) /\ shown.page = "loading" THEN Load(Key(location)) ELSE NoCall]

User(c) ==
    \/ \E loc \in Targets(shown) : Navigate(c, loc)
    \/ Back(c)
    \/ \E alert \in DOMAIN api \cup DOMAIN mock : ClickAck(c, alert)
    \/ ClickCreate(c)

Serve(c) == ServeLoad(c) \/ ServeAck(c) \/ ServeCreate(c)

Continue(c) ==
    \/ LoadReturns(c) \/ LoadFallsBack(c) \/ LoadFails(c)
    \/ AckReturns(c) \/ AckFallsBack(c) \/ AckFails(c)
    \/ CreateReturns(c) \/ CreateFails(c)

Next ==
    \/ \E c \in Calls : User(c) \/ Serve(c) \/ Continue(c)
    \/ \E alert \in DOMAIN api : Progress(alert)
    \/ Tick

Spec == Init /\ [][Next]_vars

\* A request is answered or fails in the end, and its callback runs.
Fairness == \A c \in Calls : WF_vars(Serve(c)) /\ WF_vars(Continue(c))
FairSpec == Spec /\ Fairness

-----------------------------------------------------------------------------
(* Properties *)

Values ==
    [source : {"api"}, status : {<<>>} \cup [DOMAIN api -> Statuses]]
    \cup [source : {"mock"}, status : {<<>>} \cup [DOMAIN mock -> Statuses]]

\* Every variable has its type, and whatever waits, is cached or shown has
\* been asked for under a normalised query.
TypeOK ==
    LET normal(key) == key.view \in ListViews =>
            key.arg = NormalizeQuery(key.view, BuildQueryString(key.arg)) IN
    /\ api \in [Ids("api", "alerts") -> Statuses] /\ mock \in [DOMAIN MockStatus -> Statuses]
    /\ location.view \in ListViews \cup {"home", "session", "overview", "detail"} /\ first \in Typed
    /\ mode \in {"api", "mock"} /\ acked \subseteq DOMAIN api /\ moves \in 0..MaxMoves
    /\ sessions \in Nat
    /\ \A key \in DOMAIN cache :
         /\ normal(key) /\ cache[key].value \in Values
         /\ cache[key].left \in 0..TTL /\ cache[key].late \in BOOLEAN
    /\ \A c \in Calls : call[c].kind = "load" => normal(call[c].key)
    /\ shown.page = "shown" => normal(shown.key) /\ shown.value \in Values

\* "Mock mode for now, switches back by itself when the API is there" (the
\* notice of the page): a page rendered for a location that does not ask for
\* the mock store shows its content only while fewer than TTL ticks have gone
\* since a load last found the API unavailable, however often the cache is used.
MockIsLeftBehind ==
    [][(/\ Override(location') = "none" /\ shown'.page = "shown" /\ shown'.value.source = "mock"
        /\ shown.page = "shown" => shown # [shown' EXCEPT !.acking = shown.acking])
       => sinceMock' < TTL]_shown

\* "ack: the change of the state can be read back" (CLOA-82): after a confirmed
\* ACK no page and no cached response of the API shows the alert open, unless
\* a load that was already waiting when the cache was cleared brought it.
AckIsForgottenOnlyByLateLoad ==
    LET forgets(value) ==
            value.source = "api" /\ \E alert \in acked \cap DOMAIN value.status :
                                     value.status[alert] = "open" IN
    /\ \A key \in DOMAIN cache : forgets(cache[key].value) => cache[key].late
    /\ (shown.page = "shown" /\ forgets(shown.value)) => shown.late

\* The label of a page names the store its content is from, unless the page
\* was made from the cache, which does not say where its responses are from.
LabelIsTrueUnlessCached ==
    (shown.page = "shown" /\ shown.label # shown.value.source) => shown.hit

\* The page is the one of the location, also while loads wait and after a
\* create that took the user elsewhere, unless it was brought by a load that an
\* already newer render had superseded.
PageIsTheLocationUnlessSuperseded ==
    shown.key = Key(location) \/ (shown.page \in {"shown", "failed"} /\ shown.superseded)

\* The pages of a list, asked for through the URLs of the pager, hold every
\* matching row once, in order, and the page with the label n of m is never
\* empty but for an empty list or a page that was typed beyond the end.
PagerListsEveryRow ==
    (shown.page = "shown" /\ shown.key.view \in ListViews) =>
        LET view == shown.key.view
            query == shown.key.arg
            items == Items[shown.value.source][view]
            all == Matching(view, items, query)
            at(n) == ApplyFilter(view, items, BuildQueryString([query EXCEPT !.page = n])) IN
        /\ \A i \in DOMAIN all : \A n \in 1..TotalPages(Len(all), query) :
             LET page == at(n).items IN
             (\E j \in DOMAIN page : page[j] = all[i]) <=> (i - 1) \div query.pageSize = n - 1
        /\ Rows(shown).items = <<>> =>
             all = <<>> \/ query.page > TotalPages(Len(all), query)

\* A page that is loading is replaced in the end.
LoadingEnds == (shown.page = "loading") ~> (shown.page # "loading")
=============================================================================
