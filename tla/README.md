# Interview platform: TLA+ models, checks and proofs

This directory models the parts of the repository that keep state and run
concurrently: the Go interview API with its event queue, the Node fallback of
that API, the candidate's pages in the browser and its platform console. It holds the modules, the
TLC configurations that check them on small instances, and proofs that TLAPS
checks for every instance. `PROJECT.json` maps each definition to the lines it
stands for and lists runs, hazards, findings and theorems.

```
tlasany M.tla                                   # parse
tlc -workers 2 -config MCInterviewApi.cfg MCInterviewApi.tla
tlapm InterviewApiProofs.tla
```

## 1. Inventory

| Part | State | Operations | Concurrency and failure |
|---|---|---|---|
| **Go API**, `backend/internal/httpapi` | `Server.sessions`, `counter`, `idempotent` under `Server.mu`; all in memory | create, read (which advances the status), questions, answers, save, finalize, evaluations, result-summary, DLQ contract | one goroutine per request; each handler leaves the critical section before it publishes and answers |
| **Event path**, `events.go` | channel `eventQueue` (128), `dlqRecords` | non-blocking send, consumer loop, dead letter | full channel; a second lock of `Server.mu` for a dead letter |
| **Node fallback**, `frontend/server.js` | two maps and a counter | the same API without events and evaluations; reading the result completes a submitted session | every POST awaits its body between the session lookup and the mutation |
| **Interview page**, `app.js` | `state`, drafts in `localStorage`, textarea, autosave timer, cleanup tasks | type, save, change question or route, retry, reload | saves, page loads and timers overlap; requests and responses are lost; timers outlive their textarea |
| **Launch and finish pages**, `app.js` | polling interval, delayed jump, what is shown | poll, jump after 600 ms, finalize, load the result | overlapping loads, lost responses, retries, reloads |
| **Home page**, `app.js` | the create button | create a session, go to its launch page | the answer comes after the user went elsewhere, or is lost |
| **Platform console**, `app.js` | `platformResponseCache` (15 s), `platformMockStore`, `state.platformMode`, the page | overview, runs, run detail, alerts, menu, filter, pager, ACK, history back | renders overlap; a load that started before an ACK ends after it; an API that is not there is replaced by the mock store; the override is read at every answer |
| **Platform queries**, `platform-utils.js` | none | normalise, write to a URL, filter, cut a page | |
| **Ingress scripts** | pid file, `kubectl port-forward` | start, stop | run by hand, one at a time |
| Start-up, static files, fixtures, contracts, SQL, Helm, smoke script | none at run time | | |

The parts interact through HTTP only. A page polls `GET session` until the Go API
has moved it from `pending` over `preparing` to `in_progress` (reads drive this),
saves answers, finalizes (`submitted`) and shows a result once an interviewer has
posted an evaluation (`completed`). Every accepted mutation puts one event into
the channel or among the dead letters.

What is hard to test, and so what the properties are about:

* **interleavings at the Unlock**: the effect of a mutation is committed before
  its event is sent and before its response is written; replays of the same key,
  polls and other mutations run in between;
* **guards in front of idempotency**: finalize and evaluations look at the
  status first, so a retry could be refused for something others did meanwhile;
* **the full channel**: the send must neither block nor lose;
* **variables read before an `await` and used after it**, in the pages and in
  the Node fallback;
* **timers and renders that outlive the page that started them**;
* **lost responses and retries**, which meet the idempotency records;
* **a cache that does not know where its entries are from**, cleared while loads
  are still on their way.

## 2. Modules

| Module | What it is |
|---|---|
| `SessionLifecycle` | abstract: canonical status, at most one effect per mutation key, one event per effect in an outbox |
| `InterviewApi` | the Go API: handlers, idempotency, channel, dead letters, goroutines |
| `InterviewApiProperties` | its properties and the mapping to `SessionLifecycle` |
| `InterviewApiProofs`, `InterviewApiReplyProofs`, `InterviewApiRefines`, `SessionLifecycleProofs` | the proofs about the three above |
| `NodeFallback`, `NodeFallbackProofs` | the Node API, with its properties, and the proofs about them |
| `InterviewPage`, `InterviewPageProperties`, `InterviewPageProofs` | the interview page against the answers of one session, and the proofs |
| `SessionPages`, `SessionPagesProofs` | launch, interview and finish pages of one session, with its properties, and the proofs |
| `PlatformQuery` | the pure functions: normalisation, URL, filter, paging |
| `PlatformConsole` | home page and platform console over an API that is late, missing or failing, with its properties |
| `PlatformConsoleProofs` | the proofs about the last two |
| `MCInterviewApi`, `MCNodeFallback`, `MCInterviewPage`, `MCSessionPages`, `MCPlatformConsole` | what TLC runs; symmetry sets, the rows and locations of an instance |

A definition whose comment begins with `fault:` stands directly before the one it
distorts. It is a plausible bug (a missing guard, an off-by-one, a
value read after an `await`) and is used by no action; `PROJECT.json` lists, for
every checked property, the fault that makes TLC report it violated.

### InterviewApi

One action per handler, up to the Unlock that ends its critical section. `pc[r]`
says where the goroutine of request `r` is then:

| Code | Model |
|---|---|
| handler, decode to `mu.Unlock()` | `HandleSessionCollection`, `HandleGetSession`, `HandleGetQuestionsOrAnswers`, `HandleSaveAnswer`, `HandleFinalize`, `HandleSubmitEvaluation`, `HandleResultSummary`, `HandleDLQReplayContract` |
| `assertIdempotency` | `KeyConflict`, `KeyReplay`, `KeyAccepted` |
| `publishEvent`, its `select` | `PublishEvent`; the `default` branch goes to `pc = "dlq"` |
| `routeToDLQ` and its own lock | `RouteToDLQ` |
| `writeJSON` / `writeError` | `WriteResponse` |
| `consumeEvents` | `ConsumeEvents` |

Bodies are abstracted to what the handlers tell apart (not JSON, incomplete,
empty key, key and payload); an error path is a `Refuse` with the code's error
code, in the order of the code's checks. A timestamp is whether it is set. The
random `answerId` is named after the key of the save that drew it, and the
event id, a hash of session, route, actor and key, is the record of these, which
takes the hash to be injective. The retry constraints, hashes and replay keys of
a dead letter are functions of its envelope.

### NodeFallback

A GET is one step. A POST is `Post` (the session lookup), and then `SaveBody`,
`FinalizeBody` or `BodyFails`, which run after the `await` on the state as it is
then: the handler holds a reference to the session object, and no session is
ever removed from the map. The response is sent in the same callback.

### InterviewPage

An action is the code from one event or `await` to the next. `save[s]` is one
waiting call of `saveAnswer`, `render[r]` one waiting call of `render` with the
responses it already has. A save or a load is sent, served, and continued in
separate steps, or lost. `editor` is the textarea on the page; `strays` are the
timers of textareas that were replaced while their timer ran. Every edit types a
text of its own, so a text says where it was typed and when. The other tab or the
finish page enters as `ServeFinalize`. A reload keeps `localStorage` only.

### SessionPages

The same granularity for polling, jump and finalize; `intervals` and `jumps`
count running timers, `call[c]` is a request with its continuation. The interview
page appears as a place the candidate can be, the interviewer as
`ServeEvaluation`. The poll count of the API is a function of the status there
(proved of `InterviewApi`, `Timeline`) and is left out.

### PlatformQuery and PlatformConsole

`PlatformQuery` keeps of a text what the normalisers tell apart: its word, and
whether it is spelled with capitals or surrounding spaces; of a number what
`parseInt` makes of it; numbers from 10^21 on are left out, since `String` writes
them with an exponent of which `parseInt` reads back one digit. A query is a function from the fields of its view to
values, and the operators are parameterised by the view, since the functions for
runs and for alerts differ in their fields only. A queue name is the set of the
words that occur in it, as `includes` asks for no more. `ItemsAt` is `Array.filter`
written as a recursive function, so that it can be reasoned about.

In `PlatformConsole` an action is the code from one event or `await` to the next.

| Code | Model |
|---|---|
| `window.location`, with `platformMock` | `location`, `Override` |
| `platformResponseCache`, `withPlatformCache`, `clearPlatformCache` | `cache`, a function on `Key`s; `Hit`, `Store`, `Late` |
| `Date.now()` against `expireAt` | `left`, counted down by `Tick` |
| `render`, the `renderPlatform...` functions up to their `await` | `Render`, `PageAtOnce` |
| after their `await` | `LoadReturns`, `LoadFallsBack`, `LoadFails` |
| buttons, forms, pager, history | `Navigate` to one of `Targets(shown)`, `Back` |
| ACK listener, `ackAlert` | `ClickAck`, `AckReturns`, `AckFallsBack`, `AckFails` |
| create listener of the home page | `ClickCreate`, `CreateReturns`, `CreateFails` |
| the platform API (not in the repository), `handleSessionCollection` | `ServeLoad`, `ServeAck`, `Progress`; `ServeCreate` |

`shown` is what is in `appElement`, `call[c]` a request with its continuation.
`late` marks a load that waited while the cache was cleared, `superseded` one that
waited while a newer render began: history, as `acked` and `sinceMock` are. Rows
do not change but for the status of an alert, and what the page makes of an acked
and of a resolved one is the same. A reload starts a new behaviour: the page keeps
nothing in storage. A session page is a place the user can be;
what happens there is in `SessionPages`.

## 3. What is checked

| Run | Instance | States | Shows |
|---|---|---|---|
| `api_safety` | 2 requests, 2 keys, 2 contents, 1 session, channel of 1, 3 records | 1.38 M | versions are given once and in order and the last save accepted is stored; all responses to a key agree and only one is the first; no event lost or doubled; the event is on its way before the first response; the timeline follows the status, but for the `completedAt` of a session a second finalize took back; a result needs a finalize and an evaluation; a retry is never refused for the status; a served result was earned; sessions change only by polls and new records; records are immutable |
| `api_liveness` | 2 requests, 1 key, 3 records, fair | 104 k | **the API implements `SessionLifecycle`**; every published event settles, every request is answered |
| `node_fallback` | 2 connections, 2 keys, 2 payloads, 4 records | 342 k | the same questions across the `await`; a result still needs a finalize |
| `interview_page` | 2 questions, 2 edits, 2 saves, 2 renders, 1 move or reload | 601 k | texts stay in their question; a settled page shows the draft; no draft holds a text that was neither typed last nor stored; known answers are (text, version) pairs the server stored; an edit is autosaved once |
| `session_pages` | 2 waiting requests, 2 moves, 2 click instants, fair | 42 k | the pages finalize once; they never show more than has happened; the launch page is left |
| `platform_console` | 2 waiting requests, 2 moves, 5 typed locations, 3 runs and 1 alert of the API, 1 and 1 of the mock store, pages of 1 or 2, a cache of 2 ticks, fair | 225 k | an acked alert is forgotten only by a load that was late for the clearing of the cache; mock content is left within the time to live; the label of a page is true unless it came from the cache; page and location agree unless a superseded load came last; the pager shows every row once; no page loads for ever |

Six more runs check what a document says and the code does not do; TLC finds
each of them violated (section 5).

**Bounds.** Two requests are enough for every race of this code: a handler
shares only the maps (under one lock), the channel and the dead letters, and
each property relates at most two of them; a channel of one is full as soon as
one event waits, so both branches of the `select` are taken on most paths. One
session is enough because no operation reads two; the proofs cover any number.
With three or four records a key can be used, replayed, reused with another
payload, and finalize, evaluate, finalize again under the second key fit into one
behaviour. `api_liveness` has one key, as it cannot use symmetry: a session taken back
is in `api_safety`, and in the proof of the refinement. Two
overlapping saves and renders let responses overtake each other in both
directions; two edits let one be typed while the other is on its way. One move
keeps `interview_page` at a minute; two moves were run once (4.1 M states, no
error). `MaxJumps = 1` merges further delayed jumps: they navigate to the same
place. `MaxSessions`, `MaxMutations`, `MaxEdits`, `MaxMoves`, `MaxSaves`,
`MaxTime` and `MaxJumps` are all the bounds, each a guard in the action that
counts.

In `platform_console` two waiting requests let a load be overtaken by another, by
an ACK and by a create. With two moves the user can ACK while a page loads, leave and
come back, and be taken away by a create that returns late; the typed locations
start a behaviour where longer ones lead (a filtered page, a page number beyond the
end, `platformMock` on, off and misspelled). One case needs a third move: the ACK
of an alert of the API under `platformMock=on`, a branch of `ClickAck` that changes
nothing but the mode; three moves are beyond four million states. Two ticks tell
a fresh, an ageing and an expired entry apart. A request takes the first free
slot, which is what symmetry would give and is sound with liveness. The time to
live and page sizes are parameters; 15 s, 20 and 200 are their values in the code.

**Deadlock.** The two API models are checked for deadlock: reads and refusals are
always possible. The page runs switch it off, because a page waits for the
candidate, whose edits and moves are bounded.

**Symmetry** is used for goroutines, keys, connections and waiting calls, in runs
without liveness only.

**Fairness.** `InterviewApi`: weak fairness of `Proceed(r)` and of
`ConsumeEvents`. The Go scheduler runs every goroutine that can run; none of these
steps waits for a client. Clients need not send anything. `SessionPages`: strong
fairness of timers, of the server's answer and of continuations. The browser runs
what is due, and a network that fails again and again lets a request through
again and again. It has to be strong since another request may take the slot,
or a loss the response, in between. Candidate and interviewer may do nothing.
`PlatformConsole`: weak fairness of the answer and of the continuation of
each request, since `fetch` settles in the end, if only by failing, and its callback
runs; the user, other users and the clock may do nothing. The
other two models check safety only.

## 4. What is proved

TLAPS checks these for every set of requests, questions, contents and keys, every
channel capacity, every store of rows, every set of locations and every bound. They
state every invariant and action property of the passing runs. The
assumptions are named `ASSUME`s. Of `InterviewApi`, `NodeFallback` and `InterviewPage`: the questions
are finitely many; of the first two: the marker values (empty key, malformed body, unknown question) are not ordinary
ones, the capacity of the channel is at least one, the bounds are naturals. Of `PlatformQuery`: the
markers are no texts and no numbers, no enum field is called `page`, `pageSize` or
`queueName`, the default page size is at most the largest. Of `PlatformConsole`: the
list views are runs and alerts, locations and forms carry raw parameters (`IsRaw`),
the time to live is at least one tick, and within one list an id names one row. Of
`SessionPages`: finitely many requests wait.

| Theorem | Module |
|---|---|
| `TypeCorrect`, `TimelineCorrect`, `ResultIsAlwaysEarned`, `RetriesAreNeverStale` | `InterviewApiProofs` |
| `EventsAreNeverLost`, `EventsAreNeverDoubled` | `InterviewApiProofs` |
| `RecordsAreKeptForever`, `NoChangeGoesUnrecorded`, `VersionsAlwaysSerial`, `TheLastAcceptedSaveWins` | `InterviewApiReplyProofs` |
| `ResponsesAlwaysAgree`, `ServedResultsAreEarned`, `FirstResponsesAreUnique`, `EventsPrecedeFirstResponses` | `InterviewApiReplyProofs` |
| `ApiImplementsLifecycle` | `InterviewApiRefines` |
| `OneEventPerEffectAlways` | `SessionLifecycleProofs` |
| `ResultsFollowFinalize`, `FallbackRetriesAreNeverStale`, `CompletedIsLeftOnlyByFinalize`, `FallbackFirstResponsesAreUnique`, `FallbackVersionsAreSerial`, `FallbackTypeCorrect` | `NodeFallbackProofs` |
| `PageInvariant`, `PageTypeCorrect`, `TextsAlwaysStay`, `PageAlwaysShowsDraft`, `DraftIsAlwaysTypedOrSaved`, `KnownAnswersWereAlwaysStored`, `AutosaveIsOncePerEdit` | `InterviewPageProofs` |
| `PagesInvariant`, `PagesTypeCorrect`, `PagesFinalizeOnceAlways`, `PagesNeverAhead`, `PagesNeverTakeBack` | `SessionPagesProofs` |
| `QueriesSurviveTheUrl`, `FilterKeepsTheMatchingRows`, `ThePagerListsEveryRow` | `PlatformConsoleProofs` |
| `ConsoleTypes`, `AcksAreForgottenOnlyByLateLoads`, `LabelsAreTrueUnlessCached`, `PagesAreTheLocationUnlessSuperseded`, `TheMockStoreIsLeftBehind` | `PlatformConsoleProofs` |

**Shapes.** The proofs do not go through 30 branches of handlers. `HandlerShapes`
shows that each step of a handler refuses or reads, replays, creates, polls, or
accepts a save, a finalize or an evaluation. Every later lemma has one case per
shape and one per step after the Unlock.

**Invariant of the sessions.** `SessionInv` is
`TypeOK /\ Timeline /\ ResultIsEarned /\ RetryIsNeverStale`. The parts lean on each
other: `ResultIsEarned` is not inductive, since an accepted evaluation keeps it only
if a status that admits an evaluation carries `submittedAt` (`Timeline`), and a new
session keeps it only if no record names the session before it exists (the first
conjunct of `RetryIsNeverStale`). `Timeline` in turn needs `ResultIsEarned`: that a
submitted session with a `completedAt` was finalized under two keys (`FinalizedTwice`)
holds because the finalize that takes a completed session back has a key without a
record, and the session has a finalize record already. The poll count in `Timeline`
is what makes the second poll, and not a later one, start a session.

**Invariant of the events.** `EventInv` adds `NoEventLost` and `NoEventTwice`.
`NoEventTwice` is not inductive: that an accepted mutation or a new session brings
an event that is nowhere yet needs `NoEventLost`, which says that every event
anywhere belongs to a record or a session, and the key has none yet.

**Refinement.** The mapping takes status from the session records, the accepted
mutations from the record keys, and the outbox from the goroutines and the
channel together; the log and the dead letters are delivered and dead. So the
send is a stutter, the consumer's step is `Deliver`, `RouteToDLQ` is `DeadLetter`,
and a poll that does not change the status is a stutter. `EventInv` is what the
last two need: the event leaves the outbox because no other goroutine, and no
other place in the channel, holds it.

**Invariant of the console.** The properties speak of the page and the cache, but
what breaks them is on its way: an answer that was read before an ACK and arrives
after it. `ConsoleInv` therefore says of a waiting load that its answer forgets a
confirmed ACK only if it is marked late (`LoadInv`), of an answered ACK that the
alert is closed in the API (`AckInv`), and of the API that no confirmed alert is open
again (`AckedInv`). The label follows from the same invariant, since a page that is not
a hit was labelled with the store its content came from. That a page is the one of
the location needs that a waiting load that is not superseded belongs to the
location, which `Render` keeps by marking all the others. For the mock store, the
age of an entry and the time it has left add up to at most the time to live
(`EntryInv`): a page from an entry with time left is younger than that, and a hit
does not start the time anew.

**Queries.** `QueriesSurviveTheUrl` says that normalising is idempotent through
`buildQueryString`, which drops empty fields: what was dropped is normalised to empty
again, and defaults and clamped sizes stay. `ConsoleTypes` carries it through the
console: every button, form and pager leads to a location whose parameters can be
read (`ButtonsLeadToPlaces`), so every key of the cache is a normal query.

**Invariant of the responses.** A response is written some steps after the lock is
released. `ReplyInv` says what stays true of it meanwhile: it agrees with its record
(`Agrees`; records never change, `RecordsStep`), a completed view has an accepted
evaluation behind it (`Earned`; such a record does not go away either, though
the status may), and the event of a first response is the envelope of its goroutine
until that has published, and settled after that (`Backed`). `HandlerReplies` is the
one step all handlers share, `LaterStep` the one of the steps after the Unlock. That
first responses are unique is not inductive without `Agrees`: a new record's id was
in no response before, because the id of every first response is a record's.

**Invariant of the answers.** `AnswersInv` takes versions, contents and answerIds of
one question together. A save gets the version after the stored one, so the
versions stay an interval (`SavedQuestion`), and the saves before it no longer name
the content that is stored. A new session needs `RetryIsNeverStale` again: no
record, hence no save, names it.

**The Node fallback.** The proofs take the same way, over five shapes (`StepShapes`). What
they add is the `await`: a body arrives for the session that was looked up before it,
and `AwaitsSession` holds because no step removes a session. `FallbackInv` says that a
submitted or completed session has an accepted finalize, and that a session with one
takes finalizes; the first is what the read of the result needs, which completes a
session without a record of its own.

`TypesInv` adds what the types need: a session was polled as often as its status says,
and there are at most `MaxMutations` records. That a version stays within that
bound is then an argument about cardinalities (`VersionIsBounded`): the saves of a
question have different versions from 1 to the stored one, and each has a record.

**The interview page.** `PageInv` follows a text on its way: typed, in the textarea, a
draft, in a save, stored, in a load, known. Where it belongs and what it may be must be
said of every station (`LoadsStayInTheirQuestion`, `AnswersWereStored`,
`LoadsWereStored`, `SavesWereStored`), since any of them may become a draft or a
known answer later, in any order. `PageShowsDraft` carries itself: each step that
changes a draft or a known answer changes the textarea with it or starts a render.
`AutosaveOncePerEdit` is about records, but what breaks it is a second timer for the
same text: `AutosaveInv` says that the timer of the textarea, every stray timer and
every save on its way to the server hold texts no two of which are the same and none
of which is saved. A new text is new because no one holds a text with an edit number
above the count (`Typed`). The proof sorts the steps by what they do to a text
(`EveryStepIsAnAutosaveStep`): one is typed, detached, taken by a save or stored.

**The candidate's pages.** `PagesInv` says that the server has at most one record,
under the one key of the session (`OneRecord`), and that the status is submitted or
completed exactly when it has one (`RecordedIsSubmitted`); so a finalize that finds no
record finds a session in progress, and the status only goes forward
(`StatusAdvances`). That lets a response be late without being ahead
(`PageIsNeverAhead`), and `SummaryIsOfCompleted` says the same of a summary, which
carries no status. That no more intervals run than requests may wait is not inductive
alone: an interval is started by a launch page that holds a slot, and a render stops
all of them, so intervals and opening launch pages are counted together
(`IntervalsAreOpened`).

**The pager.** `ThePagerListsEveryRow` needs what `Array.filter` does to a list of any
length, which is an induction. It is done without the library's induction theorems,
whose operator parameters the provers cannot instantiate: take the least number
at which the claim fails (`LeastNumber`, from the well-founded order of finite sets), and
find that it holds there. So the recursion of `ItemsAt` has a solution (`KeptExists`) and
its value holds every chosen row, no other, once and in order (`ItemsAtLists`). The
rest is arithmetic: a row is on the page that its index divided by the page size names
(`PageOfList`), and a page number up to the total starts before the end
(`PageWithinTotal`). That an id names one row is assumed (`ItemsAssumption`): with
the same row twice in a list "on exactly one page" would be false.

**Only model-checked**: liveness, which with `ENABLED` is outside what the provers
can do. `EveryEventSettles`, `EveryRequestIsAnswered`, `LaunchIsLeft` and `LoadingEnds`
stay with TLC. No module declares a `RECURSIVE` operator.

## 5. Where the code and a document disagree

1. `api_final_once`: the interface contract allows finalize and evaluations to
   succeed once. A second idempotency key succeeds again.
2. `api_completed_stable`: the contract calls a completed result stable. A finalize
   with a new key takes the session back to `submitted`, and the result is refused
   until another evaluation. `completedAt` stays set (handlers.go:351-352), so the
   timeline of a submitted session says when it was completed: `Timeline` states this
   as its exception. The Node fallback does the same (server.js:376-379):
   `CompletedIsLeftByFinalize` has that finalize as its exception, and there the next
   read of the result completes the session again.
3. `api_answers_final`: a submitted session is final in the contract. A save has no
   guard on the status, while `GET answers` reports every answer as finalized.
4. `page_typed_text`: the plan for the interview page promises that typed text
   survives a reload. A save that returns writes the text it *sent* over the draft
   and renders the page, which clears the timer: what was typed meanwhile is gone.
5. `page_old_save`: the contract uses `answerVersion` for optimistic concurrency
   control, so that no save overwrites with an old version (5.7.5), and has the error
   code `ANSWER_VERSION_CONFLICT` for it. No request carries a version, and both
   servers count up and overwrite (handlers.go:222-228, 261; server.js:317-326): the
   last save *accepted* wins, which is what `LastAcceptedSaveWins` states. The page
   does not hold a save back while another of the question is on its way, as CLOA-46
   6.2 plans it, so an older text that is overtaken comes to stay.
6. `page_finalize_retry`: the plan for the finish page expects a retry to succeed
   after a failure. When only the response was lost, the retry carries the same
   key and a new `finalizedAt` and is refused with `IDEMPOTENCY_KEY_REUSED`.

The pages and the console do five more things a reader of the documents would not
expect. They are stated as the exception in a property rather than as a violated one:

* The interview page prefers its draft to the answer of the server, without asking
  (app.js:1446), and a save that returns writes the draft instead of clearing it
  (app.js:1466-1468). CLOA-46 gives the saved answer priority, lets a draft replace it
  once the candidate has confirmed (5.3), and clears a draft after its save (5.2).
  `PageShowsDraft` states what the code does; when the responses of two saves come out
  of order, the draft it shows is older than the answer on the server.
* A load that was waiting when an ACK cleared the cache stores its answer
  after it: for 15 s the alert is shown open again, with an ACK button that asks for
  another ACK (`AckIsForgottenOnlyByLateLoad`). The platform plans (CLOA-80, CLOA-82)
  expect the change of state to be read back.
* A page from the cache is labelled by the last answer of any request: "Canonical
  API" over content of the mock store, and the reverse (`LabelIsTrueUnlessCached`).
* After a superseded load came last, the page is not the one of the location
  (`PageIsTheLocationUnlessSuperseded`).
* A page number beyond the end, typed or kept in the URL, gives an empty page with
  the label of the last one (`PagerListsEveryRow`); and `?platformMock=on`, which
  README.md calls forced, is gone after the first button, as no link carries it.

## 6. What is not modelled

* Start-up, routing by URL, headers, envelopes, static files, fixtures: no state
  of their own.
* A crash of an API process. Everything is in memory, so a restart begins at
  `Init` and nothing is recovered; what a client can still rely on is left to a
  later module.
* Several replicas of the API: it has no shared store.
* The ingress scripts: they act on a process table and a cluster, which are not in
  the repository.
* The smoke script: a sequential driver of the API; it keeps nothing.
* The platform API itself: the console calls it, no code of the repository serves it.
* The domain and application packages under `backend/internal`, the SQL, the
  OpenAPI and protobuf files: declarations nothing executes.
* Of the pages: two saves of a question in one mode and one millisecond, which would
  share their idempotency key; a full `localStorage`; a second tab that writes the
  same drafts; the summary of one load of the finish page shown with the session of
  another.
* Of the Go API: a body that breaks off while it is read (500 instead of 400, nothing
  changed). `Server.mu` is not a variable: a critical section is one step, so that
  `routeToDLQ` is called after the Unlock is read off the code and not checked.
* Of the API the console calls: it is taken to filter and page as the mock store does.
* On the pages: markup, wording, badges, and the links to Grafana
  (`buildGrafanaHref` formats a URL and no state depends on it).

## 7. Plan

Done, in this order: `SessionLifecycle`, `InterviewApi`, its properties and
refinement, the session and event invariants proved, `InterviewPage`,
`SessionPages`, `NodeFallback`, `PlatformQuery`, `PlatformConsole` and the proofs
about the last two, the response and answer invariants of the API, the proofs about
`NodeFallback`, `SessionPages` and `InterviewPage`, the filter and the pager.

What could still be modelled: `SessionPages` over `NodeFallback`, whose read of the
result completes a session; `InterviewApi` with a restart, to state which records a
client may still count on.

Next theorems:

1. `NodeFallback` implements `SessionLifecycle` up to the events, or where it does not:
   its read of a result completes a session.
2. What a client of the API can count on from one of its own responses to the next:
   versions it has seen never come down, a completed result it was served stays earned.
