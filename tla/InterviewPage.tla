--------------------------- MODULE InterviewPage ---------------------------
(***************************************************************************)
(* The candidate's interview page, frontend/public/app.js: the textarea,   *)
(* its drafts in localStorage, the autosave timer, saves and page loads    *)
(* that overlap, changes of question or route, and reloads, against the    *)
(* answers of one session on the server.                                   *)
(*                                                                         *)
(* JavaScript runs one callback at a time, so an action is the code from   *)
(* one await (or event) to the next.  A request is on its way, then        *)
(* answered or failed, then its continuation runs; requests overtake each  *)
(* other.  Every edit types a text of its own, named after its question    *)
(* and its number.                                                         *)
(***************************************************************************)
EXTENDS Naturals, FiniteSets

CONSTANTS
    Questions,
    FirstQuestion,  \* questions[0]
    Null,           \* state.currentQuestionId before the first load
    Saves,          \* the calls of saveAnswer that may wait at one time
    Renders,        \* the calls of render that may wait at one time
    MaxEdits,       \* bound: edits
    MaxMoves,       \* bound: changes of question or route, retries, reloads
    MaxSaves        \* bound: calls of saveAnswer

ASSUME QuestionAssumption ==
    FirstQuestion \in Questions /\ Null \notin Questions /\ IsFiniteSet(Questions)
ASSUME LimitAssumption == MaxEdits \in Nat /\ MaxMoves \in Nat /\ MaxSaves \in Nat

VARIABLES
    answers,            \* server: the stored answer of each question
    records,            \* server: the saves it accepted
    status,             \* server: of the session
    drafts,             \* localStorage: question -> text
    known,              \* state.answers
    currentQuestionId,  \* state.currentQuestionId
    route,              \* window.location
    shown,              \* what appElement shows
    editor,             \* the textarea, its autosave timer, its cleanup task
    strays,             \* running timers of textareas no longer shown
    save,               \* the waiting calls of saveAnswer
    render,             \* the waiting calls of render
    edits,              \* question -> edits typed so far
    moves,
    savesStarted

serverVars == <<answers, records, status>>
stateVars == <<known, currentQuestionId>>
pageVars == <<route, shown, editor, strays>>
countVars == <<edits, moves, savesStarted>>
vars == <<serverVars, drafts, stateVars, pageVars, save, render, countVars>>

-----------------------------------------------------------------------------

Blank == [question |-> Null, edit |-> 0]
Texts == [question : Questions, edit : 1..MaxEdits] \cup {Blank}
NoAnswer == [text |-> Blank, version |-> 0]
NoEditor == [question |-> FirstQuestion, text |-> Blank, timer |-> FALSE, registered |-> FALSE]
NoSave == [phase |-> "none"]
NoRender == [phase |-> "none"]

EditCount == Cardinality({e \in Questions \X (1..MaxEdits) : e[2] <= edits[e[1]]})

\* writeLocalDrafts; a full localStorage and other tabs are left out.
WithDraft(question, text) ==
    [q \in DOMAIN drafts \cup {question} |-> IF q = question THEN text ELSE drafts[q]]

\* The draft of a question, or else the answer the page knows of.
ReadAnswerValue(question, answersKnown) ==
    IF question \in DOMAIN drafts THEN drafts[question] ELSE answersKnown[question].text

Current == IF currentQuestionId = Null THEN FirstQuestion ELSE currentQuestionId

-----------------------------------------------------------------------------
(* Pieces of a callback *)

\* render() runs the cleanup tasks first: the timers of the textareas that
\* registered one are cleared.
CleanupPage ==
    /\ editor' = [editor EXCEPT !.timer = @ /\ ~editor.registered, !.registered = FALSE]
    /\ strays' = {x \in strays : ~x.registered}

\* ... and then it waits for the requests of the page of its route.
Load(target) == [phase |-> "loading", page |-> target, status |-> "none", answers |-> {}]
Render(r, target) ==
    /\ render[r] = NoRender
    /\ CleanupPage
    /\ render' = [render EXCEPT ![r] = Load(target)]

\* Replacing innerHTML takes the textarea off the page, not its timer.
Detached ==
    IF editor.timer
    THEN {[question |-> editor.question, text |-> editor.text, registered |-> editor.registered]}
    ELSE {}
Show(what, newEditor) ==
    /\ shown' = what
    /\ editor' = newEditor
    /\ strays' = strays \cup Detached

StartSaveDrafting(s, question, text, mode) ==  \* fault: the draft before the answer
    /\ save[s] = NoSave /\ savesStarted < MaxSaves
    /\ save' = [save EXCEPT ![s] = [phase |-> "sent", question |-> question, text |-> text,
                                    mode |-> mode, version |-> 0, orphan |-> FALSE]]
    /\ savesStarted' = savesStarted + 1
    /\ drafts' = WithDraft(question, text)

\* saveAnswer up to its await.  Every call has an idempotency key of its own:
\* it is made of question, mode and millisecond, and two calls of one mode in
\* one millisecond are left out.
StartSave(s, question, text, mode) ==
    /\ save[s] = NoSave /\ savesStarted < MaxSaves
    /\ save' = [save EXCEPT ![s] = [phase |-> "sent", question |-> question, text |-> text,
                                    mode |-> mode, version |-> 0, orphan |-> FALSE]]
    /\ savesStarted' = savesStarted + 1
    /\ UNCHANGED drafts

-----------------------------------------------------------------------------
(* The candidate *)

Move == moves < MaxMoves /\ moves' = moves + 1 /\ UNCHANGED <<edits, savesStarted>>

\* The input listener: the draft is written, the timer starts again.
Type ==
    LET q == editor.question
        text == [question |-> q, edit |-> edits[q] + 1] IN
    /\ shown = "interview" /\ EditCount < MaxEdits
    /\ edits' = [edits EXCEPT ![q] = @ + 1]
    /\ drafts' = WithDraft(q, text)
    /\ editor' = [editor EXCEPT !.text = text, !.timer = TRUE]
    /\ UNCHANGED <<serverVars, stateVars, route, shown, strays, save, render,
                   moves, savesStarted>>

ClickSave(s) ==
    /\ shown = "interview"
    /\ StartSave(s, editor.question, editor.text, "manual")
    /\ UNCHANGED <<serverVars, stateVars, pageVars, render, edits, moves>>

\* A button of the question list, previous or next.
SelectQuestion(r, question) ==
    /\ Move
    /\ shown = "interview"
    /\ currentQuestionId' = question
    /\ Render(r, route)
    /\ UNCHANGED <<serverVars, drafts, known, route, shown, save>>

\* The buttons between the two pages, or the history of the browser.
Navigate(r, target) ==
    /\ Move
    /\ target # route
    /\ route' = target
    /\ Render(r, target)
    /\ UNCHANGED <<serverVars, drafts, stateVars, shown, save>>

RetryRender(r) ==
    /\ Move
    /\ shown = "error"
    /\ Render(r, route)
    /\ UNCHANGED <<serverVars, drafts, stateVars, route, shown, save>>

\* A reload forgets everything but localStorage.  A request already sent may
\* still reach the server.
Reload(r) ==
    /\ Move
    /\ known' = [q \in Questions |-> NoAnswer]
    /\ currentQuestionId' = Null
    /\ shown' = "none" /\ editor' = NoEditor /\ strays' = {}
    /\ save' = [s \in Saves |-> IF save[s].phase = "sent"
                                THEN [save[s] EXCEPT !.orphan = TRUE] ELSE NoSave]
    /\ render' = [x \in Renders |-> IF x = r THEN Load(route) ELSE NoRender]
    /\ UNCHANGED <<serverVars, drafts, route>>

-----------------------------------------------------------------------------
(* Timers *)

TimerFiresElsewhere(s) ==  \* fault: the question of the page, not of the textarea
    /\ editor.timer
    /\ editor' = [editor EXCEPT !.timer = FALSE]
    /\ StartSave(s, Current, editor.text, "auto")
    /\ UNCHANGED <<serverVars, stateVars, route, shown, strays, render, edits, moves>>
TimerFiresAgain(s) ==  \* fault: an interval instead of a timeout
    /\ editor.timer
    /\ StartSave(s, editor.question, editor.text, "auto")
    /\ UNCHANGED <<serverVars, stateVars, pageVars, render, edits, moves>>

TimerFires(s) ==
    /\ editor.timer
    /\ editor' = [editor EXCEPT !.timer = FALSE]
    /\ StartSave(s, editor.question, editor.text, "auto")
    /\ UNCHANGED <<serverVars, stateVars, route, shown, strays, render, edits, moves>>

StrayFires(s, x) ==
    /\ x \in strays
    /\ strays' = strays \ {x}
    /\ StartSave(s, x.question, x.text, "auto")
    /\ UNCHANGED <<serverVars, stateVars, route, shown, editor, render, edits, moves>>

-----------------------------------------------------------------------------
(* The server *)

\* The save of a new key is accepted in any status.
ServeSave(s) ==
    LET call == save[s]
        version == answers[call.question].version + 1 IN
    /\ call.phase = "sent"
    /\ answers' = [answers EXCEPT ![call.question] = [text |-> call.text, version |-> version]]
    /\ records' = records \cup {[question |-> call.question, text |-> call.text,
                                 mode |-> call.mode, version |-> version]}
    /\ save' = [save EXCEPT ![s] =
                  IF call.orphan THEN NoSave
                  ELSE [call EXCEPT !.phase = "stored", !.version = version]]
    /\ UNCHANGED <<status, drafts, stateVars, pageVars, render, countVars>>

\* The last a reloaded page left behind does not reach the server.
OrphanIsLost(s) ==
    /\ save[s].phase = "sent" /\ save[s].orphan
    /\ save' = [save EXCEPT ![s] = NoSave]
    /\ UNCHANGED <<serverVars, drafts, stateVars, pageVars, render, countVars>>

ServeSession(r) ==
    /\ render[r].phase = "loading" /\ render[r].status = "none"
    /\ render' = [render EXCEPT ![r].status = status]
    /\ UNCHANGED <<serverVars, drafts, stateVars, pageVars, save, countVars>>

ServeAnswers(r) ==
    /\ render[r].phase = "loading" /\ render[r].page = "interview" /\ render[r].answers = {}
    /\ render' = [render EXCEPT ![r].answers = {answers}]
    /\ UNCHANGED <<serverVars, drafts, stateVars, pageVars, save, countVars>>

\* A finalize from the finish page, of this tab or of another one.
ServeFinalize ==
    /\ status = "in_progress"
    /\ status' = "submitted"
    /\ UNCHANGED <<answers, records, drafts, stateVars, pageVars, save, render, countVars>>

-----------------------------------------------------------------------------
(* Continuations *)

SaveReturnsLate(s, r) ==  \* fault: the content read after the await
    LET call == save[s] IN
    /\ call.phase = "stored"
    /\ known' = [known EXCEPT ![call.question] =
                   [text |-> ReadAnswerValue(call.question, known), version |-> call.version]]
    /\ drafts' = WithDraft(call.question, call.text)
    /\ save' = [save EXCEPT ![s] = NoSave]
    /\ Render(r, route)
    /\ UNCHANGED <<serverVars, currentQuestionId, route, shown, countVars>>
SaveReturnsBare(s, r) ==  \* fault: the text without its version
    LET call == save[s] IN
    /\ call.phase = "stored"
    /\ known' = [known EXCEPT ![call.question] = [text |-> call.text]]
    /\ drafts' = WithDraft(call.question, call.text)
    /\ save' = [save EXCEPT ![s] = NoSave]
    /\ Render(r, route)
    /\ UNCHANGED <<serverVars, currentQuestionId, route, shown, countVars>>
SaveReturnsSilently(s, r) ==  \* fault: the page is not rendered again
    LET call == save[s] IN
    /\ call.phase = "stored"
    /\ known' = [known EXCEPT ![call.question] =
                   [text |-> call.text, version |-> call.version]]
    /\ drafts' = WithDraft(call.question, call.text)
    /\ save' = [save EXCEPT ![s] = NoSave]
    /\ UNCHANGED <<serverVars, currentQuestionId, pageVars, render, countVars>>

\* saveAnswer after its await: what it sent becomes the known answer and the
\* draft, whatever was typed in between; its caller renders the page again.
SaveReturns(s, r) ==
    LET call == save[s] IN
    /\ call.phase = "stored"
    /\ known' = [known EXCEPT ![call.question] =
                   [text |-> call.text, version |-> call.version]]
    /\ drafts' = WithDraft(call.question, call.text)
    /\ save' = [save EXCEPT ![s] = NoSave]
    /\ Render(r, route)
    /\ UNCHANGED <<serverVars, currentQuestionId, route, shown, countVars>>

\* The request or its response is lost: the autosave renders the page with the
\* message, ...
SaveIsLost(s) ==
    /\ save[s].phase \in {"sent", "stored"} /\ ~save[s].orphan
    /\ save' = [save EXCEPT ![s] = NoSave]

AutosaveFails(s, r) ==
    /\ SaveIsLost(s) /\ save[s].mode = "auto"
    /\ Render(r, route)
    /\ UNCHANGED <<serverVars, drafts, stateVars, route, shown, countVars>>

\* ... the button alerts.
ManualSaveFails(s) ==
    /\ SaveIsLost(s) /\ save[s].mode = "manual"
    /\ UNCHANGED <<serverVars, drafts, stateVars, pageVars, render, countVars>>

\* renderInterview after loadInterviewData: the textarea shows the draft ...
ShowInterview(r) ==
    /\ render[r].phase = "loading" /\ render[r].page = "interview"
    /\ render[r].status = "in_progress"
    /\ \E loaded \in render[r].answers :
         /\ known' = loaded
         /\ Show("interview", [question |-> Current, text |-> ReadAnswerValue(Current, loaded),
                               timer |-> FALSE, registered |-> TRUE])
    /\ currentQuestionId' = Current
    /\ render' = [render EXCEPT ![r] = NoRender]
    /\ UNCHANGED <<serverVars, drafts, route, save, countVars>>

\* ... or a session submitted meanwhile goes to the finish page.
LeaveSubmitted(r) ==
    /\ render[r].phase = "loading" /\ render[r].page = "interview"
    /\ render[r].status = "submitted"
    /\ known' \in render[r].answers
    /\ currentQuestionId' = Current
    /\ route' = "finish"
    /\ CleanupPage
    /\ render' = [render EXCEPT ![r] = Load("finish")]
    /\ UNCHANGED <<serverVars, drafts, shown, save, countVars>>

ShowFinish(r) ==
    /\ render[r].phase = "loading" /\ render[r].page = "finish" /\ render[r].status # "none"
    /\ Show("finish", NoEditor)
    /\ render' = [render EXCEPT ![r] = NoRender]
    /\ UNCHANGED <<serverVars, drafts, stateVars, route, save, countVars>>

\* A request of the page fails: the catch of render.
ShowError(r) ==
    /\ render[r].phase = "loading"
    /\ Show("error", NoEditor)
    /\ render' = [render EXCEPT ![r] = NoRender]
    /\ UNCHANGED <<serverVars, drafts, stateVars, route, save, countVars>>

-----------------------------------------------------------------------------

\* A session in progress whose interview page is being opened.
Init ==
    /\ answers = [q \in Questions |-> NoAnswer] /\ records = {} /\ status = "in_progress"
    /\ drafts = [q \in {} |-> Blank]
    /\ known = [q \in Questions |-> NoAnswer] /\ currentQuestionId = Null
    /\ route = "interview" /\ shown = "none" /\ editor = NoEditor /\ strays = {}
    /\ save = [s \in Saves |-> NoSave]
    /\ \E r \in Renders :
         render = [x \in Renders |-> IF x = r THEN Load("interview") ELSE NoRender]
    /\ edits = [q \in Questions |-> 0] /\ moves = 0 /\ savesStarted = 0

Candidate ==
    \/ Type
    \/ \E s \in Saves : ClickSave(s)
    \/ \E r \in Renders :
         \/ \E question \in Questions : SelectQuestion(r, question)
         \/ \E target \in {"interview", "finish"} : Navigate(r, target)
         \/ RetryRender(r)
         \/ Reload(r)

Timers == \E s \in Saves : TimerFires(s) \/ \E x \in strays : StrayFires(s, x)

ServerSteps ==
    \/ \E s \in Saves : ServeSave(s) \/ OrphanIsLost(s)
    \/ \E r \in Renders : ServeSession(r) \/ ServeAnswers(r)
    \/ ServeFinalize

Continuations ==
    \/ \E s \in Saves, r \in Renders : SaveReturns(s, r) \/ AutosaveFails(s, r)
    \/ \E s \in Saves : ManualSaveFails(s)
    \/ \E r \in Renders :
         ShowInterview(r) \/ LeaveSubmitted(r) \/ ShowFinish(r) \/ ShowError(r)

Next == Candidate \/ Timers \/ ServerSteps \/ Continuations

Spec == Init /\ [][Next]_vars
=============================================================================
