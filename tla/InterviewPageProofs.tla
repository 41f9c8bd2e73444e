------------------------ MODULE InterviewPageProofs ------------------------
(***************************************************************************)
(* The safety invariants of the candidate's interview page, for every set  *)
(* of questions, every number of overlapping saves and renders and every   *)
(* bound: the inductive invariant PageInv and its proof.                   *)
(***************************************************************************)
EXTENDS InterviewPageProperties, TLAPS, FiniteSetTheorems

-----------------------------------------------------------------------------
(* The inductive invariant: texts and stored answers *)

Waiting(r) == render[r] # NoRender

\* Also the answers that a waiting render has loaded are of their questions.
LoadsStayInTheirQuestion ==
    \A r \in Renders : Waiting(r) =>
        \A loaded \in render[r].answers, q \in Questions : BelongsTo(loaded[q].text, q)

Accepted(q, text, version) ==
    \E record \in records :
        record.question = q /\ record.text = text /\ record.version = version

StoredAnswer(q, answer) == answer # NoAnswer => Accepted(q, answer.text, answer.version)

\* What the server stores, what a render has loaded and what a save returns are
\* accepted saves, so that they stay so when they become known or a draft.
AnswersWereStored == \A q \in Questions : StoredAnswer(q, answers[q])
LoadsWereStored ==
    \A r \in Renders : Waiting(r) =>
        \A loaded \in render[r].answers, q \in Questions : StoredAnswer(q, loaded[q])
SavesWereStored ==
    \A s \in Saves : save[s].phase = "stored" =>
        Accepted(save[s].question, save[s].text, save[s].version)

-----------------------------------------------------------------------------
(* The inductive invariant: who will save an edit *)

\* A text that was typed, by the edits so far.
Typed(typed, text) ==
    text \in [question : Questions, edit : 1..MaxEdits] /\ text.edit <= typed[text.question]

IsAuto(call) == call # NoSave /\ call.mode = "auto"
Saving(calls, text) == \E s \in Saves : IsAuto(calls[s]) /\ calls[s].text = text
Saved(accepted, text) == \E record \in accepted : record.mode = "auto" /\ record.text = text

\* The timer of the textarea runs for a text nobody else will save or has saved, ...
TimerIsFirst ==
    editor.timer =>
        /\ Typed(edits, editor.text)
        /\ \A x \in strays : x.text # editor.text
        /\ ~Saving(save, editor.text) /\ ~Saved(records, editor.text)

\* ... so does every stray timer, ...
StraysAreFirst ==
    /\ \A x \in strays :
         Typed(edits, x.text) /\ ~Saving(save, x.text) /\ ~Saved(records, x.text)
    /\ \A x, y \in strays : x.text = y.text => x = y

\* ... and what is being saved or is saved was typed.
AutosavesWereTyped == \A s \in Saves : IsAuto(save[s]) => Typed(edits, save[s].text)
RecordsWereTyped == \A record \in records : record.mode = "auto" => Typed(edits, record.text)

AutosaveInv ==
    /\ TimerIsFirst /\ StraysAreFirst /\ AutosavesWereTyped /\ RecordsWereTyped
    /\ AutosaveOncePerEdit

PageInv ==
    /\ TypeOK
    /\ TextsStayInTheirQuestion /\ LoadsStayInTheirQuestion
    /\ PageShowsDraft
    /\ AnswersWereStored /\ LoadsWereStored /\ SavesWereStored
    /\ DraftIsTypedOrSaved /\ KnownAnswersWereStored
    /\ AutosaveInv

-----------------------------------------------------------------------------
(* Types *)

\* Each edit of one question counts, so a question has no more edits than the
\* bound while the count is below it.
LEMMA EditsOfOneQuestion ==
    ASSUME edits \in [Questions -> 0..MaxEdits], NEW q \in Questions, EditCount < MaxEdits
    PROVE  edits[q] + 1 \in 0..MaxEdits
<1> DEFINE counted == {e \in Questions \X (1..MaxEdits) : e[2] <= edits[e[1]]}
<1>1. IsFiniteSet(1..MaxEdits) /\ Cardinality(1..MaxEdits) = MaxEdits
  BY LimitAssumption, FS_Interval
<1>2. IsFiniteSet(Questions \X (1..MaxEdits))
  BY <1>1, QuestionAssumption, FS_Product
<1>3. IsFiniteSet(counted)
  <2>1. counted \in SUBSET (Questions \X (1..MaxEdits))
    OBVIOUS
  <2> QED BY <1>2, <2>1, FS_Subset
<1>4. CASE edits[q] = MaxEdits
  <2> DEFINE f == [i \in 1..MaxEdits |-> <<q, i>>]
  <2>1. \A i \in 1..MaxEdits : <<q, i>> \in counted
    BY <1>4, LimitAssumption
  <2>2. f \in Injection(1..MaxEdits, counted)
    BY <2>1 DEF Injection, IsInjective
  <2>3. Cardinality(1..MaxEdits) <= Cardinality(counted)
    BY <1>3, <2>2, FS_Injection
  <2>4. Cardinality(counted) \in Nat
    BY <1>3, FS_CardinalityType
  <2> QED BY <1>1, <2>3, <2>4, LimitAssumption DEF EditCount
<1> QED BY <1>4, LimitAssumption

\* A draft added keeps the drafts typed.
LEMMA WithDraftType ==
    ASSUME TypeOK, NEW q \in Questions, NEW text \in Texts, drafts' = WithDraft(q, text)
    PROVE  DOMAIN drafts' \subseteq Questions /\ drafts' \in [DOMAIN drafts' -> Texts]
BY DEF TypeOK, WithDraft

\* What a textarea shows is a text.
LEMMA ReadAnswerType ==
    ASSUME TypeOK, NEW q \in Questions, NEW loaded \in [Questions -> Answers]
    PROVE  ReadAnswerValue(q, loaded) \in Texts
BY DEF TypeOK, ReadAnswerValue, Answers

LEMMA ConstantTypes ==
    /\ Blank \in Texts /\ NoAnswer \in Answers
    /\ NoEditor \in [question : Questions, text : Texts, timer : BOOLEAN, registered : BOOLEAN]
    /\ NoSave.phase = "none" /\ NoRender.phase = "none"
    /\ \A target \in {"interview", "finish"} : Load(target) \in Loads
    /\ TypeOK => Current \in Questions
BY QuestionAssumption
DEF Blank, Texts, NoAnswer, Answers, NoEditor, NoSave, NoRender, Load, Loads, TypeOK, Current

\* A waiting call is a save that was sent or stored, or a load.
LEMMA CallParts ==
    ASSUME TypeOK
    PROVE  /\ \A s \in Saves : save[s] # NoSave => save[s] \in Calls
           /\ \A s \in Saves : save[s].phase # "none" => save[s] # NoSave
           /\ \A s \in Saves : save[s] \in Calls => save[s].phase \in {"sent", "stored"}
           /\ \A r \in Renders : Waiting(r) => render[r] \in Loads
           /\ \A r \in Renders : render[r].phase = "loading" => Waiting(r)
BY DEF TypeOK, NoSave, NoRender, Calls, Loads, Waiting

\* The cleanup of a page keeps the types of its textarea and its strays.
LEMMA CleanupTypes ==
    ASSUME TypeOK, CleanupPage
    PROVE  /\ editor' \in [question : Questions, text : Texts, timer : BOOLEAN,
                           registered : BOOLEAN]
           /\ strays' \subseteq [question : Questions, text : Texts, registered : BOOLEAN]
BY DEF TypeOK, CleanupPage

\* A render that begins keeps them as well, and its own call.
LEMMA RenderTypes ==
    ASSUME TypeOK, NEW r \in Renders, NEW target \in {"interview", "finish"}, Render(r, target)
    PROVE  /\ editor' \in [question : Questions, text : Texts, timer : BOOLEAN,
                           registered : BOOLEAN]
           /\ strays' \subseteq [question : Questions, text : Texts, registered : BOOLEAN]
           /\ render' \in [Renders -> Loads \cup {NoRender}]
<1>1. render' \in [Renders -> Loads \cup {NoRender}]
  BY ConstantTypes DEF TypeOK, Render
<1> QED BY <1>1, CleanupTypes DEF Render

\* A textarea that is replaced leaves its timer behind.
LEMMA ShowTypes ==
    ASSUME TypeOK, NEW what \in {"none", "interview", "finish", "error"},
           NEW new \in [question : Questions, text : Texts, timer : BOOLEAN,
                        registered : BOOLEAN],
           Show(what, new)
    PROVE  /\ shown' \in {"none", "interview", "finish", "error"}
           /\ editor' \in [question : Questions, text : Texts, timer : BOOLEAN,
                           registered : BOOLEAN]
           /\ strays' \subseteq [question : Questions, text : Texts, registered : BOOLEAN]
<1>1. Detached \subseteq [question : Questions, text : Texts, registered : BOOLEAN]
  BY DEF Detached, TypeOK
<1> QED BY <1>1 DEF Show, TypeOK

\* A save that starts is a call of its question and text.
LEMMA StartSaveTypes ==
    ASSUME TypeOK, NEW s \in Saves, NEW q \in Questions, NEW text \in Texts,
           NEW mode \in {"auto", "manual"}, StartSave(s, q, text, mode)
    PROVE  save' \in [Saves -> Calls \cup {NoSave}] /\ savesStarted' \in 0..MaxSaves
BY LimitAssumption DEF StartSave, TypeOK, Calls

\* The steps of the candidate keep the types.
LEMMA CandidateTypes == ASSUME TypeOK, Candidate PROVE TypeOK'
<1> USE LimitAssumption
<1>1. CASE Type
  <2>1. PICK q, text : /\ q = editor.question
                       /\ text = [question |-> q, edit |-> edits[q] + 1]
    OBVIOUS
  <2>2. q \in Questions
    BY <2>1 DEF TypeOK
  <2>3. edits[q] + 1 \in 1..MaxEdits
    BY <1>1, <2>2, EditsOfOneQuestion DEF Type, TypeOK
  <2>4. text \in Texts
    BY <2>1, <2>2, <2>3 DEF Texts
  <2>5. DOMAIN drafts' \subseteq Questions /\ drafts' \in [DOMAIN drafts' -> Texts]
    BY <1>1, <2>1, <2>2, <2>4, WithDraftType DEF Type
  <2>6. edits' \in [Questions -> 0..MaxEdits]
    BY <1>1, <2>1, <2>2, <2>3 DEF Type, TypeOK
  <2>7. editor' \in [question : Questions, text : Texts, timer : BOOLEAN, registered : BOOLEAN]
    BY <1>1, <2>1, <2>4 DEF Type, TypeOK
  <2> QED BY <1>1, <2>5, <2>6, <2>7 DEF Type, TypeOK, serverVars, stateVars
<1>2. ASSUME NEW s \in Saves, ClickSave(s)
      PROVE  TypeOK'
  <2>1. save' \in [Saves -> Calls \cup {NoSave}] /\ savesStarted' \in 0..MaxSaves
    BY <1>2, StartSaveTypes DEF ClickSave, TypeOK
  <2>2. drafts' = drafts
    BY <1>2 DEF ClickSave, StartSave
  <2> QED BY <1>2, <2>1, <2>2 DEF ClickSave, TypeOK, serverVars, stateVars, pageVars
<1>3. ASSUME NEW r \in Renders, NEW question \in Questions, SelectQuestion(r, question)
      PROVE  TypeOK'
  <2>1. Render(r, route) /\ route \in {"interview", "finish"}
    BY <1>3 DEF SelectQuestion, TypeOK
  <2> QED BY <1>3, <2>1, RenderTypes DEF SelectQuestion, Move, TypeOK, serverVars
<1>4. ASSUME NEW r \in Renders, NEW target \in {"interview", "finish"}, Navigate(r, target)
      PROVE  TypeOK'
  BY <1>4, RenderTypes DEF Navigate, Move, TypeOK, serverVars, stateVars
<1>5. ASSUME NEW r \in Renders, RetryRender(r)
      PROVE  TypeOK'
  <2>1. Render(r, route) /\ route \in {"interview", "finish"}
    BY <1>5 DEF RetryRender, TypeOK
  <2> QED BY <1>5, <2>1, RenderTypes DEF RetryRender, Move, TypeOK, serverVars, stateVars
<1>6. ASSUME NEW r \in Renders, Reload(r)
      PROVE  TypeOK'
  <2>1. render' \in [Renders -> Loads \cup {NoRender}]
    BY <1>6, ConstantTypes DEF Reload, TypeOK
  <2>2. \A s \in Saves : save[s].phase = "sent" => [save[s] EXCEPT !.orphan = TRUE] \in Calls
    BY CallParts DEF Calls
  <2>3. save' \in [Saves -> Calls \cup {NoSave}]
    BY <1>6, <2>2 DEF Reload
  <2> QED BY <1>6, <2>1, <2>3, ConstantTypes DEF Reload, Move, TypeOK, serverVars
<1> QED BY <1>1, <1>2, <1>3, <1>4, <1>5, <1>6 DEF Candidate

\* So do the timers.
LEMMA TimerTypes == ASSUME TypeOK, Timers PROVE TypeOK'
<1>1. ASSUME NEW s \in Saves, TimerFires(s)
      PROVE  TypeOK'
  <2>1. save' \in [Saves -> Calls \cup {NoSave}] /\ savesStarted' \in 0..MaxSaves
    BY <1>1, StartSaveTypes DEF TimerFires, TypeOK
  <2>2. drafts' = drafts
    BY <1>1 DEF TimerFires, StartSave
  <2> QED BY <1>1, <2>1, <2>2 DEF TimerFires, TypeOK, serverVars, stateVars
<1>2. ASSUME NEW s \in Saves, NEW x \in strays, StrayFires(s, x)
      PROVE  TypeOK'
  <2>1. save' \in [Saves -> Calls \cup {NoSave}] /\ savesStarted' \in 0..MaxSaves
    BY <1>2, StartSaveTypes DEF StrayFires, TypeOK
  <2>2. drafts' = drafts
    BY <1>2 DEF StrayFires, StartSave
  <2> QED BY <1>2, <2>1, <2>2 DEF StrayFires, TypeOK, serverVars, stateVars
<1> QED BY <1>1, <1>2 DEF Timers

\* The server's steps.
LEMMA ServerTypes == ASSUME TypeOK, ServerSteps PROVE TypeOK'
<1>1. ASSUME NEW s \in Saves, ServeSave(s)
      PROVE  TypeOK'
  <2>1. save[s] \in Calls
    BY <1>1, CallParts DEF ServeSave
  <2>2. PICK version : version = answers[save[s].question].version + 1
    OBVIOUS
  <2>3. version \in Nat \ {0}
    BY <2>1, <2>2 DEF TypeOK, Calls, Answers
  <2>4. [text |-> save[s].text, version |-> version] \in Answers
    BY <2>1, <2>3 DEF Calls, Answers
  <2>5. answers' \in [Questions -> Answers]
    BY <1>1, <2>2, <2>4 DEF ServeSave, TypeOK
  <2>6. records' \subseteq Records
    BY <1>1, <2>1, <2>2, <2>3 DEF ServeSave, TypeOK, Calls, Records
  <2>7. [save[s] EXCEPT !.phase = "stored", !.version = version] \in Calls
    BY <2>1, <2>3 DEF Calls
  <2>8. save' \in [Saves -> Calls \cup {NoSave}]
    BY <1>1, <2>2, <2>7 DEF ServeSave, TypeOK
  <2> QED BY <1>1, <2>5, <2>6, <2>8 DEF ServeSave, TypeOK, stateVars, pageVars, countVars
<1>2. ASSUME NEW s \in Saves, OrphanIsLost(s)
      PROVE  TypeOK'
  BY <1>2 DEF OrphanIsLost, TypeOK, serverVars, stateVars, pageVars, countVars
<1>3. ASSUME NEW r \in Renders, ServeSession(r)
      PROVE  TypeOK'
  <2>1. [render[r] EXCEPT !.status = status] \in Loads
    BY <1>3, CallParts DEF ServeSession, TypeOK, Loads
  <2>2. render' \in [Renders -> Loads \cup {NoRender}]
    BY <1>3, <2>1 DEF ServeSession, TypeOK
  <2> QED BY <1>3, <2>2 DEF ServeSession, TypeOK, serverVars, stateVars, pageVars, countVars
<1>4. ASSUME NEW r \in Renders, ServeAnswers(r)
      PROVE  TypeOK'
  <2>1. [render[r] EXCEPT !.answers = {answers}] \in Loads
    BY <1>4, CallParts DEF ServeAnswers, TypeOK, Loads
  <2>2. render' \in [Renders -> Loads \cup {NoRender}]
    BY <1>4, <2>1 DEF ServeAnswers, TypeOK
  <2> QED BY <1>4, <2>2 DEF ServeAnswers, TypeOK, serverVars, stateVars, pageVars, countVars
<1>5. ASSUME ServeFinalize
      PROVE  TypeOK'
  BY <1>5 DEF ServeFinalize, TypeOK, stateVars, pageVars, countVars
<1> QED BY <1>1, <1>2, <1>3, <1>4, <1>5 DEF ServerSteps

\* And the continuations of the page.
LEMMA ContinuationTypes == ASSUME TypeOK, Continuations PROVE TypeOK'
<1>1. route \in {"interview", "finish"}
  BY DEF TypeOK
<1>2. ASSUME NEW s \in Saves, NEW r \in Renders, SaveReturns(s, r)
      PROVE  TypeOK'
  <2>1. save[s] \in Calls
    BY <1>2, CallParts DEF SaveReturns
  <2>2. [text |-> save[s].text, version |-> save[s].version] \in Answers
    BY <2>1 DEF Calls, Answers
  <2>3. known' \in [Questions -> Answers]
    BY <1>2, <2>2 DEF SaveReturns, TypeOK
  <2>4. DOMAIN drafts' \subseteq Questions /\ drafts' \in [DOMAIN drafts' -> Texts]
    BY <1>2, <2>1, WithDraftType DEF SaveReturns, Calls
  <2>5. save' \in [Saves -> Calls \cup {NoSave}]
    BY <1>2 DEF SaveReturns, TypeOK
  <2> QED BY <1>1, <1>2, <2>3, <2>4, <2>5, RenderTypes
      DEF SaveReturns, TypeOK, serverVars, countVars
<1>3. ASSUME NEW s \in Saves, SaveIsLost(s)
      PROVE  save' \in [Saves -> Calls \cup {NoSave}]
  BY <1>3 DEF SaveIsLost, TypeOK
<1>4. ASSUME NEW s \in Saves, NEW r \in Renders, AutosaveFails(s, r)
      PROVE  TypeOK'
  BY <1>1, <1>3, <1>4, RenderTypes DEF AutosaveFails, TypeOK, serverVars, stateVars, countVars
<1>5. ASSUME NEW s \in Saves, ManualSaveFails(s)
      PROVE  TypeOK'
  BY <1>3, <1>5 DEF ManualSaveFails, TypeOK, serverVars, stateVars, pageVars, countVars
<1>6. ASSUME NEW r \in Renders, render' = [render EXCEPT ![r] = NoRender]
      PROVE  render' \in [Renders -> Loads \cup {NoRender}]
  BY <1>6 DEF TypeOK
<1>7. ASSUME NEW r \in Renders, ShowInterview(r)
      PROVE  TypeOK'
  <2>1. PICK loaded \in render[r].answers :
          /\ known' = loaded
          /\ Show("interview", [question |-> Current, text |-> ReadAnswerValue(Current, loaded),
                                timer |-> FALSE, registered |-> TRUE])
    BY <1>7 DEF ShowInterview
  <2>2. loaded \in [Questions -> Answers]
    BY <1>7, <2>1, CallParts DEF ShowInterview, Loads
  <2>3. Current \in Questions
    BY ConstantTypes
  <2>4. [question |-> Current, text |-> ReadAnswerValue(Current, loaded),
         timer |-> FALSE, registered |-> TRUE]
          \in [question : Questions, text : Texts, timer : BOOLEAN, registered : BOOLEAN]
    BY <2>2, <2>3, ReadAnswerType
  <2>5. /\ shown' \in {"none", "interview", "finish", "error"}
        /\ editor' \in [question : Questions, text : Texts, timer : BOOLEAN,
                        registered : BOOLEAN]
        /\ strays' \subseteq [question : Questions, text : Texts, registered : BOOLEAN]
    BY <2>1, <2>4, ShowTypes
  <2> QED BY <1>6, <1>7, <2>1, <2>2, <2>3, <2>5 DEF ShowInterview, TypeOK, serverVars, countVars
<1>8. ASSUME NEW r \in Renders, LeaveSubmitted(r)
      PROVE  TypeOK'
  <2>1. known' \in [Questions -> Answers]
    BY <1>8, CallParts DEF LeaveSubmitted, Loads
  <2>2. render' \in [Renders -> Loads \cup {NoRender}]
    BY <1>8, ConstantTypes DEF LeaveSubmitted, TypeOK
  <2> QED BY <1>8, <2>1, <2>2, ConstantTypes, CleanupTypes
      DEF LeaveSubmitted, TypeOK, serverVars, countVars
<1>9. ASSUME NEW r \in Renders, ShowFinish(r) \/ ShowError(r)
      PROVE  TypeOK'
  <2>1. /\ shown' \in {"none", "interview", "finish", "error"}
        /\ editor' \in [question : Questions, text : Texts, timer : BOOLEAN,
                        registered : BOOLEAN]
        /\ strays' \subseteq [question : Questions, text : Texts, registered : BOOLEAN]
    BY <1>9, ConstantTypes, ShowTypes DEF ShowFinish, ShowError
  <2> QED BY <1>6, <1>9, <2>1 DEF ShowFinish, ShowError, TypeOK, serverVars, stateVars, countVars
<1> QED BY <1>2, <1>4, <1>5, <1>7, <1>8, <1>9 DEF Continuations

\* Every step keeps the types.
LEMMA TypesKept == ASSUME TypeOK, [Next]_vars PROVE TypeOK'
<1>1. CASE UNCHANGED vars
  BY <1>1 DEF vars, TypeOK, serverVars, stateVars, pageVars, countVars
<1> QED BY <1>1, CandidateTypes, TimerTypes, ServerTypes, ContinuationTypes DEF Next

-----------------------------------------------------------------------------
(* What a step does with texts and answers *)

RecordOf(call, version) ==
    [question |-> call.question, text |-> call.text, mode |-> call.mode, version |-> version]

\* The answer of one question becomes the save that was accepted.
AnswersStep ==
    /\ records \subseteq records'
    /\ \A q \in Questions :
         \/ answers'[q] = answers[q]
         \/ \E s \in Saves :
              /\ save[s].phase = "sent" /\ save[s].question = q
              /\ answers'[q].text = save[s].text
              /\ RecordOf(save[s], answers'[q].version) \in records'

LEMMA EveryStepIsAnAnswersStep == ASSUME TypeOK, [Next]_vars PROVE AnswersStep
<1>1. CASE UNCHANGED <<answers, records>>
  BY <1>1 DEF AnswersStep
<1>2. ASSUME NEW s \in Saves, ServeSave(s)
      PROVE  AnswersStep
  <2>1. save[s] \in Calls
    BY <1>2, CallParts DEF ServeSave
  <2>2. PICK version : version = answers[save[s].question].version + 1
    OBVIOUS
  <2>3. answers' = [answers EXCEPT ![save[s].question] =
                      [text |-> save[s].text, version |-> version]]
    BY <1>2, <2>2 DEF ServeSave
  <2>4. records' = records \cup {RecordOf(save[s], version)}
    BY <1>2, <2>2 DEF ServeSave, RecordOf
  <2>5. answers'[save[s].question] = [text |-> save[s].text, version |-> version]
    BY <2>1, <2>3 DEF TypeOK, Calls
  <2>6. \A q \in Questions : q # save[s].question => answers'[q] = answers[q]
    BY <2>3 DEF TypeOK
  <2> QED BY <1>2, <2>4, <2>5, <2>6 DEF ServeSave, AnswersStep
<1>3. Candidate \/ Timers \/ Continuations => UNCHANGED <<answers, records>>
  BY DEF Candidate, Type, ClickSave, SelectQuestion, Navigate, RetryRender, Reload,
         Timers, TimerFires, StrayFires, Continuations, SaveReturns, AutosaveFails,
         ManualSaveFails, ShowInterview, LeaveSubmitted, ShowFinish, ShowError, serverVars
<1>4. ASSUME ServerSteps, ~\E s \in Saves : ServeSave(s)
      PROVE  UNCHANGED <<answers, records>>
  BY <1>4 DEF ServerSteps, OrphanIsLost, ServeSession, ServeAnswers, ServeFinalize, serverVars
<1> QED BY <1>1, <1>2, <1>3, <1>4 DEF Next, vars, serverVars

\* A save goes on with its question and text, and it is stored with a record;
\* one that starts takes those of a textarea whose text was typed.
SaveStep(s) ==
    \/ save'[s] = NoSave
    \/ /\ save[s] # NoSave
       /\ save'[s].question = save[s].question /\ save'[s].text = save[s].text
       /\ \/ save'[s].phase = save[s].phase /\ save'[s].version = save[s].version
          \/ \E record \in records' :
               /\ record.question = save[s].question /\ record.text = save[s].text
               /\ record.version = save'[s].version
    \/ /\ save'[s].phase = "sent"
       /\ \/ save'[s].question = editor.question /\ save'[s].text = editor.text
          \/ \E x \in strays : save'[s].question = x.question /\ save'[s].text = x.text

LEMMA EveryStepIsASaveStep == ASSUME TypeOK, [Next]_vars PROVE \A s \in Saves : SaveStep(s)
<1>1. CASE UNCHANGED save
  BY <1>1 DEF SaveStep
<1>2. ASSUME NEW s \in Saves, save' = [save EXCEPT ![s] = NoSave]
      PROVE  \A t \in Saves : SaveStep(t)
  BY <1>2 DEF SaveStep, TypeOK
<1>3. ASSUME NEW s \in Saves, NEW q, NEW text, NEW mode, StartSave(s, q, text, mode),
             \/ q = editor.question /\ text = editor.text
             \/ \E x \in strays : q = x.question /\ text = x.text
      PROVE  \A t \in Saves : SaveStep(t)
  <2>1. PICK call : call = [phase |-> "sent", question |-> q, text |-> text, mode |-> mode,
                            version |-> 0, orphan |-> FALSE]
    OBVIOUS
  <2>2. save' = [save EXCEPT ![s] = call]
    BY <1>3, <2>1 DEF StartSave
  <2>3. save'[s] = call /\ \A t \in Saves : t # s => save'[t] = save[t]
    BY <2>2 DEF TypeOK
  <2>4. SaveStep(s)
    BY <1>3, <2>1, <2>3 DEF SaveStep
  <2> QED BY <2>3, <2>4 DEF SaveStep
<1>4. ASSUME NEW r \in Renders, Reload(r)
      PROVE  \A t \in Saves : SaveStep(t)
  <2>1. ASSUME NEW t \in Saves, save[t].phase = "sent"
        PROVE  SaveStep(t)
    <3>1. save[t] \in Calls /\ save[t] # NoSave
      BY <2>1, CallParts DEF NoSave
    <3>2. save'[t] = [save[t] EXCEPT !.orphan = TRUE]
      BY <1>4, <2>1 DEF Reload
    <3> QED BY <3>1, <3>2 DEF SaveStep, Calls
  <2> QED BY <1>4, <2>1 DEF Reload, SaveStep
<1>5. ASSUME NEW s \in Saves, ServeSave(s)
      PROVE  \A t \in Saves : SaveStep(t)
  <2>1. save[s] \in Calls /\ save[s] # NoSave
    BY <1>5, CallParts DEF ServeSave, NoSave
  <2>2. PICK version : version = answers[save[s].question].version + 1
    OBVIOUS
  <2>3. RecordOf(save[s], version) \in records'
    BY <1>5, <2>2 DEF ServeSave, RecordOf
  <2>4. save' = [save EXCEPT ![s] =
                   IF save[s].orphan THEN NoSave
                   ELSE [save[s] EXCEPT !.phase = "stored", !.version = version]]
    BY <1>5, <2>2 DEF ServeSave
  <2>5. \A t \in Saves : t # s => save'[t] = save[t]
    BY <2>4 DEF TypeOK
  <2>6. \/ save'[s] = NoSave
        \/ save'[s] = [save[s] EXCEPT !.phase = "stored", !.version = version]
    BY <2>4 DEF TypeOK
  <2>7. save'[s] # NoSave => /\ save'[s].question = save[s].question
                             /\ save'[s].text = save[s].text
                             /\ save'[s].version = version
    BY <2>1, <2>6 DEF Calls
  <2>8. SaveStep(s)
    BY <2>1, <2>3, <2>7 DEF SaveStep, RecordOf
  <2> QED BY <2>5, <2>8 DEF SaveStep
<1>6. CASE Candidate
  <2>1. ASSUME NEW s \in Saves, ClickSave(s)
        PROVE  \A t \in Saves : SaveStep(t)
    BY <1>3, <2>1 DEF ClickSave
  <2>2. ASSUME ~\E s \in Saves : ClickSave(s), ~\E r \in Renders : Reload(r)
        PROVE  UNCHANGED save
    BY <1>6, <2>2 DEF Candidate, Type, SelectQuestion, Navigate, RetryRender
  <2> QED BY <1>1, <1>4, <2>1, <2>2
<1>7. CASE Timers
  BY <1>3, <1>7 DEF Timers, TimerFires, StrayFires
<1>8. CASE ServerSteps
  <2>1. ASSUME ~\E s \in Saves : ServeSave(s)
        PROVE  UNCHANGED save \/ \E s \in Saves : save' = [save EXCEPT ![s] = NoSave]
    BY <1>8, <2>1 DEF ServerSteps, OrphanIsLost, ServeSession, ServeAnswers, ServeFinalize
  <2> QED BY <1>1, <1>2, <1>5, <2>1
<1>9. CASE Continuations
  <2>1. UNCHANGED save \/ \E s \in Saves : save' = [save EXCEPT ![s] = NoSave]
    BY <1>9 DEF Continuations, SaveReturns, SaveIsLost, AutosaveFails, ManualSaveFails,
                ShowInterview, LeaveSubmitted, ShowFinish, ShowError
  <2> QED BY <1>1, <1>2, <2>1
<1> QED BY <1>1, <1>6, <1>7, <1>8, <1>9 DEF Next, vars

\* The page learns an answer from a load or from a save it stored.
KnownStep ==
    \A q \in Questions :
        \/ known'[q] = known[q]
        \/ known'[q] = NoAnswer
        \/ \E r \in Renders : Waiting(r) /\ \E loaded \in render[r].answers : known'[q] = loaded[q]
        \/ \E s \in Saves : /\ save[s].phase = "stored" /\ save[s].question = q
                            /\ known'[q] = [text |-> save[s].text, version |-> save[s].version]

LEMMA EveryStepIsAKnownStep == ASSUME TypeOK, [Next]_vars PROVE KnownStep
<1> USE DEF KnownStep
<1>1. CASE UNCHANGED known
  BY <1>1
<1>2. ASSUME NEW s \in Saves, NEW r \in Renders, SaveReturns(s, r)
      PROVE  KnownStep
  BY <1>2 DEF SaveReturns, TypeOK
<1>3. ASSUME NEW r \in Renders, ShowInterview(r)
      PROVE  KnownStep
  BY <1>3, CallParts DEF ShowInterview
<1>4. ASSUME NEW r \in Renders, LeaveSubmitted(r)
      PROVE  KnownStep
  BY <1>4, CallParts DEF LeaveSubmitted
<1>5. ASSUME NEW r \in Renders, Reload(r)
      PROVE  KnownStep
  BY <1>5 DEF Reload
<1>6. ASSUME Candidate, ~\E r \in Renders : Reload(r)
      PROVE  UNCHANGED known
  BY <1>6 DEF Candidate, Type, ClickSave, SelectQuestion, Navigate, RetryRender, stateVars
<1>7. Timers \/ ServerSteps => UNCHANGED known
  BY DEF Timers, TimerFires, StrayFires, ServerSteps, ServeSave, OrphanIsLost, ServeSession,
         ServeAnswers, ServeFinalize, stateVars
<1>8. CASE Continuations
  <2>1. ASSUME ~\E s \in Saves, r \in Renders : SaveReturns(s, r),
               ~\E r \in Renders : ShowInterview(r) \/ LeaveSubmitted(r)
        PROVE  UNCHANGED known
    BY <1>8, <2>1 DEF Continuations, AutosaveFails, ManualSaveFails, ShowFinish, ShowError,
                      stateVars
  <2> QED BY <1>1, <1>2, <1>3, <1>4, <2>1
<1> QED BY <1>1, <1>5, <1>6, <1>7, <1>8 DEF Next, vars, stateVars

\* A render loads what the server stores.
LoadsStep ==
    \A r \in Renders : Waiting(r)' =>
        \/ render'[r].answers = {}
        \/ render'[r].answers = {answers}
        \/ Waiting(r) /\ render'[r].answers = render[r].answers

LEMMA EveryStepIsALoadsStep == ASSUME TypeOK, [Next]_vars PROVE LoadsStep
<1>1. CASE UNCHANGED render
  BY <1>1 DEF LoadsStep, Waiting
<1>2. ASSUME NEW r \in Renders, NEW call, render' = [render EXCEPT ![r] = call],
             \/ call = NoRender
             \/ call.answers \in {{}, {answers}}
             \/ Waiting(r) /\ call.answers = render[r].answers
      PROVE  LoadsStep
  BY <1>2 DEF LoadsStep, Waiting, TypeOK
<1>3. \A target : Load(target).answers = {}
  BY DEF Load
<1>4. ASSUME NEW r \in Renders, NEW target, Render(r, target)
      PROVE  LoadsStep
  BY <1>2, <1>3, <1>4 DEF Render
<1>5. ASSUME NEW r \in Renders, Reload(r)
      PROVE  LoadsStep
  BY <1>3, <1>5 DEF Reload, LoadsStep, Waiting
<1>6. ASSUME NEW r \in Renders, ServeSession(r)
      PROVE  LoadsStep
  <2>1. PICK call : call = [render[r] EXCEPT !.status = status]
    OBVIOUS
  <2>2. Waiting(r) /\ render[r] \in Loads
    BY <1>6, CallParts DEF ServeSession
  <2>3. call.answers = render[r].answers
    BY <2>1, <2>2 DEF Loads
  <2>4. render' = [render EXCEPT ![r] = call]
    BY <1>6, <2>1 DEF ServeSession
  <2> QED BY <1>2, <2>2, <2>3, <2>4
<1>7. ASSUME NEW r \in Renders, ServeAnswers(r)
      PROVE  LoadsStep
  <2>1. PICK call : call = [render[r] EXCEPT !.answers = {answers}]
    OBVIOUS
  <2>2. Waiting(r) /\ render[r] \in Loads
    BY <1>7, CallParts DEF ServeAnswers
  <2>3. call.answers = {answers}
    BY <2>1, <2>2 DEF Loads
  <2>4. render' = [render EXCEPT ![r] = call]
    BY <1>7, <2>1 DEF ServeAnswers
  <2> QED BY <1>2, <2>3, <2>4
<1>8. CASE Candidate
  <2>1. ASSUME ~\E r \in Renders : Reload(r)
        PROVE  UNCHANGED render \/ \E r \in Renders, target \in {"interview", "finish", route} :
                                     Render(r, target)
    BY <1>8, <2>1 DEF Candidate, Type, ClickSave, SelectQuestion, Navigate, RetryRender
  <2> QED BY <1>1, <1>4, <1>5, <2>1
<1>9. CASE Timers
  BY <1>1, <1>9 DEF Timers, TimerFires, StrayFires
<1>10. CASE ServerSteps
  BY <1>1, <1>6, <1>7, <1>10 DEF ServerSteps, ServeSave, OrphanIsLost, ServeFinalize
<1>11. CASE Continuations
  <2>1. \/ UNCHANGED render
        \/ \E r \in Renders : Render(r, route)
        \/ \E r \in Renders, call \in {NoRender, Load("finish")} :
             render' = [render EXCEPT ![r] = call]
    BY <1>11 DEF Continuations, SaveReturns, AutosaveFails, ManualSaveFails, ShowInterview,
                 LeaveSubmitted, ShowFinish, ShowError
  <2> QED BY <1>1, <1>2, <1>3, <1>4, <2>1
<1> QED BY <1>1, <1>8, <1>9, <1>10, <1>11 DEF Next, vars

\* The textarea is typed in, or it comes with the draft or the answer loaded.
EditorStep ==
    \/ editor'.question = editor.question /\ editor'.text = editor.text
    \/ editor'.text = Blank
    \/ editor'.text.question = editor'.question
    \/ \E r \in Renders, q \in Questions : Waiting(r) /\ \E loaded \in render[r].answers :
         editor'.question = q /\ editor'.text = ReadAnswerValue(q, loaded)

\* A stray timer was that of the textarea.
StrayStep ==
    \A x \in strays' : x \in strays \/ (x.question = editor.question /\ x.text = editor.text)

LEMMA EveryStepIsAnEditorStep == ASSUME TypeOK, [Next]_vars PROVE EditorStep /\ StrayStep
<1> USE DEF EditorStep, StrayStep
<1>1. editor \in [question : Questions, text : Texts, timer : BOOLEAN, registered : BOOLEAN]
  BY DEF TypeOK
<1>2. CASE UNCHANGED <<editor, strays>>
  BY <1>2
<1>3. ASSUME CleanupPage
      PROVE  EditorStep /\ StrayStep
  BY <1>1, <1>3 DEF CleanupPage
<1>4. ASSUME NEW what, NEW new, Show(what, new)
      PROVE  editor' = new /\ StrayStep
  BY <1>4 DEF Show, Detached
<1>5. ASSUME Type
      PROVE  EditorStep /\ StrayStep
  BY <1>1, <1>5 DEF Type
<1>6. ASSUME NEW r \in Renders, Reload(r)
      PROVE  EditorStep /\ StrayStep
  BY <1>6 DEF Reload, NoEditor
<1>7. CASE Candidate
  <2>1. ASSUME ~Type, ~\E r \in Renders : Reload(r)
        PROVE  UNCHANGED <<editor, strays>> \/ CleanupPage
    BY <1>7, <2>1 DEF Candidate, ClickSave, SelectQuestion, Navigate, RetryRender, Render, pageVars
  <2> QED BY <1>2, <1>3, <1>5, <1>6, <2>1
<1>8. CASE Timers
  BY <1>1, <1>8 DEF Timers, TimerFires, StrayFires
<1>9. CASE ServerSteps
  BY <1>2, <1>9 DEF ServerSteps, ServeSave, OrphanIsLost, ServeSession, ServeAnswers,
                    ServeFinalize, pageVars
<1>10. ASSUME NEW r \in Renders, ShowInterview(r)
       PROVE  EditorStep /\ StrayStep
  <2>1. Waiting(r) /\ Current \in Questions
    BY <1>10, CallParts, ConstantTypes DEF ShowInterview
  <2>2. PICK loaded \in render[r].answers :
          Show("interview", [question |-> Current, text |-> ReadAnswerValue(Current, loaded),
                             timer |-> FALSE, registered |-> TRUE])
    BY <1>10 DEF ShowInterview
  <2>3. editor'.question = Current /\ editor'.text = ReadAnswerValue(Current, loaded)
    BY <1>4, <2>2
  <2> QED BY <1>4, <2>1, <2>2, <2>3
<1>11. ASSUME NEW r \in Renders, ShowFinish(r) \/ ShowError(r)
       PROVE  EditorStep /\ StrayStep
  <2>1. PICK what : Show(what, NoEditor)
    BY <1>11 DEF ShowFinish, ShowError
  <2> QED BY <1>4, <2>1 DEF NoEditor
<1>12. CASE Continuations
  <2>1. ASSUME ~\E r \in Renders : ShowInterview(r) \/ ShowFinish(r) \/ ShowError(r)
        PROVE  UNCHANGED <<editor, strays>> \/ CleanupPage
    BY <1>12, <2>1 DEF Continuations, SaveReturns, AutosaveFails, ManualSaveFails,
                       LeaveSubmitted, Render, pageVars
  <2> QED BY <1>2, <1>3, <1>10, <1>11, <2>1
<1> QED BY <1>2, <1>7, <1>8, <1>9, <1>12 DEF Next, vars, pageVars

\* A draft is what was typed last or what a save stored.
DraftStep ==
    /\ \A q \in DOMAIN drafts' :
         \/ q \in DOMAIN drafts /\ drafts'[q] = drafts[q] /\ edits'[q] = edits[q]
         \/ drafts'[q] = LastTyped(q)'
         \/ \E s \in Saves : /\ save[s].phase = "stored" /\ save[s].question = q
                             /\ drafts'[q] = save[s].text

LEMMA EveryStepIsADraftStep == ASSUME TypeOK, [Next]_vars PROVE DraftStep
<1>1. CASE UNCHANGED <<drafts, edits>>
  BY <1>1 DEF DraftStep
<1>2. CASE Type
  <2>1. PICK q : q = editor.question
    OBVIOUS
  <2>2. q \in Questions
    BY <2>1 DEF TypeOK
  <2>3. edits'[q] = edits[q] + 1 /\ \A x \in Questions : x # q => edits'[x] = edits[x]
    BY <1>2, <2>1, <2>2 DEF Type, TypeOK
  <2>4. drafts' = WithDraft(q, [question |-> q, edit |-> edits[q] + 1])
    BY <1>2, <2>1 DEF Type
  <2> QED BY <2>2, <2>3, <2>4 DEF DraftStep, WithDraft, LastTyped, TypeOK
<1>3. ASSUME NEW s \in Saves, NEW r \in Renders, SaveReturns(s, r)
      PROVE  DraftStep
  BY <1>3 DEF SaveReturns, WithDraft, DraftStep, countVars
<1>4. CASE Candidate
  <2>1. ASSUME ~Type
        PROVE  UNCHANGED <<drafts, edits>>
    BY <1>4, <2>1 DEF Candidate, ClickSave, StartSave, SelectQuestion, Navigate, RetryRender,
                      Reload, Move
  <2> QED BY <1>1, <1>2, <2>1
<1>5. CASE Timers \/ ServerSteps
  BY <1>1, <1>5 DEF Timers, TimerFires, StrayFires, StartSave, ServerSteps, ServeSave,
                    OrphanIsLost, ServeSession, ServeAnswers, ServeFinalize, countVars
<1>6. CASE Continuations
  <2>1. ASSUME ~\E s \in Saves, r \in Renders : SaveReturns(s, r)
        PROVE  UNCHANGED <<drafts, edits>>
    BY <1>6, <2>1 DEF Continuations, AutosaveFails, ManualSaveFails, ShowInterview,
                      LeaveSubmitted, ShowFinish, ShowError, countVars
  <2> QED BY <1>1, <1>3, <2>1
<1> QED BY <1>1, <1>4, <1>5, <1>6 DEF Next, vars, countVars

-----------------------------------------------------------------------------
(* Texts and stored answers are kept *)

\* No step carries a text over to another question.
LEMMA TextsKept ==
    ASSUME TypeOK, TextsStayInTheirQuestion, LoadsStayInTheirQuestion,
           AnswersStep, \A s \in Saves : SaveStep(s), KnownStep, LoadsStep,
           EditorStep, StrayStep, DraftStep
    PROVE  TextsStayInTheirQuestion' /\ LoadsStayInTheirQuestion'
<1> USE DEF TextsStayInTheirQuestion, LoadsStayInTheirQuestion
<1>1. \A s \in Saves : save[s].phase # "none" => BelongsTo(save[s].text, save[s].question)
  BY CallParts
<1>2. ASSUME NEW q \in Questions
      PROVE  BelongsTo(answers'[q].text, q) /\ BelongsTo(known'[q].text, q)
  <2>1. BelongsTo(answers'[q].text, q)
    BY <1>1 DEF AnswersStep
  <2>2. BelongsTo(NoAnswer.text, q)
    BY DEF NoAnswer, BelongsTo
  <2>3. \A s \in Saves : (save[s].phase = "stored" /\ save[s].question = q) =>
          BelongsTo([text |-> save[s].text, version |-> save[s].version].text, q)
    BY <1>1
  <2>4. BelongsTo(known'[q].text, q)
    BY <2>2, <2>3 DEF KnownStep
  <2> QED BY <2>1, <2>4
<1>3. ASSUME NEW q \in DOMAIN drafts'
      PROVE  BelongsTo(drafts'[q], q)
  <2>1. BelongsTo(LastTyped(q)', q)
    BY DEF LastTyped, BelongsTo
  <2> QED BY <1>1, <2>1 DEF DraftStep
<1>4. BelongsTo(editor'.text, editor'.question)
  <2>1. ASSUME NEW r \in Renders, NEW q \in Questions, Waiting(r),
               NEW loaded \in render[r].answers
        PROVE  BelongsTo(ReadAnswerValue(q, loaded), q)
    BY <2>1 DEF ReadAnswerValue
  <2>2. CASE editor'.text = Blank \/ editor'.text.question = editor'.question
    BY <2>2 DEF BelongsTo
  <2> QED BY <2>1, <2>2 DEF EditorStep
<1>5. ASSUME NEW x \in strays'
      PROVE  BelongsTo(x.text, x.question)
  BY DEF StrayStep
<1>6. ASSUME NEW s \in Saves, save'[s] # NoSave
      PROVE  BelongsTo(save'[s].text, save'[s].question)
  BY <1>6 DEF SaveStep
<1>7. ASSUME NEW r \in Renders, Waiting(r)', NEW loaded \in render'[r].answers, NEW q \in Questions
      PROVE  BelongsTo(loaded[q].text, q)
  BY <1>7 DEF LoadsStep
<1> QED BY <1>2, <1>3, <1>4, <1>5, <1>6, <1>7

\* An accepted save stays accepted.
LEMMA AcceptedStays ==
    ASSUME AnswersStep, NEW q, NEW text, NEW version, Accepted(q, text, version)
    PROVE  \E record \in records' :
             record.question = q /\ record.text = text /\ record.version = version
BY DEF AnswersStep, Accepted

\* What becomes an answer, known or a draft is an accepted save.
LEMMA StoredKept ==
    ASSUME TypeOK, AnswersWereStored, LoadsWereStored, SavesWereStored,
           DraftIsTypedOrSaved, KnownAnswersWereStored,
           AnswersStep, \A s \in Saves : SaveStep(s), KnownStep, LoadsStep, DraftStep
    PROVE  /\ AnswersWereStored' /\ LoadsWereStored' /\ SavesWereStored'
           /\ DraftIsTypedOrSaved' /\ KnownAnswersWereStored'
<1> DEFINE AcceptedNow(q, text, version) ==
      \E record \in records' :
        record.question = q /\ record.text = text /\ record.version = version
<1>1. ASSUME NEW q \in Questions, NEW answer, StoredAnswer(q, answer), answer # NoAnswer
      PROVE  AcceptedNow(q, answer.text, answer.version)
  BY <1>1, AcceptedStays DEF StoredAnswer
<1>2. ASSUME NEW s \in Saves, save[s].phase = "stored"
      PROVE  AcceptedNow(save[s].question, save[s].text, save[s].version)
  BY <1>2, AcceptedStays DEF SavesWereStored
<1>3. AnswersWereStored'
  <2>1. ASSUME NEW q \in Questions, answers'[q] # NoAnswer
        PROVE  AcceptedNow(q, answers'[q].text, answers'[q].version)
    <3>1. CASE answers'[q] = answers[q]
      BY <1>1, <2>1, <3>1 DEF AnswersWereStored
    <3>2. ASSUME NEW s \in Saves, save[s].question = q, answers'[q].text = save[s].text,
                 RecordOf(save[s], answers'[q].version) \in records'
          PROVE  AcceptedNow(q, answers'[q].text, answers'[q].version)
      BY <3>2 DEF RecordOf
    <3> QED BY <3>1, <3>2 DEF AnswersStep
  <2> QED BY <2>1 DEF AnswersWereStored, StoredAnswer, Accepted
<1>4. LoadsWereStored'
  <2>1. ASSUME NEW r \in Renders, Waiting(r)', NEW loaded \in render'[r].answers,
               NEW q \in Questions, loaded[q] # NoAnswer
        PROVE  AcceptedNow(q, loaded[q].text, loaded[q].version)
    <3>1. CASE loaded = answers
      BY <1>1, <2>1, <3>1 DEF AnswersWereStored
    <3>2. CASE Waiting(r) /\ loaded \in render[r].answers
      BY <1>1, <2>1, <3>2 DEF LoadsWereStored
    <3> QED BY <2>1, <3>1, <3>2 DEF LoadsStep
  <2> QED BY <2>1 DEF LoadsWereStored, StoredAnswer, Accepted
<1>5. SavesWereStored'
  <2>1. ASSUME NEW s \in Saves, save'[s].phase = "stored"
        PROVE  AcceptedNow(save'[s].question, save'[s].text, save'[s].version)
    BY <1>2, <2>1 DEF SaveStep, NoSave
  <2> QED BY <2>1 DEF SavesWereStored, Accepted
<1>6. KnownAnswersWereStored'
  <2>1. ASSUME NEW q \in Questions, known'[q] # NoAnswer
        PROVE  AcceptedNow(q, known'[q].text, known'[q].version)
    <3>1. CASE known'[q] = known[q]
      <4>1. Accepted(q, known[q].text, known[q].version)
        BY <2>1, <3>1 DEF KnownAnswersWereStored, Accepted
      <4> QED BY <3>1, <4>1, AcceptedStays
    <3>2. ASSUME NEW r \in Renders, Waiting(r), NEW loaded \in render[r].answers,
                 known'[q] = loaded[q]
          PROVE  AcceptedNow(q, known'[q].text, known'[q].version)
      BY <1>1, <2>1, <3>2 DEF LoadsWereStored
    <3>3. ASSUME NEW s \in Saves, save[s].phase = "stored", save[s].question = q,
                 known'[q] = [text |-> save[s].text, version |-> save[s].version]
          PROVE  AcceptedNow(q, known'[q].text, known'[q].version)
      BY <1>2, <3>3
    <3> QED BY <2>1, <3>1, <3>2, <3>3 DEF KnownStep
  <2> QED BY <2>1 DEF KnownAnswersWereStored
<1>7. DraftIsTypedOrSaved'
  <2>1. ASSUME NEW q \in DOMAIN drafts', drafts'[q] # LastTyped(q)'
        PROVE  \E record \in records' : record.question = q /\ record.text = drafts'[q]
    <3>1. CASE q \in DOMAIN drafts /\ drafts'[q] = drafts[q] /\ edits'[q] = edits[q]
      BY <2>1, <3>1 DEF DraftIsTypedOrSaved, LastTyped, AnswersStep
    <3>2. ASSUME NEW s \in Saves, save[s].phase = "stored", save[s].question = q,
                 drafts'[q] = save[s].text
          PROVE  \E record \in records' : record.question = q /\ record.text = drafts'[q]
      BY <1>2, <3>2
    <3> QED BY <2>1, <3>1, <3>2 DEF DraftStep
  <2> QED BY <2>1 DEF DraftIsTypedOrSaved
<1> QED BY <1>3, <1>4, <1>5, <1>6, <1>7

-----------------------------------------------------------------------------
(* The page shows the draft *)

\* A step that leaves no render waiting shows no interview, shows the draft
\* anew, or changes neither what is shown nor what it comes from.
LEMMA ShowsDraftKept ==
    ASSUME TypeOK, PageShowsDraft, [Next]_vars
    PROVE  PageShowsDraft'
<1> USE DEF PageShowsDraft
<1>1. ASSUME NEW r \in Renders, render'[r] # NoRender
      PROVE  PageShowsDraft'
  BY <1>1
<1>2. ASSUME shown' # "interview"
      PROVE  PageShowsDraft'
  BY <1>2
<1>3. ASSUME shown' = shown, editor'.question = editor.question, editor'.text = editor.text,
             UNCHANGED <<drafts, known>>, \A r \in Renders : render[r] # NoRender => render'[r] # NoRender
      PROVE  PageShowsDraft'
  BY <1>3 DEF ReadAnswerValue
<1>4. \A target : Load(target) # NoRender
  BY DEF Load, NoRender
<1>5. ASSUME NEW r \in Renders, NEW target, Render(r, target)
      PROVE  PageShowsDraft'
  <2>1. render'[r] # NoRender
    BY <1>4, <1>5 DEF Render, TypeOK
  <2> QED BY <1>1, <2>1
<1>6. CASE Type
  <2>1. PICK q, text : q = editor.question /\ text = [question |-> q, edit |-> edits[q] + 1]
    OBVIOUS
  <2>2. editor'.question = q /\ editor'.text = text /\ drafts' = WithDraft(q, text)
    BY <1>6, <2>1 DEF Type, TypeOK
  <2> QED BY <2>2 DEF ReadAnswerValue, WithDraft
<1>7. ASSUME NEW r \in Renders, Reload(r)
      PROVE  PageShowsDraft'
  BY <1>2, <1>7 DEF Reload
<1>8. ASSUME NEW r \in Renders, ShowInterview(r)
      PROVE  PageShowsDraft'
  BY <1>8 DEF ShowInterview, Show, ReadAnswerValue
<1>9. ASSUME NEW r \in Renders, ShowFinish(r) \/ ShowError(r)
      PROVE  PageShowsDraft'
  BY <1>2, <1>9 DEF ShowFinish, ShowError, Show
<1>10. ASSUME NEW r \in Renders, LeaveSubmitted(r)
       PROVE  PageShowsDraft'
  <2>1. render'[r] # NoRender
    BY <1>4, <1>10 DEF LeaveSubmitted, TypeOK
  <2> QED BY <1>1, <2>1
<1>11. CASE Candidate
  <2>1. ASSUME NEW s \in Saves, ClickSave(s)
        PROVE  PageShowsDraft'
    BY <1>3, <2>1 DEF ClickSave, StartSave, pageVars, stateVars
  <2> QED BY <1>5, <1>6, <1>7, <1>11, <2>1 DEF Candidate, SelectQuestion, Navigate, RetryRender
<1>12. CASE Timers
  <2>1. /\ shown' = shown /\ render' = render
        /\ editor'.question = editor.question /\ editor'.text = editor.text
        /\ UNCHANGED <<drafts, known>>
    BY <1>12 DEF Timers, TimerFires, StrayFires, StartSave, stateVars, TypeOK
  <2> QED BY <1>3, <2>1
<1>13. CASE ServerSteps
  <2>1. ASSUME NEW r \in Renders, ServeSession(r) \/ ServeAnswers(r)
        PROVE  PageShowsDraft'
    <3>1. render[r] \in Loads
      BY <2>1, CallParts DEF ServeSession, ServeAnswers
    <3>2. render'[r] # NoRender
      BY <2>1, <3>1 DEF ServeSession, ServeAnswers, TypeOK, Loads, NoRender
    <3> QED BY <1>1, <3>2
  <2>2. ASSUME UNCHANGED <<drafts, stateVars, pageVars, render>>
        PROVE  PageShowsDraft'
    BY <1>3, <2>2 DEF pageVars, stateVars
  <2> QED BY <1>13, <2>1, <2>2 DEF ServerSteps, ServeSave, OrphanIsLost, ServeFinalize
<1>14. CASE Continuations
  <2>1. ASSUME NEW s \in Saves, ManualSaveFails(s)
        PROVE  PageShowsDraft'
    BY <1>3, <2>1 DEF ManualSaveFails, pageVars, stateVars
  <2> QED BY <1>5, <1>8, <1>9, <1>10, <1>14, <2>1 DEF Continuations, SaveReturns, AutosaveFails
<1>15. CASE UNCHANGED vars
  BY <1>3, <1>15 DEF vars, pageVars, stateVars
<1> QED BY <1>11, <1>12, <1>13, <1>14, <1>15 DEF Next

-----------------------------------------------------------------------------
(* Who will save an edit *)

SavesGoOn(s) ==
    IsAuto(save'[s]) =>
        /\ IsAuto(save[s]) /\ save'[s].text = save[s].text
        /\ (save'[s].phase = "sent" => save[s].phase = "sent")

\* Timers stop, saves end or are sent by hand: nobody takes on a text.
QuietStep ==
    /\ editor'.timer => editor.timer /\ editor'.text = editor.text
    /\ strays' \subseteq strays
    /\ \A s \in Saves : SavesGoOn(s)
    /\ UNCHANGED <<records, edits>>

\* A text is typed and the timer of the textarea runs for it.
TypingStep ==
    \E q \in Questions :
        /\ edits' = [edits EXCEPT ![q] = @ + 1]
        /\ editor'.text = [question |-> q, edit |-> edits[q] + 1]
        /\ UNCHANGED <<strays, save, records>>

\* The textarea is replaced and its timer becomes a stray one.
DetachingStep ==
    /\ ~editor'.timer
    /\ \A x \in strays' \ strays : editor.timer /\ x.text = editor.text
    /\ \A x, y \in strays' \ strays : x = y
    /\ UNCHANGED <<save, records, edits>>

Takes(s, text) ==
    /\ save[s] = NoSave
    /\ save'[s].phase = "sent" /\ save'[s].text = text /\ save'[s].mode = "auto"
    /\ \A t \in Saves : t # s => save'[t] = save[t]

\* A timer fires: the save takes its text over.
FiringStep(s) ==
    /\ editor.timer /\ ~editor'.timer
    /\ Takes(s, editor.text)
    /\ UNCHANGED <<strays, records, edits>>

StrayFiringStep(s, x) ==
    /\ strays' = strays \ {x}
    /\ Takes(s, x.text)
    /\ UNCHANGED <<editor, records, edits>>

\* The server accepts a save.
ServingStep(s) ==
    /\ save[s].phase = "sent"
    /\ \A t \in Saves : SavesGoOn(t)
    /\ save'[s].phase # "sent"
    /\ \E version : records' = records \cup {RecordOf(save[s], version)}
    /\ UNCHANGED <<editor, strays, edits>>

AutosaveStep ==
    \/ QuietStep \/ TypingStep \/ DetachingStep
    \/ \E s \in Saves : FiringStep(s)
    \/ \E s \in Saves, x \in strays : StrayFiringStep(s, x)
    \/ \E s \in Saves : ServingStep(s)

LEMMA EveryStepIsAnAutosaveStep == ASSUME TypeOK, [Next]_vars PROVE AutosaveStep
<1> USE DEF AutosaveStep
<1>1. editor \in [question : Questions, text : Texts, timer : BOOLEAN, registered : BOOLEAN]
  BY DEF TypeOK
<1>2. \A s \in Saves : save'[s] = save[s] \/ save'[s] = NoSave => SavesGoOn(s)
  BY DEF SavesGoOn, IsAuto
<1>3. ASSUME \/ UNCHANGED <<editor, strays>>
             \/ CleanupPage,
             \/ UNCHANGED save
             \/ \E s \in Saves : save' = [save EXCEPT ![s] = NoSave],
             UNCHANGED <<records, edits>>
      PROVE  AutosaveStep
  <2>1. \A s \in Saves : SavesGoOn(s)
    BY <1>2, <1>3 DEF TypeOK
  <2>2. /\ editor'.timer => editor.timer /\ editor'.text = editor.text
        /\ strays' \subseteq strays
    BY <1>1, <1>3 DEF CleanupPage
  <2> QED BY <1>3, <2>1, <2>2 DEF QuietStep
<1>4. CASE Type
  <2>1. PICK q, text : q = editor.question /\ text = [question |-> q, edit |-> edits[q] + 1]
    OBVIOUS
  <2>2. q \in Questions /\ editor'.text = text
    BY <1>1, <1>4, <2>1 DEF Type
  <2>3. edits' = [edits EXCEPT ![q] = @ + 1] /\ UNCHANGED <<strays, save, records>>
    BY <1>4, <2>1 DEF Type, serverVars
  <2> QED BY <2>1, <2>2, <2>3 DEF TypingStep
<1>5. ASSUME NEW s \in Saves, NEW q, NEW text, NEW mode, StartSave(s, q, text, mode)
      PROVE  /\ save[s] = NoSave /\ save'[s].phase = "sent"
             /\ save'[s].text = text /\ save'[s].mode = mode
             /\ \A t \in Saves : t # s => save'[t] = save[t]
  BY <1>5 DEF StartSave, TypeOK
<1>6. ASSUME NEW s \in Saves, ClickSave(s)
      PROVE  AutosaveStep
  <2>1. save'[s].mode = "manual" /\ \A t \in Saves : t # s => save'[t] = save[t]
    BY <1>5, <1>6 DEF ClickSave
  <2>2. \A t \in Saves : SavesGoOn(t)
    BY <1>2, <2>1 DEF SavesGoOn, IsAuto
  <2> QED BY <1>6, <2>2 DEF ClickSave, QuietStep, pageVars, serverVars
<1>7. ASSUME NEW r \in Renders, Reload(r)
      PROVE  AutosaveStep
  <2>1. ASSUME NEW s \in Saves, save[s].phase = "sent"
        PROVE  SavesGoOn(s)
    <3>1. save[s] \in Calls /\ save[s] # NoSave
      BY <2>1, CallParts DEF NoSave
    <3>2. save'[s] = [save[s] EXCEPT !.orphan = TRUE]
      BY <1>7, <2>1 DEF Reload
    <3> QED BY <2>1, <3>1, <3>2 DEF SavesGoOn, IsAuto, Calls
  <2>2. \A s \in Saves : SavesGoOn(s)
    BY <1>2, <1>7, <2>1 DEF Reload
  <2> QED BY <1>7, <2>2 DEF Reload, Move, QuietStep, NoEditor, serverVars
<1>8. CASE Candidate
  <2>1. ASSUME ~Type, ~\E s \in Saves : ClickSave(s), ~\E r \in Renders : Reload(r)
        PROVE  CleanupPage /\ UNCHANGED <<save, records, edits>>
    BY <1>8, <2>1 DEF Candidate, SelectQuestion, Navigate, RetryRender, Render, Move, serverVars
  <2> QED BY <1>3, <1>4, <1>6, <1>7, <2>1
<1>9. ASSUME NEW s \in Saves, TimerFires(s)
      PROVE  AutosaveStep
  <2>1. Takes(s, editor.text)
    BY <1>5, <1>9 DEF TimerFires, Takes
  <2> QED BY <1>1, <1>9, <2>1 DEF TimerFires, FiringStep, StartSave, serverVars
<1>10. ASSUME NEW s \in Saves, NEW x \in strays, StrayFires(s, x)
       PROVE  AutosaveStep
  <2>1. Takes(s, x.text)
    BY <1>5, <1>10 DEF StrayFires, Takes
  <2> QED BY <1>10, <2>1 DEF StrayFires, StrayFiringStep, StartSave, serverVars
<1>11. ASSUME NEW s \in Saves, ServeSave(s)
       PROVE  AutosaveStep
  <2>1. save[s] \in Calls
    BY <1>11, CallParts DEF ServeSave
  <2>2. PICK version : version = answers[save[s].question].version + 1
    OBVIOUS
  <2>3. records' = records \cup {RecordOf(save[s], version)}
    BY <1>11, <2>2 DEF ServeSave, RecordOf
  <2>4. /\ \A t \in Saves : t # s => save'[t] = save[t]
        /\ \/ save'[s] = NoSave
           \/ save'[s] = [save[s] EXCEPT !.phase = "stored", !.version = version]
    BY <1>11, <2>2 DEF ServeSave, TypeOK
  <2>5. PICK stored : stored = [save[s] EXCEPT !.phase = "stored", !.version = version]
    OBVIOUS
  <2>6. /\ stored.phase = "stored" /\ stored.text = save[s].text
        /\ stored.mode = save[s].mode
        /\ save[s] # NoSave
    BY <2>1, <2>5 DEF Calls, NoSave
  <2>7. save'[s] = NoSave \/ save'[s] = stored
    BY <2>4, <2>5
  <2>8. save'[s].phase # "sent" /\ SavesGoOn(s)
    BY <2>6, <2>7 DEF SavesGoOn, IsAuto, NoSave
  <2>9. \A t \in Saves : SavesGoOn(t)
    BY <1>2, <2>4, <2>8
  <2> QED BY <1>11, <2>3, <2>8, <2>9 DEF ServeSave, ServingStep, pageVars, countVars
<1>12. CASE ServerSteps
  <2>1. ASSUME ~\E s \in Saves : ServeSave(s)
        PROVE  /\ UNCHANGED <<editor, strays, records, edits>>
               /\ UNCHANGED save \/ \E s \in Saves : save' = [save EXCEPT ![s] = NoSave]
    BY <1>12, <2>1 DEF ServerSteps, OrphanIsLost, ServeSession, ServeAnswers, ServeFinalize,
                       serverVars, pageVars, countVars
  <2> QED BY <1>3, <1>11, <2>1
<1>13. ASSUME NEW what, NEW new, Show(what, new), ~new.timer, UNCHANGED <<save, records, edits>>
       PROVE  AutosaveStep
  <2>1. ~editor'.timer /\ strays' = strays \cup Detached
    BY <1>13 DEF Show
  <2>2. /\ \A x \in Detached : editor.timer /\ x.text = editor.text
        /\ \A x, y \in Detached : x = y
    BY DEF Detached
  <2> QED BY <1>13, <2>1, <2>2 DEF DetachingStep
<1>14. CASE Continuations
  <2>1. ASSUME NEW r \in Renders, ShowInterview(r)
        PROVE  AutosaveStep
    <3>1. PICK loaded : Show("interview",
            [question |-> Current, text |-> ReadAnswerValue(Current, loaded),
             timer |-> FALSE, registered |-> TRUE])
      BY <2>1 DEF ShowInterview
    <3>2. UNCHANGED <<save, records, edits>>
      BY <2>1 DEF ShowInterview, serverVars, countVars
    <3> QED BY <1>13, <3>1, <3>2
  <2>2. ASSUME NEW r \in Renders, ShowFinish(r) \/ ShowError(r)
        PROVE  AutosaveStep
    <3>1. PICK what : Show(what, NoEditor)
      BY <2>2 DEF ShowFinish, ShowError
    <3> QED BY <1>13, <2>2, <3>1 DEF ShowFinish, ShowError, NoEditor, serverVars, countVars
  <2>3. ASSUME ~\E r \in Renders : ShowInterview(r) \/ ShowFinish(r) \/ ShowError(r)
        PROVE  /\ UNCHANGED <<editor, strays>> \/ CleanupPage
               /\ UNCHANGED save \/ \E s \in Saves : save' = [save EXCEPT ![s] = NoSave]
               /\ UNCHANGED <<records, edits>>
    BY <1>14, <2>3 DEF Continuations, SaveReturns, AutosaveFails, SaveIsLost, ManualSaveFails,
                       LeaveSubmitted, Render, serverVars, pageVars, countVars
  <2> QED BY <1>3, <2>1, <2>2, <2>3
<1>15. CASE UNCHANGED vars
  BY <1>3, <1>15 DEF vars, serverVars, pageVars, countVars
<1> QED BY <1>8, <1>9, <1>10, <1>12, <1>14, <1>15 DEF Next, Timers

\* A text typed once stays typed.
LEMMA TypedStays ==
    ASSUME TypeOK, AutosaveStep, NEW text, Typed(edits, text)
    PROVE  Typed(edits', text)
<1>1. text.question \in Questions /\ text.edit \in Nat
  BY DEF Typed
<1>2. edits' = edits \/ \E q \in Questions : edits' = [edits EXCEPT ![q] = @ + 1]
  BY DEF AutosaveStep, QuietStep, TypingStep, DetachingStep, FiringStep, StrayFiringStep,
         ServingStep
<1>3. edits[text.question] \in Nat
  BY <1>1, LimitAssumption DEF TypeOK
<1>4. edits'[text.question] \in {edits[text.question], edits[text.question] + 1}
  BY <1>1, <1>2 DEF TypeOK
<1> QED BY <1>1, <1>3, <1>4 DEF Typed

\* The parts of AutosaveOncePerEdit.
AutosavesDiffer ==
    \A s, t \in Saves : (IsAuto(save[s]) /\ IsAuto(save[t]) /\ save[s].text = save[t].text) => s = t
RecordsDiffer ==
    \A x, y \in records : (x.mode = "auto" /\ y.mode = "auto" /\ x.text = y.text) => x = y
SentIsNew ==
    \A s \in Saves : (IsAuto(save[s]) /\ save[s].phase = "sent") => ~Saved(records, save[s].text)

LEMMA OncePerEditParts ==
    ASSUME TypeOK
    PROVE  AutosaveOncePerEdit <=> (AutosavesDiffer /\ RecordsDiffer /\ SentIsNew)
<1>1. \A s \in Saves : save[s].phase # "none" <=> save[s] # NoSave
  BY CallParts DEF NoSave, Calls
<1> QED BY <1>1 DEF AutosaveOncePerEdit, AutosavesDiffer, RecordsDiffer, SentIsNew, IsAuto, Saved

\* The invariant with its parts.
AutosaveParts ==
    /\ TimerIsFirst /\ StraysAreFirst /\ AutosavesWereTyped /\ RecordsWereTyped
    /\ AutosavesDiffer /\ RecordsDiffer /\ SentIsNew

\* A quiet step keeps the texts apart.
LEMMA QuietKeeps ==
    ASSUME TypeOK, AutosaveParts, QuietStep
    PROVE  AutosaveParts'
<1> USE DEF AutosaveParts
<1>1. records' = records /\ edits' = edits
  BY DEF QuietStep
<1>2. \A text : Saving(save', text) => Saving(save, text)
  BY DEF QuietStep, SavesGoOn, Saving
<1>3. TimerIsFirst'
  BY <1>1, <1>2 DEF QuietStep, TimerIsFirst
<1>4. StraysAreFirst'
  BY <1>1, <1>2 DEF QuietStep, StraysAreFirst
<1>5. AutosavesWereTyped' /\ RecordsWereTyped'
  BY <1>1 DEF QuietStep, SavesGoOn, AutosavesWereTyped, RecordsWereTyped
<1>6. AutosavesDiffer' /\ SentIsNew' /\ RecordsDiffer'
  BY <1>1 DEF QuietStep, SavesGoOn, AutosavesDiffer, SentIsNew, RecordsDiffer
<1> QED BY <1>3, <1>4, <1>5, <1>6

\* What is typed is new: no text typed before has its number.
LEMMA TypingKeeps ==
    ASSUME TypeOK, AutosaveParts, TypingStep, TypeOK'
    PROVE  AutosaveParts'
<1> USE DEF AutosaveParts
<1>1. PICK q \in Questions : /\ edits' = [edits EXCEPT ![q] = @ + 1]
                             /\ editor'.text = [question |-> q, edit |-> edits[q] + 1]
                             /\ UNCHANGED <<strays, save, records>>
  BY DEF TypingStep
<1>2. \A text : Typed(edits, text) => Typed(edits', text)
  BY TypedStays DEF AutosaveStep
<1>3. edits[q] \in Nat /\ edits'[q] = edits[q] + 1 /\ edits'[q] <= MaxEdits
  BY <1>1, LimitAssumption DEF TypeOK
<1>4. editor'.text.question = q /\ editor'.text.edit = edits[q] + 1
  BY <1>1
<1>5. ~Typed(edits, editor'.text)
  BY <1>3, <1>4 DEF Typed
<1>6. Typed(edits', editor'.text)
  BY <1>1, <1>3, <1>4, LimitAssumption DEF Typed
<1>7. ~Saving(save, editor'.text) /\ ~Saved(records, editor'.text)
      /\ \A x \in strays : x.text # editor'.text
  BY <1>5 DEF Saving, Saved, AutosavesWereTyped, RecordsWereTyped, StraysAreFirst
<1>8. TimerIsFirst'
  BY <1>1, <1>6, <1>7 DEF TimerIsFirst
<1>9. StraysAreFirst'
  BY <1>1, <1>2 DEF StraysAreFirst
<1>10. AutosavesWereTyped' /\ RecordsWereTyped'
  BY <1>1, <1>2 DEF AutosavesWereTyped, RecordsWereTyped
<1>11. AutosavesDiffer' /\ SentIsNew' /\ RecordsDiffer'
  BY <1>1 DEF AutosavesDiffer, SentIsNew, RecordsDiffer
<1> QED BY <1>8, <1>9, <1>10, <1>11

\* A stray timer takes over from the textarea.
LEMMA DetachingKeeps ==
    ASSUME TypeOK, AutosaveParts, DetachingStep
    PROVE  AutosaveParts'
<1> USE DEF AutosaveParts
<1>1. UNCHANGED <<save, records, edits>>
  BY DEF DetachingStep
<1>2. TimerIsFirst'
  BY DEF DetachingStep, TimerIsFirst
<1>3. ASSUME NEW x \in strays'
      PROVE  Typed(edits, x.text) /\ ~Saving(save, x.text) /\ ~Saved(records, x.text)
  <2>1. CASE x \in strays
    BY <2>1 DEF StraysAreFirst
  <2>2. CASE x \notin strays
    BY <2>2 DEF DetachingStep, TimerIsFirst
  <2> QED BY <2>1, <2>2
<1>4. ASSUME NEW x \in strays', NEW y \in strays', x.text = y.text
      PROVE  x = y
  BY <1>4 DEF DetachingStep, TimerIsFirst, StraysAreFirst
<1>5. StraysAreFirst'
  BY <1>1, <1>3, <1>4 DEF StraysAreFirst
<1>6. AutosavesWereTyped' /\ RecordsWereTyped' /\ AutosavesDiffer' /\ SentIsNew' /\ RecordsDiffer'
  BY <1>1 DEF AutosavesWereTyped, RecordsWereTyped, AutosavesDiffer, SentIsNew, RecordsDiffer
<1> QED BY <1>2, <1>5, <1>6

\* A save that takes over a text nobody saves keeps the saves apart.
LEMMA TakingKeeps ==
    ASSUME TypeOK, AutosaveParts, NEW s \in Saves, NEW text, Takes(s, text),
           UNCHANGED <<records, edits>>,
           Typed(edits, text), ~Saving(save, text), ~Saved(records, text)
    PROVE  /\ AutosavesWereTyped' /\ RecordsWereTyped'
           /\ AutosavesDiffer' /\ SentIsNew' /\ RecordsDiffer'
           /\ \A other : other # text => (Saving(save', other) => Saving(save, other))
<1> USE DEF AutosaveParts
<1>1. save'[s].text = text /\ \A t \in Saves : t # s => save'[t] = save[t]
  BY DEF Takes
<1>2. \A t \in Saves : IsAuto(save[t]) => save[t].text # text
  BY DEF Saving
<1>3. AutosavesWereTyped' /\ RecordsWereTyped' /\ SentIsNew' /\ RecordsDiffer'
  BY <1>1 DEF AutosavesWereTyped, RecordsWereTyped, SentIsNew, RecordsDiffer
<1>4. AutosavesDiffer'
  BY <1>1, <1>2 DEF AutosavesDiffer
<1>5. \A other : other # text => (Saving(save', other) => Saving(save, other))
  BY <1>1 DEF Saving
<1> QED BY <1>3, <1>4, <1>5

LEMMA FiringKeeps ==
    ASSUME TypeOK, AutosaveParts, NEW s \in Saves, FiringStep(s)
    PROVE  AutosaveParts'
<1> USE DEF AutosaveParts
<1>1. /\ Typed(edits, editor.text) /\ ~Saving(save, editor.text) /\ ~Saved(records, editor.text)
      /\ \A x \in strays : x.text # editor.text
  BY DEF FiringStep, TimerIsFirst
<1>2. /\ AutosavesWereTyped' /\ RecordsWereTyped'
      /\ AutosavesDiffer' /\ SentIsNew' /\ RecordsDiffer'
      /\ \A other : other # editor.text => (Saving(save', other) => Saving(save, other))
  BY <1>1, TakingKeeps DEF FiringStep
<1>3. TimerIsFirst'
  BY DEF FiringStep, TimerIsFirst
<1>4. StraysAreFirst'
  BY <1>1, <1>2 DEF FiringStep, StraysAreFirst
<1> QED BY <1>2, <1>3, <1>4

LEMMA StrayFiringKeeps ==
    ASSUME TypeOK, AutosaveParts, NEW s \in Saves, NEW x \in strays, StrayFiringStep(s, x)
    PROVE  AutosaveParts'
<1> USE DEF AutosaveParts
<1>1. /\ Typed(edits, x.text) /\ ~Saving(save, x.text) /\ ~Saved(records, x.text)
      /\ \A y \in strays : y # x => y.text # x.text
      /\ editor.timer => editor.text # x.text
  BY DEF StraysAreFirst, TimerIsFirst
<1>2. /\ AutosavesWereTyped' /\ RecordsWereTyped'
      /\ AutosavesDiffer' /\ SentIsNew' /\ RecordsDiffer'
      /\ \A other : other # x.text => (Saving(save', other) => Saving(save, other))
  BY <1>1, TakingKeeps DEF StrayFiringStep
<1>3. TimerIsFirst'
  BY <1>1, <1>2 DEF StrayFiringStep, TimerIsFirst
<1>4. StraysAreFirst'
  BY <1>1, <1>2 DEF StrayFiringStep, StraysAreFirst
<1> QED BY <1>2, <1>3, <1>4

\* The record of a save takes the place of what was sent.
LEMMA ServingKeeps ==
    ASSUME TypeOK, AutosaveParts, NEW s \in Saves, ServingStep(s)
    PROVE  AutosaveParts'
<1> USE DEF AutosaveParts
<1>1. PICK version : records' = records \cup {RecordOf(save[s], version)}
  BY DEF ServingStep
<1>2. PICK new : new = RecordOf(save[s], version)
  OBVIOUS
<1>3. new.text = save[s].text /\ new.mode = save[s].mode /\ records' = records \cup {new}
  BY <1>1, <1>2 DEF RecordOf
<1>4. save[s] # NoSave /\ (IsAuto(save[s]) <=> new.mode = "auto")
  BY <1>3 DEF ServingStep, IsAuto, NoSave
<1>5. \A text : Saving(save', text) => Saving(save, text)
  BY DEF ServingStep, SavesGoOn, Saving
<1>6. \A text : Saved(records', text) =>
        Saved(records, text) \/ (IsAuto(save[s]) /\ text = save[s].text)
  <2>1. ASSUME NEW text, NEW record \in records', record.mode = "auto", record.text = text
        PROVE  Saved(records, text) \/ (IsAuto(save[s]) /\ text = save[s].text)
    <3>1. record \in records \/ record = new
      BY <1>3, <2>1
    <3>2. CASE record \in records
      BY <2>1, <3>2 DEF Saved
    <3>3. CASE record = new
      BY <1>3, <1>4, <2>1, <3>3
    <3> QED BY <3>1, <3>2, <3>3
  <2> QED BY <2>1 DEF Saved
<1>7. IsAuto(save[s]) => Saving(save, save[s].text)
  BY DEF Saving
<1>8. UNCHANGED <<editor, strays, edits>>
  BY DEF ServingStep
<1>9. TimerIsFirst'
  BY <1>5, <1>6, <1>7, <1>8 DEF TimerIsFirst
<1>10. StraysAreFirst'
  BY <1>5, <1>6, <1>7, <1>8 DEF StraysAreFirst
<1>11. AutosavesWereTyped'
  BY <1>8 DEF ServingStep, SavesGoOn, AutosavesWereTyped
<1>12. RecordsWereTyped'
  BY <1>3, <1>4, <1>8 DEF RecordsWereTyped, AutosavesWereTyped
<1>13. AutosavesDiffer'
  BY DEF ServingStep, SavesGoOn, AutosavesDiffer
<1>14. SentIsNew'
  <2>1. ASSUME NEW t \in Saves, IsAuto(save'[t]), save'[t].phase = "sent"
        PROVE  ~Saved(records', save'[t].text)
    <3>1. t # s /\ IsAuto(save[t]) /\ save'[t].text = save[t].text /\ save[t].phase = "sent"
      BY <2>1 DEF ServingStep, SavesGoOn
    <3>2. ~Saved(records, save[t].text)
      BY <3>1 DEF SentIsNew
    <3>3. IsAuto(save[s]) => save[t].text # save[s].text
      BY <3>1 DEF AutosavesDiffer
    <3> QED BY <1>6, <3>1, <3>2, <3>3
  <2> QED BY <2>1 DEF SentIsNew
<1>15. RecordsDiffer'
  <2>1. IsAuto(save[s]) => ~Saved(records, save[s].text)
    BY DEF SentIsNew, ServingStep
  <2>2. new.mode = "auto" => \A record \in records : record.mode = "auto" => record.text # new.text
    BY <1>3, <1>4, <2>1 DEF Saved
  <2> QED BY <1>3, <2>2 DEF RecordsDiffer
<1> QED BY <1>9, <1>10, <1>11, <1>12, <1>13, <1>14, <1>15

\* Every step keeps apart who will save an edit.
LEMMA AutosaveKept ==
    ASSUME TypeOK, TypeOK', AutosaveInv, AutosaveStep
    PROVE  AutosaveInv'
<1>1. AutosaveParts
  BY OncePerEditParts DEF AutosaveInv, AutosaveParts
<1>2. AutosaveParts'
  BY <1>1, QuietKeeps, TypingKeeps, DetachingKeeps, FiringKeeps, StrayFiringKeeps, ServingKeeps
  DEF AutosaveStep
<1>3. AutosaveOncePerEdit'
  <2>1. \A s \in Saves : save'[s].phase # "none" <=> save'[s] # NoSave
    BY DEF TypeOK, NoSave, Calls
  <2> QED BY <1>2, <2>1 DEF AutosaveParts, AutosaveOncePerEdit, AutosavesDiffer, RecordsDiffer,
                            SentIsNew, IsAuto, Saved
<1> QED BY <1>2, <1>3 DEF AutosaveParts, AutosaveInv

-----------------------------------------------------------------------------
(* The theorems *)

\* A page that is being opened satisfies the invariant.
LEMMA InitPageInv == Init => PageInv
<1> SUFFICES ASSUME Init PROVE PageInv
  OBVIOUS
<1> USE DEF Init
<1>1. TypeOK
  <2>1. render \in [Renders -> Loads \cup {NoRender}]
    BY ConstantTypes
  <2>2. drafts \in [DOMAIN drafts -> Texts] /\ DOMAIN drafts \subseteq Questions
    OBVIOUS
  <2> QED BY <2>1, <2>2, ConstantTypes, LimitAssumption DEF TypeOK
<1>2. \A s \in Saves : save[s] = NoSave /\ save[s].phase = "none"
  BY DEF NoSave
<1>3. \A r \in Renders : Waiting(r) => render[r].answers = {}
  BY DEF Waiting, Load
<1>4. NoAnswer.text = Blank /\ NoEditor.text = Blank /\ ~NoEditor.timer
  BY DEF NoAnswer, NoEditor
<1>5. TextsStayInTheirQuestion /\ LoadsStayInTheirQuestion
  BY <1>2, <1>3, <1>4 DEF TextsStayInTheirQuestion, LoadsStayInTheirQuestion, BelongsTo
<1>6. AnswersWereStored /\ LoadsWereStored /\ SavesWereStored
      /\ KnownAnswersWereStored /\ DraftIsTypedOrSaved /\ PageShowsDraft
  BY <1>2, <1>3 DEF AnswersWereStored, LoadsWereStored, SavesWereStored, StoredAnswer,
                    KnownAnswersWereStored, DraftIsTypedOrSaved, PageShowsDraft
<1>7. AutosaveInv
  BY <1>2, <1>4 DEF AutosaveInv, TimerIsFirst, StraysAreFirst, AutosavesWereTyped,
                    RecordsWereTyped, AutosaveOncePerEdit, IsAuto
<1> QED BY <1>1, <1>5, <1>6, <1>7 DEF PageInv

\* Every step of the candidate, a timer, the server or a continuation keeps it.
LEMMA NextPageInv == PageInv /\ [Next]_vars => PageInv'
<1> SUFFICES ASSUME PageInv, [Next]_vars PROVE PageInv'
  OBVIOUS
<1> USE DEF PageInv
<1>1. TypeOK'
  BY TypesKept
<1>2. AnswersStep /\ (\A s \in Saves : SaveStep(s)) /\ KnownStep /\ LoadsStep
  BY EveryStepIsAnAnswersStep, EveryStepIsASaveStep, EveryStepIsAKnownStep,
     EveryStepIsALoadsStep
<1>3. EditorStep /\ StrayStep /\ DraftStep /\ AutosaveStep
  BY EveryStepIsAnEditorStep, EveryStepIsADraftStep, EveryStepIsAnAutosaveStep
<1>4. TextsStayInTheirQuestion' /\ LoadsStayInTheirQuestion'
  BY <1>2, <1>3, TextsKept
<1>5. /\ AnswersWereStored' /\ LoadsWereStored' /\ SavesWereStored'
      /\ DraftIsTypedOrSaved' /\ KnownAnswersWereStored'
  BY <1>2, <1>3, StoredKept
<1>6. PageShowsDraft'
  BY ShowsDraftKept
<1>7. AutosaveInv'
  BY <1>1, <1>3, AutosaveKept
<1> QED BY <1>1, <1>4, <1>5, <1>6, <1>7

\* Every reachable state of the interview page satisfies the invariant.
THEOREM PageInvariant == Spec => []PageInv
BY InitPageInv, NextPageInv, PTL DEF Spec

\* Every variable has its type, and a question has never more edits than the
\* bound on all of them.
THEOREM PageTypeCorrect == Spec => []TypeOK
<1>1. PageInv => TypeOK
  BY DEF PageInv
<1> QED BY <1>1, PageInvariant, PTL

\* A text never moves to another question: not through a timer that outlives
\* its textarea, not through a late response, not through a stale load.
THEOREM TextsAlwaysStay == Spec => []TextsStayInTheirQuestion
<1>1. PageInv => TextsStayInTheirQuestion
  BY DEF PageInv
<1> QED BY <1>1, PageInvariant, PTL

\* A page that waits for no render shows what a reload would bring back: the
\* draft, be the answer of the server newer or not.
THEOREM PageAlwaysShowsDraft == Spec => []PageShowsDraft
<1>1. PageInv => PageShowsDraft
  BY DEF PageInv
<1> QED BY <1>1, PageInvariant, PTL

\* A draft is the last text typed, or one that the server accepted.
THEOREM DraftIsAlwaysTypedOrSaved == Spec => []DraftIsTypedOrSaved
<1>1. PageInv => DraftIsTypedOrSaved
  BY DEF PageInv
<1> QED BY <1>1, PageInvariant, PTL

\* What the page knows of an answer is one accepted save, text and version.
THEOREM KnownAnswersWereAlwaysStored == Spec => []KnownAnswersWereStored
<1>1. PageInv => KnownAnswersWereStored
  BY DEF PageInv
<1> QED BY <1>1, PageInvariant, PTL

\* The timers save an edit at most once, however many textareas they outlive.
THEOREM AutosaveIsOncePerEdit == Spec => []AutosaveOncePerEdit
<1>1. PageInv => AutosaveOncePerEdit
  BY DEF PageInv, AutosaveInv
<1> QED BY <1>1, PageInvariant, PTL
=============================================================================
