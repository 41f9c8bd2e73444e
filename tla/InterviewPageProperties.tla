---------------------- MODULE InterviewPageProperties ----------------------
(***************************************************************************)
(* What is checked and proved of InterviewPage.                            *)
(***************************************************************************)
EXTENDS InterviewPage

Answers == [text : Texts, version : Nat]
Records == [question : Questions, text : Texts, mode : {"auto", "manual"}, version : Nat \ {0}]
Calls == [phase : {"sent", "stored"}, question : Questions, text : Texts,
          mode : {"auto", "manual"}, version : Nat, orphan : BOOLEAN]
Loads == [phase : {"loading"}, page : {"interview", "finish"},
          status : {"none", "in_progress", "submitted"},
          answers : SUBSET [Questions -> Answers]]

\* Every variable has its type; a textarea on the page is one of a question.
TypeOK ==
    /\ answers \in [Questions -> Answers]
    /\ records \subseteq Records
    /\ status \in {"in_progress", "submitted"}
    /\ DOMAIN drafts \subseteq Questions /\ drafts \in [DOMAIN drafts -> Texts]
    /\ known \in [Questions -> Answers]
    /\ currentQuestionId \in Questions \cup {Null}
    /\ route \in {"interview", "finish"}
    /\ shown \in {"none", "interview", "finish", "error"}
    /\ editor \in [question : Questions, text : Texts, timer : BOOLEAN, registered : BOOLEAN]
    /\ strays \subseteq [question : Questions, text : Texts, registered : BOOLEAN]
    /\ save \in [Saves -> Calls \cup {NoSave}]
    /\ render \in [Renders -> Loads \cup {NoRender}]
    /\ edits \in [Questions -> 0..MaxEdits]
    /\ moves \in 0..MaxMoves /\ savesStarted \in 0..MaxSaves

-----------------------------------------------------------------------------
(* Texts *)

BelongsTo(text, q) == text = Blank \/ text.question = q

\* A text stays with its question: timers that fire after the candidate went to
\* another question, late responses and drafts never carry it over.
TextsStayInTheirQuestion ==
    /\ \A q \in Questions :
         BelongsTo(answers[q].text, q) /\ BelongsTo(known[q].text, q)
    /\ \A q \in DOMAIN drafts : BelongsTo(drafts[q], q)
    /\ BelongsTo(editor.text, editor.question)
    /\ \A x \in strays : BelongsTo(x.text, x.question)
    /\ \A s \in Saves : save[s] # NoSave => BelongsTo(save[s].text, save[s].question)

\* What the candidate sees is what a reload would bring back: a page that waits
\* for no render shows the draft, even after saves returned in any order.  It
\* does so as readAnswerValue does, without asking and also where the server
\* has a newer answer than the draft; CLOA-46 (5.2, 5.3) gives the server's
\* answer priority, asks before a draft replaces it, and clears a draft once it
\* is saved.
PageShowsDraft ==
    (shown = "interview" /\ \A r \in Renders : render[r] = NoRender) =>
        editor.text = ReadAnswerValue(editor.question, known)

LastTyped(q) == [question |-> q, edit |-> edits[q]]

\* A draft that is not the last text typed is at least one the server accepted:
\* no step replaces typed text by a text that is stored nowhere.
DraftIsTypedOrSaved ==
    \A q \in DOMAIN drafts :
        drafts[q] = LastTyped(q) \/ \E record \in records :
            record.question = q /\ record.text = drafts[q]

-----------------------------------------------------------------------------
(* Saves *)

\* What the page knows of an answer is a text and a version that belong to one
\* accepted save, however the responses and the loads overtake each other.
KnownAnswersWereStored ==
    \A q \in Questions : known[q] # NoAnswer =>
        \E record \in records :
            /\ record.question = q
            /\ record.text = known[q].text /\ record.version = known[q].version

\* An edit is saved by the timer at most once, although every save renders the
\* page again and timers outlive their textareas.
AutosaveOncePerEdit ==
    /\ \A x, y \in {z \in records : z.mode = "auto"} : x.text = y.text => x = y
    /\ \A s, t \in {z \in Saves : save[z].phase # "none" /\ save[z].mode = "auto"} :
         save[s].text = save[t].text => s = t
    /\ \A s \in Saves : (save[s].phase = "sent" /\ save[s].mode = "auto") =>
         ~\E record \in records : record.mode = "auto" /\ record.text = save[s].text

-----------------------------------------------------------------------------
(* What the documents say and the code does not do *)

\* "A write of answers also uses answerVersion for optimistic concurrency
\* control, so that none overwrites with an old version" (interface contract
\* 5.7.5): the stored answer of a question never goes back to a text that was
\* typed before it.
OldSaveNeverOverwrites ==
    [][\A q \in Questions : answers'[q].text.edit >= answers[q].text.edit]_vars

\* "After a reload the page restores what was typed" (CLOA-46 9.3): the draft is
\* the last text typed.
TypedTextIsRecoverable ==
    \A q \in Questions : edits[q] > 0 => q \in DOMAIN drafts /\ drafts[q] = LastTyped(q)
=============================================================================
