------------------------------ MODULE ShellQuit -------------------------------
(***************************************************************************)
(* How the application quits (src/src/shell/e-shell.c), and how the        *)
(* composer windows (src/src/composer/e-msg-composer.c) and the mail       *)
(* backend (src/src/mail/e-mail-backend.c) take part.                      *)
(*                                                                         *)
(* A quit is requested first: every listener may ask the user and cancel.  *)
(* Then it is prepared: whoever has something to finish keeps a reference  *)
(* on an activity, and when the last one goes the windows are destroyed.   *)
(* Every question is a modal dialog that runs the main loop, so callbacks, *)
(* timeouts and requests from outside come while it is on the screen.      *)
(*                                                                         *)
(* The composers are numbered in the order of their creation, which is the *)
(* order the shell's signals call them in; the main window is number 0.    *)
(* MaxDepth bounds the dialogs nested in one another.  The model ends when *)
(* the windows are destroyed: the process has nothing else to live for.    *)
(***************************************************************************)
EXTENDS Naturals, Sequences

CONSTANTS
    N,         \* the number of composers
    Holders,   \* what else keeps the activity: stores, busy backends, the poll
    Unsent,    \* online, with messages in the Outbox?
    MaxDepth   \* the bound on nested dialogs, the one over the last window apart

ASSUME QuitAssumption ==
    /\ N \in Nat
    /\ Unsent \in BOOLEAN
    /\ MaxDepth \in Nat \ {0}

Composers == 1 .. N
Main == 0
NoWindow == N + 1

VARIABLES
    main,       \* is the main window open?
    composer,   \* the composers
    quit,       \* how far the quit has come
    holders,    \* the Holders that still keep the activity
    timer,      \* prepare_quit_timeout_id
    cancelled,  \* shell->priv->quit_cancelled
    stack,      \* the dialogs on the screen, the nested ones last
    failed      \* history: has saving a draft failed, or been cancelled?

vars == <<main, composer, quit, holders, timer, cancelled, stack, failed>>

(***************************************************************************)
(* exiting is application_exiting; connected, whether the quit handlers    *)
(* still are; holds, the reference on the quit's activity that goes with   *)
(* the composer; saving, how far "Save Draft" is; notify, whether its end  *)
(* will reach msg_composer_save_to_drafts_done_cb ().  discard is history: *)
(* the user's last answer about this message was to discard it.            *)
(***************************************************************************)
Composer == [open : BOOLEAN, changed : BOOLEAN, exiting : BOOLEAN,
             connected : BOOLEAN, sensitive : BOOLEAN, holds : BOOLEAN,
             notify : BOOLEAN, discard : BOOLEAN,
             saving : {"no", "building", "appending", "asking", "ended"}]

NewComposer(isChanged) ==
    [open |-> TRUE, changed |-> isChanged, exiting |-> FALSE, connected |-> TRUE,
     sensitive |-> TRUE, holds |-> FALSE, notify |-> FALSE, discard |-> FALSE,
     saving |-> "no"]

\* A dialog: which question it asks, and its parent window.  "last" is the
\* question with no parent asked while the last window is being destroyed.
Dialog == [ask : {"outbox", "quit", "close", "drafts", "pending", "last"},
           who : 0 .. NoWindow]

Windows(C, m) == {c \in Composers : C[c].open} \cup (IF m THEN {Main} ELSE {})

Init ==
    /\ main \in BOOLEAN
    /\ composer \in {[c \in Composers |-> NewComposer(f[c])] :
                        f \in [Composers -> BOOLEAN]}
    /\ Windows(composer, main) # {}
    /\ quit = "none"
    /\ holders = {}
    /\ timer = FALSE
    /\ cancelled = FALSE
    /\ stack = <<>>
    /\ failed = FALSE

-----------------------------------------------------------------------------
(***************************************************************************)
(* The second phase: the preparation.  C is the composers and st the       *)
(* dialogs as the caller leaves them.                                      *)
(***************************************************************************)
\* The window is gone, and with it the reference that went with it.
ClosedHolding(r) == [r EXCEPT !.open = FALSE]
Closed(r) == [r EXCEPT !.open = FALSE, !.holds = FALSE]

\* shell_ready_for_quit () destroys all windows.
Ready(C, how) ==
    /\ quit' = how
    /\ composer' = [c \in Composers |-> Closed(C[c])]
    /\ main' = FALSE
    /\ timer' = FALSE
    /\ holders' = {}
    /\ stack' = <<>>

Held(C, H) == H # {} \/ \E c \in Composers : C[c].holds

\* The toggle notification, when the last reference has just been given up.
Release(C, st, H) ==
    \/ /\ quit = "preparing"
       /\ ~Held(C, H)
       /\ Ready(C, "ready")
    \/ /\ quit = "none" \/ Held(C, H)
       /\ composer' = C
       /\ stack' = st
       /\ holders' = H
       /\ UNCHANGED <<main, quit, timer>>

\* The question whether to quit with pending activities, over some window.
AskPending(C, st) ==
    /\ \E w \in Windows(C, main) \cup {NoWindow} :
          /\ w = NoWindow <=> Windows(C, main) = {}
          /\ stack' = Append(st, [ask |-> "pending", who |-> w])
    /\ composer' = C
    /\ UNCHANGED <<main, quit, holders, timer>>

\* "Save Draft" is insensitive while something asynchronous is in progress.
SaveBegun(r) == IF r.saving = "no" THEN [r EXCEPT !.saving = "building"] ELSE r

\* msg_composer_prepare_for_quit_cb ()
Prepared(r) ==
    IF r.open /\ r.connected /\ r.exiting
    THEN [SaveBegun(r) EXCEPT !.holds = TRUE]
    ELSE r

Desensitized(r) == [r EXCEPT !.sensitive = FALSE]

\* shell_prepare_for_quit ().  The listeners other than the composers keep the
\* activity as long as they have something to do.
Prepare(C, st) ==
    \/ /\ quit = "preparing"
       /\ AskPending(C, st)
    \/ /\ quit = "none"
       /\ \E D \in {[c \in Composers |-> Prepared(C[c])]}, H \in SUBSET Holders :
             IF Held(D, H)
             THEN /\ quit' = "preparing"
                  /\ holders' = H
                  /\ timer' = TRUE
                  /\ composer' = [c \in Composers |-> Desensitized(D[c])]
                  /\ stack' = st
                  /\ UNCHANGED main
             ELSE Ready(D, "ready")

-----------------------------------------------------------------------------
(***************************************************************************)
(* The first phase: the request.                                           *)
(***************************************************************************)
\* msg_composer_quit_requested_cb (): a composer that is exiting is let go,
\* one that is busy or has changes stops the emission or asks.
BlocksChangedOnly(r) == r.open /\ r.connected /\ ~r.exiting /\ r.changed
Blocks(r) == r.open /\ r.connected /\ ~r.exiting /\ (r.saving # "no" \/ r.changed)

LetGo(r) == IF r.open /\ r.exiting THEN [r EXCEPT !.connected = FALSE] ELSE r

\* The first composer from i on that does not let the emission pass.
FirstBlocking(C, i) ==
    CHOOSE f \in i .. N + 1 :
        /\ f \in Composers => Blocks(C[f])
        /\ \A c \in i .. f - 1 : ~Blocks(C[c])

Passed(C, i, f) == [c \in Composers |-> IF c \in i .. f - 1 THEN LetGo(C[c]) ELSE C[c]]

\* The emission of quit-requested goes on with composer i; wasCancelled is what
\* quit_cancelled holds: a nested request uses the same field.
Emission(C, st, i, wasCancelled) ==
    \E f \in {FirstBlocking(C, i)} : \E D \in {Passed(C, i, f)} :
        \/ /\ f = N + 1
           /\ cancelled' = wasCancelled
           /\ IF wasCancelled
              THEN /\ composer' = D
                   /\ stack' = st
                   /\ UNCHANGED <<main, quit, holders, timer>>
              ELSE Prepare(D, st)
        \/ /\ f \in Composers
           /\ composer' = D
           /\ IF D[f].saving # "no"
              THEN /\ cancelled' = TRUE
                   /\ stack' = st
              ELSE /\ cancelled' = wasCancelled
                   /\ stack' = Append(st, [ask |-> "quit", who |-> f])
           /\ UNCHANGED <<main, quit, holders, timer>>

\* e_shell_quit ().  The mail backend asks first, unless another process wants
\* Evolution to quit or there is no main window left.
RequestQuit(C, st, isRemote) ==
    \/ /\ quit = "preparing"
       /\ AskPending(C, st)
       /\ UNCHANGED cancelled
    \/ /\ quit = "none"
       /\ IF Unsent /\ ~isRemote /\ main
          THEN /\ cancelled' = FALSE
               /\ composer' = C
               /\ stack' = Append(st, [ask |-> "outbox", who |-> Main])
               /\ UNCHANGED <<main, quit, holders, timer>>
          ELSE Emission(C, st, 1, FALSE)

-----------------------------------------------------------------------------
(***************************************************************************)
(* A composer's window is destroyed: it no longer listens, and when it was *)
(* the last one the application quits.  If it was quitting already the     *)
(* user is asked, before the composer's reference is given up.             *)
(***************************************************************************)
QuitsAfterLastIdle(C) == Windows(C, main) = {} /\ quit # "none"
QuitsAfterLast(C) == Windows(C, main) = {}

Destroy(C, st, c) ==
    \E D \in {[C EXCEPT ![c].open = FALSE]} :
        \/ /\ ~QuitsAfterLast(D)
           /\ Release([D EXCEPT ![c] = Closed(@)], st, holders)
           /\ UNCHANGED cancelled
        \/ /\ QuitsAfterLast(D)
           /\ quit = "preparing"
           /\ composer' = D
           /\ stack' = Append(st, [ask |-> "last", who |-> c])
           /\ UNCHANGED <<main, quit, holders, timer, cancelled>>
        \/ /\ QuitsAfterLast(D)
           /\ quit = "none"
           /\ RequestQuit(D, st, FALSE)

-----------------------------------------------------------------------------
(***************************************************************************)
(* What the user does in a window: nothing while a dialog is on the        *)
(* screen, and in an insensitive window only to close it.                  *)
(***************************************************************************)
Idle == stack = <<>> /\ quit \in {"none", "preparing"}
Room == Len(stack) < MaxDepth

Edit(c) ==
    /\ Idle
    /\ composer[c].open /\ composer[c].sensitive
    /\ composer[c].saving = "no"
    /\ composer' = [composer EXCEPT ![c].changed = TRUE, ![c].discard = FALSE]
    /\ UNCHANGED <<main, quit, holders, timer, cancelled, stack>>

\* The "Save Draft" action of the composer.
SaveDraft(c) ==
    /\ Idle
    /\ composer[c].open /\ composer[c].sensitive
    /\ composer[c].saving = "no"
    /\ composer' = [composer EXCEPT ![c] = SaveBegun(@)]
    /\ UNCHANGED <<main, quit, holders, timer, cancelled, stack>>

\* action_close_cb () and the delete event, blocked while the composer is busy.
Close(c) ==
    /\ Idle
    /\ composer[c].open
    /\ composer[c].saving = "no"
    /\ IF composer[c].changed
       THEN /\ stack' = <<[ask |-> "close", who |-> c]>>
            /\ UNCHANGED <<main, composer, quit, holders, timer, cancelled>>
       ELSE Destroy(composer, stack, c)

\* The delete event of the main window, the last one or not.
CloseMain ==
    /\ Idle
    /\ main
    /\ IF Windows(composer, main) = {Main}
       THEN RequestQuit(composer, stack, FALSE)
       ELSE /\ main' = FALSE
            /\ UNCHANGED <<composer, quit, holders, timer, cancelled, stack>>

\* The Quit action of the main window.
UserQuit ==
    /\ Idle
    /\ main
    /\ quit = "none"
    /\ RequestQuit(composer, stack, FALSE)

\* A request from another process comes at any time.
RemoteQuit ==
    /\ Room
    /\ quit \in {"none", "preparing"}
    /\ RequestQuit(composer, stack, TRUE)

-----------------------------------------------------------------------------
(***************************************************************************)
(* The answers.  A dialog whose parent has been destroyed is destroyed     *)
(* with it, and gtk_dialog_run () returns no answer.                       *)
(***************************************************************************)
Top == stack[Len(stack)]
Below == SubSeq(stack, 1, Len(stack) - 1)
Asked(question) == stack # <<>> /\ Top.ask = question
ParentGone == Top.who # NoWindow /\ Top.who \notin Windows(composer, main)

\* What an answer about a message leaves in its composer.  Once a quit is being
\* prepared there is no way back from a message given up.
Answered(r, answer) ==
    [r EXCEPT !.exiting = @ \/ answer = "save",
              !.discard = answer = "discard" \/ (quit = "preparing" /\ @)]

AnswerOutbox(goOn) ==
    /\ Asked("outbox")
    /\ goOn => ~ParentGone
    /\ IF goOn
       THEN Emission(composer, Below, 1, cancelled)
       ELSE /\ cancelled' = TRUE
            /\ stack' = Below
            /\ UNCHANGED <<main, composer, quit, holders, timer>>

\* The end of e_msg_composer_can_close () in the handler of quit-requested:
\* application_exiting is read even when the composer has been destroyed.
AnswerQuit(answer) ==
    /\ Asked("quit")
    /\ ParentGone => answer = "cancel"
    /\ \E c \in {Top.who} :
       \E C \in {[composer EXCEPT ![c] = Answered(@, answer)]} :
          \/ /\ answer = "discard" \/ C[c].exiting \/ ParentGone
             /\ Emission(C, Below, c + 1, cancelled)
          \/ /\ answer = "cancel" /\ (~C[c].exiting \/ ParentGone)
             /\ cancelled' = TRUE
             /\ composer' = C
             /\ stack' = Below
             /\ UNCHANGED <<main, quit, holders, timer>>

AnswerClose(answer) ==
    /\ Asked("close")
    /\ ParentGone => answer = "cancel"
    /\ \E c \in {Top.who} :
       \E C \in {[composer EXCEPT ![c] = Answered(@, answer)]} :
          IF answer = "discard"
          THEN Destroy(C, Below, c)
          ELSE /\ composer' = IF answer = "save" THEN [C EXCEPT ![c] = SaveBegun(@)] ELSE C
               /\ stack' = Below
               /\ UNCHANGED <<main, quit, holders, timer, cancelled>>

\* The Drafts folder cannot be used: save to the local one instead?
AnswerDrafts(useLocal) ==
    /\ Asked("drafts")
    /\ useLocal => ~ParentGone
    /\ composer' = IF useLocal
                   THEN [composer EXCEPT ![Top.who].saving = "appending"]
                   ELSE [composer EXCEPT ![Top.who].saving = "ended",
                                         ![Top.who].changed = TRUE]
    /\ stack' = Below
    /\ UNCHANGED <<main, quit, holders, timer, cancelled>>

AnswerPending(closeNow) ==
    /\ Asked("pending") \/ Asked("last")
    /\ closeNow /\ Asked("pending") => ~ParentGone
    /\ \/ /\ closeNow
          /\ Ready(composer, "forced")
       \/ /\ ~closeNow /\ Asked("pending")
          /\ stack' = Below
          /\ UNCHANGED <<main, composer, quit, holders, timer>>
       \/ /\ ~closeNow /\ Asked("last")
          /\ Release([composer EXCEPT ![Top.who] = Closed(@)], Below, holders)
    /\ UNCHANGED cancelled

Answers ==
    \/ \E yes \in BOOLEAN : AnswerOutbox(yes) \/ AnswerDrafts(yes) \/ AnswerPending(yes)
    \/ \E answer \in {"save", "discard", "cancel"} : AnswerQuit(answer) \/ AnswerClose(answer)

-----------------------------------------------------------------------------
(***************************************************************************)
(* What the main loop brings.                                              *)
(***************************************************************************)
\* msg_composer_save_to_drafts_cb (): the message has been built.
NotifiesNever(r) == FALSE
Notifies(r) == r.exiting

Built(c) ==
    /\ composer[c].open
    /\ composer[c].saving = "building"
    /\ composer' = [composer EXCEPT ![c].saving = "appending", ![c].changed = TRUE,
                                    ![c].notify = Notifies(composer[c])]
    /\ UNCHANGED <<main, quit, holders, timer, cancelled, stack>>

\* e_msg_composer_claim_no_build_message_error ()
BuildFailed(c) ==
    /\ composer[c].open
    /\ composer[c].saving = "building"
    /\ composer' = [composer EXCEPT ![c].saving = "ended", ![c].exiting = FALSE]
    /\ UNCHANGED <<main, quit, holders, timer, cancelled, stack>>

\* composer_save_to_drafts_complete ()
Appended(c) ==
    /\ composer[c].open
    /\ composer[c].saving = "appending"
    /\ composer' = [composer EXCEPT ![c].saving = "ended", ![c].changed = FALSE]
    /\ UNCHANGED <<main, quit, holders, timer, cancelled, stack>>

\* The append fails.  A composer that is to be closed asks where else to save,
\* any may ask when the folder cannot be opened.
AppendAsks(c) ==
    /\ Room
    /\ composer[c].open
    /\ composer[c].saving = "appending"
    /\ composer' = [composer EXCEPT ![c].saving = "asking"]
    /\ stack' = Append(stack, [ask |-> "drafts", who |-> c])
    /\ UNCHANGED <<main, quit, holders, timer, cancelled>>

\* It is cancelled, by the user or by camel_operation_cancel_all () when a quit
\* is prepared, or it fails when the composer is to stay.
AppendStopped(c) ==
    /\ composer[c].open
    /\ composer[c].saving = "appending"
    /\ composer' = [composer EXCEPT ![c].saving = "ended", ![c].changed = TRUE]
    /\ UNCHANGED <<main, quit, holders, timer, cancelled, stack>>

\* The activity of the save is finalised: msg_composer_save_to_drafts_done_cb ().
SavedAnyway(r) == TRUE
Saved(r) == ~r.changed

SaveEnds(c) ==
    /\ composer[c].open
    /\ composer[c].saving = "ended"
    /\ \E C \in {[composer EXCEPT ![c].saving = "no", ![c].notify = FALSE]},
          isNotified \in {composer[c].notify /\ composer[c].exiting} :
          \/ /\ isNotified /\ Saved(composer[c])
             /\ Destroy(C, stack, c)
          \/ /\ isNotified /\ ~Saved(composer[c])
             /\ composer' = [C EXCEPT ![c].sensitive = TRUE, ![c].exiting = FALSE]
             /\ UNCHANGED <<main, quit, holders, timer, cancelled, stack>>
          \/ /\ ~isNotified
             /\ composer' = C
             /\ UNCHANGED <<main, quit, holders, timer, cancelled, stack>>

\* A store has synchronised, a backend is no longer busy, or the poll finds no
\* mail message: a reference on the activity is given up.
HolderDone(h) ==
    /\ h \in holders
    /\ Release(composer, stack, holders \ {h})
    /\ UNCHANGED cancelled

\* After 60 seconds the user is asked; the timer is not armed again.
TimerFires ==
    /\ timer
    /\ Room
    /\ timer' = FALSE
    /\ \E w \in Windows(composer, main) \cup {NoWindow} :
          /\ w = NoWindow <=> Windows(composer, main) = {}
          /\ stack' = Append(stack, [ask |-> "pending", who |-> w])
    /\ UNCHANGED <<main, composer, quit, holders, cancelled>>

SaveFails(c) == (BuildFailed(c) \/ AppendAsks(c) \/ AppendStopped(c)) /\ failed' = TRUE
SaveSteps(c) == (Built(c) \/ Appended(c) \/ SaveEnds(c)) /\ UNCHANGED failed

Others ==
    \/ \E c \in Composers : Edit(c) \/ SaveDraft(c) \/ Close(c)
    \/ CloseMain \/ UserQuit \/ RemoteQuit
    \/ Answers
    \/ \E h \in Holders : HolderDone(h)
    \/ TimerFires

Next ==
    \/ \E c \in Composers : SaveSteps(c) \/ SaveFails(c)
    \/ Others /\ UNCHANGED failed

\* Saves and synchronisations end; a question that is on top again and again is
\* answered, even if other processes make Evolution quit again and again, which
\* opens another one over it.
Fairness ==
    /\ \A c \in Composers : WF_vars(SaveSteps(c) \/ SaveFails(c))
    /\ \A h \in Holders : WF_vars(HolderDone(h) /\ UNCHANGED failed)
    /\ \A d \in 1 .. MaxDepth + 1 :
          SF_vars(Len(stack) = d /\ Answers /\ UNCHANGED failed)

Spec == Init /\ [][Next]_vars
FairSpec == Spec /\ Fairness

-----------------------------------------------------------------------------
(***************************************************************************)
(* Properties                                                              *)
(***************************************************************************)
\* Types; only a quit in preparation is kept by a composer, and only by one
\* that is open or in the middle of its destruction.
TypeOK ==
    /\ {main, timer, cancelled, failed} \subseteq BOOLEAN
    /\ composer \in [Composers -> Composer]
    /\ quit \in {"none", "preparing", "ready", "forced"}
    /\ holders \subseteq Holders
    /\ stack \in Seq(Dialog)
    /\ Len(stack) <= MaxDepth + 1
    /\ \A c \in Composers : composer[c].holds =>
          /\ quit = "preparing"
          /\ composer[c].open \/ \E i \in DOMAIN stack : stack[i] = [ask |-> "last", who |-> c]

\* An application that has lost its last window is quitting: it cannot stay
\* behind without one (shell_window_removed_cb ()).
NoWindowQuits == Windows(composer, main) = {} => quit # "none"

\* A quit that nobody forces ends only when every composer it waited for has
\* saved its draft, or when the user has discarded the message after all.
DraftsSaved ==
    [][quit = "preparing" /\ quit' = "ready" =>
          \A c \in Composers : composer[c].holds =>
              ~composer[c].changed \/ composer'[c].discard]_vars

\* When a quit begins, and no save has failed, every changed message has been
\* asked about: it is to be saved or discarded (the documentation of
\* EShell::quit-requested).
QuitAskedFirst ==
    [][quit = "none" /\ quit' # "none" /\ ~failed =>
          \A c \in Composers : composer[c].open /\ composer[c].changed =>
              composer'[c].exiting \/ composer'[c].discard]_vars

\* A quit that has begun ends, when the user waits and nothing fails.
QuitEnds == quit = "preparing" ~> quit \in {"ready", "forced"} \/ failed

\* While no save fails, no window is closed over a changed message that nobody
\* is saving, unless the user's last answer was to discard it or the user forced
\* the quit: the text of the question, and the comment in
\* msg_composer_prepare_for_quit_cb ().
NothingLost ==
    [][\A c \in Composers :
          /\ composer[c].open /\ ~composer'[c].open
          /\ composer[c].changed /\ composer[c].saving = "no" /\ ~failed
          => composer'[c].discard \/ quit' = "forced"]_vars
=============================================================================
