------------------------------ MODULE Autosave ------------------------------
(***************************************************************************)
(* The autosave of composers (src/src/modules/composer-autosave/): a timer *)
(* per composer writes a snapshot of its message to a file of its own, the *)
(* file goes with the composer, and what a crash leaves behind is offered  *)
(* to the user once the next session's first window is mapped.             *)
(*                                                                         *)
(* What a file holds is ordered by age: Absent, Empty, Torn (the beginning *)
(* of a message only), then the revisions of the message, 1 .. MaxText.    *)
(* Nothing else remains of a session when it ends, by a crash or not.      *)
(***************************************************************************)
EXTENDS Integers, FiniteSets, Sequences, SequencesExt

CONSTANTS
  Composers,   \* the EMsgComposers that can be alive together
  Files,       \* the names g_mkstemp() can choose
  Windows,     \* the EShellWindows of a session
  NoFile, NoWindow,
  MaxText,     \* bound: how often a message is edited
  MaxSessions, \* bound: how often Evolution is started
  Slow,        \* may a save take longer than AUTOSAVE_INTERVAL?
  Breaks,      \* may the editor's web process terminate?
  Tears        \* may writing fail in the middle?

ASSUME AutosaveAssumption ==
  /\ NoFile \notin Files /\ NoWindow \notin Windows
  /\ MaxText \in Nat /\ MaxSessions \in Nat \ {0}
  /\ Slow \in BOOLEAN /\ Breaks \in BOOLEAN /\ Tears \in BOOLEAN

Absent == -2
Empty  == -1
Torn   == 0

VARIABLES
  disk,      \* what each snapshot file holds
  composer,  \* the composers, each with its EComposerAutosave
  saves,     \* the snapshots under way: the present one, the one cancelled for it
  loads,     \* how often each file is being loaded
  window,    \* how far each shell window is
  restored,  \* registry->priv->orphans_restored
  handlers,  \* the windows the registry's "map-event" handler is connected to
  handlerId, \* registry->priv->map_event_handler_id: the window it belongs to
  dialogs,   \* the questions on the screen, the nested ones last
  session,   \* which session this is
  shared     \* history: the files given to a second user while they had a first

vars == <<disk, composer, saves, loads, window, restored, handlers, handlerId,
          dialogs, session, shared>>
registry == <<window, restored, handlers, handlerId, shared>>

(***************************************************************************)
(* file is the composer's SNAPSHOT_FILE_KEY; deletes, whether it is        *)
(* deleted with the composer; "closing" is a window that was destroyed, so *)
(* that it is disposed of, but is not finalised: a save still refers to it. *)
(***************************************************************************)
Composer == [life : {"none", "open", "closing"}, text : 0 .. MaxText,
             changed : BOOLEAN, timer : BOOLEAN, file : Files \cup {NoFile},
             deletes : BOOLEAN, malfunction : BOOLEAN]

Unused == [life |-> "none", text |-> 0, changed |-> FALSE, timer |-> FALSE,
           file |-> NoFile, deletes |-> FALSE, malfunction |-> FALSE]

\* A snapshot is asked of the editor, built, and written in a thread.
Save == [stage : {"none", "fetching", "building", "writing"},
         text : 0 .. MaxText, cancelled : BOOLEAN]
NoSave == [stage |-> "none", text |-> 0, cancelled |-> FALSE]
Idle == <<NoSave, NoSave>>
Slots == {1, 2}

\* A question: about orphans, when a window is mapped, or about the snapshot of
\* a composer whose editor is broken.
Question == [about : {"orphans"}, window : Windows, files : SUBSET Files]
              \cup [about : {"malfunction"}, who : Composers]

TypeOK ==
  /\ disk \in [Files -> Absent .. MaxText]
  /\ composer \in [Composers -> Composer]
  /\ saves \in [Composers -> Save \X Save]
  /\ loads \in [Files -> Nat]
  /\ window \in [Windows -> {"none", "added", "mapped"}]
  /\ restored \in BOOLEAN
  /\ handlers \subseteq Windows
  /\ handlerId \in Windows \cup {NoWindow}
  /\ \A i \in DOMAIN dialogs : dialogs[i] \in Question
  /\ session \in 1 .. MaxSessions
  /\ shared \subseteq Files \cup {NoFile}

\* Evolution is started: what it knows.
Started(a, b, c, d, e, f, g, h) ==
  /\ a = [k \in Composers |-> Unused]
  /\ b = [k \in Composers |-> Idle]
  /\ c = [k \in Files |-> 0]
  /\ d = [w \in Windows |-> "none"]
  /\ e = FALSE
  /\ f = {}
  /\ g = NoWindow
  /\ h = <<>>

Init ==
  /\ disk = [f \in Files |-> Absent]
  /\ Started(composer, saves, loads, window, restored, handlers, handlerId, dialogs)
  /\ session = 1
  /\ shared = {}

-----------------------------------------------------------------------------
(* What the registry knows.                                                *)

\* registry->priv->composers: composer_registry_notify_cb() is a weak
\* notification, so they are removed when they are disposed of, not when they
\* are finalised.
Registered == {c \in Composers : composer[c].life = "open"}

\* e_composer_find_orphans().
Unowned == {f \in Files : disk[f] # Absent /\ \A c \in Registered : composer[c].file # f}
Orphans == {f \in Unowned : disk[f] # Empty}

\* What the registry does not look at: a composer that is not finalised, a
\* composer that is being created, another window's question.
InUse(f) ==
  \/ \E c \in Composers : composer[c].life = "closing" /\ composer[c].file = f
  \/ loads[f] > 0
  \/ \E i \in DOMAIN dialogs : dialogs[i].about = "orphans" /\ f \in dialogs[i].files

-----------------------------------------------------------------------------
(* A composer and its timer.                                               *)

\* composer_autosave_changed_cb(): K is a composer.
Scheduled(K) ==
  IF K.life = "open" /\ K.changed /\ ~K.malfunction THEN [K EXCEPT !.timer = TRUE] ELSE K

\* The bound on Composers leaves one for every file that can be restored.
Room == Cardinality({c \in Composers : composer[c].life # "none"})
          + Cardinality(Unowned) < Cardinality(Composers)

\* Somebody writes a new message.
NewComposer(c) ==
  /\ composer[c].life = "none" /\ Room
  /\ composer' = [composer EXCEPT ![c] = [Unused EXCEPT !.life = "open"]]
  /\ UNCHANGED <<disk, saves, loads, registry, dialogs, session>>

Edit(c) ==
  /\ composer[c].life = "open" /\ ~composer[c].malfunction
  /\ composer[c].text < MaxText
  /\ composer' = [composer EXCEPT ![c] =
                    Scheduled([@ EXCEPT !.text = composer[c].text + 1, !.changed = TRUE])]
  /\ UNCHANGED <<disk, saves, loads, registry, dialogs, session>>

\* The user saves the message to a folder of drafts: the composer no longer
\* has changes.  Meanwhile it is busy and the timer only waits.
SaveDraft(c) ==
  /\ composer[c].life = "open" /\ ~composer[c].malfunction
  /\ composer[c].changed
  /\ composer' = [composer EXCEPT ![c].changed = FALSE]
  /\ UNCHANGED <<disk, saves, loads, registry, dialogs, session>>

\* Mutant: the file still goes with the composer.
BrokenDeleting(K) == [K EXCEPT !.malfunction = TRUE]
\* composer_autosave_editor_is_malfunction_cb(): the file is what is left.
Broken(K) == [K EXCEPT !.malfunction = TRUE, !.deletes = FALSE]

\* webkit_editor_web_process_terminated_cb().
Malfunction(c) ==
  /\ Breaks
  /\ composer[c].life = "open" /\ ~composer[c].malfunction
  /\ composer' = [composer EXCEPT ![c] = Broken(@)]
  /\ UNCHANGED <<disk, saves, loads, registry, dialogs, session>>

\* Mutant: the save that is replaced goes on.
CancelledNot(s) == s
\* g_cancellable_cancel().
Cancelled(s) == IF s.stage = "none" THEN s ELSE [s EXCEPT !.cancelled = TRUE]

\* e_composer_save_snapshot(): the editor is asked, unless an older snapshot is
\* still being built and its text is there.
NewSave(c) ==
  IF saves[c][1].stage = "building"
  THEN [stage |-> "building", text |-> saves[c][1].text, cancelled |-> FALSE]
  ELSE [stage |-> "fetching", text |-> composer[c].text, cancelled |-> FALSE]

\* Mutant: a file is created each time.
CreatesAlways(c) == Files
\* A name nothing refers to: g_mkstemp() chooses at random.
Unheard(f) ==
  /\ disk[f] = Absent /\ ~InUse(f)
  /\ \A c \in Composers : composer[c].file # f
\* create_snapshot_file(): the files a snapshot can go to.
SnapshotFiles(c) ==
  IF composer[c].file # NoFile THEN {composer[c].file} ELSE {f \in Files : Unheard(f)}

\* Mutant: the timer is not started again.
ReschedulesNever(K) == K
\* The end of composer_autosave_finished_cb() after an error.
Rescheduled(K) == Scheduled(K)

\* composer_autosave_timeout_cb().  The last case: no file can be created.
TimerFires(c) ==
  /\ composer[c].life = "open" /\ composer[c].timer
  /\ Slow \/ \A d \in Composers : composer[d].file = composer[c].file => saves[d] = Idle
  /\ saves[c][2] = NoSave
  /\ \/ /\ composer[c].malfunction
        /\ composer' = [composer EXCEPT ![c].timer = FALSE]
        /\ UNCHANGED <<disk, saves>>
     \/ /\ ~composer[c].malfunction
        /\ \E f \in SnapshotFiles(c) :
             /\ composer' = [composer EXCEPT ![c].timer = FALSE, ![c].file = f,
                               ![c].deletes = @ \/ composer[c].file = NoFile]
             /\ disk' = IF composer[c].file = NoFile THEN [disk EXCEPT ![f] = Empty] ELSE disk
        /\ saves' = [saves EXCEPT ![c] = <<NewSave(c), Cancelled(saves[c][1])>>]
     \/ /\ ~composer[c].malfunction
        /\ composer[c].file = NoFile
        /\ composer' = [composer EXCEPT ![c] = Rescheduled([@ EXCEPT !.timer = FALSE])]
        /\ UNCHANGED <<disk, saves>>
  /\ UNCHANGED <<loads, registry, dialogs, session>>

-----------------------------------------------------------------------------
(* The snapshots under way.                                                *)

\* The composer is finalised, when its window is destroyed and no save refers
\* to it.  K, S and D are the composers, the saves and the files so far.
Released(K, S, D, c) ==
  /\ saves' = S
  /\ IF K[c].life = "closing" /\ S[c] = Idle
     THEN /\ composer' = [K EXCEPT ![c] = Unused]
          /\ disk' = IF K[c].deletes /\ K[c].file # NoFile
                     THEN [D EXCEPT ![K[c].file] = Absent] ELSE D
     ELSE composer' = K /\ disk' = D

\* The editor answers with what it held at some moment since it was asked.  A
\* GTask that is cancelled propagates that instead of its result, here and when
\* the message is built.
ContentReady(c, i) ==
  /\ saves[c][i].stage = "fetching" /\ ~saves[c][i].cancelled
  /\ composer[c].life = "open" /\ ~composer[c].malfunction
  /\ \E t \in saves[c][i].text .. composer[c].text :
       saves' = [saves EXCEPT ![c][i].stage = "building", ![c][i].text = t]
  /\ UNCHANGED <<disk, composer, loads, registry, dialogs, session>>

\* save_snapshot_get_message_cb().
Built(c, i) ==
  /\ saves[c][i].stage = "building" /\ ~saves[c][i].cancelled
  /\ saves' = [saves EXCEPT ![c][i].stage = "writing"]
  /\ UNCHANGED <<disk, composer, loads, registry, dialogs, session>>

\* write_message_to_stream_thread(): the old contents are replaced when the
\* stream is closed, even if the save has just been cancelled.
Written(c, i) ==
  /\ saves[c][i].stage = "writing"
  /\ Released(composer, [saves EXCEPT ![c][i] = NoSave],
              [disk EXCEPT ![composer[c].file] = saves[c][i].text], c)
  /\ UNCHANGED <<loads, registry, dialogs, session>>

\* A save fails, or its being cancelled is noticed: then in silence.
Fails(c, i) ==
  /\ saves[c][i].stage # "none"
  /\ \E K \in {Rescheduled(composer[c])} \cup {k \in {composer[c]} : saves[c][i].cancelled} :
       Released([composer EXCEPT ![c] = K], [saves EXCEPT ![c][i] = NoSave], disk, c)
  /\ UNCHANGED <<loads, registry, dialogs, session>>

\* Writing fails: the stream is closed all the same, with what it got so far.
WritingFails(c, i) ==
  /\ Tears
  /\ saves[c][i].stage = "writing" /\ ~saves[c][i].cancelled
  /\ \E left \in {Empty, Torn} :
       Released([composer EXCEPT ![c] = Rescheduled(@)], [saves EXCEPT ![c][i] = NoSave],
                [disk EXCEPT ![composer[c].file] = left], c)
  /\ UNCHANGED <<loads, registry, dialogs, session>>

-----------------------------------------------------------------------------
(* The window of a composer is closed, or the message is sent.             *)

\* S are the saves, D the files and L the loads as the caller leaves them.
Destroyed(c, S, D, L) ==
  /\ Released([composer EXCEPT ![c].life = "closing", ![c].timer = FALSE], S, D, c)
  /\ loads' = L

AskedAbout(c) == \E i \in DOMAIN dialogs : dialogs[i].about = "malfunction" /\ dialogs[i].who = c

\* "before-destroy" cancels the snapshot under way; a window destroyed when its
\* message has been sent does not emit it.
Close(c, emits) ==
  /\ composer[c].life = "open" /\ ~AskedAbout(c)
  /\ composer[c].malfunction => emits
  /\ \E S \in {IF emits THEN [saves EXCEPT ![c] = <<Cancelled(@[1]), @[2]>>] ELSE saves} :
       IF composer[c].malfunction /\ composer[c].file # NoFile
       THEN /\ dialogs' = Append(dialogs, [about |-> "malfunction", who |-> c])
            /\ saves' = S
            /\ UNCHANGED <<disk, composer, loads>>
       ELSE /\ Destroyed(c, S, disk, loads)
            /\ UNCHANGED dialogs
  /\ UNCHANGED <<registry, session>>

-----------------------------------------------------------------------------
(* The registry.                                                           *)

\* composer_registry_window_added_cb().
WindowAdded(w) ==
  /\ window[w] = "none"
  /\ window' = [window EXCEPT ![w] = "added"]
  /\ IF restored
     THEN UNCHANGED <<handlers, handlerId>>
     ELSE handlers' = handlers \cup {w} /\ handlerId' = w
  /\ UNCHANGED <<disk, composer, saves, loads, restored, dialogs, session, shared>>

\* The end of composer_registry_map_event_cb(), for window w: the handler goes
\* only if the id is its own.
HandlerEnds(w) ==
  /\ restored' = TRUE
  /\ handlers' = IF handlerId = w THEN handlers \ {w} ELSE handlers
  /\ handlerId' = NoWindow

\* A window is mapped.  The registry looks for orphans, deletes the empty ones
\* and asks about the others.
Mapped(w) ==
  /\ window[w] = "added"
  /\ window' = [window EXCEPT ![w] = "mapped"]
  /\ IF w \in handlers
     THEN /\ disk' = [f \in Files |-> IF f \in Unowned \ Orphans THEN Absent ELSE disk[f]]
          /\ shared' = shared \cup {f \in Unowned : InUse(f)}
          /\ IF Orphans = {}
             THEN HandlerEnds(w) /\ UNCHANGED dialogs
             ELSE /\ dialogs' = Append(dialogs, [about |-> "orphans", window |-> w,
                                                 files |-> Orphans])
                  /\ UNCHANGED <<restored, handlers, handlerId>>
     ELSE UNCHANGED <<disk, restored, handlers, handlerId, dialogs, shared>>
  /\ UNCHANGED <<composer, saves, loads, session>>

\* Mutant: nothing is loaded.
WithLoadsNone(F) == loads
WithLoads(F) == [f \in Files |-> IF f \in F THEN loads[f] + 1 ELSE loads[f]]
Without(F) == [f \in Files |-> IF f \in F THEN Absent ELSE disk[f]]

\* The user answers the question that is on top.
Answer(recover) ==
  /\ dialogs # <<>>
  /\ dialogs' = Front(dialogs)
  /\ \E q \in {Last(dialogs)} :
       \/ /\ q.about = "orphans"
          /\ HandlerEnds(q.window)
          /\ loads' = IF recover THEN WithLoads(q.files) ELSE loads
          /\ disk' = IF recover THEN disk ELSE Without(q.files)
          /\ UNCHANGED <<composer, saves, shared>>
       \/ /\ q.about = "malfunction"
          /\ \E F \in {{composer[q.who].file}} :
               IF recover
               THEN /\ Destroyed(q.who, saves, disk, WithLoads(F))
                    /\ shared' = IF saves[q.who] = Idle THEN shared ELSE shared \cup F
               ELSE /\ Destroyed(q.who, saves, Without(F), loads)
                    /\ UNCHANGED shared
          /\ UNCHANGED <<restored, handlers, handlerId>>
  /\ UNCHANGED <<window, session>>

\* What the composer holds that is created from file f.
RestoredText(f) == IF disk[f] = Empty THEN 0 ELSE disk[f]

\* load_snapshot_loaded_cb() and autosave_composer_created_cb(): the composer
\* goes on with the same file.
Loaded(f) ==
  /\ loads[f] > 0 /\ disk[f] # Absent
  /\ loads' = [loads EXCEPT ![f] = @ - 1]
  /\ \E c \in Composers :
       /\ composer[c].life = "none"
       /\ composer' = [composer EXCEPT ![c] = Scheduled([Unused EXCEPT
             !.life = "open", !.changed = TRUE, !.text = RestoredText(f),
             !.file = f, !.deletes = TRUE])]
  /\ UNCHANGED <<disk, saves, registry, dialogs, session>>

\* The file cannot be read or parsed, or no composer be created: it stays.
LoadFails(f) ==
  /\ loads[f] > 0
  /\ loads' = [loads EXCEPT ![f] = @ - 1]
  /\ UNCHANGED <<composer, disk, saves, registry, dialogs, session>>

-----------------------------------------------------------------------------
(* The end of a session.                                                   *)

NextSession ==
  /\ session < MaxSessions
  /\ session' = session + 1
  /\ Started(composer', saves', loads', window', restored', handlers', handlerId', dialogs')
  /\ shared' = {}

Crash ==
  /\ NextSession
  /\ UNCHANGED disk

\* A composer that no save refers to is finalised when the shell destroys it.
DeletedAtExit(f) ==
  \E c \in Composers : /\ composer[c].life = "open" /\ composer[c].file = f
                       /\ composer[c].deletes /\ saves[c] = Idle

\* A question whose parent window is destroyed returns, without an answer.
Unanswered(f) ==
  \E i \in DOMAIN dialogs :
    \/ dialogs[i].about = "orphans" /\ f \in dialogs[i].files
    \/ dialogs[i].about = "malfunction" /\ composer[dialogs[i].who].file = f

\* The user quits, or another process makes Evolution quit: shell_ready_for_quit()
\* destroys all windows, and whatever is still under way is abandoned.
Exit ==
  /\ NextSession
  /\ disk' = [f \in Files |-> IF DeletedAtExit(f) \/ Unanswered(f) THEN Absent ELSE disk[f]]

-----------------------------------------------------------------------------
Next ==
  \/ \E c \in Composers :
       \/ NewComposer(c) \/ Edit(c) \/ SaveDraft(c) \/ Malfunction(c) \/ TimerFires(c)
       \/ \E emits \in BOOLEAN : Close(c, emits)
       \/ \E i \in Slots : \/ ContentReady(c, i) \/ Built(c, i) \/ Written(c, i)
                           \/ Fails(c, i) \/ WritingFails(c, i)
  \/ \E w \in Windows : WindowAdded(w) \/ Mapped(w)
  \/ \E recover \in BOOLEAN : Answer(recover)
  \/ \E f \in Files : Loaded(f) \/ LoadFails(f)
  \/ Exit \/ Crash

Spec == Init /\ [][Next]_vars

(* Timers fire, threads end, windows are mapped, users answer.  A save that *)
(* is tried again and again succeeds in the end; one that is cancelled, or  *)
(* asked of a composer whose window is destroyed, fails.                    *)
FairSpec ==
  /\ Spec
  /\ \A c \in Composers : /\ WF_vars(TimerFires(c))
                          /\ SF_vars(\E i \in Slots : ContentReady(c, i))
                          /\ SF_vars(\E i \in Slots : Built(c, i))
                          /\ SF_vars(\E i \in Slots : Written(c, i))
  /\ \A c \in Composers :
       WF_vars(\E i \in Slots : /\ composer[c].life = "closing" \/ saves[c][i].cancelled
                                /\ Fails(c, i))
  /\ \A w \in Windows : WF_vars(WindowAdded(w)) /\ WF_vars(Mapped(w))
  /\ WF_vars(\E recover \in BOOLEAN : Answer(recover))
  /\ \A f \in Files : WF_vars(Loaded(f) \/ LoadFails(f))

-----------------------------------------------------------------------------
(* Properties.                                                             *)

Saved(f) == disk[f] > Empty
Owns(c, f) == composer[c].life = "open" /\ composer[c].file = f

\* The file an open composer saves to is there, and no other composer saves to
\* it, however slow saves are, wherever they and the loads of files fail, and
\* whatever breaks: unless the file was given to it while somebody used it.
OwnFile ==
  \A f \in Files \ shared : \A c \in Composers :
    Owns(c, f) => disk[f] # Absent /\ \A d \in Composers : Owns(d, f) => d = c

\* The registry's questions are about "orphaned auto-save files from the
\* previous session" (composer_registry_window_added_cb()), asked "once the
\* first EShellWindow is mapped": about files nobody uses, each in one question.
\* It does not hold.
OnlyOrphans ==
  \A i \in DOMAIN dialogs : dialogs[i].about = "orphans" =>
    \A f \in dialogs[i].files :
      /\ loads[f] = 0
      /\ \A c \in Composers : composer[c].file # f
      /\ \A j \in DOMAIN dialogs \ {i} :
           dialogs[j].about = "orphans" => f \notin dialogs[j].files

\* The two ways in which a save does damage: a newer one took its place while it
\* was being written, and it is written all the same; or writing fails half-way.
WrittenLate(f) ==
  \E c \in Composers :
    composer[c].file = f /\ saves[c][2].cancelled /\ Written(c, 2)
WrittenInPart(f) ==
  \E c \in Composers, i \in Slots : composer[c].file = f /\ WritingFails(c, i)

Backwards(f) == Saved(f) /\ disk'[f] # Absent /\ disk'[f] < disk[f]

\* Nothing else does: whatever is saved, overlaps, is answered late, is loaded
\* or left behind by a crash, a file is otherwise only replaced by something as
\* new, unless two use it.
SavesInOrder ==
  [][\A f \in Files \ shared :
        Backwards(f) => WrittenLate(f) \/ WrittenInPart(f)]_vars

\* What has been saved is only replaced by something as new.  It does not hold.
NeverBackwards == [][\A f \in Files : ~Backwards(f)]_vars

\* A composer whose text is not on the disk.
Behind(c) ==
  /\ composer[c].life = "open" /\ composer[c].changed /\ ~composer[c].malfunction
  /\ composer[c].file = NoFile \/ disk[composer[c].file] # composer[c].text
\* What has been typed is saved in the end, unless the composer is closed or
\* saved otherwise, however often saving fails.
TypedIsSaved == \A c \in Composers : Behind(c) ~> ~Behind(c)

\* What a session has left behind is deleted or loaded in the end, by the
\* question the first window asks.
OrphansEnd ==
  \A f \in Files : f \in Orphans /\ ~restored ~> f \notin Orphans \/ loads[f] > 0

\* The answer "no" to the question about composer c, and the process made to
\* quit while it is on the screen.
AnsweredNo(c) ==
  /\ Answer(FALSE)
  /\ Last(dialogs).about = "malfunction" /\ Last(dialogs).who = c
QuitInstead(c) == Exit /\ AskedAbout(c)

\* When the editor is broken, and the file is all that is left of the message,
\* the composer never takes it along: it is deleted by the answer to the
\* question about it, or by quitting instead of an answer (or by somebody who
\* was given the same file).
AskedBeforeDeleting ==
  [][\A c \in Composers, f \in Files \ shared :
        Owns(c, f) /\ composer[c].malfunction /\ disk[f] # Absent /\ disk'[f] = Absent
          => AnsweredNo(c) \/ QuitInstead(c)]_vars

\* The end of a session that did not crash leaves nothing of an open composer
\* that the next session would ask about.
ExitLeavesNothing ==
  [][Exit => \A c \in Composers, f \in Files :
        Owns(c, f) /\ composer[c].deletes => disk'[f] <= Empty]_vars

\* The end of a session deletes no message the user was asked about.
ExitKeepsOrphans == [][Exit => \A f \in Orphans : disk'[f] = disk[f]]_vars
=============================================================================
