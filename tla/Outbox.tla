------------------------------- MODULE Outbox -------------------------------
(***************************************************************************)
(* What becomes of the messages in the Outbox: the composer that puts them *)
(* there and edits them again, the timer of the session that flushes the   *)
(* folder after a delay, the one send operation mail-send-recv.c keeps     *)
(* under "send-task", and the thread of mail-ops.c that takes a list of    *)
(* the messages and does, for each, everything between the transport and   *)
(* the flag DELETED.  The folder is a summary in memory and files on disk, *)
(* and Evolution may crash between any two steps.                          *)
(*                                                                         *)
(* Modelled with "composer-use-outbox" set and a positive delay; of time   *)
(* only the order is kept.  Every message has a recipient and a default    *)
(* transport is configured.                                                *)
(***************************************************************************)
CONSTANTS
  Msgs,     \* messages
  NoMsg     \* no message

ASSUME OutboxAssumption == NoMsg \notin Msgs

VARIABLES
  box,       \* the Outbox: absent yet, kept, flagged DELETED, or expunged
  unsaved,   \* messages whose flag need not have reached the disk
  old,       \* messages that have been there for longer than the delay
  editing,   \* messages marked MAIL_USER_KEY_EDITING by a composer
  replaced,  \* messages whose edited version is in the Outbox already
  timer,     \* whether outbox_flush_id is set
  info,      \* the send_info under "send-task"
  run,       \* the operation send_queue, its thread and its outcome
  \* history
  sent,      \* how each message stands with its recipients
  asked,     \* how the last request to send at once stands
  upset      \* whether there was a crash, or a cancellation in the dialog

vars == <<box, unsaved, old, editing, replaced, timer, info, run, sent, asked,
          upset>>
history == <<sent, asked, upset>>
folder  == <<box, unsaved, old, editing, replaced>>

\* There is none that no send took up; there is; there was, and the send under
\* way was then cancelled; it came when that was being cancelled already.
Requests == {"no", "asked", "crossed", "late"}

\* No send has taken it; one has; sent; sent, and what followed failed or was
\* cut off so that it may be sent again; sent twice without such a reason.
Standings == {"no", "tried", "sent", "excused", "twice"}

Idle == [stage |-> "idle", imm |-> FALSE, cancelled |-> FALSE, todo |-> {},
         cur |-> NoMsg, warn |-> FALSE, filed |-> FALSE, failed |-> FALSE,
         broke |-> FALSE, later |-> FALSE]
NoInfo == [state |-> "none", own |-> FALSE, again |-> FALSE]

Init ==
  /\ box = [m \in Msgs |-> "absent"]
  /\ unsaved = {} /\ old = {} /\ editing = {} /\ replaced = {}
  /\ timer = FALSE /\ info = NoInfo /\ run = Idle
  /\ sent = [m \in Msgs |-> "no"]
  /\ asked = "no" /\ upset = FALSE

Kept   == {m \in Msgs : box[m] = "kept"}
Marked == {m \in Msgs : box[m] = "deleted"}

(***************************************************************************)
(* The composer and the user                                               *)
(***************************************************************************)
\* e_mail_session_append_to_local_folder puts the message in the folder, and
\* mail_session_outbox_folder_changed_cb schedules a flush; a timer that runs
\* is left alone.
Put(m) ==
  /\ box[m] = "absent"
  /\ box' = [box EXCEPT ![m] = "kept"]
  /\ timer' = TRUE

Append(m) ==
  /\ Put(m)
  /\ UNCHANGED <<unsaved, old, editing, replaced, info, run>>
  /\ UNCHANGED history

\* em_utils_edit_message on a message of the Outbox.
EditBegin(m) ==
  /\ m \in Kept \ editing
  /\ editing' = editing \cup {m}
  /\ UNCHANGED <<box, unsaved, old, replaced, timer, info, run>>
  /\ UNCHANGED history

\* The edited message m is put into the Outbox as n ...
EditSave(m, n) ==
  /\ m \in editing \ replaced
  /\ Put(n)
  /\ replaced' = replaced \cup {m}
  /\ UNCHANGED <<unsaved, old, editing, info, run>>
  /\ UNCHANGED history

\* ... and composer_save_to_outbox_completed then deletes the original
\* (manage_x_evolution_replace_outbox): a flag in the summary, for
\* camel_folder_synchronize_message_sync only fetches the message.  The
\* composer is destroyed.
EditSaved(m) ==
  /\ m \in replaced
  /\ box' = [box EXCEPT ![m] = IF @ = "kept" THEN "deleted" ELSE @]
  /\ unsaved' = IF m \in Kept THEN unsaved \cup {m} ELSE unsaved
  /\ editing' = editing \ {m} /\ replaced' = replaced \ {m}
  /\ timer' = TRUE
  /\ UNCHANGED <<old, info, run, sent, asked, upset>>

\* The composer is closed without saving: outbox_data_free.
EditClose(m) ==
  /\ m \in editing \ replaced
  /\ editing' = editing \ {m}
  /\ timer' = (timer \/ m \in Kept)
  /\ UNCHANGED <<box, unsaved, old, replaced, info, run>>
  /\ UNCHANGED history

\* The user deletes a message of the Outbox: a flag in the summary.
UserDelete(m) ==
  /\ m \in Kept
  /\ box' = [box EXCEPT ![m] = "deleted"]
  /\ unsaved' = unsaved \cup {m}
  /\ UNCHANGED <<old, editing, replaced, timer, info, run, sent, asked,
                 upset>>

(***************************************************************************)
(* mail-send-recv.c: starting a send                                       *)
(***************************************************************************)
\* mail_send_queue: the scheduled flush is cancelled, the operation pushed.
SendQueue(imm, cancelled) ==
  /\ timer' = FALSE
  /\ run' = [Idle EXCEPT !.stage = "pushed", !.imm = imm,
                         !.cancelled = cancelled]

\* do_mail_send: one send at a time, which is asked to run again and leaves
\* the timer as it is.
DoMailSend(imm, left) ==
  \/ /\ info.state # "none"
     /\ info' = [info EXCEPT !.again = TRUE]
     /\ timer' = left
     /\ UNCHANGED run
  \/ /\ info.state = "none"
     /\ info' = [NoInfo EXCEPT !.state = "active"]
     /\ SendQueue(imm, FALSE)

\* Whether the send will run again once it ends, and whether it then does so
\* with a cancellable that is not cancelled.
\* Mutant: not after a failure.
RunsAgainUnlessFailed == info.state = "active" /\ info.again /\ ~run.failed
RunsAgain == info.state = "active" /\ info.again
Heeded == info.state = "active" /\ ~(info.own /\ run.cancelled)

\* "Send All" and "Flush Outbox" of the menu: mail_send_immediately.
SendAll ==
  /\ DoMailSend(TRUE, timer)
  /\ asked' = IF info.state = "none" \/ Heeded THEN "asked" ELSE "late"
  /\ UNCHANGED folder
  /\ UNCHANGED <<sent, upset>>

\* A message disposition notification was queued: mail_send.
MdnSend ==
  /\ DoMailSend(FALSE, timer)
  /\ UNCHANGED folder /\ UNCHANGED history

\* mail_session_flush_outbox_timeout_cb, then the signal flush-outbox, which
\* is connected to mail_send.
FlushTimeout ==
  /\ timer
  /\ DoMailSend(FALSE, FALSE)
  /\ UNCHANGED folder /\ UNCHANGED history

\* The dialog Send & Receive: its row for the Outbox, with a cancellable of
\* its own.  A send that is under way is only shown (build_dialog).
SendReceive ==
  /\ info.state = "none" /\ Kept # {}
  /\ info' = [state |-> "active", own |-> TRUE, again |-> FALSE]
  /\ SendQueue(TRUE, FALSE)
  /\ asked' = "asked"
  /\ UNCHANGED folder
  /\ UNCHANGED <<sent, upset>>

\* What becomes of the requests when the send is cancelled: the one it was
\* started for is withdrawn with it, another one that waits for it is crossed.
AfterCancel(waits) ==
  IF asked # "asked" THEN asked ELSE IF waits THEN "crossed" ELSE "no"

\* receive_cancel from the dialog: a send started by mail_send has no
\* cancellable there and goes on.
CancelInDialog ==
  /\ info.state = "active"
  /\ info' = [info EXCEPT !.state = "cancelled"]
  /\ run' = [run EXCEPT !.cancelled = @ \/ info.own]
  /\ asked' = AfterCancel(info.again)
  /\ upset' = TRUE
  /\ UNCHANGED folder
  /\ UNCHANGED <<timer, sent>>

\* The operation is cancelled from the task bar.  It is run again with the
\* cancellable of the dialog, or with a new one.
CancelTask ==
  /\ run.stage \notin {"idle", "ended"} /\ ~run.cancelled
  /\ run' = [run EXCEPT !.cancelled = TRUE]
  /\ asked' = IF info.again /\ ~info.own THEN asked ELSE AfterCancel(info.again)
  /\ UNCHANGED folder
  /\ UNCHANGED <<timer, info, sent, upset>>

(***************************************************************************)
(* The thread: send_queue_exec and mail_send_message                       *)
(***************************************************************************)
\* Which messages the operation takes: all of them, or those that are old
\* enough and not being edited.
Selected == IF run.imm THEN Kept ELSE (Kept \ editing) \cap old

\* nearest_next_flush: some of the others will be old enough later.
Young == IF run.imm THEN {} ELSE Kept \ (editing \cup old)

\* maybe_schedule_next_flush.
\* Mutant: the time of the next flush is not handed on.
NotScheduled(later) == timer
Scheduled(later) == timer \/ later

\* The list of messages is made once, at the beginning.
Snapshot ==
  /\ run.stage = "pushed"
  /\ IF Selected = {}
     THEN /\ run' = [run EXCEPT !.stage = "ended"]
          /\ timer' = Scheduled(Young # {})
     ELSE /\ run' = [run EXCEPT !.stage = "next", !.todo = Selected,
                                !.later = Young # {}]
          /\ UNCHANGED timer
  /\ asked' = IF run.imm /\ ~run.cancelled THEN "no" ELSE asked
  /\ sent' = [m \in Msgs |-> IF m \in Selected /\ sent[m] = "no" THEN "tried"
                             ELSE sent[m]]
  /\ UNCHANGED folder
  /\ UNCHANGED <<info, upset>>

\* What mail_send_message returns for the message the thread is at.
Taken(m)  == [run EXCEPT !.todo = @ \ {m}, !.cur = m]
\* Mutant: the thread does not forget the message.
EndedKeeping(r) == [r EXCEPT !.stage = "next", !.warn = FALSE]
Ended(r)  == [r EXCEPT !.stage = "next", !.cur = NoMsg, !.warn = FALSE]
Failed(r) == [Ended(r) EXCEPT !.failed = TRUE]
Broken(r) == [Ended(r) EXCEPT !.broke = TRUE]

\* The message cannot be read, the transport not found or connected, or the
\* transport refuses the message.
SendFails(m) ==
  /\ run' = Failed(Taken(m))
  /\ UNCHANGED history

\* Offline: "silently ignore".
SendSkipped(m) ==
  /\ box[m] # "gone"
  /\ run' = Ended(Taken(m))
  /\ UNCHANGED history

\* e_mail_session_mark_service_used_sync and the calls after it give up.
SendCancelled(m) ==
  /\ run.cancelled
  /\ run' = Broken(Taken(m))
  /\ UNCHANGED history

\* The transport has taken the message.
Transmitted(m) ==
  /\ ~run.cancelled /\ box[m] # "gone"
  /\ run' = [Taken(m) EXCEPT !.stage = "posting"]
  /\ sent' = [sent EXCEPT ![m] = IF @ \in {"sent", "twice"} THEN "twice"
                                 ELSE "sent"]
  /\ UNCHANGED <<asked, upset>>

SendMessage ==
  /\ run.stage = "next" /\ ~run.broke
  /\ \E m \in run.todo : SendFails(m) \/ SendSkipped(m) \/ SendCancelled(m)
                           \/ Transmitted(m)
  /\ UNCHANGED folder
  /\ UNCHANGED <<timer, info>>

\* After an error the message is left as it is: sent, and still in the Outbox.
GivesUp(r) ==
  /\ run' = r
  /\ sent' = [sent EXCEPT ![run.cur] = "excused"]

\* Posting to folders ("X-Evolution-PostTo"), where an error skips all that
\* follows, and the filters for outgoing mail, where it is a warning.
Post ==
  /\ run.stage = "posting"
  /\ \/ /\ \E w \in BOOLEAN :
             run' = [run EXCEPT !.stage = "filing", !.warn = w]
        /\ UNCHANGED sent
     \/ GivesUp(Failed(run))
     \/ run.cancelled /\ GivesUp(Broken(run))
  /\ UNCHANGED folder
  /\ UNCHANGED <<timer, info, asked, upset>>

\* What may come of the copy, with a warning or not: a copy that could not be
\* stored is always a warning.
\* Mutant: the failure of the second attempt is not reported.
Unreported == [filed : BOOLEAN, warn : {run.warn, TRUE}]
Copies == {c \in [filed : BOOLEAN, warn : {run.warn, TRUE}] : c.filed \/ c.warn}

\* The copy in the Sent folder: not wanted or stored by the server, stored,
\* or not.  The local Sent folder is tried when another folder failed, and
\* when it fails too that is a warning; when it is the first choice its
\* failure is an error.
File ==
  /\ run.stage = "filing"
  /\ \/ /\ \E c \in Copies :
             run' = [run EXCEPT !.stage = "marking", !.warn = c.warn,
                                !.filed = c.filed]
        /\ UNCHANGED sent
     \/ GivesUp(Failed(run))
     \/ run.cancelled /\ GivesUp(Broken(run))
  /\ UNCHANGED folder
  /\ UNCHANGED <<timer, info, asked, upset>>

\* The flag is set whether there is a warning or not.
\* Mutant: a message with a warning is left for another try.
FlaggedUnlessWarned(m) == IF run.warn THEN box[m] ELSE "deleted"
Flagged(m) == "deleted"

\* The message is flagged DELETED in the summary ...
Mark ==
  /\ run.stage = "marking"
  /\ box' = [box EXCEPT ![run.cur] = Flagged(run.cur)]
  /\ unsaved' = unsaved \cup {run.cur}
  /\ run' = [run EXCEPT !.stage = "syncing", !.filed = FALSE]
  /\ UNCHANGED <<old, editing, replaced, timer, info>>
  /\ UNCHANGED history

\* ... and the folder written to the disk; the disconnection may still fail.
SyncMark ==
  /\ run.stage = "syncing"
  /\ unsaved' = {}
  /\ \/ run' = IF run.warn THEN Failed(run) ELSE Ended(run)
     \/ ~run.cancelled /\ run' = Failed(run)
  /\ UNCHANGED <<box, old, editing, replaced, timer, info>>
  /\ UNCHANGED history

\* All are done, or the loop was left: deleted messages are expunged when
\* nothing failed, and the next flush is scheduled.
Finish ==
  /\ run.stage = "next" /\ (run.todo = {} \/ run.broke)
  /\ run' = [run EXCEPT !.stage = "ended", !.todo = {}]
  /\ IF ~run.failed /\ ~run.broke
     THEN /\ box' = [m \in Msgs |-> IF m \in Marked THEN "gone" ELSE box[m]]
          /\ sent' = [m \in Msgs |-> IF m \in Marked THEN "no" ELSE sent[m]]
          /\ old' = old \ Marked
          /\ unsaved' = {}
     ELSE UNCHANGED <<box, unsaved, old, sent>>
  /\ timer' = Scheduled(run.later)
  /\ UNCHANGED <<editing, replaced, info, asked, upset>>

\* send_queue_done, send_done and receive_done in the main loop: the failures
\* are reported, and the operation is run again if that was asked.
Done ==
  /\ run.stage = "ended"
  /\ IF RunsAgain
     THEN /\ info' = [info EXCEPT !.again = FALSE]
          /\ SendQueue(TRUE, info.own /\ run.cancelled)
     ELSE /\ info' = NoInfo /\ run' = Idle
          /\ UNCHANGED timer
  /\ UNCHANGED folder
  /\ UNCHANGED history

(***************************************************************************)
(* The environment                                                         *)
(***************************************************************************)
\* Time passes: the delay of a message is over ...
Ages(m) ==
  /\ m \in Kept \ old
  /\ old' = old \cup {m}
  /\ UNCHANGED <<box, unsaved, editing, replaced, timer, info, run>>
  /\ UNCHANGED history

\* Evolution crashes and is started again: only the files remain.  The
\* folder may have been written to the disk for other reasons before.
Crash ==
  /\ \E back \in SUBSET unsaved :
       /\ box' = [m \in Msgs |-> IF m \in back THEN "kept" ELSE box[m]]
       /\ sent' = [m \in Msgs |-> IF sent[m] = "sent" /\ box'[m] = "kept"
                                  THEN "excused" ELSE sent[m]]
  /\ unsaved' = {}
  /\ editing' = {} /\ replaced' = {}
  /\ timer' = FALSE /\ info' = NoInfo /\ run' = Idle
  /\ asked' = "no"
  /\ upset' = TRUE
  /\ UNCHANGED old

(***************************************************************************)
(* Specification                                                           *)
(***************************************************************************)
Thread == Snapshot \/ SendMessage \/ Post \/ File \/ Mark \/ SyncMark \/ Finish

User == \/ \E m \in Msgs : \/ Append(m) \/ EditBegin(m) \/ EditClose(m)
                           \/ UserDelete(m)
                           \/ \E n \in Msgs : EditSave(m, n)
        \/ SendAll \/ MdnSend \/ SendReceive \/ CancelInDialog \/ CancelTask

Saved == \E m \in Msgs : EditSaved(m)

Next == User \/ Saved \/ Thread \/ FlushTimeout \/ Done \/ Crash
          \/ \E m \in Msgs : Ages(m)

Spec == Init /\ [][Next]_vars

(***************************************************************************)
(* Properties                                                              *)
(***************************************************************************)
\* The variables have their types, and the stage of the thread goes with the
\* send_info and with the message it is at.
TypeOK ==
  /\ box \in [Msgs -> {"absent", "kept", "deleted", "gone"}]
  /\ unsaved \subseteq Msgs /\ old \subseteq Msgs
  /\ replaced \subseteq editing /\ editing \subseteq Msgs
  /\ timer \in BOOLEAN /\ asked \in Requests /\ upset \in BOOLEAN
  /\ info \in [state : {"none", "active", "cancelled"}, own : BOOLEAN,
               again : BOOLEAN]
  /\ run \in [stage : {"idle", "pushed", "next", "posting", "filing", "marking",
                       "syncing", "ended"},
              imm : BOOLEAN, cancelled : BOOLEAN, todo : SUBSET Msgs,
              cur : Msgs \cup {NoMsg}, warn : BOOLEAN, filed : BOOLEAN,
              failed : BOOLEAN, broke : BOOLEAN, later : BOOLEAN]
  /\ (info.state = "none") <=> (run.stage = "idle")
  /\ (run.cur = NoMsg) <=> (run.stage \in {"idle", "pushed", "next", "ended"})
  /\ sent \in [Msgs -> Standings]

\* The recipients get a message of the Outbox again only if what followed its
\* sending failed or was cancelled, or Evolution crashed before the flag was
\* on the disk: never because two sends took it, or because one took it while
\* another had it.
SentOnce == \A m \in Msgs : sent[m] # "twice"

\* No message leaves the Outbox unless the user deletes or replaces it, or it
\* has been sent and has its copy, or the user will be told that it has none.
NothingVanishes ==
  [][\A m \in Kept : box'[m] # "kept" =>
         \/ UserDelete(m) \/ EditSaved(m)
         \/ sent[m] = "sent" /\ run.cur = m /\ (run.filed \/ run.warn)]_vars

\* The send is over, or is about to be and will not do what was asked while it
\* ran.
AllIsDone ==
  info.state = "none" \/ (run.stage = "ended" /\ ~(RunsAgain /\ Heeded))

\* A request to send at once is kept, unless the send under way is cancelled
\* before it or after it: since it was made a send has begun that takes every
\* message and was not cancelled, or one will.
RequestsKept == AllIsDone => asked # "asked"

\* A message that no send has taken yet, and nobody is editing, has a flush
\* that will come to it: the timer, a send that has not begun or will be run
\* again, or one that will set the timer when it ends.  Only a crash, and the
\* cancellation of a send in the dialog, leave it waiting for the next flush.
NeverForgotten ==
  \A m \in Kept \ editing :
    sent[m] = "no" /\ ~upset =>
      \/ timer \/ info.again \/ run.stage = "pushed"
      \/ run.later /\ run.stage # "ended"

(***************************************************************************)
(* mail-send-recv.c:1103 says "if we've been called to run again - run     *)
(* again".  A send that was cancelled in the dialog does not, and one with *)
(* the cancellable of the dialog runs with that again.                     *)
(***************************************************************************)
\* Nor is a request lost that comes when the send under way is being cancelled,
\* while there is a message that no send has taken.
RequestsHeeded ==
  AllIsDone /\ asked = "late" => \A m \in Kept : sent[m] # "no"

(***************************************************************************)
(* em-composer-utils.c:2664 says of the mark EDITING "This makes the       *)
(* message not to send it while it's being edited".  A send with           *)
(* "immediately" set does not look at the mark.                            *)
(***************************************************************************)
\* A message is not sent while a composer edits it.
EditedIsNotSent ==
  [][\A m \in Msgs :
       sent[m] # "sent" /\ sent'[m] = "sent" => m \notin editing]_vars
=============================================================================
