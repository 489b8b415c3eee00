---------------------------- MODULE OutboxProofs ----------------------------
(***************************************************************************)
(* Proofs about the Outbox, for any set of messages.  The first part says, *)
(* field by field, what the actions do to the records run and info; the    *)
(* second proves the type invariant and, from it, one inductive invariant  *)
(* for each of the properties the run outbox checks.                       *)
(***************************************************************************)
EXTENDS Outbox, TLAPS

Busy == {"posting", "filing", "marking", "syncing"}
Quiet == {"idle", "pushed", "next", "ended"}

\* The sets TypeOK takes the records from.
RunType ==
  [stage : {"idle", "pushed", "next", "posting", "filing", "marking", "syncing",
            "ended"},
   imm : BOOLEAN, cancelled : BOOLEAN, todo : SUBSET Msgs,
   cur : Msgs \cup {NoMsg}, warn : BOOLEAN, filed : BOOLEAN,
   failed : BOOLEAN, broke : BOOLEAN, later : BOOLEAN]
InfoType == [state : {"none", "active", "cancelled"}, own : BOOLEAN,
             again : BOOLEAN]

\* The parts of TypeOK that are about the two records ...
RecordsOK ==
  /\ info \in InfoType /\ run \in RunType
  /\ (info.state = "none") <=> (run.stage = "idle")
  /\ (run.cur = NoMsg) <=> (run.stage \in Quiet)

\* ... and the others.
RestOK ==
  /\ box \in [Msgs -> {"absent", "kept", "deleted", "gone"}]
  /\ unsaved \subseteq Msgs /\ old \subseteq Msgs
  /\ replaced \subseteq editing /\ editing \subseteq Msgs
  /\ timer \in BOOLEAN /\ asked \in Requests /\ upset \in BOOLEAN
  /\ sent \in [Msgs -> Standings]

LEMMA TypeParts == TypeOK <=> RecordsOK /\ RestOK
  BY DEF TypeOK, RecordsOK, RestOK, RunType, InfoType, Quiet

LEMMA TypePartsNext == TypeOK' <=> RecordsOK' /\ RestOK'
  BY DEF TypeOK, RecordsOK, RestOK, RunType, InfoType, Quiet

-----------------------------------------------------------------------------
\* What a run looks like that has not taken any message.
Fresh(r, stage, imm, cancelled) ==
  /\ r \in RunType
  /\ r.stage = stage /\ r.imm = imm /\ r.cancelled = cancelled
  /\ r.todo = {} /\ r.cur = NoMsg /\ ~r.later

LEMMA IdleFields == Fresh(Idle, "idle", FALSE, FALSE)
  BY DEF Idle, Fresh, RunType

LEMMA QueueFields ==
  ASSUME NEW imm \in BOOLEAN, NEW c \in BOOLEAN, SendQueue(imm, c)
  PROVE  Fresh(run', "pushed", imm, c) /\ ~timer'
  <1>1. run' = [stage |-> "pushed", imm |-> imm, cancelled |-> c, todo |-> {},
                cur |-> NoMsg, warn |-> FALSE, filed |-> FALSE, failed |-> FALSE,
                broke |-> FALSE, later |-> FALSE]
    BY DEF SendQueue, Idle
  <1>2. Fresh(run', "pushed", imm, c)
    BY <1>1 DEF Fresh, RunType
  <1>3. ~timer'
    BY Zenon DEF SendQueue
  <1> QED
    BY <1>2, <1>3

LEMMA NoInfoFields ==
  NoInfo \in InfoType /\ NoInfo.state = "none" /\ ~NoInfo.own /\ ~NoInfo.again
  BY DEF NoInfo, InfoType

\* A send that begins, or one that is asked to run again.
Begun(imm) ==
  /\ info.state = "none"
  /\ info' \in InfoType /\ info'.state = "active" /\ ~info'.again
  /\ Fresh(run', "pushed", imm, FALSE)
Repeated ==
  /\ info.state # "none"
  /\ info' \in InfoType /\ info'.again
  /\ info'.state = info.state /\ info'.own = info.own
  /\ run' = run

LEMMA DoMailSendEffect ==
  ASSUME RecordsOK, NEW imm \in BOOLEAN, NEW left, DoMailSend(imm, left)
  PROVE  \/ Begun(imm)
         \/ Repeated /\ timer' = left
  <1>1. CASE info.state # "none" /\ info' = [info EXCEPT !.again = TRUE]
               /\ timer' = left /\ UNCHANGED run
    BY <1>1 DEF Repeated, RecordsOK, InfoType
  <1>2. CASE info.state = "none" /\ info' = [NoInfo EXCEPT !.state = "active"]
               /\ SendQueue(imm, FALSE)
    <2>1. Fresh(run', "pushed", imm, FALSE)
      BY <1>2, QueueFields
    <2>2. info' \in InfoType /\ info'.state = "active" /\ ~info'.again
      BY <1>2 DEF NoInfo, InfoType
    <2> QED
      BY <1>2, <2>1, <2>2 DEF Begun
  <1> QED
    BY <1>1, <1>2 DEF DoMailSend

\* What is left of a run when the thread goes on to the next message.
Onward(r, s) ==
  /\ s \in RunType
  /\ s.stage = "next" /\ s.cur = NoMsg
  /\ s.todo = r.todo /\ s.later = r.later /\ s.imm = r.imm
  /\ s.cancelled = r.cancelled

LEMMA OnwardFields ==
  ASSUME NEW r \in RunType
  PROVE  Onward(r, Ended(r)) /\ Onward(r, Failed(r)) /\ Onward(r, Broken(r))
  <1>1. Onward(r, Ended(r))
    BY DEF Ended, RunType, Onward
  <1>2. Onward(r, Failed(r))
    BY <1>1 DEF Failed, RunType, Onward
  <1>3. Onward(r, Broken(r))
    BY <1>1 DEF Broken, RunType, Onward
  <1> QED
    BY <1>1, <1>2, <1>3

LEMMA TakenFields ==
  ASSUME RecordsOK, NEW m \in Msgs
  PROVE  /\ Taken(m) \in RunType
         /\ Taken(m).cur = m /\ Taken(m).todo = run.todo \ {m}
         /\ Taken(m).stage = run.stage /\ Taken(m).later = run.later
         /\ Taken(m).imm = run.imm /\ Taken(m).cancelled = run.cancelled
  BY DEF Taken, RecordsOK, RunType

-----------------------------------------------------------------------------
\* What the actions do to the two records.
LEMMA CancelInDialogEffect ==
  ASSUME RecordsOK, CancelInDialog
  PROVE  /\ info' \in InfoType /\ info'.state = "cancelled"
         /\ run' \in RunType /\ run'.cur = run.cur /\ run'.todo = run.todo
         /\ run'.later = run.later /\ run'.stage = run.stage
         /\ run'.filed = run.filed /\ run'.warn = run.warn
  BY DEF CancelInDialog, RecordsOK, RunType, InfoType

LEMMA CancelTaskEffect ==
  ASSUME RecordsOK, CancelTask
  PROVE  /\ run' \in RunType /\ run'.cur = run.cur /\ run'.todo = run.todo
         /\ run'.later = run.later /\ run'.stage = run.stage
         /\ run'.filed = run.filed /\ run'.warn = run.warn
         /\ run'.cancelled
  BY DEF CancelTask, RecordsOK, RunType

LEMMA SnapshotEffect ==
  ASSUME RecordsOK, Snapshot
  PROVE  /\ run' \in RunType /\ run'.cur = run.cur
         /\ run'.imm = run.imm /\ run'.cancelled = run.cancelled
         /\ \/ /\ Selected = {} /\ run'.stage = "ended" /\ run'.todo = run.todo
               /\ timer' = Scheduled(Young # {})
            \/ /\ run'.stage = "next" /\ run'.todo = Selected
               /\ run'.later = (Young # {}) /\ timer' = timer
  <1>1. Selected \subseteq Msgs
    BY DEF Selected, Kept
  <1>2. CASE Selected = {}
    <2>1. /\ run' = [run EXCEPT !.stage = "ended"]
          /\ timer' = Scheduled(Young # {})
      BY <1>2 DEF Snapshot
    <2> QED
      BY <1>2, <2>1 DEF RecordsOK, RunType
  <1>3. CASE Selected # {}
    <2>1. /\ run' = [run EXCEPT !.stage = "next", !.todo = Selected,
                                !.later = Young # {}]
          /\ timer' = timer
      BY <1>3 DEF Snapshot
    <2> QED
      BY <1>1, <2>1 DEF RecordsOK, RunType
  <1> QED
    BY <1>2, <1>3

LEMMA SendMessageEffect ==
  ASSUME RecordsOK, SendMessage
  PROVE  \E m \in run.todo :
           /\ run' \in RunType /\ run'.todo = run.todo \ {m}
           /\ run'.later = run.later /\ run'.imm = run.imm
           /\ run'.cancelled = run.cancelled
           /\ \/ run'.stage = "next" /\ run'.cur = NoMsg /\ sent' = sent
              \/ run'.stage = "posting" /\ run'.cur = m /\ Transmitted(m)
  <1>1. PICK m \in run.todo : \/ SendFails(m) \/ SendSkipped(m)
                              \/ SendCancelled(m) \/ Transmitted(m)
    BY DEF SendMessage
  <1>2. m \in Msgs
    BY DEF RecordsOK, RunType
  <1>3. run.stage = "next"
    BY DEF SendMessage
  <1> DEFINE t == Taken(m)
  <1>4. /\ t \in RunType /\ t.cur = m /\ t.todo = run.todo \ {m}
        /\ t.stage = "next" /\ t.later = run.later
        /\ t.imm = run.imm /\ t.cancelled = run.cancelled
    BY <1>2, <1>3, TakenFields
  <1>5. Onward(t, Ended(t)) /\ Onward(t, Failed(t)) /\ Onward(t, Broken(t))
    BY <1>4, OnwardFields
  <1>6. CASE SendFails(m) \/ SendSkipped(m) \/ SendCancelled(m)
    <2>1. Onward(t, run') /\ sent' = sent
      BY <1>5, <1>6 DEF SendFails, SendSkipped, SendCancelled, history
    <2> QED
      BY <1>4, <2>1 DEF Onward
  <1>7. CASE Transmitted(m)
    <2>1. run' = [t EXCEPT !.stage = "posting"]
      BY <1>7 DEF Transmitted
    <2>2. /\ run' \in RunType /\ run'.cur = m /\ run'.todo = t.todo
          /\ run'.stage = "posting" /\ run'.later = t.later
          /\ run'.imm = t.imm /\ run'.cancelled = t.cancelled
      <3> HIDE DEF t
      <3> QED
        BY <1>4, <2>1 DEF RunType
    <2> QED
      BY <1>4, <1>7, <2>2
  <1> QED
    BY <1>1, <1>6, <1>7

\* The two ways on after the transport has taken the message.
Proceeds(stage) ==
  /\ run' \in RunType /\ run'.stage = stage
  /\ run'.cur = run.cur /\ run'.todo = run.todo /\ run'.later = run.later
  /\ run'.imm = run.imm /\ run'.cancelled = run.cancelled
  /\ sent' = sent
Excuses ==
  /\ Onward(run, run')
  /\ sent' = [sent EXCEPT ![run.cur] = "excused"]

LEMMA GivesUpEffect ==
  ASSUME RecordsOK, GivesUp(Failed(run)) \/ GivesUp(Broken(run))
  PROVE  Excuses
  <1>1. Onward(run, Failed(run)) /\ Onward(run, Broken(run))
    BY OnwardFields DEF RecordsOK
  <1> QED
    BY <1>1 DEF GivesUp, Excuses

LEMMA PostEffect ==
  ASSUME RecordsOK, Post
  PROVE  Proceeds("filing") \/ Excuses
  <1>1. CASE GivesUp(Failed(run)) \/ GivesUp(Broken(run))
    BY <1>1, GivesUpEffect
  <1>2. ASSUME NEW w \in BOOLEAN, sent' = sent,
               run' = [run EXCEPT !.stage = "filing", !.warn = w]
        PROVE  Proceeds("filing")
    BY <1>2 DEF Proceeds, RecordsOK, RunType
  <1> QED
    BY <1>1, <1>2 DEF Post

LEMMA FileEffect ==
  ASSUME RecordsOK, File
  PROVE  (Proceeds("marking") /\ (run'.filed \/ run'.warn)) \/ Excuses
  <1>1. CASE GivesUp(Failed(run)) \/ GivesUp(Broken(run))
    BY <1>1, GivesUpEffect
  <1>2. ASSUME NEW c \in Copies, sent' = sent,
               run' = [run EXCEPT !.stage = "marking", !.warn = c.warn,
                                  !.filed = c.filed]
        PROVE  Proceeds("marking") /\ (run'.filed \/ run'.warn)
    <2>1. c.warn \in BOOLEAN /\ c.filed \in BOOLEAN /\ (c.filed \/ c.warn)
      BY DEF Copies, RecordsOK, RunType
    <2> QED
      BY <1>2, <2>1 DEF Proceeds, RecordsOK, RunType
  <1> QED
    BY <1>1, <1>2 DEF File

LEMMA MarkEffect ==
  ASSUME RecordsOK, Mark
  PROVE  /\ run' \in RunType /\ run'.stage = "syncing"
         /\ run'.cur = run.cur /\ run'.todo = run.todo
         /\ run'.later = run.later /\ run'.imm = run.imm
         /\ run'.cancelled = run.cancelled
  BY DEF Mark, RecordsOK, RunType

LEMMA SyncMarkEffect ==
  ASSUME RecordsOK, SyncMark
  PROVE  Onward(run, run')
  <1>1. /\ Onward(run, Failed(run)) /\ Onward(run, Ended(run))
    BY OnwardFields DEF RecordsOK
  <1> QED
    BY <1>1 DEF SyncMark

LEMMA FinishEffect ==
  ASSUME RecordsOK, Finish
  PROVE  /\ run' \in RunType /\ run'.stage = "ended" /\ run'.todo = {}
         /\ run'.cur = run.cur /\ run'.later = run.later
         /\ run'.imm = run.imm /\ run'.cancelled = run.cancelled
  BY DEF Finish, RecordsOK, RunType

\* The operation is run again, or it is over.
Again ==
  /\ RunsAgain
  /\ info' \in InfoType /\ info'.state = "active" /\ info'.own = info.own
  /\ Fresh(run', "pushed", TRUE, info.own /\ run.cancelled)
Over ==
  /\ ~RunsAgain
  /\ info' = NoInfo /\ run' = Idle /\ timer' = timer

LEMMA DoneEffect ==
  ASSUME RecordsOK, Done
  PROVE  Again \/ Over
  <1>1. CASE RunsAgain
    <2>1. /\ info' = [info EXCEPT !.again = FALSE]
          /\ SendQueue(TRUE, info.own /\ run.cancelled)
      BY <1>1 DEF Done
    <2>2. Fresh(run', "pushed", TRUE, info.own /\ run.cancelled)
      <3>1. (info.own /\ run.cancelled) \in BOOLEAN
        OBVIOUS
      <3> QED
        BY <2>1, <3>1, QueueFields
    <2>3. info' \in InfoType /\ info'.state = "active" /\ info'.own = info.own
      BY <1>1, <2>1 DEF RunsAgain, RecordsOK, InfoType
    <2> QED
      BY <1>1, <2>2, <2>3 DEF Again
  <1>2. CASE ~RunsAgain
    BY <1>2 DEF Done, Over
  <1> QED
    BY <1>1, <1>2

-----------------------------------------------------------------------------
\* The initial values have their types.
LEMMA InitType == Init => TypeOK
  <1> SUFFICES ASSUME Init PROVE TypeOK
    OBVIOUS
  <1>1. RecordsOK
    BY IdleFields, NoInfoFields DEF Init, RecordsOK, Fresh, Quiet
  <1>2. RestOK
    BY DEF Init, RestOK, Standings, Requests
  <1> QED
    BY <1>1, <1>2, TypeParts

\* The two records keep their types, and stay in step with each other.
LEMMA RecordsStep ==
  ASSUME RecordsOK, RestOK, Next
  PROVE  RecordsOK'
  <1> USE OutboxAssumption DEF RecordsOK, Quiet
  <1>1. CASE UNCHANGED <<info, run>>
    BY <1>1
  <1>2. ASSUME NEW imm \in BOOLEAN, NEW left, DoMailSend(imm, left)
        PROVE  RecordsOK'
    BY <1>2, DoMailSendEffect DEF Begun, Repeated, Fresh
  <1>3. CASE SendReceive
    <2>1. Fresh(run', "pushed", TRUE, FALSE)
      BY <1>3, QueueFields DEF SendReceive
    <2>2. info' \in InfoType /\ info'.state = "active"
      BY <1>3 DEF SendReceive, InfoType
    <2> QED
      BY <2>1, <2>2 DEF Fresh
  <1>4. CASE CancelInDialog
    BY <1>4, CancelInDialogEffect DEF CancelInDialog
  <1>5. CASE CancelTask
    BY <1>5, CancelTaskEffect DEF CancelTask
  <1>6. CASE Snapshot
    BY <1>6, SnapshotEffect DEF Snapshot
  <1>7. CASE SendMessage
    <2>1. PICK m \in run.todo :
            /\ run' \in RunType
            /\ \/ run'.stage = "next" /\ run'.cur = NoMsg
               \/ run'.stage = "posting" /\ run'.cur = m
      BY <1>7, SendMessageEffect
    <2>2. m # NoMsg
      BY DEF RunType
    <2> QED
      BY <1>7, <2>1, <2>2 DEF SendMessage
  <1>8. CASE Post
    BY <1>8, PostEffect DEF Post, Proceeds, Excuses, Onward
  <1>9. CASE File
    BY <1>9, FileEffect DEF File, Proceeds, Excuses, Onward
  <1>10. CASE Mark
    BY <1>10, MarkEffect DEF Mark
  <1>11. CASE SyncMark
    BY <1>11, SyncMarkEffect DEF SyncMark, Onward
  <1>12. CASE Finish
    BY <1>12, FinishEffect DEF Finish
  <1>13. CASE Done
    BY <1>13, DoneEffect, IdleFields, NoInfoFields DEF Again, Over, Fresh
  <1>14. CASE Crash
    BY <1>14, IdleFields, NoInfoFields DEF Crash, Fresh
  <1>15. ASSUME NEW m \in Msgs, NEW n \in Msgs,
                \/ Append(m) \/ EditBegin(m) \/ EditClose(m) \/ UserDelete(m)
                \/ EditSave(m, n) \/ EditSaved(m) \/ Ages(m)
         PROVE  UNCHANGED <<info, run>>
    BY <1>15 DEF Append, EditBegin, EditClose, UserDelete, EditSave, EditSaved,
                 Ages
  <1>16. CASE SendAll \/ MdnSend \/ FlushTimeout
    BY <1>2, <1>16 DEF SendAll, MdnSend, FlushTimeout
  <1> QED
    BY <1>1, <1>3, <1>4, <1>5, <1>6, <1>7, <1>8, <1>9, <1>10, <1>11, <1>12,
       <1>13, <1>14, <1>15, <1>16 DEF Next, User, Saved, Thread

\* So do the folder, the timer and what is recorded.
LEMMA RestStep ==
  ASSUME RecordsOK, RestOK, Next
  PROVE  RestOK'
  <1> USE DEF RestOK, folder, history
  <1>1. ASSUME NEW imm \in BOOLEAN, NEW left \in BOOLEAN, DoMailSend(imm, left)
        PROVE  timer' \in BOOLEAN
    BY <1>1 DEF DoMailSend, SendQueue
  <1>2. ASSUME NEW m \in Msgs, Append(m) PROVE RestOK'
    BY <1>2 DEF Append, Put
  <1>3. ASSUME NEW m \in Msgs, EditBegin(m) PROVE RestOK'
    BY <1>3 DEF EditBegin
  <1>4. ASSUME NEW m \in Msgs, EditClose(m) PROVE RestOK'
    BY <1>4 DEF EditClose
  <1>5. ASSUME NEW m \in Msgs, UserDelete(m) PROVE RestOK'
    BY <1>5 DEF UserDelete
  <1>6. ASSUME NEW m \in Msgs, NEW n \in Msgs, EditSave(m, n) PROVE RestOK'
    BY <1>6 DEF EditSave, Put
  <1>7. ASSUME NEW m \in Msgs, EditSaved(m) PROVE RestOK'
    BY <1>7 DEF EditSaved
  <1>8. CASE SendAll \/ MdnSend \/ FlushTimeout
    <2>1. timer' \in BOOLEAN
      BY <1>1, <1>8 DEF SendAll, MdnSend, FlushTimeout
    <2>2. asked' \in Requests
      BY <1>8 DEF SendAll, MdnSend, FlushTimeout, Requests
    <2> QED
      BY <1>8, <2>1, <2>2 DEF SendAll, MdnSend, FlushTimeout
  <1>9. CASE SendReceive
    BY <1>9 DEF SendReceive, SendQueue, Requests
  <1>10. CASE CancelInDialog
    BY <1>10 DEF CancelInDialog, AfterCancel, Requests
  <1>11. CASE CancelTask
    BY <1>11 DEF CancelTask, AfterCancel, Requests
  <1>12. CASE Snapshot
    <2>1. timer' \in BOOLEAN
      BY <1>12, SnapshotEffect DEF Scheduled
    <2>2. sent' \in [Msgs -> Standings]
      BY <1>12 DEF Snapshot, Standings
    <2> QED
      BY <1>12, <2>1, <2>2 DEF Snapshot, Requests
  <1>13. CASE SendMessage
    <2>1. sent' \in [Msgs -> Standings]
      <3>1. PICK m \in run.todo : sent' = sent \/ Transmitted(m)
        BY <1>13, SendMessageEffect
      <3> QED
        BY <3>1 DEF Transmitted, Standings
    <2>2. asked' = asked /\ upset' = upset
      BY <1>13 DEF SendMessage, SendFails, SendSkipped, SendCancelled, Transmitted
    <2> QED
      BY <1>13, <2>1, <2>2 DEF SendMessage
  <1>14. CASE Post
    <2>1. sent' \in [Msgs -> Standings]
      BY <1>14, PostEffect DEF Proceeds, Excuses, Standings
    <2> QED
      BY <1>14, <2>1 DEF Post
  <1>15. CASE File
    <2>1. sent' \in [Msgs -> Standings]
      BY <1>15, FileEffect DEF Proceeds, Excuses, Standings
    <2> QED
      BY <1>15, <2>1 DEF File
  <1>16. CASE Mark
    <2>1. run.cur \in Msgs
      BY <1>16 DEF Mark, RecordsOK, RunType, Quiet
    <2> QED
      BY <1>16, <2>1 DEF Mark, Flagged
  <1>17. CASE SyncMark
    BY <1>17 DEF SyncMark
  <1>18. CASE Finish
    <2>1. timer' \in BOOLEAN
      BY <1>18 DEF Finish, Scheduled, RecordsOK, RunType
    <2>2. /\ box' \in [Msgs -> {"absent", "kept", "deleted", "gone"}]
          /\ sent' \in [Msgs -> Standings]
      BY <1>18 DEF Finish, Standings
    <2> QED
      BY <1>18, <2>1, <2>2 DEF Finish
  <1>19. CASE Done
    <2>1. timer' \in BOOLEAN
      BY <1>19 DEF Done, SendQueue
    <2> QED
      BY <1>19, <2>1 DEF Done
  <1>20. CASE Crash
    <2>1. box' \in [Msgs -> {"absent", "kept", "deleted", "gone"}]
      BY <1>20 DEF Crash
    <2>2. sent' \in [Msgs -> Standings]
      BY <1>20 DEF Crash, Standings
    <2> QED
      BY <1>20, <2>1, <2>2 DEF Crash, Requests
  <1>21. ASSUME NEW m \in Msgs, Ages(m) PROVE RestOK'
    BY <1>21 DEF Ages
  <1> QED
    BY <1>2, <1>3, <1>4, <1>5, <1>6, <1>7, <1>8, <1>9, <1>10, <1>11, <1>12,
       <1>13, <1>14, <1>15, <1>16, <1>17, <1>18, <1>19, <1>20, <1>21
    DEF Next, User, Saved, Thread

LEMMA TypeStep == TypeOK /\ [Next]_vars => TypeOK'
  <1>1. CASE Next
    BY <1>1, RecordsStep, RestStep, TypeParts, TypePartsNext
  <1>2. CASE UNCHANGED vars
    BY <1>2 DEF vars, TypeOK
  <1> QED
    BY <1>1, <1>2

\* The folder, the timer, the "send-task" and the thread keep their types, and
\* a thread has a message exactly from the transport on to the flag.
THEOREM OutboxTyped == Spec => []TypeOK
  BY InitType, TypeStep, PTL DEF Spec

-----------------------------------------------------------------------------
\* A request that no send has taken up and no cancellation has crossed is kept
\* by a send that has not begun, takes every message and is not cancelled, or
\* by one that will be run again with a cancellable that is not cancelled.
Asking ==
  asked = "asked" =>
    /\ info.state = "active"
    /\ \/ run.stage = "pushed" /\ run.imm /\ ~run.cancelled
       \/ info.again /\ Heeded

\* The actions that change neither record, nor what is asked.
Aside ==
  \E m, n \in Msgs : \/ Append(m) \/ EditBegin(m) \/ EditClose(m)
                     \/ UserDelete(m) \/ EditSave(m, n) \/ EditSaved(m)
                     \/ Ages(m)

LEMMA AsideEffect ==
  ASSUME Aside
  PROVE  UNCHANGED <<info, run, sent, asked, upset>>
  BY DEF Aside, Append, EditBegin, EditClose, UserDelete, EditSave, EditSaved,
         Ages, history

LEMMA NextCases ==
  ASSUME Next
  PROVE  \/ Aside \/ SendAll \/ MdnSend \/ FlushTimeout \/ SendReceive
         \/ CancelInDialog \/ CancelTask
         \/ Snapshot \/ SendMessage \/ Post \/ File \/ Mark \/ SyncMark \/ Finish
         \/ Done \/ Crash
  BY DEF Next, User, Saved, Thread, Aside

LEMMA AskingStep ==
  ASSUME RecordsOK, RestOK, Asking, Next
  PROVE  Asking'
  <1> USE DEF Asking, Heeded, history
  <1>1. CASE Aside
    BY <1>1, AsideEffect
  <1>2. CASE SendAll
    <2>1. /\ DoMailSend(TRUE, timer)
          /\ asked' = IF info.state = "none" \/ Heeded THEN "asked"
                      ELSE "late"
      BY <1>2 DEF SendAll
    <2>2. CASE Begun(TRUE)
      BY <2>2 DEF Begun, Fresh
    <2>3. CASE Repeated
      BY <2>1, <2>3 DEF Repeated
    <2> QED
      BY <2>1, <2>2, <2>3, DoMailSendEffect
  <1>3. ASSUME NEW left, DoMailSend(FALSE, left), asked' = asked
        PROVE  Asking'
    <2>1. CASE Begun(FALSE)
      BY <1>3, <2>1 DEF Begun
    <2>2. CASE Repeated
      BY <1>3, <2>2 DEF Repeated
    <2> QED
      BY <1>3, <2>1, <2>2, DoMailSendEffect
  <1>4. CASE MdnSend \/ FlushTimeout
    BY <1>3, <1>4 DEF MdnSend, FlushTimeout
  <1>5. CASE SendReceive
    <2>1. Fresh(run', "pushed", TRUE, FALSE)
      BY <1>5, QueueFields DEF SendReceive
    <2>2. info'.state = "active"
      BY <1>5 DEF SendReceive
    <2> QED
      BY <2>1, <2>2 DEF Fresh
  <1>6. CASE CancelInDialog \/ Crash
    BY <1>6 DEF CancelInDialog, AfterCancel, Crash
  <1>7. CASE CancelTask
    BY <1>7 DEF CancelTask, AfterCancel
  <1>8. CASE Snapshot
    BY <1>8, SnapshotEffect DEF Snapshot
  <1>9. CASE SendMessage
    <2>1. run'.cancelled = run.cancelled /\ run.stage = "next"
      BY <1>9, SendMessageEffect DEF SendMessage
    <2>2. info' = info /\ asked' = asked
      BY <1>9 DEF SendMessage, SendFails, SendSkipped, SendCancelled, Transmitted
    <2> QED
      BY <2>1, <2>2
  <1>10. CASE Post
    BY <1>10, PostEffect DEF Post, Proceeds, Excuses, Onward
  <1>11. CASE File
    BY <1>11, FileEffect DEF File, Proceeds, Excuses, Onward
  <1>12. CASE Mark
    BY <1>12, MarkEffect DEF Mark
  <1>13. CASE SyncMark
    BY <1>13, SyncMarkEffect DEF SyncMark, Onward
  <1>14. CASE Finish
    BY <1>14, FinishEffect DEF Finish
  <1>15. CASE Done
    <2>1. asked' = asked /\ run.stage = "ended"
      BY <1>15 DEF Done
    <2>2. CASE Again
      BY <2>1, <2>2 DEF Again, Fresh
    <2>3. CASE Over
      BY <2>1, <2>3 DEF Over, RunsAgain
    <2> QED
      BY <1>15, <2>2, <2>3, DoneEffect
  <1> QED
    BY <1>1, <1>2, <1>4, <1>5, <1>6, <1>7, <1>8, <1>9, <1>10, <1>11, <1>12,
       <1>13, <1>14, <1>15, NextCases

\* A request to send at once is kept, however many sends, flushes and failures
\* there are in between, unless the send under way is cancelled.
THEOREM RequestsAreKept == Spec => []RequestsKept
  <1> DEFINE IInv == TypeOK /\ Asking
  <1>1. Init => IInv
    BY InitType DEF Init, Asking
  <1>2. IInv /\ [Next]_vars => IInv'
    <2>1. ASSUME IInv, Next PROVE Asking'
      BY <2>1, AskingStep, TypeParts
    <2>2. ASSUME IInv, UNCHANGED vars PROVE Asking'
      BY <2>2 DEF vars, Asking, Heeded
    <2> QED
      BY <2>1, <2>2, TypeStep
  <1>3. IInv => RequestsKept
    BY DEF Asking, RequestsKept, AllIsDone, RunsAgain
  <1> QED
    BY <1>1, <1>2, <1>3, PTL DEF Spec

-----------------------------------------------------------------------------
\* A message that waits for its first send, and what will come to it.
Waiting(m) == m \in Kept \ editing /\ sent[m] = "no" /\ ~upset
Awaited == \/ timer \/ info.again \/ run.stage = "pushed"
           \/ run.later /\ run.stage # "ended"

\* A send that is being cancelled, which is forgotten although it was asked
\* to run again, is known to have been cancelled.
Flushing ==
  /\ (\E m \in Msgs : Waiting(m)) => Awaited
  /\ info.state = "cancelled" => upset

LEMMA AwaitedDef ==
  NeverForgotten <=> ((\E m \in Msgs : Waiting(m)) => Awaited)
  BY DEF NeverForgotten, Waiting, Awaited, Kept

\* An action outside the thread that makes a message wait sets the timer, and
\* none resets it.
LEMMA AsideWaiting ==
  ASSUME RestOK, Aside, NEW k \in Msgs, Waiting(k)'
  PROVE  Waiting(k) \/ timer'
  <1> USE DEF RestOK, Waiting, Kept
  <1>1. PICK m \in Msgs, n \in Msgs :
          \/ Append(m) \/ EditBegin(m) \/ EditClose(m) \/ UserDelete(m)
          \/ EditSave(m, n) \/ EditSaved(m) \/ Ages(m)
    BY DEF Aside
  <1>2. sent' = sent /\ upset' = upset
    BY AsideEffect
  <1>3. CASE Append(m) \/ EditSave(m, n) \/ EditSaved(m)
    BY <1>3 DEF Append, EditSave, EditSaved, Put
  <1>4. CASE EditBegin(m)
    BY <1>2, <1>4 DEF EditBegin
  <1>5. CASE EditClose(m)
    BY <1>2, <1>5 DEF EditClose
  <1>6. CASE UserDelete(m)
    BY <1>2, <1>6 DEF UserDelete
  <1>7. CASE Ages(m)
    BY <1>2, <1>7 DEF Ages
  <1> QED
    BY <1>1, <1>3, <1>4, <1>5, <1>6, <1>7

LEMMA AsideTimer ==
  ASSUME RestOK, Aside, timer
  PROVE  timer'
  BY DEF RestOK, Aside, Append, EditBegin, EditClose, UserDelete, EditSave,
         EditSaved, Ages, Put

LEMMA FlushingStep ==
  ASSUME RecordsOK, RestOK, Flushing, Next
  PROVE  Flushing'
  <1> USE DEF Flushing, Awaited
  <1> DEFINE Same == \A k \in Msgs : Waiting(k)' => Waiting(k)
  <1>0. ASSUME UNCHANGED <<box, editing, sent, upset>> PROVE Same
    BY <1>0 DEF Waiting, Kept
  <1>1. CASE Aside
    BY <1>1, AsideEffect, AsideWaiting, AsideTimer
  <1>2. ASSUME NEW imm \in BOOLEAN, NEW left, DoMailSend(imm, left),
               left = timer \/ left = FALSE,
               UNCHANGED <<box, editing, sent, upset>>
        PROVE  Flushing'
    <2>1. CASE Begun(imm)
      BY <1>2, <2>1 DEF Begun, Fresh
    <2>2. CASE Repeated
      BY <1>2, <2>2 DEF Repeated
    <2> QED
      BY <1>2, <2>1, <2>2, DoMailSendEffect
  <1>3. CASE SendAll \/ MdnSend \/ FlushTimeout
    BY <1>2, <1>3 DEF SendAll, MdnSend, FlushTimeout, folder, history
  <1>4. CASE SendReceive
    <2>1. Fresh(run', "pushed", TRUE, FALSE)
      BY <1>4, QueueFields DEF SendReceive
    <2>2. info'.state = "active"
      BY <1>4 DEF SendReceive
    <2> QED
      BY <2>1, <2>2 DEF Fresh
  <1>5. CASE CancelInDialog \/ Crash
    BY <1>5 DEF CancelInDialog, Crash, Waiting
  <1>6. CASE CancelTask
    BY <1>0, <1>6, CancelTaskEffect DEF CancelTask, folder
  <1>7. CASE Snapshot
    <2> SUFFICES ASSUME NEW k \in Msgs, Waiting(k)'
                 PROVE  Awaited'
      BY <1>7 DEF Snapshot
    <2>1. UNCHANGED <<box, editing, info, upset>>
      BY <1>7 DEF Snapshot, folder
    <2>2. k \in Kept \ editing /\ ~upset
      BY <2>1 DEF Waiting, Kept
    <2>3. k \notin Selected
      <3>1. CASE k \in Selected
        <4>1. sent'[k] # "no"
          BY <1>7, <3>1 DEF Snapshot
        <4> QED
          BY <4>1 DEF Waiting
      <3> QED
        BY <3>1
    <2>4. ~run.imm /\ k \in Young
      BY <2>2, <2>3 DEF Selected, Young
    <2> QED
      BY <1>7, <2>4, SnapshotEffect DEF Scheduled
  <1>8. CASE SendMessage
    <2>1. PICK m \in run.todo :
            /\ run'.later = run.later /\ run'.stage \in {"next", "posting"}
            /\ sent' = sent \/ Transmitted(m)
      BY <1>8, SendMessageEffect
    <2>2. UNCHANGED <<box, editing, timer, info, upset>>
      BY <1>8 DEF SendMessage, SendFails, SendSkipped, SendCancelled,
                  Transmitted, folder, history
    <2>3. Same
      <3>1. m \in Msgs
        BY DEF RecordsOK, RunType
      <3> QED
        BY <2>1, <2>2, <3>1 DEF Waiting, Kept, Transmitted, RestOK
    <2>4. run.stage = "next"
      BY <1>8 DEF SendMessage
    <2> QED
      BY <2>1, <2>2, <2>3, <2>4
  <1>9. ASSUME Proceeds("filing") \/ Proceeds("marking") \/ Excuses,
               UNCHANGED <<box, editing, timer, info, upset>>,
               run.stage \in {"posting", "filing"}
        PROVE  Flushing'
    <2>1. Same
      BY <1>9 DEF Waiting, Kept, Proceeds, Excuses, RestOK
    <2>2. run'.later = run.later /\ run'.stage \in {"next", "filing", "marking"}
      BY <1>9 DEF Proceeds, Excuses, Onward
    <2> QED
      BY <1>9, <2>1, <2>2
  <1>10. CASE Post
    BY <1>9, <1>10, PostEffect DEF Post, folder
  <1>11. CASE File
    BY <1>9, <1>11, FileEffect DEF File, folder
  <1>12. CASE Mark
    <2>1. Same
      BY <1>12 DEF Mark, Flagged, Waiting, Kept, history, RestOK
    <2> QED
      BY <1>12, <2>1, MarkEffect DEF Mark, history
  <1>13. CASE SyncMark
    <2>1. Same
      BY <1>0, <1>13 DEF SyncMark, history
    <2> QED
      BY <1>13, <2>1, SyncMarkEffect DEF SyncMark, history, Onward
  <1>14. CASE Finish
    <2>1. Same
      BY <1>14 DEF Finish, Waiting, Kept, Marked, RestOK
    <2>2. timer' = (timer \/ run.later) /\ UNCHANGED <<info, upset>>
      BY <1>14 DEF Finish, Scheduled
    <2>3. run.stage = "next"
      BY <1>14 DEF Finish
    <2> QED
      BY <2>1, <2>2, <2>3
  <1>15. CASE Done
    <2>1. Same
      BY <1>0, <1>15 DEF Done, folder, history
    <2>2. upset' = upset /\ run.stage = "ended"
      BY <1>15 DEF Done, history
    <2>3. CASE Again
      BY <2>2, <2>3 DEF Again, Fresh
    <2>4. CASE Over
      <3>1. info'.state = "none" /\ run'.stage = "idle"
        BY <2>4, NoInfoFields, IdleFields DEF Over, Fresh
      <3>2. info.state # "none"
        BY <2>2 DEF RecordsOK
      <3>3. info.again => upset
        BY <2>4, <3>2 DEF Over, RunsAgain, RecordsOK, InfoType
      <3> QED
        BY <2>1, <2>2, <2>4, <3>1, <3>3 DEF Over, Waiting
    <2> QED
      BY <1>15, <2>3, <2>4, DoneEffect
  <1> QED
    BY <1>1, <1>3, <1>4, <1>5, <1>6, <1>7, <1>8, <1>10, <1>11, <1>12, <1>13,
       <1>14, <1>15, NextCases

\* Whatever sends, flushes and editions follow each other, a message that no
\* send has taken yet has a flush that will come to it.
THEOREM NothingIsForgotten == Spec => []NeverForgotten
  <1> DEFINE IInv == TypeOK /\ Flushing
  <1>1. Init => IInv
    BY InitType, NoInfoFields DEF Init, Flushing, Waiting, Kept
  <1>2. IInv /\ [Next]_vars => IInv'
    <2>1. ASSUME IInv, Next PROVE Flushing'
      BY <2>1, FlushingStep, TypeParts
    <2>2. ASSUME IInv, UNCHANGED vars PROVE Flushing'
      BY <2>2 DEF vars, Flushing, Waiting, Awaited, Kept
    <2> QED
      BY <2>1, <2>2, TypeStep
  <1>3. IInv => NeverForgotten
    BY AwaitedDef DEF Flushing
  <1> QED
    BY <1>1, <1>2, <1>3, PTL DEF Spec

-----------------------------------------------------------------------------
\* A message that has been sent and may not be sent again is flagged, or the
\* thread is at it; and the messages the thread has are in the folder.  That
\* the list was made at the beginning does no harm: a message on it cannot
\* come to be sent by another send in the meantime.
Sending ==
  /\ \A m \in Msgs : sent[m] # "twice"
  /\ \A m \in Msgs :
       sent[m] = "sent" => /\ m \notin run.todo
                           /\ box[m] = "deleted" \/ run.cur = m
  /\ \A m \in Msgs :
       m \in run.todo \/ m = run.cur => box[m] \in {"kept", "deleted"}
  /\ run.stage = "syncing" => box[run.cur] = "deleted"

\* Nothing moves a message outside the thread but from absent to kept, and
\* from kept to deleted.
LEMMA AsideBox ==
  ASSUME RestOK, Aside, NEW k \in Msgs
  PROVE  \/ box'[k] = box[k]
         \/ box[k] = "absent" /\ box'[k] = "kept"
         \/ box[k] = "kept" /\ box'[k] = "deleted"
  <1> USE DEF RestOK
  <1>1. PICK m \in Msgs, n \in Msgs :
          \/ Append(m) \/ EditBegin(m) \/ EditClose(m) \/ UserDelete(m)
          \/ EditSave(m, n) \/ EditSaved(m) \/ Ages(m)
    BY DEF Aside
  <1>2. CASE Append(m) \/ EditSave(m, n)
    BY <1>2 DEF Append, EditSave, Put
  <1>3. CASE UserDelete(m) \/ EditSaved(m)
    BY <1>3 DEF UserDelete, EditSaved, Kept
  <1>4. CASE EditBegin(m) \/ EditClose(m) \/ Ages(m)
    BY <1>4 DEF EditBegin, EditClose, Ages
  <1> QED
    BY <1>1, <1>2, <1>3, <1>4

\* An operation that begins has no message, and neither had the one before.
LEMMA FreshSending ==
  ASSUME Sending, run.cur = NoMsg, UNCHANGED <<box, sent>>,
         run'.todo = {}, run'.cur = NoMsg, run'.stage # "syncing"
  PROVE  Sending'
  BY OutboxAssumption DEF Sending

\* The thread has no message between two of them.
LEMMA NoMessage ==
  ASSUME RecordsOK, run.stage \in Quiet
  PROVE  run.cur = NoMsg
  BY DEF RecordsOK

LEMMA SendingStep ==
  ASSUME RecordsOK, RestOK, Sending, Next
  PROVE  Sending'
  <1> USE OutboxAssumption DEF folder, history
  <1>0. run.todo \subseteq Msgs
    BY DEF RecordsOK, RunType
  <1>1. CASE Aside
    <2>1. UNCHANGED <<run, sent>>
      BY <1>1, AsideEffect
    <2>2. run.stage = "syncing" => run.cur \in Msgs
      BY DEF RecordsOK, RunType, Quiet
    <2> QED
      BY <1>1, <2>1, <2>2, AsideBox DEF Sending
  <1>2. ASSUME NEW imm \in BOOLEAN, NEW left, DoMailSend(imm, left),
               UNCHANGED <<box, sent>>
        PROVE  Sending'
    <2>1. CASE Begun(imm)
      <3>1. run.cur = NoMsg
        BY <2>1, NoMessage DEF Begun, RecordsOK, Quiet
      <3> QED
        BY <1>2, <2>1, <3>1, FreshSending DEF Begun, Fresh
    <2>2. CASE Repeated
      BY <1>2, <2>2 DEF Repeated, Sending
    <2> QED
      BY <1>2, <2>1, <2>2, DoMailSendEffect
  <1>3. CASE SendAll \/ MdnSend \/ FlushTimeout
    BY <1>2, <1>3 DEF SendAll, MdnSend, FlushTimeout
  <1>4. CASE SendReceive
    <2>1. Fresh(run', "pushed", TRUE, FALSE)
      BY <1>4, QueueFields DEF SendReceive
    <2>2. run.cur = NoMsg
      BY <1>4, NoMessage DEF SendReceive, RecordsOK, Quiet
    <2> QED
      BY <1>4, <2>1, <2>2, FreshSending DEF SendReceive, Fresh
  <1>5. CASE CancelInDialog
    BY <1>5, CancelInDialogEffect DEF CancelInDialog, Sending
  <1>6. CASE CancelTask
    BY <1>6, CancelTaskEffect DEF CancelTask, Sending
  <1>7. CASE Snapshot
    <2>1. /\ run'.cur = NoMsg /\ run.cur = NoMsg
          /\ run'.todo = Selected \/ (Selected = {} /\ run'.todo = run.todo)
          /\ run'.stage # "syncing"
      BY <1>7, SnapshotEffect, NoMessage DEF Snapshot, Quiet
    <2>2. box' = box
      BY <1>7 DEF Snapshot
    <2>3. \A m \in Selected : m \in Msgs /\ box[m] = "kept"
      BY DEF Selected, Kept
    <2>4. \A m \in Msgs : /\ sent'[m] = "sent" => sent[m] = "sent"
                          /\ sent'[m] = "twice" => sent[m] = "twice"
      BY <1>7 DEF Snapshot
    <2>5. \A m \in Msgs : sent[m] = "sent" => box[m] = "deleted"
      BY <2>1 DEF Sending
    <2> QED
      BY <2>1, <2>2, <2>3, <2>4, <2>5 DEF Sending
  <1>8. CASE SendMessage
    <2>1. PICK m \in run.todo :
            /\ run'.todo = run.todo \ {m}
            /\ \/ run'.stage = "next" /\ run'.cur = NoMsg /\ sent' = sent
               \/ run'.stage = "posting" /\ run'.cur = m /\ Transmitted(m)
      BY <1>8, SendMessageEffect
    <2>2. box' = box
      BY <1>8 DEF SendMessage
    <2>3. run.cur = NoMsg
      BY <1>8, NoMessage DEF SendMessage, Quiet
    <2>4. CASE run'.stage = "next" /\ run'.cur = NoMsg /\ sent' = sent
      BY <2>1, <2>2, <2>3, <2>4 DEF Sending
    <2>5. CASE run'.stage = "posting" /\ run'.cur = m /\ Transmitted(m)
      <3>1. sent[m] \notin {"sent", "twice"} /\ m \in Msgs
        BY <1>0 DEF Sending
      <3>2. sent' = [sent EXCEPT ![m] = "sent"]
        BY <2>5, <3>1 DEF Transmitted, RestOK
      <3> QED
        BY <2>1, <2>2, <2>3, <2>5, <3>1, <3>2 DEF Sending, RestOK
    <2> QED
      BY <2>1, <2>4, <2>5
  <1>9. ASSUME Proceeds("filing") \/ Proceeds("marking") \/ Excuses,
               box' = box, run.stage \in {"posting", "filing"}
        PROVE  Sending'
    <2>1. CASE Proceeds("filing") \/ Proceeds("marking")
      BY <1>9, <2>1 DEF Proceeds, Sending
    <2>2. CASE Excuses
      <3>1. /\ run'.todo = run.todo /\ run'.cur = NoMsg /\ run'.stage = "next"
            /\ sent' = [sent EXCEPT ![run.cur] = "excused"]
        BY <2>2 DEF Excuses, Onward
      <3> QED
        BY <1>9, <3>1 DEF Sending, RestOK
    <2> QED
      BY <1>9, <2>1, <2>2
  <1>10. CASE Post
    BY <1>9, <1>10, PostEffect DEF Post
  <1>11. CASE File
    BY <1>9, <1>11, FileEffect DEF File
  <1>12. CASE Mark
    <2>1. /\ box' = [box EXCEPT ![run.cur] = "deleted"]
          /\ sent' = sent
      BY <1>12 DEF Mark, Flagged
    <2>2. run.cur \in Msgs
      BY <1>12 DEF Mark, RecordsOK, RunType, Quiet
    <2> QED
      BY <1>12, <2>1, <2>2, MarkEffect DEF Sending, RestOK
  <1>13. CASE SyncMark
    <2>1. UNCHANGED <<box, sent>> /\ run.stage = "syncing"
      BY <1>13 DEF SyncMark
    <2>2. run'.todo = run.todo /\ run'.cur = NoMsg /\ run'.stage = "next"
      BY <1>13, SyncMarkEffect DEF Onward
    <2> QED
      BY <2>1, <2>2 DEF Sending
  <1>14. CASE Finish
    <2>1. /\ run'.todo = {} /\ run'.cur = NoMsg /\ run'.stage = "ended"
          /\ run.cur = NoMsg
      BY <1>14, FinishEffect, NoMessage DEF Finish, Quiet
    <2>2. CASE UNCHANGED <<box, sent>>
      BY <2>1, <2>2 DEF Sending
    <2>3. CASE /\ box' = [m \in Msgs |-> IF m \in Marked THEN "gone" ELSE box[m]]
               /\ sent' = [m \in Msgs |-> IF m \in Marked THEN "no" ELSE sent[m]]
      BY <2>1, <2>3 DEF Sending, Marked
    <2> QED
      BY <1>14, <2>2, <2>3 DEF Finish
  <1>15. CASE Done
    <2>1. UNCHANGED <<box, sent>> /\ run.cur = NoMsg
      BY <1>15, NoMessage DEF Done, Quiet
    <2>2. run'.todo = {} /\ run'.cur = NoMsg /\ run'.stage # "syncing"
      BY <1>15, DoneEffect, IdleFields DEF Again, Over, Fresh
    <2> QED
      BY <2>1, <2>2, FreshSending
  <1>16. CASE Crash
    <2>1. run'.todo = {} /\ run'.cur = NoMsg /\ run'.stage = "idle"
      BY <1>16, IdleFields DEF Crash, Fresh
    <2>2. PICK back \in SUBSET unsaved :
            /\ box' = [m \in Msgs |-> IF m \in back THEN "kept" ELSE box[m]]
            /\ sent' = [m \in Msgs |-> IF sent[m] = "sent" /\ box'[m] = "kept"
                                       THEN "excused" ELSE sent[m]]
      BY <1>16 DEF Crash
    <2>3. \A m \in Msgs : sent'[m] # "twice"
      BY <2>2 DEF Sending
    <2>4. \A m \in Msgs : sent'[m] = "sent" => box'[m] = "deleted"
      BY <2>2 DEF Sending
    <2> QED
      BY <2>1, <2>3, <2>4 DEF Sending
  <1> QED
    BY <1>1, <1>3, <1>4, <1>5, <1>6, <1>7, <1>8, <1>10, <1>11, <1>12, <1>13,
       <1>14, <1>15, <1>16, NextCases

\* The recipients do not get a message again unless what followed its sending
\* failed or was cut off, whatever the order of the composer, the user, the
\* timer, the sends and the crashes.
THEOREM EachIsSentOnce == Spec => []SentOnce
  <1> DEFINE IInv == TypeOK /\ Sending
  <1>1. Init => IInv
    BY InitType, IdleFields, OutboxAssumption DEF Init, Sending, Fresh
  <1>2. IInv /\ [Next]_vars => IInv'
    <2>1. ASSUME IInv, Next PROVE Sending'
      BY <2>1, SendingStep, TypeParts
    <2>2. ASSUME IInv, UNCHANGED vars PROVE Sending'
      BY <2>2 DEF vars, Sending
    <2> QED
      BY <2>1, <2>2, TypeStep
  <1>3. IInv => SentOnce
    BY DEF Sending, SentOnce
  <1> QED
    BY <1>1, <1>2, <1>3, PTL DEF Spec

-----------------------------------------------------------------------------
\* What the thread knows of its message from the transport on to the flag.
Filing ==
  /\ run.stage \in {"posting", "filing", "marking"} => sent[run.cur] = "sent"
  /\ run.stage = "marking" => run.filed \/ run.warn

LEMMA FilingStep ==
  ASSUME RecordsOK, RestOK, Sending, Filing, Next
  PROVE  Filing'
  <1> USE DEF Filing, folder, history
  <1>1. CASE Aside
    BY <1>1, AsideEffect
  <1>2. ASSUME NEW imm \in BOOLEAN, NEW left, DoMailSend(imm, left), sent' = sent
        PROVE  Filing'
    BY <1>2, DoMailSendEffect DEF Begun, Repeated, Fresh
  <1>3. CASE SendAll \/ MdnSend \/ FlushTimeout
    BY <1>2, <1>3 DEF SendAll, MdnSend, FlushTimeout
  <1>4. CASE SendReceive
    BY <1>4, QueueFields DEF SendReceive, Fresh
  <1>5. CASE CancelInDialog
    BY <1>5, CancelInDialogEffect DEF CancelInDialog
  <1>6. CASE CancelTask
    BY <1>6, CancelTaskEffect DEF CancelTask
  <1>7. CASE Snapshot
    BY <1>7, SnapshotEffect
  <1>8. CASE SendMessage
    <2>1. PICK m \in run.todo :
            \/ run'.stage = "next"
            \/ run'.stage = "posting" /\ run'.cur = m /\ Transmitted(m)
      BY <1>8, SendMessageEffect
    <2>2. CASE run'.stage = "posting" /\ run'.cur = m /\ Transmitted(m)
      <3>1. m \in Msgs
        BY DEF RecordsOK, RunType
      <3>2. sent[m] \notin {"sent", "twice"}
        BY <3>1 DEF Sending
      <3> QED
        BY <2>2, <3>1, <3>2 DEF Transmitted, RestOK
    <2> QED
      BY <2>1, <2>2
  <1>9. CASE Post
    BY <1>9, PostEffect DEF Post, Proceeds, Excuses, Onward
  <1>10. CASE File
    BY <1>10, FileEffect DEF File, Proceeds, Excuses, Onward
  <1>11. CASE Mark
    BY <1>11, MarkEffect
  <1>12. CASE SyncMark
    BY <1>12, SyncMarkEffect DEF Onward
  <1>13. CASE Finish
    BY <1>13, FinishEffect
  <1>14. CASE Done
    BY <1>14, DoneEffect, IdleFields DEF Again, Over, Fresh
  <1>15. CASE Crash
    BY <1>15, IdleFields DEF Crash, Fresh
  <1> QED
    BY <1>1, <1>3, <1>4, <1>5, <1>6, <1>7, <1>8, <1>9, <1>10, <1>11, <1>12,
       <1>13, <1>14, <1>15, NextCases

\* A message leaves the Outbox by the user's hand or, once it is sent, with
\* its copy or a warning.
THEOREM NothingIsLost == Spec => NothingVanishes
  <1> DEFINE IInv == TypeOK /\ Sending /\ Filing
             Leaves(m) == \/ UserDelete(m) \/ EditSaved(m)
                          \/ sent[m] = "sent" /\ run.cur = m
                             /\ (run.filed \/ run.warn)
  <1>1. Init => IInv
    BY InitType, IdleFields, OutboxAssumption DEF Init, Sending, Filing, Fresh
  <1>2. IInv /\ [Next]_vars => IInv'
    <2>1. ASSUME IInv, Next PROVE Sending' /\ Filing'
      BY <2>1, SendingStep, FilingStep, TypeParts
    <2>2. ASSUME IInv, UNCHANGED vars PROVE Sending' /\ Filing'
      BY <2>2 DEF vars, Sending, Filing
    <2> QED
      BY <2>1, <2>2, TypeStep
  <1>3. ASSUME IInv, Next
        PROVE  \A m \in Kept : box'[m] # "kept" => Leaves(m)
    <2> SUFFICES ASSUME NEW m \in Kept, box'[m] # "kept" PROVE Leaves(m)
      OBVIOUS
    <2>1. m \in Msgs /\ box[m] = "kept" /\ RestOK /\ RecordsOK
      BY <1>3, TypeParts DEF Kept
    <2>2. CASE Aside
      <3>1. PICK k \in Msgs, n \in Msgs :
              \/ Append(k) \/ EditBegin(k) \/ EditClose(k) \/ UserDelete(k)
              \/ EditSave(k, n) \/ EditSaved(k) \/ Ages(k)
        BY <2>2 DEF Aside
      <3>2. CASE UserDelete(k) \/ EditSaved(k)
        BY <2>1, <3>2 DEF UserDelete, EditSaved, RestOK
      <3>3. CASE Append(k) \/ EditSave(k, n)
        BY <2>1, <3>3 DEF Append, EditSave, Put, RestOK
      <3>4. CASE EditBegin(k) \/ EditClose(k) \/ Ages(k)
        BY <2>1, <3>4 DEF EditBegin, EditClose, Ages
      <3> QED
        BY <3>1, <3>2, <3>3, <3>4
    <2>3. CASE Mark
      <3>1. m = run.cur
        BY <2>1, <2>3 DEF Mark, RestOK
      <3> QED
        BY <1>3, <2>3, <3>1 DEF Mark, Filing
    <2>4. CASE Finish \/ Crash
      BY <2>1, <2>4 DEF Finish, Crash, Marked
    <2>5. CASE \/ SendAll \/ MdnSend \/ FlushTimeout \/ SendReceive
               \/ CancelInDialog \/ CancelTask \/ Snapshot \/ SendMessage
               \/ Post \/ File \/ SyncMark \/ Done
      BY <2>1, <2>5 DEF SendAll, MdnSend, FlushTimeout, SendReceive,
         CancelInDialog, CancelTask, Snapshot, SendMessage, Post, File,
         SyncMark, Done, folder
    <2> QED
      BY <1>3, <2>2, <2>3, <2>4, <2>5, NextCases
  <1>4. IInv /\ [Next]_vars =>
          [\A m \in Kept : box'[m] # "kept" =>
             \/ UserDelete(m) \/ EditSaved(m)
             \/ sent[m] = "sent" /\ run.cur = m /\ (run.filed \/ run.warn)]_vars
    BY <1>3
  <1> QED
    BY <1>1, <1>2, <1>4, PTL DEF Spec, NothingVanishes
=============================================================================
