# Evolution in TLA+

Models of parts of Evolution (the GNOME mail and calendar program, C), the TLC instances that check them, and theorems about
them whose proofs TLAPS checks. Paths are relative to the repository, which is under `src/`: `src/src/shell/e-shell.c` is
`src/shell/e-shell.c` of Evolution. Every module is translated from the source; `PROJECT.json` maps each definition to the lines it stands for.

Evolution runs one main loop and some threads. What makes it hard to get right is that control comes back to the main loop at many
places: an asynchronous call ends in a callback, an idle source or a timeout fires, the last reference on an object goes away and its
weak references and toggle references are called, and a modal dialog runs a *nested* main loop inside a handler, in which all of the
others can happen again. The components chosen first are the ones whose correctness depends on this.

Contents: 1 inventory, 2 plan, 3 the modules and the code, 4 runs, bounds and fairness, 5 disagreements with the code, 6 proofs,
7 what is only model-checked, 8 what is not modelled.

## 1. Inventory

### Components that are modelled

**Mail message threads** (`libemail-engine/mail-mt.c`).
State: `MailMsg`s with a reference count, an error, a cancellable and an activity; the table of active messages; three thread pools (many threads, one
fast, one slow), `main_loop_queue`, `msg_reply_queue`, `idle_source_id`.
Operations: `mail_msg_new/ref/unref`, three pushes to a pool and one to the main loop, `mail_msg_proxy ()` on a worker, `mail_msg_idle_cb ()` in the
main loop, `mail_call_main ()`, `mail_msg_cancel ()`, `mail_msg_active ()`.
Interactions: all mail operations run through it; the shell polls `mail_msg_active ()` before it quits; the UI gets its activities.
Hard: the wakeup of the main loop (two queues, one source id, a lock taken after the push), callbacks that nest, memory freed by whoever is last.
Correct when: no message waits without a wakeup to come, none is freed early, one-thread pools keep order, callers return, "inactive" means quiet.

**Shell line status** (`shell/e-shell.c`, `mail/e-mail-backend.c`).
State: `online`, the preparation under way (a weak pointer to an `EActivity` the shell keeps a toggle reference on), the network flags, the reconnect timer, the session's line.
Operations: `e_shell_set_online ()`, the two preparations, the toggle notification, the network monitor, the timer, the backend's handlers and their store callbacks, cancellation.
Interactions: the shell emits, the mail backend references the activity once per store; the end of the last reference calls back into the shell.
Hard: preparations that supersede one another while stores of the first still run; a question inside the handler; a weak notification and `notify::online` in either order.
Correct when: the line waits for the stores, ends where it was last asked to be, and every preparation ends.

**Shell quit** (`shell/e-shell.c`, `shell/e-shell-backend.c`, `mail/e-mail-backend.c`, `composer/e-msg-composer.c`, `mail/em-composer-utils.c`).
State: the windows, each composer's `application_exiting`, busy state and handlers, the activity of the preparation and who holds it, the dialogs on the screen.
Operations: request a quit (every listener may ask and cancel), prepare it (listeners finish their work), destroy the windows; force it; close the last window; save a draft.
Hard: questions nested in one another share `quit_cancelled`; a composer's save goes on through both phases; windows vanish under their own questions.
Correct when: nothing changed is lost without the user's word, the program does not stay behind without a window, a quit that begins ends.

**Composer content cache** (`composer/e-msg-composer.c`).
State: the text last fetched from the editor process and the count of its users.
Operations: send, save, print and autosave, each of which asks for the text, uses it, and drops it, with a send possibly deferred for a key.
Hard: answers of the editor that come late and overwrite each other; operations that give up at each stage must drop exactly what they took.
Correct when: a message holds what was typed before it was asked for, and the cache is empty when nobody uses it.

**Composer autosave** (`modules/composer-autosave/`).
State: a timer, a file and the saves under way per composer; the registry's window handlers; what is on the disk after a crash.
Operations: a change, the timer, the stages of a save, closing, a broken editor, the scan for orphans, the question, loading.
Hard: crashes between any two steps, a save that outlives its composer, questions whose windows go away, two windows.
Correct when: what is typed reaches the disk, is not replaced by something older there, belongs to one composer, and is offered again after a crash.

**Send and receive, the send queue, the Outbox** (`mail/mail-send-recv.c`, `libemail-engine/mail-ops.c`, `libemail-engine/e-mail-session.c`, `mail/em-composer-utils.c`).
State: the Outbox folder (a summary in memory, files on disk, the mark EDITING on a message), the session's flush timer, the one send under "send-task" with its flag `again`, the thread's list of messages and what has failed.
Operations: append, edit, replace, delete; "Send All", Send & Receive, a notification, the delayed flush; cancel in the dialog or the task bar; the thread, from the transport over posting, filters and the Sent copy to the flag DELETED, the expunge and the next flush.
Interactions: the thread is a `MailMsg`; the session tells the mail client through a signal; the composer schedules flushes; the user works on the folder that is being sent.
Hard: a message is sent before anything says so on disk, and each of the steps between can fail, be cancelled or never happen; requests during a send are a flag; one timer serves all messages.
Correct when: nothing is sent twice without a failure that explains it, nothing vanishes, no message is forgotten, and no request that nobody has cancelled.

**Mail services in use** (`libemail-engine/e-mail-session.c`).
State: the table of services in use, its mutex and condition variable. Operations: mark (wait), unmark (signal), cancellation (broadcast).
Hard: one condition for all services, a cancellation that holds no mutex. Correct when: a service has one user, and one that is free is taken.

**Client cache** (`e-util/e-client-cache.c`).
State: per source a `ClientData` with references, a client, a queue of requests, a mark for a dead backend, handler ids.
Operations: asynchronous and synchronous requests, the ends of connections, a backend's death, a source removed or disabled, the end of a client.
Hard: synchronous requests bypass the queue; the record outlives its entry while handlers, threads and connections refer to it; each of them may be last.
Correct when: references are exact, one live client is shared, every request is answered.

### Components that are not modelled

Eighteen further components are listed in `PROJECT.json` with their files and the reason (section 8). The ones that carry logic worth modelling are the
receiving of mail, the folder cache, search folders, the calendar data model, the shell backends' activities, the message list's
regeneration, the configuration lookup and the tree and selection arithmetic of e-util.

## 2. Plan

Written so far, in this order: `MailJobs` (abstract) and `MailMsg`, which implements it; `ShellLine`; `ShellQuit`; `ContentHash`; `Autosave`; `Outbox`; `ServiceUse`; `ClientCache`. Each has
an `MC…` module with what TLC needs, where it needs something, and a `…Proofs` module, except `MailJobs`.
No module uses a RECURSIVE operator, so that all of them can be proved about.

To come, in order:

1. proofs of what is left of the properties in the table of section 5: what each needs to hold, as `SavesStayInOrder` does for `Autosave` and `LineAlwaysWaits` for `ShellLine`.
2. the folder cache (`mail-folder-cache.c`): the queue of updates and their flush in the main loop against stores that come and go.
3. the receiving half of `mail-send-recv.c`: the infos of the accounts, the second stage started when the first ends, the dialog.
4. the shell backends' activities, which compose with `ShellQuit` (they are one of its `Holders`), and the calendar data model's views.
5. pure algorithms (`e-bit-array.c`, `e-table-subset.c`) against a reference definition.

The runs are kept to twelve, one per question. Most disagreements with the code have no run of their own: section 5 names the configuration and the property that show them.

## 3. The modules and the code

### MailMsg and MailJobs

`MailMsg` has one action per step of a thread that another thread can observe: `Push` (a thread calls `mail_msg_*_push ()`), `WorkerStart` and `WorkerReply` (the two halves of
`mail_msg_proxy ()` around `exec ()`), `Arm` (its `G_LOCK` section, which a worker reaches only after its push), `CallMain`, `CallerResume`, `CallerRetire` (the
thread in `mail_call_main ()`), and the steps of the main thread: `Dispatch` of a source, `IdleReset`, `MainPop/Empty`, `CallDone`, `ReplyPop/Empty`, `DoneReturn`, `MainUnref`, `MainRetire`.
The main thread is a stack of frames, since `done ()` or a called function may run a nested loop in which the idle callback is dispatched again. `sources` are the
GSources in the order they were attached, as GLib dispatches them by priority (`Dispatchable`, external). What an operation does is its result in `error`.
`MailJobs` is what the component promises: a job is submitted, executed, finished once, its caller let go, then it is inactive, then freed. `ImplementsJobs` maps
`stage` to a job's status and is a refinement with liveness.

### ShellLine

A line change is an activity with `refs` plain references; the shell's own is a toggle reference (`toggle`), so that the *last plain* reference going away calls
`shell_ready_for_online_change ()` (`ReadyForOnlineChange`). `weak` is the session's weak reference that takes it offline; `shown` is the reference the task bar keeps for about a
second on a *cancelled* activity. `Unref` is `g_object_unref ()` with all it triggers. `asking` is a handler suspended in the synchronisation question's main loop: everything
but the user's clicks can happen meanwhile, and `Answer` then goes on with the activity it was given but gives up a reference on `preparing_for_line_change` as it is by then, as the code does.
The history variable `crossed` records that these two differed. `Acts` bounds the activities alive together; finalised ones are used again, so behaviours are not bounded in length.

### ShellQuit

Composers are numbered in the order of creation, which is the order GObject calls their handlers in; the main window is number 0. `RequestQuit`, `Emission`, `Prepare`, `Ready` are the
phases; `Release` is the end of a reference on the activity. `stack` holds the modal dialogs, whose handlers are resumed by the `Answer…` actions in stack order; `MaxDepth` bounds them. A dialog whose
parent is destroyed returns without an answer, which the code takes for "cancel". `Holders` are whatever else keeps the activity (stores that synchronise, busy backends, the poll for mail
messages). A save goes through `building`, `appending`, possibly a question, and `ended`; it may fail at each. `Unsent` says whether the Outbox question is asked. `discard` and `failed` are history.
The model ends when the windows are destroyed. Left out: contact and calendar editors, which only ask; sending; the autosave (its own module). Where the code reads a
composer that may have been freed (`e-msg-composer.c:2601`), both outcomes are possible in the model.

### ContentHash

Texts are revision numbers, and the editor answers with any revision it has had since it was asked. `Start`, `ContentReady`, `ContentFails`, `KeyReady`, `Cancelled`, `Refused`, `Agreed`, `Built` and `Finish` are
the stages of an operation; `Uses` says how many references it takes at once. Operations of the user exclude each other and typing (`Busy`: the composer's actions are insensitive while it has activities); the
autosave's do not. `keys` is the state of the check of the sender's key: none, under way, or complete. Where it is complete before the send that waits for it is stored, nothing continues the send (`Stranded`). `since` is history. Left out: the template plug-in's request, which is like the autosave's, and edits of the headers.

### Autosave

What a file holds is ordered by age: `Absent < Empty < Torn <` the revisions. A composer has two slots for saves, the present one and the one cancelled for it: a cancelled save gets no further, unless its file is being written already. `Slow`, `Breaks` and `Tears` switch on saves slower than the timer, broken
editors and writes that fail half-way, so that a run can say which of them a property depends on. `Crash` and `Exit` end a session at any moment; only `disk` remains. `Room` leaves a composer
free for each file that may be restored, so that the bound on composers never keeps a snapshot from being loaded. The registry's weak reference is told when a composer is *disposed of*, with its window, so that `Registered` are the open ones; a composer that a save still refers to is `closing`, has its file and is not in the registry. `InUse` is what the scan for orphans does not see: a closing composer, a
load under way (`Loaded`, `LoadFails`), another question. `shared` is history: the files that were given away while in use. Left out: the moment between reading a snapshot and creating the composer; a save that outlasts the whole timer interval after its window is gone. `SaveDraft` is one step.

### Outbox

One message is `absent` (it may be put in), `kept`, `deleted` (flagged) or `gone` (expunged); `unsaved` are those whose flag need not be on disk, which is what `Crash` may take back. `Put` is an append with what the folder's
signal does. `info` and `run` are the `_send_info` under "send-task" and the message of `mail-ops.c`; a send from the dialog has a cancellable of its own (`own`), which a second run uses again, cancelled or not. The thread goes `pushed` (`Snapshot`: the list is made) → `next` (one message: `SendMessage`)
→ `posting` → `filing` → `marking` → `syncing` → `next` … → `ended` (`Finish`), and `Done` is the main loop's part. What `mail_send_message ()` returns is `Ended`, `Failed` (counted) or `Broken` (cancelled: the loop is left); `warn` is its cumulative report. Of the delay only the order is kept: `old` are
the messages it is over for. `composer-use-outbox` is set and the delay positive. `EditSaved` fetches the original (`camel_folder_synchronize_message_sync`) and does not write its flag, so that a crash can bring it back. `sent`, `asked` and `upset` are history: a request is `asked` until a send takes it up, `crossed` when the send it waits for is cancelled, and `late` when it finds a send that is being cancelled. Left out: messages without recipients, a missing transport, drafts and the headers of source messages, which have no bearing on the Outbox, and other reasons to expunge it.

### ServiceUse

A thread's steps are those of `e_mail_session_mark_service_used_sync ()` between two accesses that others can interleave with: `Test` (the loop's condition, mutex held), `Block` (`g_cond_wait`), `Leave` (`g_cancellable_disconnect`, which waits for a callback that runs), `Mark`, `Return`. `cancel` is the
cancellable: set, then its callback has broadcast (`told`); `Cancellable` are the threads that have one. `missed` is history: a cancellation came between a test and what depends on it, or a signal went to a thread that waits for another service than the one released.

### ClientCache

One source and one extension name; sources do not interact. The three signal handlers of a client come and go together and count as one. `at` is where a request's thread is, `conns` are the connections under way, `of` the record a request was given. `SourceGone` drops the entry with
`client_data_dispose ()`; `Finalized` is the last user's unref of a client that is not cached any more. The table's lock and the record's make the lookup and the look at the client two steps. `overlapped` is history: the records for which a connection began during another one, of which the first is always with a synchronous request. Requests are made once each. Left out: what listeners are told, and that a cancelled request of a caller does not wait.

## 4. Runs, bounds and fairness

| run | instance | checks |
|---|---|---|
| `mailmsg_ordered` | two operations of a one-thread pool, a call | types, wakeups, `idle_source_id`, memory, order, quiet |
| `mailmsg_calls` | an operation, two calls of different priority | callers return; `MailJobs` is implemented, liveness included |
| `line` | 3 activities, 2 stores, questions | the line's safety, and that preparations end |
| `quit` | 2 composers, a main window, 1 holder, 2 nested dialogs (and one over the last window) | safety of the quit |
| `quit_ends` | the same with one dialog | the quit ends |
| `quit_lost` | the same with one dialog | violation: `NothingLost` |
| `content` | 2 sends, a save, a snapshot, one edit | the cache's safety, operations end |
| `autosave_files` | 2 composers, 1 file, 2 sessions; broken editors, torn and slow saves (1.3 million states up to symmetry) | files are owned, saves stay in order, nothing is deleted unasked |
| `autosave_live` | 2 composers, 2 files, 2 sessions; none of the three | what is typed is saved, orphans end |
| `outbox` | 2 messages, crashes and cancellations anywhere (2.2 million states up to symmetry) | nothing sent twice, lost or forgotten; requests are kept |
| `services` | 4 threads, one with a cancellable, 2 services | one user; a free service is taken |
| `clients` | 3 requests, 3 clients, 2 records | references, sharing, answers |

Why these bounds are enough for the interesting cases. A lost wakeup takes one thread between its push and its lock while the callback leaves: two messages and one call give every
combination of the two queues and a nested callback. Two operations of one pool are what an order is about. Three activities let a preparation be superseded while the one it
superseded still has a store to answer, and a question stand under both; two stores distinguish "one of them" from "all". Two composers are needed for a quit to be cancelled after another composer has agreed to it, and two dialogs for a request nested in
another one's question; a third dialog repeats the second. Three operations of the user and a snapshot give every overlap of two answers of the editor, and the third operation finds what the others left: the second send is the first that can be deferred for a check that is complete. Two sessions are a crash and what comes after it; one edit
distinguishes old from new: a save of the unedited message (0) and one of the edited (1) can overlap, overtake each other and be torn, and a restored message may be typed on when it was saved empty. `NextSession` and `Room` leave the other composer free for it. Two messages are one the thread is at and one it will be at, or an original and its edited version; the states in which more matter differ only in how many wait. Four threads and two services are what a signal that goes astray takes: two that use the services, two that wait for different ones; one of the four can be cancelled, since a cancellation concerns one thread and wakes all.
Three requests are one that connects, one that waits for it and a synchronous one beside them; two records are one that lost its entry and the one made after it, three clients one that died, its replacement, and one made beside it. All bounds are constants named in the modules (`UnorderedMax`, `Acts`, `MaxDepth`, `MaxRev`, `MaxText`, `MaxSessions`).

`CHECK_DEADLOCK FALSE` is given where the system really stops: all messages have been pushed and are over (MailMsg), all operations are over (ContentHash), the windows are destroyed (ShellQuit), the last session is over or has nothing left to do
(Autosave), all requests are answered (ClientCache), or activities lost by a crossed question have used up the bound (ShellLine).

Fairness. MailMsg: threads that can run do, the main loop dispatches, callbacks return; nobody has to push or cancel. ShellLine: store operations end (they are cancellable and have network timeouts), the task bar's
and the reconnect timeouts come, a modal question is answered. ShellQuit: saves and other holders end in some way; answers are strongly fair per depth of the stack, because other processes may ask to quit again and again and put another
question over it. ContentHash: the editor answers or fails, dialogs end, threads end, and a check of the key that is *under way* ends; one that is complete calls nobody, and no fairness is assumed for it (`KeyReady` is not enabled then). Autosave: timers fire, questions are answered, windows are mapped (weak); the stages of a save and a load are
strongly fair *per composer*, since a failed save is tried again (one that is cancelled, or whose window is gone, fails: weak), which is what `TypedIsSaved` is about: a file system that fails for ever saves nothing. ServiceUse: threads run (weak), a thread that asks for the mutex gets it when it is free again and again (strong: with four threads the others could pass it round for ever), and what uses a service ends, because connecting and sending have timeouts; cancellations and spurious wakeups need never happen. ClientCache: threads run and connections end, if only by their timeout (weak).
Outbox has no liveness property: `NeverForgotten` and `RequestsKept` say in every state which pending event will get to a message or a request.

## 5. Disagreements with the code

One has a run (the field `findings` of `PROJECT.json` quotes the text it contradicts):

* `quit_lost`: the user answers "Save Draft" in one composer and another listener cancels the quit. Nothing is saved then, `application_exiting` stays set (`e-msg-composer.c:2596`), and the next quit lets that composer go without a question or a save.

Others were met while modelling and can be seen with a change of a configuration; the properties they refute are in the modules, checked by no run:

| change | what TLC shows |
|---|---|
| `MCShellLine_line`, property `DelayedUntilReady` | the network is lost while the user is asked whether to synchronise: the nested preparation supersedes the outer one, and the outer, resumed, drops a reference on the nested one's activity (`e-shell.c:417`). The line changes while a store still switches, against the documentation at `e-shell.c:2542`, and the store's callback then unreferences a finalised object |
| `MCShellLine_line` with `MayAsk = FALSE`, invariant `SessionFollowsShell` | the user cancels "Preparing to go offline": the shell stays online, the session ends offline, because the weak notification comes a second after `notify::online` (`e-mail-backend.c:225`; the binding's comment at `e-mail-ui-session.c:459` wants them the same) |
| the same, property `OfflineUntilNetwork` | the network comes back and is lost within the five seconds of the timer: the timer takes the shell online without a network (`e-shell.c:3227`; the documentation at `e-shell.c:3201` promises otherwise) |
| `MCContentHash_content` with `MaxRev = 2`, invariant `NothingTypedIsMissing` | a send begun while the autosave's message is still encrypted is built of the autosave's older text (`e-msg-composer.c:5057`; the documentation at `:6440` says it is created from what the user edited) |
| `ContentHash` with the guard `Alone` taken off `AloneNoWarning` | two answers of the editor overwrite each other (`e-msg-composer.c:5029`), and a failed one drops a reference nobody took (`:6424`): the assertions fail |
| `MCContentHash_content`, property `SendsEnd` | a send is deferred for a check of the sender's key that is complete at once: `e_msg_composer_check_autocrypt ()` has called back, or has nothing to wait for (`e-msg-composer.c:7358`, `:7410`), before the send is stored (`:5181`). Nothing continues it; it hangs until it is cancelled |
| `MCAutosave_live` with one file, two windows and `MaxText = 1`, invariant `OnlyOrphans` | a second shell window, added and mapped while the question about orphans is open, asks about the same files (`e-composer-registry.c:114`; the comment at `:112` calls the handler one-time-only, the one at `:136` speaks of the first window). Answered twice with yes the file is loaded twice, and two composers save to it; answered yes and then no, the second answer deletes what the first has loaded and its composer may have saved since |
| the same with one window, one session and `Breaks = TRUE` | the registry takes the file of a broken composer that is being loaded again for an orphan, and it is loaded twice (`e-autosave-utils.c:351`) |
| the same with one window, one session and `MaxText = 2` | a composer's window is closed while a save refers to it: the registry forgets it (`e-composer-registry.c:126`; the comment there says "finalized", a weak reference is told at the disposal), and its file is asked about while the save may still write it |
| `MCAutosave_live` with one composer, `MaxText = 2` and `Tears = TRUE`, property `NeverBackwards` | a write that fails half-way replaces the last snapshot, whole or not, when its stream is closed (`e-autosave-utils.c:245`) |
| the same with `Slow = TRUE` instead of `Tears` | a save that is cancelled for a newer one while its file is being written is written all the same when it is late, over the newer one (`e-autosave-utils.c:245`) |
| `MCAutosave_live` with one composer, `MaxText = 2` and `Slow = TRUE`, property `TypedIsSaved` | a save overtaking a slower one takes the slower one's text, and nothing schedules another (`e-msg-composer.c:5057`) |
| `MCAutosave_live` with `MaxSessions = 3`, property `ExitKeepsOrphans` | another process makes Evolution quit while the orphans are asked about: no answer deletes them (`e-composer-registry.c:96`) |
| `MCAutosave_live` with `MaxText = 2`, property `ExitLeavesNothing` | a clean exit during a save leaves a snapshot behind, and the next start says Evolution had quit unexpectedly (`e-autosave-utils.c:35`) |
| `MCOutbox_outbox`, invariant `RequestsHeeded` | a send is cancelled in the dialog, and before its thread has ended "Send All" is asked for: only the flag `again` is set, which `receive_done ()` looks at while the state is SEND_ACTIVE (`mail-send-recv.c:1104`; the comment at `:1103` says that it runs again when called to). The request is lost and the message stays. A request that was waiting when the send is cancelled is lost in the same way (`crossed`), and so is one that a second run takes with the cancelled cancellable of the dialog (`:1121`) |
| `MCOutbox_outbox` without symmetry, property `EditedIsNotSent` | a message opened in a composer is sent by Send & Receive, which does not look at the mark (`mail-ops.c:992`; the comment at `em-composer-utils.c:2664` says it is not sent) |
| `MCOutbox_outbox` with `"excused"` counted as `"twice"` in `SentOnce` | a message is sent, posting it to a folder fails, and it stays in the Outbox to be sent again (`mail-ops.c:702`; the comment at `:678` says failures are ignored) |
| `ServiceUse_services`, property `WokenWhenReleased` | the one signal of an unmark goes to a thread that waits for another service, which goes back to waiting (`e-mail-session.c:3088`; the documentation at `:3073` says who waits for it is woken up). It takes four threads |
| `ServiceUse` with the signal gone astray not counted in `missed` | the service that was released is then never taken, while two other threads use the other one in turn |
| `ServiceUse` with `missed` taken off `FreeIsTaken` | besides, a cancellation between the test and `g_cond_wait` is not heard (`e-mail-session.c:3008`), and one between the marking and the answer leaves the service marked for ever (`:3065`) |
| `ClientCache_clients`, property `SyncPiggybacks` | a synchronous request comes while an asynchronous one connects: it looks for a cached client, not at the queue, and makes a connection of its own (`e-client-cache.c:1143`), against the documentation at `:1094`, which says that it will "piggyback" on the one in progress |
| `ClientCache_clients`, property `ReplacementStays` | two synchronous requests connect at the same time, the second client takes the first one's place in the cache, the first one's backend dies, and its handler drops the second from the cache (`e-client-cache.c:430`) |
| `ClientCache_clients`, invariant `HandlersGone` | a backend dies, its source is removed, its last user lets the client go: the record is freed with its handler ids set, and the three warnings of `client_data_unref ()` are given (`e-client-cache.c:124`), because `client_cache_backend_died_cb ()` drops the client only |

## 6. Proofs

`tlapm` checks `MailMsgProofs`, `ShellLineProofs`, `ShellQuitProofs`, `ContentHashProofs`, `AutosaveProofs`, `ServiceUseProofs`, `OutboxProofs` and `ClientCacheProofs`. Every safety property the passing runs check is a theorem there, for every value of the constants
that satisfies their named assumptions (which TLC also evaluates) and the hypotheses given below. Nearly none is inductive; what follows says which invariant is, and why the part beyond the property is needed. All invariants were checked by TLC before they were proved.

**MailMsg**, for any number of messages, calls, workers and nested callbacks.

* `WakeupSafe`, `IdleIdIsExact`: `NoLostWakeup` and `IdleIdExact` hold always. That a callback will look at a queue *again* depends on where its frame is, and `idle_source_id` must be exact for a push to be entitled to attach no source. The invariant is `Shape` (types, a message waits for its thread) and
  `Wakeup`, which says the same as the two properties over the sets of *indices* of the idle sources and of the frames at each stage; a step changes these sets by at most one index, which `AppendOther`, `PushIdx`, `PopIdx` and `SetTopIdx` state once.
* `TypesHold`, `NothingUsedAfterFree`, `QuietWhenInactive`: counts never fall below zero, nothing freed is used, and `mail_msg_active ()` says no only when nothing is to come. The invariant `Owned` says that a reference count *equals* its owners (`MsgOK`), with what makes the owners countable: a message is in one frame at most, at the stage its frame says (`StackOK`, `FramesFit`),
  is freed by one source, which comes after the one that submits its activity (`SourcesOrdered`), and is in the reply queue once (`RepliesExact`).
* `PoolsServeInOrder`: `OrderedPools`. The invariant `Ordered` says that each push has a ticket of its own (`TicketsFit`), that a pool with one thread has one worker (`OneWorker`) and that the reply queue keeps their order (`RepliesOrdered`).
* `TakesTheStepsOfJobs`: the safety half of the refinement, `Spec => Jobs!Init /\ [][Jobs!Next]_Jobs!vars`. Each step is one of `MailJobs` or a stutter under the mapping of `StatusOf` and `Blocked`; `Owned` is needed for the steps that free.

**ShellLine**, for any number of stores and activities and whatever asks. `ActivitiesAreFinalised` (`TypeOK`), `StoresAreHeld`, `SupersededNeverFlips`, `LineFollowsRequests`, `OfflineSessionIsDown`, `LineWaitsForStores`. The invariant `LineInv` has three parts: `Base` holds always (types, `OnlyLatestFlips`, what the line will be at each stage of a
preparation, when the session is quiet, and that the shell's pointer is to an activity that is there); `Counted`, that an activity's references are its stores', the task bar's and the suspended handler's, holds until a question is `crossed`; `Unasked` says that this never happens when no store requires the question. `LineAlwaysWaits` is `DelayedUntilReady` under the
hypothesis `~MayAsk`; without it, it is false, which is the first row of the table in section 5.

**ShellQuit**, for any number of composers, holders and nested dialogs. `QuitIsTyped`, `NeverWithoutWindow`, `DraftsAreSaved`, `EveryMessageAsked`. The last is the reason for the size of the invariant `QuitInv`: a request suspended in a question goes on afterwards with the *next* listener, and until then everything may happen to the composers it
has passed. `PassedBy` says of each suspended emission what has become of them: they may be passed still, or a request nested in it asks them again (`Emissions`, as long as no save failed and nobody cancelled). Beside it the dialogs must be where the code puts them (`Stacked`, `DialogOK`: which phase may have one, over which window, and no more than `Limit` of them), a
composer has a reference on the activity only while a quit is prepared and its window is open or destroyed under the question about the last one (`ComposerOK`), and without windows there is a quit. `Word` is what a step may do to a composer's word; the two action properties are read off it.

**ContentHash**, for any number of operations, snapshots and revisions. `TextIsGivenUp` (`KeptForUsers`) and `TextIsRecent` (`NotOlderThanOverlap`) hold whatever overlaps. `SharedInv` says that the references counted are at most the `Debts`, one for each that an operation under way
will still drop, and finitely many of them; and that neither the text nor an answer still awaited is older than `since` (`Fresh`). `UserOperationsSafe` and `NoAssertionFails` (`AloneNothingIsMissing`, `AloneNoWarning`) hold until the first snapshot begins: `AloneInv` says that at most one operation is active, the count is what it
owes at its stage, and its text is the editor's, because a busy composer is not typed in. That a snapshot, once begun, is never idle again (`StillBegun`) makes it inductive.

**Autosave**, for any number of composers, files, windows, revisions and sessions, without hypotheses: editors may break, writes be torn, saves be slow, and composers outlive their windows. `AutosaveTyped` is the type invariant. `FilesAreOwned` (`OwnFile`): `OwnInv` says of every file outside `shared` that it is `Sole`, one composer's
(open or closing, and there as long as it is open), or loaded once and nobody's, or in one question and nobody's; only the two places where the code gives a file away without seeing its user, the scan for orphans and the answer that loads a broken composer's file, can end this, and they are where `shared` grows. `DeletingIsAsked` (`AskedBeforeDeleting`)
needs besides that a broken composer never has its file deleted with it (`Detached`). `SavesStayInOrder` (`SavesInOrder`): `OrderInv` says that file, replaced save, present save and message are ordered by age (`InOrder`, `UpToDate`) and that a replaced save is cancelled; the two steps that break the order are the exceptions the property names, and both happen
(section 5: `NeverBackwards`). Each action's effect is a lemma named after it, used by all four.

**ServiceUse**, for any number of threads and services: `OneUserAlways`. `ServiceInv` adds to `OneUser` that an owner's service is marked (`OwnedIsUsed`), that it has no other owner (a thread whose answer will be TRUE is one already), and that a thread
between its test and the marking has found it free (`MarkingIsFree`), which is kept because one thread at a time holds the mutex (`OneHolder`). Most steps are harmless in one way (`Harmless`); the test, the marking and the unmarking have lemmas of their own.

**Outbox**, for any set of messages: `RequestsAreKept`, `NothingIsForgotten`, `EachIsSentOnce`, `NothingIsLost`, `OutboxTyped`, everything the run `outbox` checks. None of the first four is inductive; each has an invariant of its own beside `TypeOK`.
`Asking` says who keeps a request that no cancellation has crossed: a send that has not begun and takes every message, or one to be run again whose cancellable is not cancelled. `RequestsKept` says nothing of the requests a cancellation crosses, which are lost (section 5). `Flushing` adds to `NeverForgotten` that a send is forgotten only after a cancellation. `Sending` is the reason
why making the thread's list once is harmless: a message that was sent is flagged or is the one the thread is at, and no message on the list is gone. `Filing` is what the thread knows of its message before the flag. The actions' effects on the records `info` and `run` are stated once, in lemmas named after the actions.

**ClientCache**, for any number of requests, clients and records: `ReferencesExact` (`RefsExact`) and `ClientIsShared` (`Shared`). `CacheInv` adds to the types which requests have a record (`Stages`), that a client's handlers are connected for one record (`Made`), and, per record (`DataOK`), that its count is exact, a queue that is not empty has somebody connecting for it, its client
is watched, and, unless a connection began during another one (`overlapped`), nobody else connects and no other client lives (`Single`). `Exact` counts three kinds of holders, whose sets are finite and change by one member in a step.

## 7. What is only model-checked

Liveness under fairness, which is out of the prover's reach, and nothing else: `CallersReturn`, the liveness half of `ImplementsJobs`, `PreparationEnds`, `QuitEnds`, `OpsEnd`, `TypedIsSaved`, `OrphansEnd`, `FreeIsTaken`, `EveryRequestAnswered`. `NothingLost` is refuted. The disagreements of section 5 are counterexamples on small instances. The theorems that
have a hypothesis or a guard (`~MayAsk`, `crossed`, `Alone`, `shared`, `overlapped`, a cancelled send) leave open what happens without it, where TLC finds the property violated.

## 8. What is not modelled, and why

* Planned (section 2): the receiving half of Send & Receive, folder cache, search folders, photo cache, calendar data model, message list, shell backends and activities, configuration lookup, tables and trees, the sending half of the composer.
* User interface with little logic: windows and views, editors of events and contacts, address book and calendar views, attachments' widgets.
* Formatting, parsing and rendering: the HTML editor and its JavaScript, e-mail formatter, importers, S/MIME views, RSS.
* Configuration and tools: accounts and sources, which an external library keeps; the operations of `mail-ops.c` other than sending, each a call of Camel inside a `MailMsg`; filter rules, matched by an external library; migration, backup and restore, which are sequences of commands.
* External: GLib's main loop, GObject's references and signals, Camel and the WebKit process are modelled only as far as the code above uses them.
