------------------------------- MODULE MailMsg -------------------------------
(***************************************************************************)
(* The message threads of the mail engine, libemail-engine/mail-mt.c.      *)
(*                                                                         *)
(* An asynchronous operation is a reference-counted MailMsg.  A worker of  *)
(* one of three thread pools runs its exec(), puts it on msg_reply_queue   *)
(* and makes sure one idle source is attached to the main loop; that       *)
(* source, mail_msg_idle_cb(), calls done() and drops the reference.  A    *)
(* worker which needs the main thread (a password or trust prompt) uses    *)
(* mail_call_main(), which queues a message of its own for the main loop   *)
(* and blocks on a flag.  Callbacks run on the main thread may open a      *)
(* dialog, that is run a nested main loop, so idle callbacks nest: the     *)
(* main thread is a stack of frames.                                       *)
(***************************************************************************)
EXTENDS Integers, Sequences, FiniteSets, SequencesExt

CONSTANTS
  Async,         \* messages given to mail_msg_*_push()
  Calls,         \* messages made by mail_call_main()
  NoMsg,         \* "no message"
  Route,         \* the pool of each asynchronous message
  Prio,          \* msg->priority of each message
  UnorderedMax   \* max_threads of the unordered pool: 10 in the code

Msgs  == Async \cup Calls
Pools == {"unordered", "fast_ordered", "slow_ordered"}

ASSUME MailMsgAssumption ==
  /\ Async \cap Calls = {}
  /\ NoMsg \notin Msgs
  /\ Route \in [Async -> Pools]
  /\ Prio \in [Msgs -> Int]
  /\ UnorderedMax \in Nat \ {0}

VARIABLES
  stage,    \* how far each message got
  refs,     \* msg->ref_count
  table,    \* mail_msg_active_table
  ticket,   \* the position of each message in the order of pushes
  tickets,  \* pushes so far
  replyQ,   \* msg_reply_queue
  arming,   \* threads, named by their message, between a push and its G_LOCK
  idleId,   \* idle_source_id # 0
  sources,  \* sources attached to the main context, oldest first
  stack,    \* frames of the main thread, outermost first
  caller,   \* the thread inside mail_call_main(), of each call
  host,     \* the message whose exec() made the call; NoMsg: the main thread
  cancelled,\* messages whose GCancellable is cancelled
  error,    \* msg->error
  outcome   \* what the user can see of the activity of each message

vars == <<stage, refs, table, ticket, tickets, replyQ, arming, idleId, sources,
          stack, caller, host, cancelled, error, outcome>>

Stages   == {"new", "queued", "running", "answered", "handled", "ended", "freed"}
Errors   == {"none", "cancelled", "invalid_uid", "failed"}
Outcomes == {"running", "completed", "cancelled", "alerted"}
Callers  == {"none", "waiting", "signalled", "retire", "returned"}
Sources  == [kind : {"submit", "free"}, msg : Msgs \cup {NoMsg}]
            \cup [kind : {"idle"}, msg : {NoMsg}]
Loops    == {"reset", "main", "reply", "direct"}
Frames   == [loop : Loops, at : {"poll", "run", "drop", "retire"},
             msg : Msgs \cup {NoMsg}]

TypeOK ==
  /\ stage \in [Msgs -> Stages]
  /\ refs \in [Msgs -> Nat]
  /\ table \subseteq Msgs
  /\ ticket \in [Msgs -> Nat]
  /\ tickets \in Nat
  /\ replyQ \in Seq(Msgs)
  /\ arming \subseteq Msgs
  /\ idleId \in BOOLEAN
  /\ sources \in Seq(Sources)
  /\ stack \in Seq(Frames)
  /\ caller \in [Calls -> Callers]
  /\ host \in [Calls -> Async \cup {NoMsg}]
  /\ cancelled \subseteq Msgs
  /\ error \in [Msgs -> Errors]
  /\ outcome \in [Msgs -> Outcomes]

Init ==
  /\ stage = [m \in Msgs |-> "new"]
  /\ refs = [m \in Msgs |-> 0]
  /\ table = {}
  /\ ticket = [m \in Msgs |-> 0]
  /\ tickets = 0
  /\ replyQ = <<>>
  /\ arming = {}
  /\ idleId = FALSE
  /\ sources = <<>>
  /\ stack = <<>>
  /\ caller = [c \in Calls |-> "none"]
  /\ host = [c \in Calls |-> NoMsg]
  /\ cancelled = {}
  /\ error = [m \in Msgs |-> "none"]
  /\ outcome = [m \in Msgs |-> "running"]

-----------------------------------------------------------------------------
(* Queues.  A thread pool and main_loop_queue are kept sorted by           *)
(* mail_msg_compare(), and a push goes behind its equals: the next message *)
(* is the oldest of those with the highest priority.                       *)

Before(a, b) == \/ Prio[a] > Prio[b]
                \/ Prio[a] = Prio[b] /\ ticket[a] < ticket[b]

Queued(S) == {m \in S : stage[m] = "queued"}
Waiting(p) == Queued({m \in Async : Route[m] = p})
IsFirst(m, Q) == m \in Q /\ \A n \in Q \ {m} : Before(m, n)

\* Mutant: every pool is created with the ten threads of the unordered one.
MaxThreadsAlike(p) == UnorderedMax

\* create_thread_pool(): the ordered pools have one thread.
MaxThreads(p) == IF p = "unordered" THEN UnorderedMax ELSE 1
\* A worker is busy from the first line of mail_msg_proxy() to its last.
Workers(p) == {m \in Async : Route[m] = p /\ (stage[m] = "running" \/ m \in arming)}

-----------------------------------------------------------------------------
(* Sources of the main context.  "submit" has G_PRIORITY_DEFAULT, the      *)
(* others G_PRIORITY_HIGH_IDLE.                                            *)

Submit(m) == [kind |-> "submit", msg |-> m]
IdleCb    == [kind |-> "idle", msg |-> NoMsg]
FreeIdle(m) == [kind |-> "free", msg |-> m]
Urgency(s) == IF s.kind = "submit" THEN 0 ELSE 100

(* One iteration of the loop runs, oldest first, the ready sources of the  *)
(* most urgent level present when it starts, so a source runs only when no *)
(* older source is as urgent or more.                                      *)
Dispatchable(i) == \A j \in 1 .. i - 1 : Urgency(sources[j]) > Urgency(sources[i])

-----------------------------------------------------------------------------
(* The main thread.                                                        *)

Top == Last(stack)
Frame(loop, at, m) == [loop |-> loop, at |-> at, msg |-> m]
SetTop(f) == stack' = Append(Front(stack), f)
At(loop, at) == stack # <<>> /\ Top.loop = loop /\ Top.at = at

\* The main loop iterates: the outermost one, or one nested in a callback.
LoopRuns == stack # <<>> => Top.at = "run"

\* Mutants: the message is not entered in the table; it starts without its
\* first reference; the reference mail_call_main() adds is missing.
NewUnlisted(m, n) == stage[m] = "new" /\ refs' = [refs EXCEPT ![m] = n] /\ UNCHANGED table
NewUncounted(m, n) == stage[m] = "new" /\ refs' = [refs EXCEPT ![m] = n - 1] /\ table' = table \cup {m}
NewUnshared(m, n) == stage[m] = "new" /\ refs' = [refs EXCEPT ![m] = 1] /\ table' = table \cup {m}

\* mail_msg_new(), all of it under mail_msg_lock; its maker leaves it with n
\* references.
New(m, n) ==
  /\ stage[m] = "new"
  /\ refs' = [refs EXCEPT ![m] = n]
  /\ table' = table \cup {m}

\* mail_msg_*_push(): the message goes behind its equals.
Enqueue(m) ==
  /\ stage' = [stage EXCEPT ![m] = "queued"]
  /\ ticket' = [ticket EXCEPT ![m] = tickets]
  /\ tickets' = tickets + 1

\* The end of mail_msg_unref() once the count is zero: the message leaves the
\* table under the lock, then its memory is left to an idle callback.
Retire(m) ==
  /\ table' = table \ {m}
  /\ sources' = Append(sources, FreeIdle(m))

-----------------------------------------------------------------------------
(* Messages and workers.                                                   *)

\* mail_msg_new() and mail_msg_{unordered,fast_ordered,slow_ordered}_push().
Push(m) ==
  /\ m \in Async
  /\ New(m, 1)
  /\ Enqueue(m)
  /\ UNCHANGED <<replyQ, arming, idleId, sources, stack, caller, host,
                 cancelled, error, outcome>>

\* A pool thread takes the message and enters mail_msg_proxy(): the activity
\* is to be shown (mail_msg_submit) before exec() starts.
WorkerStart(m) ==
  /\ \E p \in Pools : /\ IsFirst(m, Waiting(p))
                      /\ Cardinality(Workers(p)) < MaxThreads(p)
  /\ stage' = [stage EXCEPT ![m] = "running"]
  /\ sources' = Append(sources, Submit(m))
  /\ UNCHANGED <<refs, table, ticket, tickets, replyQ, arming, idleId, stack,
                 caller, host, cancelled, error, outcome>>

InCall(m) == \E c \in Calls : host[c] = m /\ caller[c] \in {"waiting", "signalled", "retire"}

\* exec() returned, with or without an error; a cancelled operation may still
\* have succeeded, and only a cancelled one reports G_IO_ERROR_CANCELLED.
WorkerReply(m) ==
  /\ m \in Async /\ stage[m] = "running" /\ ~InCall(m)
  /\ stage' = [stage EXCEPT ![m] = "answered"]
  /\ \E e \in Errors : /\ e = "cancelled" => m \in cancelled
                       /\ error' = [error EXCEPT ![m] = e]
  /\ replyQ' = Append(replyQ, m)
  /\ arming' = arming \cup {m}
  /\ UNCHANGED <<refs, table, ticket, tickets, idleId, sources, stack, caller,
                 host, cancelled, outcome>>

\* Mutant: a source is attached without a look at idle_source_id.
AttachIdleAlways == sources' = Append(sources, IdleCb)
AttachIdle == sources' = IF idleId THEN sources ELSE Append(sources, IdleCb)

\* The G_LOCK section at the end of mail_msg_proxy() and of
\* mail_msg_main_loop_push().
Arm(m) ==
  /\ m \in arming
  /\ arming' = arming \ {m}
  /\ idleId' = TRUE
  /\ AttachIdle
  /\ UNCHANGED <<stage, refs, table, ticket, tickets, replyQ, stack, caller,
                 host, cancelled, error, outcome>>

-----------------------------------------------------------------------------
(* mail_call_main().                                                       *)

\* Called in a worker, from the exec() of m: a second reference for the main
\* loop, then mail_msg_main_loop_push(), then e_flag_wait().
CallMain(c, m) ==
  /\ c \in Calls /\ m \in Async /\ stage[m] = "running" /\ ~InCall(m)
  /\ New(c, 2)
  /\ Enqueue(c)
  /\ arming' = arming \cup {c}
  /\ host' = [host EXCEPT ![c] = m]
  /\ caller' = [caller EXCEPT ![c] = "waiting"]
  /\ UNCHANGED <<replyQ, idleId, sources, stack, cancelled, error, outcome>>

\* e_flag_wait() returns, the result is read, the caller's reference dropped.
CallerResume(c) ==
  /\ c \in Calls /\ caller[c] = "signalled" /\ c \notin arming
  /\ refs' = [refs EXCEPT ![c] = @ - 1]
  /\ caller' = [caller EXCEPT ![c] = IF refs[c] = 1 THEN "retire" ELSE "returned"]
  /\ UNCHANGED <<stage, table, ticket, tickets, replyQ, arming, idleId, sources,
                 stack, host, cancelled, error, outcome>>

CallerRetire(c) ==
  /\ c \in Calls /\ caller[c] = "retire"
  /\ Retire(c)
  /\ caller' = [caller EXCEPT ![c] = "returned"]
  /\ UNCHANGED <<stage, refs, ticket, tickets, replyQ, arming, idleId, stack,
                 host, cancelled, error, outcome>>

\* Called on the main thread: do_call() runs at once, nothing is queued.
CallDirect(c) ==
  /\ c \in Calls /\ LoopRuns
  /\ New(c, 1)
  /\ stage' = [stage EXCEPT ![c] = "handled"]
  /\ stack' = Append(stack, Frame("direct", "run", c))
  /\ UNCHANGED <<ticket, tickets, replyQ, arming, idleId, sources, caller, host,
                 cancelled, error, outcome>>

\* Mutant: only a call that was not cancelled wakes its caller.
WakeUncancelled(c) == caller' = IF Top.loop = "main" /\ c \notin cancelled
                                THEN [caller EXCEPT ![c] = "signalled"] ELSE caller

Settled(c) == IF c \in cancelled THEN "cancelled" ELSE "completed"
\* e_flag_set(), if there is a flag.
Wake(c) == caller' = IF Top.loop = "main"
                     THEN [caller EXCEPT ![c] = "signalled"] ELSE caller

\* The end of do_call(): the activity's final state, then e_flag_set().
CallDone ==
  /\ At("main", "run") \/ At("direct", "run")
  /\ LET c == Top.msg IN
       /\ outcome' = [outcome EXCEPT ![c] = Settled(c)]
       /\ Wake(c)
       /\ stage' = [stage EXCEPT ![c] = "ended"]
       /\ SetTop(Frame(Top.loop, "drop", c))
  /\ UNCHANGED <<refs, table, ticket, tickets, replyQ, arming, idleId, sources,
                 host, cancelled, error>>

-----------------------------------------------------------------------------
(* mail_msg_idle_cb().                                                     *)

\* Mutant: idle_source_id is not cleared.
ClearIdleIdMissing == UNCHANGED idleId
ClearIdleId == idleId' = FALSE

IdleReset ==
  /\ At("reset", "poll")
  /\ ClearIdleId
  /\ SetTop(Frame("main", "poll", NoMsg))
  /\ UNCHANGED <<stage, refs, table, ticket, tickets, replyQ, arming, sources,
                 caller, host, cancelled, error, outcome>>

\* The first loop: pop from main_loop_queue, submit, exec().
MainPop(c) ==
  /\ At("main", "poll")
  /\ IsFirst(c, Queued(Calls))
  /\ stage' = [stage EXCEPT ![c] = "handled"]
  /\ sources' = Append(sources, Submit(c))
  /\ SetTop(Frame("main", "run", c))
  /\ UNCHANGED <<refs, table, ticket, tickets, replyQ, arming, idleId, caller,
                 host, cancelled, error, outcome>>

MainEmpty ==
  /\ At("main", "poll")
  /\ Queued(Calls) = {}
  /\ SetTop(Frame("reply", "poll", NoMsg))
  /\ UNCHANGED <<stage, refs, table, ticket, tickets, replyQ, arming, idleId,
                 sources, caller, host, cancelled, error, outcome>>

\* The second loop: pop from msg_reply_queue, done().
ReplyPop ==
  /\ At("reply", "poll")
  /\ replyQ # <<>>
  /\ stage' = [stage EXCEPT ![Head(replyQ)] = "handled"]
  /\ replyQ' = Tail(replyQ)
  /\ SetTop(Frame("reply", "run", Head(replyQ)))
  /\ UNCHANGED <<refs, table, ticket, tickets, arming, idleId, sources, caller,
                 host, cancelled, error, outcome>>

ReplyEmpty ==
  /\ At("reply", "poll")
  /\ replyQ = <<>>
  /\ stack' = Front(stack)
  /\ UNCHANGED <<stage, refs, table, ticket, tickets, replyQ, arming, idleId,
                 sources, caller, host, cancelled, error, outcome>>

\* mail_msg_check_error(): without an error the activity keeps its state.
Reported(m) ==
  CASE error[m] = "none"        -> outcome[m]
    [] error[m] = "cancelled"   -> "cancelled"
    [] error[m] = "invalid_uid" -> "completed"
    [] error[m] = "failed"      -> "alerted"

\* done() returned; mail_msg_check_error().
DoneReturn ==
  /\ At("reply", "run")
  /\ outcome' = [outcome EXCEPT ![Top.msg] = Reported(Top.msg)]
  /\ stage' = [stage EXCEPT ![Top.msg] = "ended"]
  /\ SetTop(Frame("reply", "drop", Top.msg))
  /\ UNCHANGED <<refs, table, ticket, tickets, replyQ, arming, idleId, sources,
                 caller, host, cancelled, error>>

\* After its mail_msg_unref() a loop goes on; mail_call_main() returns.
Continue ==
  IF Top.loop = "direct" THEN stack' = Front(stack)
                         ELSE SetTop(Frame(Top.loop, "poll", NoMsg))

MainUnref ==
  /\ stack # <<>> /\ Top.at = "drop"
  /\ refs' = [refs EXCEPT ![Top.msg] = @ - 1]
  /\ IF refs[Top.msg] = 1 THEN SetTop(Frame(Top.loop, "retire", Top.msg))
                          ELSE Continue
  /\ UNCHANGED <<stage, table, ticket, tickets, replyQ, arming, idleId, sources,
                 caller, host, cancelled, error, outcome>>

MainRetire ==
  /\ stack # <<>> /\ Top.at = "retire"
  /\ Retire(Top.msg)
  /\ Continue
  /\ UNCHANGED <<stage, refs, ticket, tickets, replyQ, arming, idleId, caller,
                 host, cancelled, error, outcome>>

-----------------------------------------------------------------------------
(* The main loop, and the user.                                            *)

\* The source of a dispatched callback that returns FALSE is gone; the one of
\* mail_msg_idle_cb() is not dispatched again before it is.
Dispatch(i) ==
  /\ LoopRuns /\ i \in DOMAIN sources /\ Dispatchable(i)
  /\ sources' = RemoveAt(sources, i)
  /\ LET s == sources[i] IN
       /\ stack' = IF s.kind = "idle"
                   THEN Append(stack, Frame("reset", "poll", NoMsg)) ELSE stack
       /\ stage' = IF s.kind = "free"
                   THEN [stage EXCEPT ![s.msg] = "freed"] ELSE stage
  /\ UNCHANGED <<refs, table, ticket, tickets, replyQ, arming, idleId, caller,
                 host, cancelled, error, outcome>>

\* The GCancellable is cancelled, from the activity bar or with every other
\* CamelOperation.  Its handler mail_msg_cancelled() calls mail_msg_cancel(),
\* which finds it cancelled already and does nothing.
Cancel(m) ==
  /\ m \in Msgs /\ stage[m] \notin {"new", "freed"} /\ m \notin cancelled
  /\ cancelled' = cancelled \cup {m}
  /\ UNCHANGED <<stage, refs, table, ticket, tickets, replyQ, arming, idleId,
                 sources, stack, caller, host, error, outcome>>

-----------------------------------------------------------------------------
MainStep == CallDone \/ IdleReset \/ (\E c \in Calls : MainPop(c)) \/ MainEmpty
            \/ ReplyPop \/ ReplyEmpty \/ DoneReturn \/ MainUnref \/ MainRetire

Next ==
  \/ \E m \in Async : Push(m) \/ WorkerStart(m) \/ WorkerReply(m)
  \/ \E m \in Msgs : Arm(m) \/ Cancel(m)
  \/ \E c \in Calls : \/ \E m \in Async : CallMain(c, m)
                      \/ CallerResume(c) \/ CallerRetire(c) \/ CallDirect(c)
  \/ MainStep
  \/ \E i \in DOMAIN sources : Dispatch(i)

(* The threads and the main loop run; exec(), done() and do_call()'s       *)
(* function return.  Nobody has to push, call or cancel.                   *)
Fairness ==
  /\ \A m \in Async : WF_vars(WorkerStart(m)) /\ WF_vars(WorkerReply(m))
  /\ \A m \in Msgs : WF_vars(Arm(m))
  /\ \A c \in Calls : WF_vars(CallerResume(c)) /\ WF_vars(CallerRetire(c))
  /\ WF_vars(MainStep)
  /\ WF_vars(\E i \in DOMAIN sources : Dispatch(i))

Spec == Init /\ [][Next]_vars /\ Fairness

-----------------------------------------------------------------------------
(* Properties.                                                             *)

\* A thread that has pushed a message but has not reached its G_LOCK section.
WillArm == arming # {} /\ ~idleId

IdleAttached   == \E i \in DOMAIN sources : sources[i] = IdleCb
IdleDispatched == \E i \in DOMAIN stack : stack[i].loop = "reset"

\* The idle callback will still look at main_loop_queue, or at the replies.
DrainsMain  == \E i \in DOMAIN stack : stack[i].loop \in {"reset", "main"}
DrainsReply == \E i \in DOMAIN stack : stack[i].loop \in {"reset", "main", "reply"}

\* No wakeup is lost: while a message waits for the main thread, an idle
\* source is attached, or a thread is about to attach one, or a callback that
\* is on the stack will look at that queue again (mail_msg_idle_cb() and the
\* two copies of the G_LOCK section).
NoLostWakeup ==
  /\ Queued(Calls) # {} => IdleAttached \/ WillArm \/ DrainsMain
  /\ replyQ # <<>>      => IdleAttached \/ WillArm \/ DrainsReply

\* idle_source_id is exact: it is set exactly while one source is attached or
\* a dispatched callback has not cleared it yet, however callbacks nest.
IdleIdExact ==
  /\ \A i, j \in DOMAIN sources : sources[i] = IdleCb /\ sources[j] = IdleCb => i = j
  /\ \A i, j \in DOMAIN stack : stack[i].loop = "reset" /\ stack[j].loop = "reset" => i = j
  /\ IF idleId THEN ~ (IdleAttached <=> IdleDispatched)
               ELSE ~ IdleAttached /\ ~ IdleDispatched

\* Memory is freed once, after its last use: no thread, queue, table entry or
\* source still names a message that mail_msg_free() has released, or would
\* free it again; the source of mail_msg_submit() follows an unowned pointer to
\* the activity, which goes with the message.
NoUseAfterFree ==
  \A m \in Msgs : stage[m] = "freed" =>
    /\ refs[m] = 0
    /\ m \notin table
    /\ m \notin ToSet(replyQ)
    /\ {Submit(m), FreeIdle(m)} \cap ToSet(sources) = {}
    /\ \A f \in ToSet(stack) : f.msg # m
    /\ m \in Calls => caller[m] \in {"none", "returned"}

\* The two pools with one thread serve their messages strictly in order: of
\* two messages with the same priority the first pushed gets at least as far
\* as the second at any time, in exec() and in done().
Rank(m) == CASE stage[m] \in {"new", "queued"} -> 0
             [] stage[m] = "running"  -> 1
             [] stage[m] = "answered" -> 2
             [] OTHER -> 3
OrderedPools ==
  \A a, b \in Async :
    (/\ Route[a] = Route[b] /\ Route[a] # "unordered" /\ Prio[a] = Prio[b]
     /\ stage[a] # "new" /\ stage[b] # "new" /\ ticket[a] < ticket[b])
    => Rank(a) >= Rank(b) /\ (Rank(b) > 0 => Rank(a) > 1)

\* mail_msg_active() is what the shell polls before it quits: when it says no,
\* no operation waits, runs or has a callback to come, and no thread waits.
InactiveMeansQuiet ==
  table = {} =>
    /\ \A m \in Msgs : stage[m] \in {"new", "ended", "freed"}
    /\ \A c \in Calls : caller[c] \in {"none", "returned"}

\* Every thread that calls mail_call_main() is let go.
CallersReturn == \A c \in Calls : caller[c] = "waiting" ~> caller[c] = "returned"

(* mail-mt.c implements MailJobs.  What a call does on the main thread is  *)
(* its execution; that of an operation is over when done() is called.      *)
StatusOf(m) ==
  CASE stage[m] = "new" -> "idle"
    [] stage[m] \in {"queued", "running"} -> "submitted"
    [] stage[m] = "answered" -> "executed"
    [] stage[m] = "handled" -> IF m \in Async THEN "executed" ELSE "submitted"
    [] stage[m] = "ended" -> "finished"
    [] stage[m] = "freed" -> "freed"
Status  == [m \in Msgs |-> StatusOf(m)]
Blocked == {c \in Calls : caller[c] \in {"waiting", "signalled"}}

Jobs == INSTANCE MailJobs WITH status <- Status, blocked <- Blocked, active <- table

\* Every behaviour of the message threads is one of MailJobs, liveness included.
ImplementsJobs == Jobs!Spec

=============================================================================
