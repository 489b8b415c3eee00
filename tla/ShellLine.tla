------------------------------ MODULE ShellLine ------------------------------
(***************************************************************************)
(* How the shell goes online and offline (src/src/shell/e-shell.c) and how *)
(* the mail backend, the one listener, prepares for it                     *)
(* (src/src/mail/e-mail-backend.c).                                        *)
(*                                                                         *)
(* A line change is an EActivity whose reference count is a counting       *)
(* semaphore: the shell keeps only a toggle reference, every store that is *)
(* being switched keeps a plain one, and when the last plain reference     *)
(* goes away the toggle notification flips the line.  A second request     *)
(* supersedes the first.  The network monitor forces the line down, and a  *)
(* timer brings it back some seconds after the network returned.           *)
(*                                                                         *)
(* Acts bounds how many of these activities are alive at one time; a       *)
(* finalised one is used again.                                            *)
(***************************************************************************)
EXTENDS Naturals, FiniteSets

CONSTANTS
    Acts,       \* the activities that can be alive together
    NoAct,      \* a NULL EActivity pointer
    Stores,     \* the enabled mail stores
    MayAsk      \* may a store require downsync, so that the user is asked?

\* The local store is always enabled, so there is always one to switch.
ASSUME LineAssumption ==
    /\ NoAct \notin Acts
    /\ IsFiniteSet(Stores)
    /\ Stores # {}
    /\ MayAsk \in BOOLEAN

VARIABLES
    online,          \* shell->priv->online
    preparing,       \* shell->priv->preparing_for_line_change
    preparingOnline, \* shell->priv->preparing_for_online
    netAvail,        \* shell->priv->network_available
    locked,          \* shell->priv->network_available_locked
    autoReconnect,   \* shell->priv->auto_reconnect
    timer,           \* is set_online_timeout_id armed?
    session,         \* the mail session's "online"
    started,         \* has the mail backend been started?
    act,             \* the activities
    pending,         \* the stores still switching for each activity
    asking,          \* the activity whose handler waits for the user's answer
    asked,           \* history: the line last asked for, and not cancelled
    crossed          \* history: has a handler gone on after its question with
                     \* another preparation under way, or none?

vars == <<online, preparing, preparingOnline, netAvail, locked, autoReconnect,
          timer, session, started, act, pending, asking, asked, crossed>>

(***************************************************************************)
(* An activity: its plain references, whether the shell's toggle reference *)
(* and the session's weak reference are on it, its cancellable, and        *)
(* whether the task bar keeps it a moment longer to show it was cancelled. *)
(***************************************************************************)
Activity == [refs : Nat, toggle : BOOLEAN, weak : BOOLEAN, shown : BOOLEAN,
             cancellable : {"none", "live", "cancelled"}]

\* What is left of one when it has lost its last reference.
Finalized == [refs |-> 0, toggle |-> FALSE, weak |-> FALSE, shown |-> FALSE,
              cancellable |-> "none"]

\* e_activity_new () and the toggle reference the shell puts on it.
Created == [Finalized EXCEPT !.refs = 1, !.toggle = TRUE]

\* e_activity_cancel (): nothing to do while there is no cancellable.
Cancelled(r) ==
    IF r.cancellable = "live" THEN [r EXCEPT !.cancellable = "cancelled"] ELSE r

\* e_shell_backend_cancel_all () and camel_operation_cancel_all ().
AllCancelled(r) == [a \in Acts |-> Cancelled(r[a])]

\* An activity nothing remembers, free to stand for the next one.
Fresh(a) == act[a].refs = 0 /\ pending[a] = {}

\* --online, --offline and --force-online choose the first line; the monitor
\* has told the network's state by then, and the session copies the line.
Init ==
    /\ online \in BOOLEAN
    /\ netAvail \in BOOLEAN
    /\ locked \in BOOLEAN
    /\ locked => online /\ netAvail
    /\ preparing = NoAct
    /\ preparingOnline = FALSE
    /\ autoReconnect = FALSE
    /\ timer = FALSE
    /\ session = online
    /\ started = FALSE
    /\ act = [a \in Acts |-> Finalized]
    /\ pending = [a \in Acts |-> {}]
    /\ asking = NoAct
    /\ asked = online
    /\ crossed = FALSE

-----------------------------------------------------------------------------
(***************************************************************************)
(* The end of an activity.  r is the activities and s the session as the   *)
(* caller of g_object_unref () leaves them.                                *)
(***************************************************************************)
\* The weak pointer of the shell and the weak reference of the session.
Finalize(r, a) ==
    /\ act' = [r EXCEPT ![a] = Finalized]
    /\ preparing' = IF preparing = a THEN NoAct ELSE preparing

\* What the line becomes when the preparation is over.
LineAfterAnyway(isCancelled) == preparingOnline
LineAfter(isCancelled) == IF isCancelled THEN online ELSE preparingOnline

\* notify::online reaches the session, whether or not the line has changed.
NotifiedIfChanged(s, line) == IF line = online THEN s ELSE line
Notified(s, line) == line

\* The toggle notification for the last plain reference.  The task bar may
\* keep a cancelled activity; a completed one is finalised at once.
ReadyForOnlineChange(r, s, a) ==
    LET isCancelled == r[a].cancellable = "cancelled"
    IN  /\ online' = LineAfter(isCancelled)
        /\ asked' = IF isCancelled THEN online ELSE asked
        /\ session' = Notified(s, online')
        /\ \/ Finalize(r, a)
           \/ /\ isCancelled
              /\ act' = [r EXCEPT ![a].refs = 1, ![a].toggle = FALSE, ![a].shown = TRUE]
              /\ UNCHANGED preparing

Unref(r, s, a) ==
    LET left == r[a].refs - 1
    IN  \/ /\ left > 0
           /\ act' = [r EXCEPT ![a].refs = left]
           /\ session' = s
           /\ UNCHANGED <<online, preparing, asked>>
        \/ /\ left = 0
           /\ r[a].toggle
           /\ ReadyForOnlineChange(r, s /\ ~r[a].weak, a)
        \/ /\ left = 0
           /\ ~r[a].toggle
           /\ Finalize(r, a)
           /\ session' = (s /\ ~r[a].weak)
           /\ UNCHANGED <<online, asked>>

-----------------------------------------------------------------------------
(***************************************************************************)
(* The beginning of one.                                                   *)
(***************************************************************************)
\* shell_cancel_ongoing_preparing_line_change () on the one in progress.
SupersededOnlyCancelled(r) == Cancelled(r)
Superseded(r) == [Cancelled(r) EXCEPT !.toggle = FALSE]

Others ==
    IF preparing = NoAct THEN act ELSE [act EXCEPT ![preparing] = Superseded(@)]

\* The references the stores' operations take on the activity.
StoreRefsOnlyOne == 1
StoreRefsNone == 0
StoreRefs == Cardinality(Stores)

\* The handlers start every store's operation and leave.
WithOperations(r, a, weak) ==
    [r EXCEPT ![a].refs = @ + StoreRefs,
              ![a].weak = weak,
              ![a].cancellable = IF started THEN "live" ELSE @]

Switching(a) == pending' = [pending EXCEPT ![a] = Stores]

\* No network, or no wish to synchronise: whatever runs is cancelled and the
\* session is offline before the stores are.
Abrupt(net, synchronize) == ~net \/ (started /\ ~synchronize)

PreparedForOffline(r, a, net, synchronize) ==
    WithOperations(IF Abrupt(net, synchronize) THEN AllCancelled(r) ELSE r, a, TRUE)

SessionOffline(net, synchronize) == session /\ ~Abrupt(net, synchronize)

\* The reference e_activity_new () returned is given up after the emission.
Released(r, a) == [r EXCEPT ![a].refs = @ - 1]

PrepareForOffline(a, net) ==
    LET new == [Others EXCEPT ![a] = Created]
    IN  /\ preparing' = a
        /\ preparingOnline' = FALSE
        /\ \/ /\ started /\ net /\ MayAsk
              /\ act' = new
              /\ asking' = a
              /\ UNCHANGED <<session, pending>>
           \/ /\ act' = Released(PreparedForOffline(new, a, net, FALSE), a)
              /\ session' = SessionOffline(net, FALSE)
              /\ Switching(a)
              /\ UNCHANGED asking

PrepareForOnline(a) ==
    /\ preparing' = a
    /\ preparingOnline' = TRUE
    /\ act' = Released(WithOperations([Others EXCEPT ![a] = Created], a, FALSE), a)
    /\ session' = TRUE
    /\ Switching(a)
    /\ UNCHANGED asking

\* e_shell_set_online (), while the network is net.
SetOnline(line, net) ==
    /\ asked' = line
    /\ UNCHANGED online
    /\ \/ /\ line = online
          /\ preparing = NoAct
          /\ UNCHANGED <<preparing, preparingOnline, act, session, pending, asking>>
       \/ /\ line # online \/ preparing # NoAct
          /\ \E a \in Acts :
                /\ Fresh(a)
                /\ IF line THEN PrepareForOnline(a) ELSE PrepareForOffline(a, net)

-----------------------------------------------------------------------------
(***************************************************************************)
(* The actions.  While the question is on the screen it is modal: nothing  *)
(* the user does reaches a window, but the main loop runs.                 *)
(***************************************************************************)
\* Work Offline and Work Online: each is visible on the other line, and
\* sensitive only while there is a network.
UserLine(line) ==
    /\ asking = NoAct
    /\ netAvail
    /\ online # line
    /\ SetOnline(line, netAvail)
    /\ UNCHANGED <<netAvail, locked, autoReconnect, timer, started>>

\* The network monitor: forced offline, or a timer to reconnect.
ForcedOffline == online \/ preparing # NoAct

TimerOnLoss == FALSE

NetworkLost ==
    /\ ~locked
    /\ netAvail
    /\ netAvail' = FALSE
    /\ \/ /\ ForcedOffline
          /\ SetOnline(FALSE, FALSE)
          /\ autoReconnect' = TRUE
          /\ timer' = TimerOnLoss
       \/ /\ ~ForcedOffline
          /\ UNCHANGED <<online, preparing, preparingOnline, session, act, pending,
                         asking, asked, autoReconnect, timer>>
    /\ UNCHANGED <<locked, started>>

NetworkBack ==
    /\ ~locked
    /\ ~netAvail
    /\ netAvail' = TRUE
    /\ timer' = (timer \/ autoReconnect)
    /\ autoReconnect' = FALSE
    /\ UNCHANGED <<online, preparing, preparingOnline, locked, session, started,
                   act, pending, asking, asked>>

\* e_shell_set_online_cb ()
TimerFires ==
    /\ timer
    /\ timer' = FALSE
    /\ SetOnline(TRUE, netAvail)
    /\ UNCHANGED <<netAvail, locked, autoReconnect, started>>

\* The first time a mail view is shown.
StartBackend ==
    /\ ~started
    /\ asking = NoAct
    /\ started' = TRUE
    /\ UNCHANGED <<online, preparing, preparingOnline, netAvail, locked,
                   autoReconnect, timer, session, act, pending, asking, asked>>

\* The cancel button of an activity in the task bar.
UserCancel(a) ==
    /\ asking = NoAct
    /\ act[a].cancellable = "live"
    /\ act' = [act EXCEPT ![a] = Cancelled(@)]
    /\ UNCHANGED <<online, preparing, preparingOnline, netAvail, locked,
                   autoReconnect, timer, session, started, pending, asking, asked>>

\* The user answers; the handler goes on with the activity it was given, and
\* the shell gives up a reference on the activity it now has.
Answer(a, synchronize) ==
    /\ asking = a
    /\ asking' = NoAct
    /\ crossed' = (crossed \/ preparing # a)
    /\ Switching(a)
    /\ \E r \in {PreparedForOffline(act, a, TRUE, synchronize)},
          s \in {SessionOffline(TRUE, synchronize)} :
          IF preparing = NoAct
          THEN /\ act' = r
               /\ session' = s
               /\ UNCHANGED <<online, preparing, asked>>
          ELSE Unref(r, s, preparing)
    /\ UNCHANGED <<preparingOnline, netAvail, locked, autoReconnect, timer, started>>

\* A store has switched, or has failed to: the callback does not look.
DoneCallbackUncancelled(a) ==
    IF act[a].cancellable = "cancelled"
    THEN UNCHANGED <<act, session, online, preparing, asked>>
    ELSE Unref(act, session, a)
DoneCallback(a) == Unref(act, session, a)

StoreDone(a, store) ==
    /\ store \in pending[a]
    /\ act[a].refs > 0
    /\ pending' = [pending EXCEPT ![a] = @ \ {store}]
    /\ DoneCallback(a)
    /\ UNCHANGED <<preparingOnline, netAvail, locked, autoReconnect, timer,
                   started, asking>>

\* The task bar no longer shows the cancelled activity.
FeedbackEnds(a) ==
    /\ act[a].shown
    /\ Unref(act, session, a)
    /\ UNCHANGED <<preparingOnline, netAvail, locked, autoReconnect, timer,
                   started, pending, asking>>

Moves ==
    \/ \E line \in BOOLEAN : UserLine(line)
    \/ NetworkLost
    \/ NetworkBack
    \/ TimerFires
    \/ StartBackend
    \/ \E a \in Acts : UserCancel(a)
    \/ \E a \in Acts, store \in Stores : StoreDone(a, store)
    \/ \E a \in Acts : FeedbackEnds(a)

Next ==
    \/ Moves /\ UNCHANGED crossed
    \/ \E a \in Acts, synchronize \in BOOLEAN : Answer(a, synchronize)

\* Threads end, timeouts come, and a modal question is answered sooner or
\* later; nobody has to ask for a line or to lose the network.
Fairness ==
    /\ \A a \in Acts, store \in Stores : WF_vars(StoreDone(a, store) /\ UNCHANGED crossed)
    /\ \A a \in Acts : WF_vars(FeedbackEnds(a) /\ UNCHANGED crossed)
    /\ WF_vars(\E a \in Acts, synchronize \in BOOLEAN : Answer(a, synchronize))
    /\ WF_vars(TimerFires /\ UNCHANGED crossed)

Spec == Init /\ [][Next]_vars
FairSpec == Spec /\ Fairness

-----------------------------------------------------------------------------
(***************************************************************************)
(* Properties                                                              *)
(***************************************************************************)
\* Types, and an activity without a plain reference has been finalised: the
\* toggle reference of the shell never keeps one alive by itself.
Types ==
    /\ {online, preparingOnline, netAvail, locked, autoReconnect, timer,
        session, started, asked} \subseteq BOOLEAN
    /\ preparing \in Acts \cup {NoAct}
    /\ asking \in Acts \cup {NoAct}
    /\ act \in [Acts -> Activity]
    /\ \A a \in Acts : act[a].refs = 0 => act[a] = Finalized
    /\ pending \in [Acts -> SUBSET Stores]
TypeOK == Types /\ crossed \in BOOLEAN

\* The line changes only when every store has finished its preparation: what
\* the documentation of EShell::prepare-for-offline and -online promises to
\* the backends that keep a reference on the activity.  A crossed question
\* breaks the promise.
DelayedUntilReady ==
    [][online' # online => pending'[preparing] = {}]_vars

\* The same as long as no question has been crossed.
DelayedUnlessCrossed ==
    [][online' # online /\ ~crossed' => pending'[preparing] = {}]_vars

\* While a store is switching, the activity its callback will unreference is
\* still there (the reference each e_mail_store_go_* () call is given), as long
\* as no question has been crossed.
HeldWhileSwitching ==
    ~crossed => \A a \in Acts : pending[a] # {} => act[a].refs > 0

\* Only the latest preparation can still change the line: a superseded one,
\* however late its stores answer, cannot.
OnlyLatestFlips == \A a \in Acts : act[a].toggle => a = preparing

\* When no preparation is under way, the line is what was last asked for and
\* not cancelled, in whatever order stores answered and requests crossed.
LineAsAsked == preparing = NoAct => online = asked

\* When the shell is offline and stays so, the mail session is offline too: a
\* cancelled attempt to go online takes the session back down.
OfflineIsQuiet == preparing = NoAct /\ ~online => ~session

\* A preparation ends or is superseded, unless a question has been crossed.
PreparationEnds == \A a \in Acts : preparing = a ~> preparing # a \/ crossed

\* At rest the mail session is online exactly when the shell is: the
\* "online" binding of mail_ui_session_constructed ().
SessionFollowsShell ==
    (preparing = NoAct /\ asking = NoAct /\ \A a \in Acts : pending[a] = {})
        => session = online

\* Without a network the shell never comes online again: what the
\* documentation of e_shell_set_network_available () promises.
OfflineUntilNetwork == [][~online /\ online' => netAvail']_vars
=============================================================================
