----------------------------- MODULE ServiceUse -----------------------------
(***************************************************************************)
(* The table of the mail services in use (used_services of the session):   *)
(* threads that send mark a transport before they connect it, and wait     *)
(* while another thread has marked it.  One mutex protects the table; one  *)
(* condition variable serves the threads that wait, whatever service they  *)
(* wait for.  The cancellable of a waiting thread wakes everybody up, from *)
(* the thread that cancels and without the mutex.                          *)
(***************************************************************************)
CONSTANTS
  Threads,      \* threads that send messages
  Cancellable,  \* those of them whose calls have a cancellable
  Services      \* services, of type CamelTransport

ASSUME ServiceUseAssumption == Services # {} /\ Cancellable \subseteq Threads

VARIABLES
  used,    \* the hash table used_services
  pc,      \* where each thread is
  want,    \* the service it asked for last
  cancel,  \* its cancellable: no, set, or set and everybody woken up
  missed   \* history: a cancellation came between a test and what follows it,
           \* or a signal went to a thread that waits for another service

vars == <<used, pc, want, cancel, missed>>

\* "wait": in g_cond_wait; "woken": to test again; with the mutex held: "block",
\* the test has failed, "leave" and "mark", it is over; "return": the mutex is
\* released, the answer not yet given; "use": the caller was told TRUE.
Stages == {"out", "enter", "block", "wait", "woken", "leave", "mark", "return",
           "use"}
Holding == {"block", "leave", "mark"}

Init ==
  /\ used = {}
  /\ pc = [t \in Threads |-> "out"]
  /\ want = [t \in Threads |-> CHOOSE s \in Services : TRUE]
  /\ cancel = [t \in Threads |-> "no"]
  /\ missed = FALSE

LockFree == \A t \in Threads : pc[t] \notin Holding

Goes(t, stage) == pc' = [pc EXCEPT ![t] = stage]

(***************************************************************************)
(* e_mail_session_mark_service_used_sync                                   *)
(***************************************************************************)
Enter(t, s) ==
  /\ pc[t] = "out"
  /\ Goes(t, "enter")
  /\ want' = [want EXCEPT ![t] = s]
  /\ UNCHANGED <<used, cancel, missed>>

\* The condition of the loop.
\* Mutant: "if" where the code has "while".
MustWaitOnce(t) == cancel[t] = "no" /\ want[t] \in used /\ pc[t] = "enter"
MustWait(t) == cancel[t] = "no" /\ want[t] \in used

Test(t) ==
  /\ pc[t] \in {"enter", "woken"} /\ LockFree
  /\ Goes(t, IF MustWait(t) THEN "block" ELSE "leave")
  /\ UNCHANGED <<used, want, cancel, missed>>

\* g_cond_wait releases the mutex and waits in one step.
Block(t) ==
  /\ pc[t] = "block"
  /\ Goes(t, "wait")
  /\ UNCHANGED <<used, want, cancel, missed>>

\* g_cancellable_disconnect waits for callbacks that run.
Leave(t) ==
  /\ pc[t] = "leave" /\ cancel[t] # "set"
  /\ Goes(t, "mark")
  /\ UNCHANGED <<used, want, cancel, missed>>

\* The service is marked unless the cancellable is cancelled by now.
Mark(t) ==
  /\ pc[t] = "mark"
  /\ used' = IF cancel[t] = "no" THEN used \cup {want[t]} ELSE used
  /\ Goes(t, "return")
  /\ UNCHANGED <<want, cancel, missed>>

\* The answer reads the cancellable once more; when it is FALSE the caller
\* gives up, the next call comes with another cancellable.
Return(t) ==
  /\ pc[t] = "return"
  /\ Goes(t, IF cancel[t] = "no" THEN "use" ELSE "out")
  /\ cancel' = [cancel EXCEPT ![t] = "no"]
  /\ UNCHANGED <<used, want, missed>>

(***************************************************************************)
(* e_mail_session_unmark_service_used                                      *)
(***************************************************************************)
Waiting == {t \in Threads : pc[t] = "wait"}
WaitingFor(s) == {t \in Waiting : want[t] = s}

\* g_cond_signal wakes one of the waiting threads.
\* Mutant: nobody is woken up.
SignalNobody(t) == Goes(t, "out") /\ UNCHANGED missed
Signal(t) ==
  IF Waiting = {} THEN Goes(t, "out") /\ UNCHANGED missed
  ELSE \E w \in Waiting :
         /\ pc' = [pc EXCEPT ![t] = "out", ![w] = "woken"]
         /\ missed' = (missed \/ (want[w] # want[t] /\ WaitingFor(want[t]) # {}))

Unmark(t) ==
  /\ pc[t] = "use" /\ LockFree
  /\ used' = used \ {want[t]}
  /\ IF want[t] \in used THEN Signal(t) ELSE Goes(t, "out") /\ UNCHANGED missed
  /\ UNCHANGED <<want, cancel>>

(***************************************************************************)
(* Cancellation                                                            *)
(***************************************************************************)
\* g_cancellable_cancel sets the flag; the callback is connected until Leave.
Cancel(t) ==
  /\ t \in Cancellable /\ pc[t] \notin {"out", "use"} /\ cancel[t] = "no"
  /\ cancel' = [cancel EXCEPT ![t] = IF pc[t] \in {"mark", "return"} THEN "told"
                                    ELSE "set"]
  /\ missed' = (missed \/ pc[t] \in {"block", "mark", "return"})
  /\ UNCHANGED <<used, pc, want>>

\* mail_session_wakeup_used_services_cond: g_cond_broadcast.
Broadcast(t) ==
  /\ cancel[t] = "set"
  /\ cancel' = [cancel EXCEPT ![t] = "told"]
  /\ pc' = [u \in Threads |-> IF pc[u] = "wait" THEN "woken" ELSE pc[u]]
  /\ UNCHANGED <<used, want, missed>>

\* A condition variable may wake a thread for no reason.
Spurious(t) ==
  /\ pc[t] = "wait"
  /\ Goes(t, "woken")
  /\ UNCHANGED <<used, want, cancel, missed>>

(***************************************************************************)
(* Specification                                                           *)
(***************************************************************************)
Steps(t) == Test(t) \/ Block(t) \/ Leave(t) \/ Mark(t) \/ Return(t)
              \/ Broadcast(t)

Next == \E t \in Threads :
          \/ Steps(t) \/ Unmark(t) \/ Cancel(t) \/ Spurious(t)
          \/ \E s \in Services : Enter(t, s)

Spec == Init /\ [][Next]_vars

\* Threads run, a thread gets the mutex when that is free again and again, and
\* one that uses a service is done with it some time: connecting, sending and
\* disconnecting have timeouts.
FairSpec ==
  Spec /\ \A t \in Threads : WF_vars(Steps(t)) /\ SF_vars(Test(t) \/ Unmark(t))

(***************************************************************************)
(* Properties                                                              *)
(***************************************************************************)
TypeOK ==
  /\ used \subseteq Services
  /\ pc \in [Threads -> Stages]
  /\ want \in [Threads -> Services]
  /\ cancel \in [Threads -> {"no", "set", "told"}]
  /\ missed \in BOOLEAN

Users(s) == {t \in Threads : pc[t] = "use" /\ want[t] = s}

\* A service is never used by two threads, and it stays marked while one uses
\* it.
OneUser ==
  \A s \in Services : \A t, u \in Users(s) : t = u /\ s \in used

\* A thread does not wait for ever for a service that is free: somebody takes
\* it, or the thread goes on.  Not so once a cancellation came after a test of
\* the cancellable and before what depends on it, or the signal for a service
\* somebody waits for went to a thread that waits for another.
FreeIsTaken ==
  \A t \in Threads :
    (pc[t] = "wait" /\ want[t] \notin used)
      ~> (pc[t] # "wait" \/ want[t] \in used \/ missed)

(***************************************************************************)
(* e-mail-session.c:3073 says of e_mail_session_unmark_service_used "If    *)
(* anything is waiting for it ..., then it is woken up".  The one signal   *)
(* may go to a thread that waits for another service.                      *)
(***************************************************************************)
\* When a service is released, one of the threads that wait for it is woken.
WokenWhenReleased ==
  [][\A s \in used \ used' :
       WaitingFor(s) # {} => \E t \in WaitingFor(s) : pc'[t] = "woken"]_vars
=============================================================================
