------------------------------- MODULE MailJobs ------------------------------
(***************************************************************************)
(* What libemail-engine/mail-mt.c promises to the rest of the program, with*)
(* no queue, no lock, no reference count and no main loop in sight: an     *)
(* operation is executed once and finished once, a thread that waits for   *)
(* one is let go when it is finished, mail_msg_active() counts it until    *)
(* nobody has a use for it, and its memory goes last.                      *)
(***************************************************************************)
CONSTANTS Async,   \* operations pushed to a pool: exec() on a worker, done()
                   \* on the main thread
          Calls    \* functions another thread has the main thread run

Jobs == Async \cup Calls

VARIABLES status,  \* how far each job got
          blocked, \* the jobs whose caller waits for them
          active   \* what mail_msg_active() looks at

vars == <<status, blocked, active>>

Init == /\ status = [j \in Jobs |-> "idle"]
        /\ blocked = {}
        /\ active = {}

Move(j, from, to) == status[j] = from /\ status' = [status EXCEPT ![j] = to]

\* A caller waits for a call made from another thread than the main one.
Submit(j) == /\ Move(j, "idle", "submitted")
             /\ active' = active \cup {j}
             /\ \/ UNCHANGED blocked
                \/ j \in Calls /\ blocked' = blocked \cup {j}

Execute(j) == j \in Async /\ Move(j, "submitted", "executed") /\ UNCHANGED <<blocked, active>>

Finish(j) == /\ Move(j, IF j \in Async THEN "executed" ELSE "submitted", "finished")
             /\ UNCHANGED <<blocked, active>>

Unblock(j) == /\ j \in blocked /\ status[j] = "finished"
              /\ blocked' = blocked \ {j}
              /\ UNCHANGED <<status, active>>

\* The last user of the job lets go of it.
Retire(j) == /\ j \in active \ blocked /\ status[j] = "finished"
             /\ active' = active \ {j}
             /\ UNCHANGED <<status, blocked>>

Free(j) == j \notin active /\ Move(j, "finished", "freed") /\ UNCHANGED <<blocked, active>>

Progress(j) == Execute(j) \/ Finish(j) \/ Unblock(j) \/ Retire(j) \/ Free(j)

Next == \E j \in Jobs : Submit(j) \/ Progress(j)

\* Whatever was submitted goes all the way.
Spec == Init /\ [][Next]_vars /\ \A j \in Jobs : WF_vars(Progress(j))

=============================================================================
