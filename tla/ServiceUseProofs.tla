-------------------------- MODULE ServiceUseProofs --------------------------
(***************************************************************************)
(* OneUser for any number of threads and services.  It is not inductive:   *)
(* that a thread may mark its service depends on nobody having marked it   *)
(* since the test, and this on the mutex, which one thread holds.          *)
(***************************************************************************)
EXTENDS ServiceUse, TLAPS

\* A thread that has the service: told so, or about to be told so.
Owner(t) == pc[t] = "use" \/ (pc[t] = "return" /\ cancel[t] = "no")

\* A thread that will mark its service unless it is cancelled.
Marking(t) == pc[t] \in {"leave", "mark"} /\ cancel[t] = "no"

OwnedIsUsed == \A t \in Threads : Owner(t) => want[t] \in used

OneOwner ==
  \A t, u \in Threads : Owner(t) /\ Owner(u) /\ want[t] = want[u] => t = u

MarkingIsFree == \A t \in Threads : Marking(t) => want[t] \notin used

OneHolder ==
  \A t, u \in Threads : pc[t] \in Holding /\ pc[u] \in Holding => t = u

ServiceInv ==
  /\ TypeOK
  /\ OwnedIsUsed
  /\ OneOwner
  /\ MarkingIsFree
  /\ OneHolder

-----------------------------------------------------------------------------
LEMMA InitInv == Init => ServiceInv
  <1> SUFFICES ASSUME Init PROVE ServiceInv
    OBVIOUS
  <1>1. TypeOK
    BY ServiceUseAssumption DEF Init, TypeOK, Stages
  <1>2. \A t \in Threads : pc[t] = "out"
    BY DEF Init
  <1> QED
    BY <1>1, <1>2 DEF ServiceInv, OwnedIsUsed, OneOwner, MarkingIsFree, OneHolder,
                      Owner, Marking, Holding

\* A step that changes neither the table, nor what a thread waits for, and
\* makes no thread an owner, one that marks, or one that holds the mutex.
LEMMA Harmless ==
  ASSUME ServiceInv, TypeOK',
         UNCHANGED used,
         \A t \in Threads : /\ Owner(t)' => Owner(t) /\ want'[t] = want[t]
                            /\ Marking(t)' => Marking(t) /\ want'[t] = want[t]
                            /\ pc'[t] \in Holding => pc[t] \in Holding
  PROVE  ServiceInv'
  BY DEF ServiceInv, OwnedIsUsed, OneOwner, MarkingIsFree, OneHolder

\* The test of the loop is made by one thread, which gets the mutex.
LEMMA TestInv ==
  ASSUME ServiceInv, NEW t \in Threads, Test(t)
  PROVE  ServiceInv'
  <1> USE DEF ServiceInv
  <1>1. TypeOK'
    BY DEF Test, Goes, TypeOK, Stages
  <1>2. \A u \in Threads : u # t => pc'[u] = pc[u] /\ pc'[u] \notin Holding
    BY DEF Test, Goes, TypeOK, LockFree
  <1>3. \A u \in Threads : Owner(u)' <=> Owner(u)
    BY <1>2 DEF Test, Goes, TypeOK, Owner
  <1>4. OwnedIsUsed' /\ OneOwner'
    BY <1>3 DEF OwnedIsUsed, OneOwner, Test
  <1>5. Marking(t)' => want[t] \notin used
    BY DEF Test, Goes, TypeOK, Marking, MustWait
  <1>6. MarkingIsFree'
    BY <1>2, <1>5 DEF MarkingIsFree, Marking, Holding, Test
  <1>7. OneHolder'
    BY <1>2 DEF OneHolder
  <1> QED
    BY <1>1, <1>4, <1>6, <1>7

\* The thread that marks a service becomes its owner, and nobody else is.
LEMMA MarkInv ==
  ASSUME ServiceInv, NEW t \in Threads, Mark(t)
  PROVE  ServiceInv'
  <1> USE DEF ServiceInv
  <1>1. TypeOK'
    BY DEF Mark, Goes, TypeOK, Stages
  <1>2. pc[t] = "mark" /\ pc'[t] = "return" /\ UNCHANGED <<want, cancel>>
    BY DEF Mark, Goes, TypeOK
  <1>3. \A u \in Threads : u # t => pc'[u] = pc[u] /\ pc'[u] \notin Holding
    BY <1>2 DEF Mark, Goes, TypeOK, OneHolder, Holding
  <1>4. \A u \in Threads : u # t => (Owner(u)' <=> Owner(u))
    BY <1>2, <1>3 DEF Owner
  <1>5. Owner(t)' => /\ want[t] \in used'
                     /\ \A u \in Threads : Owner(u) => want[u] # want[t]
    BY <1>2 DEF Owner, Mark, Marking, MarkingIsFree, OwnedIsUsed
  <1>6. used \subseteq used'
    BY DEF Mark
  <1>7. OwnedIsUsed'
    BY <1>2, <1>4, <1>5, <1>6 DEF OwnedIsUsed
  <1>8. OneOwner'
    BY <1>2, <1>4, <1>5 DEF OneOwner
  <1>9. MarkingIsFree' /\ OneHolder'
    BY <1>2, <1>3 DEF MarkingIsFree, Marking, OneHolder, Holding
  <1> QED
    BY <1>1, <1>7, <1>8, <1>9

\* What is unmarked belongs to the thread that unmarks it, and to no other.
LEMMA UnmarkInv ==
  ASSUME ServiceInv, NEW t \in Threads, Unmark(t)
  PROVE  ServiceInv'
  <1> USE DEF ServiceInv
  <1>1. pc[t] = "use" /\ LockFree /\ UNCHANGED <<want, cancel>>
        /\ used' = used \ {want[t]}
    BY DEF Unmark
  <1>2. /\ pc' \in [Threads -> Stages] /\ pc'[t] = "out"
        /\ \A u \in Threads : u # t => pc'[u] = pc[u] \/ pc'[u] = "woken"
    <2>1. CASE want[t] \in used /\ Waiting # {}
      <3>1. PICK w \in Waiting : pc' = [pc EXCEPT ![t] = "out", ![w] = "woken"]
        BY <2>1 DEF Unmark, Signal
      <3>2. w \in Threads /\ w # t
        BY <1>1 DEF Waiting
      <3> QED
        BY <3>1, <3>2 DEF TypeOK, Stages
    <2>2. CASE ~(want[t] \in used /\ Waiting # {})
      BY <2>2 DEF Unmark, Signal, Goes, TypeOK, Stages
    <2> QED
      BY <2>1, <2>2
  <1>3. TypeOK'
    <2>1. missed' \in BOOLEAN
      <3>1. CASE want[t] \in used /\ Waiting # {}
        BY <3>1 DEF Unmark, Signal, TypeOK
      <3>2. CASE ~(want[t] \in used /\ Waiting # {})
        BY <3>2 DEF Unmark, Signal, TypeOK
      <3> QED
        BY <3>1, <3>2
    <2> QED
      BY <1>1, <1>2, <2>1 DEF TypeOK
  <1>4. \A u \in Threads : Owner(u)' => u # t /\ Owner(u)
    BY <1>1, <1>2 DEF Owner
  <1>5. Owner(t)
    BY <1>1 DEF Owner
  <1>6. OwnedIsUsed'
    BY <1>1, <1>4, <1>5 DEF OwnedIsUsed, OneOwner
  <1>7. OneOwner'
    BY <1>1, <1>4 DEF OneOwner
  <1>8. \A u \in Threads : pc'[u] \notin Holding
    BY <1>1, <1>2 DEF LockFree, Holding
  <1>9. MarkingIsFree' /\ OneHolder'
    BY <1>8 DEF MarkingIsFree, Marking, OneHolder, Holding
  <1> QED
    BY <1>3, <1>6, <1>7, <1>9

\* The other steps are harmless.
LEMMA OthersInv ==
  ASSUME ServiceInv, NEW t \in Threads,
         \/ Block(t) \/ Leave(t) \/ Return(t) \/ Cancel(t) \/ Broadcast(t)
         \/ Spurious(t) \/ \E s \in Services : Enter(t, s)
  PROVE  ServiceInv'
  <1> USE DEF TypeOK, Owner, Marking, Holding
  <1>0. TypeOK
    BY DEF ServiceInv
  <1>1. CASE Block(t) \/ Leave(t) \/ Spurious(t)
    <2>1. TypeOK' /\ UNCHANGED used
      BY <1>0, <1>1 DEF Block, Leave, Spurious, Goes, Stages
    <2>2. \A u \in Threads : /\ Owner(u)' => Owner(u) /\ want'[u] = want[u]
                             /\ Marking(u)' => Marking(u) /\ want'[u] = want[u]
                             /\ pc'[u] \in Holding => pc[u] \in Holding
      BY <1>0, <1>1 DEF Block, Leave, Spurious, Goes
    <2> QED
      BY <2>1, <2>2, Harmless
  <1>2. CASE Return(t)
    <2>1. TypeOK' /\ UNCHANGED used
      BY <1>0, <1>2 DEF Return, Goes, Stages
    <2>2. \A u \in Threads : /\ Owner(u)' => Owner(u) /\ want'[u] = want[u]
                             /\ Marking(u)' => Marking(u) /\ want'[u] = want[u]
                             /\ pc'[u] \in Holding => pc[u] \in Holding
      BY <1>0, <1>2 DEF Return, Goes
    <2> QED
      BY <2>1, <2>2, Harmless
  <1>3. CASE Cancel(t) \/ Broadcast(t)
    <2>1. TypeOK' /\ UNCHANGED used
      BY <1>0, <1>3 DEF Cancel, Broadcast, Stages
    <2>2. \A u \in Threads : /\ Owner(u)' => Owner(u) /\ want'[u] = want[u]
                             /\ Marking(u)' => Marking(u) /\ want'[u] = want[u]
                             /\ pc'[u] \in Holding => pc[u] \in Holding
      BY <1>0, <1>3 DEF Cancel, Broadcast
    <2> QED
      BY <2>1, <2>2, Harmless
  <1>4. ASSUME NEW s \in Services, Enter(t, s) PROVE ServiceInv'
    <2>1. TypeOK' /\ UNCHANGED used
      BY <1>0, <1>4 DEF Enter, Goes, Stages
    <2>2. \A u \in Threads : /\ Owner(u)' => Owner(u) /\ want'[u] = want[u]
                             /\ Marking(u)' => Marking(u) /\ want'[u] = want[u]
                             /\ pc'[u] \in Holding => pc[u] \in Holding
      BY <1>0, <1>4 DEF Enter, Goes
    <2> QED
      BY <2>1, <2>2, Harmless
  <1> QED
    BY <1>1, <1>2, <1>3, <1>4

\* For any number of threads and services: a mail service has one user at a
\* time, however cancellations, signals and spurious wakeups interleave, and
\* stays marked until that user is done.
THEOREM OneUserAlways == Spec => [](TypeOK /\ OneUser)
  <1>1. Init => ServiceInv
    BY InitInv
  <1>2. ServiceInv /\ [Next]_vars => ServiceInv'
    <2> SUFFICES ASSUME ServiceInv, [Next]_vars PROVE ServiceInv'
      OBVIOUS
    <2>1. CASE UNCHANGED vars
      BY <2>1 DEF vars, ServiceInv, TypeOK, OwnedIsUsed, OneOwner, MarkingIsFree,
                  OneHolder, Owner, Marking
    <2>2. ASSUME NEW t \in Threads,
                 \/ Steps(t) \/ Unmark(t) \/ Cancel(t) \/ Spurious(t)
                 \/ \E s \in Services : Enter(t, s)
          PROVE  ServiceInv'
      BY <2>2, TestInv, MarkInv, UnmarkInv, OthersInv DEF Steps
    <2> QED
      BY <2>1, <2>2 DEF Next
  <1>3. ServiceInv => TypeOK /\ OneUser
    BY DEF ServiceInv, OwnedIsUsed, OneOwner, OneUser, Users, Owner
  <1> QED
    BY <1>1, <1>2, <1>3, PTL DEF Spec
=============================================================================
