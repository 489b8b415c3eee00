-------------------------- MODULE ContentHashProofs --------------------------
(***************************************************************************)
(* Until the autosave begins the protocol of ContentHash is right, for any *)
(* number of operations: the composer is busy from the start of one to its *)
(* end, so there is one at a time, its two references are the count, and   *)
(* the text cannot change under it.  Afterwards, whatever overlaps, the    *)
(* text goes with its last user and is not older than the overlap.         *)
(***************************************************************************)
EXTENDS ContentHash, Integers, FiniteSetTheorems, TLAPS

(* One operation at a time; the count is what it owes.                     *)
OneAtATime == \A o, p \in Active : o = p
Counted ==
  /\ Active = {} => count = 0
  /\ \A o \in Active : count = Owes(o)
  /\ hash = NoContent <=> count = 0
  /\ warned = {}
  /\ \A o \in Ops : at[o] # "refetching"

(* Nothing is typed while it runs.                                         *)
Current ==
  /\ \A o \in Active : asked[o] = rev
  /\ hash # NoContent => hash = rev
  /\ \A o \in Ops : built[o] # NoContent => built[o] = asked[o]
  /\ \A o \in Ops : at[o] = "idle" => built[o] = NoContent

AloneInv == TypeOK /\ OneAtATime /\ Counted /\ Current

-----------------------------------------------------------------------------
\* A revision is not NoContent.
LEMMA RevisionIsContent ==
  ASSUME NEW r \in Revisions PROVE r # NoContent /\ r \in Int
  BY ContentHashAssumption DEF Revisions, NoContent

\* A snapshot that is not idle has begun.
LEMMA SnapshotsIdle == ASSUME Alone, NEW o \in Ops, at[o] # "idle" PROVE o \notin Snapshots
  BY DEF Alone

\* What a user's operation owes, stage by stage.
LEMMA OwesByStage ==
  ASSUME NEW o \in UserOps
  PROVE  /\ OwesAt(o, "building") = 2
         /\ \A s \in {"deferred", "asking", "answered", "failing"} : OwesAt(o, s) = 1
         /\ \A s \in {"idle", "fetching"} \cup Over : OwesAt(o, s) = 0
  BY DEF OwesAt, Over

\* An operation that has moved owes what its new stage says.
LEMMA OwesNext ==
  ASSUME TypeOK, NEW o \in Ops, NEW s, at' = [at EXCEPT ![o] = s]
  PROVE  Owes(o)' = OwesAt(o, s)
<1>1. at'[o] = s BY DEF TypeOK
<1> QED BY <1>1 DEF Owes

\* The rest of the state: the check of the key bears on it only through the
\* stages of the sends.
Rest == <<rev, hash, count, at, asked, built, warned, since>>

\* The check is not made, under way or complete.
LEMMA KeysStay == ASSUME keys \in Checks, [Next]_vars PROVE keys' \in Checks
<1> USE DEF Checks, Checked
<1>1. CASE UNCHANGED vars BY <1>1 DEF vars
<1>2. CASE Edit \/ Recheck \/ KeyKnown BY <1>2 DEF Edit, Recheck, KeyKnown
<1>3. ASSUME NEW o \in Ops, NEW r, Proceed(o, r) PROVE keys' \in Checks
  BY <1>3 DEF Proceed, DeferOrAsk
<1>4. ASSUME NEW o \in Ops, Start(o) PROVE keys' \in Checks BY <1>3, <1>4 DEF Start
<1>5. ASSUME NEW o \in Ops, ContentReady(o) PROVE keys' \in Checks
  BY <1>3, <1>5 DEF ContentReady
<1>6. ASSUME NEW o \in Ops, KeyReady(o) \/ Cancelled(o) PROVE keys' \in Checks
  BY <1>6 DEF KeyReady, Cancelled
<1>7. ASSUME NEW o \in Ops,
             \/ ContentFails(o) \/ Refused(o) \/ Agreed(o) \/ ContentReadyAgain(o)
             \/ ContentFailsAgain(o) \/ Built(o) \/ Finish(o)
      PROVE  keys' \in Checks
  BY <1>7 DEF ContentFails, Refused, Agreed, ContentReadyAgain, ContentFailsAgain, Built, Finish
<1> QED BY <1>1, <1>2, <1>4, <1>5, <1>6, <1>7 DEF Next

\* Nothing has begun.
LEMMA InitAlone == ASSUME Init PROVE AloneInv
<1> USE ContentHashAssumption DEF Init
<1>1. TypeOK BY DEF TypeOK, Revisions, NoContent, Stages, Checks, Checked
<1>2. Active = {} BY DEF Active
<1>3. OneAtATime BY <1>2 DEF OneAtATime
<1>4. Counted BY <1>2 DEF Counted
<1>5. Current BY <1>2 DEF Current
<1> QED BY <1>1, <1>3, <1>4, <1>5 DEF AloneInv

-----------------------------------------------------------------------------
\* An edit happens between operations, when there is no text to grow old.
LEMMA EditAlone == ASSUME Alone, AloneInv, keys' \in Checks, Edit PROVE AloneInv'
<1> USE ContentHashAssumption DEF Edit, AloneInv
<1>1. Active = {} /\ Active' = {} BY DEF Busy, Active, Ops, Alone
<1>2. count = 0 /\ hash = NoContent BY <1>1 DEF Counted
<1>3. TypeOK'
  <2>1. rev \in Revisions BY DEF TypeOK
  <2>2. rev + 1 \in Revisions BY <2>1 DEF Revisions
  <2> QED BY <2>2 DEF TypeOK
<1>4. OneAtATime' BY <1>1 DEF OneAtATime
<1>5. Counted' BY <1>1 DEF Counted
<1>6. Current' BY <1>1, <1>2 DEF Current
<1> QED BY <1>3, <1>4, <1>5, <1>6

\* An operation starts when there is no other, so it finds no text.
LEMMA StartAlone ==
  ASSUME Alone, AloneInv, keys' \in Checks, NEW o \in Ops, Start(o)
  PROVE  AloneInv'
<1> USE ContentHashAssumption DEF AloneInv
<1>1. Active = {} BY DEF Start, Busy, Active, Ops, Alone
<1>2. count = 0 /\ hash = NoContent BY <1>1 DEF Counted
<1>3. /\ at' = [at EXCEPT ![o] = "fetching"]
      /\ asked' = [asked EXCEPT ![o] = rev]
      /\ UNCHANGED <<rev, hash, count, built, warned>>
      /\ at[o] = "idle"
  BY <1>2 DEF Start, Cached
<1>4. since' \in Revisions BY DEF Start, TypeOK
<1>5. TypeOK' BY <1>3, <1>4 DEF TypeOK, Stages
<1>6. Active' = {o} BY <1>1, <1>3 DEF Active, TypeOK, Over
<1>7. OneAtATime' BY <1>6 DEF OneAtATime
<1>8. at'[o] = "fetching" /\ \A p \in Ops \ {o} : at'[p] = at[p] BY <1>3 DEF TypeOK
<1>9. Owes(o)' = 0 BY <1>8 DEF Owes, OwesAt
<1>10. Counted' BY <1>2, <1>3, <1>6, <1>8, <1>9 DEF Counted
<1>11. asked'[o] = rev /\ \A p \in Ops \ {o} : asked'[p] = asked[p] BY <1>3 DEF TypeOK
<1>12. Current' BY <1>2, <1>3, <1>6, <1>8, <1>11 DEF Current
<1> QED BY <1>5, <1>7, <1>10, <1>12

-----------------------------------------------------------------------------
(* The steps of the operation that runs.  Each moves it alone to another   *)
(* stage and leaves the count at what it owes there.                       *)

\* While o runs it is the only one, the count is its own, its text is current.
LEMMA OnlyOne ==
  ASSUME Alone, AloneInv, NEW o \in Active
  PROVE  /\ Active = {o} /\ o \in UserOps /\ o \in Ops
         /\ count = OwesAt(o, at[o]) /\ asked[o] = rev
         /\ hash = IF count = 0 THEN NoContent ELSE rev
  BY DEF AloneInv, OneAtATime, Counted, Current, Active, Ops, TypeOK, Owes, Alone

\* A step of o that keeps all this.
LEMMA StepOfOne ==
  ASSUME Alone, AloneInv, keys' \in Checks, NEW o \in Active,
         NEW s \in Stages \ {"idle", "refetching"}, at' = [at EXCEPT ![o] = s],
         count' = OwesAt(o, s), hash' = IF count' = 0 THEN NoContent ELSE rev,
         built' = built \/ built' = [built EXCEPT ![o] = rev],
         rev' = rev, asked' = asked, warned' = warned, since' = since
  PROVE  AloneInv'
<1> USE ContentHashAssumption DEF AloneInv
<1>1. /\ Active = {o} /\ o \in UserOps /\ o \in Ops
      /\ asked[o] = rev
  BY OnlyOne
<1>2. at'[o] = s /\ \A p \in Ops \ {o} : at'[p] = at[p] BY <1>1 DEF TypeOK
<1>3. Active' \subseteq {o} BY <1>1, <1>2 DEF Active
<1>4. count' \in {0, 1, 2} /\ count' = Owes(o)' BY <1>1, OwesNext DEF OwesAt
<1>5. TypeOK'
  <2>1. built' \in [Ops -> Revisions \cup {NoContent}] BY DEF TypeOK
  <2>2. at' \in [Ops -> Stages] BY DEF TypeOK
  <2>3. hash' \in Revisions \cup {NoContent} BY DEF TypeOK
  <2>4. count' \in Nat BY <1>4
  <2> QED BY <2>1, <2>2, <2>3, <2>4 DEF TypeOK
<1>6. OneAtATime' BY <1>3 DEF OneAtATime
<1>7. Counted'
  <2>1. Active' = {} => count' = 0
    <3>1. SUFFICES ASSUME Active' = {} PROVE s \in Over
      BY OwesByStage, <1>1
    <3> QED BY <1>1, <1>2, <3>1 DEF Active
  <2>2. hash' = NoContent <=> count' = 0
    <3>1. rev # NoContent
      <4>1. rev \in Revisions BY DEF TypeOK
      <4> QED BY <4>1, RevisionIsContent
    <3> QED BY <3>1
  <2>3. \A p \in Ops : at'[p] # "refetching" BY <1>2 DEF Counted
  <2> QED BY <1>3, <1>4, <2>1, <2>2, <2>3 DEF Counted
<1>8. Current'
  <2>1. \A p \in Active' : asked'[p] = rev' BY <1>1, <1>3
  <2>2. hash' # NoContent => hash' = rev' OBVIOUS
  <2>3. \A p \in Ops : built'[p] # NoContent => built'[p] = asked'[p]
    BY <1>1 DEF Current, TypeOK
  <2>4. \A p \in Ops : at'[p] = "idle" => built'[p] = NoContent
    BY <1>2 DEF Current, TypeOK
  <2> QED BY <2>1, <2>2, <2>3, <2>4 DEF Current
<1> QED BY <1>5, <1>6, <1>7, <1>8

\* The editor has been asked for the current text and answers with it.
LEMMA ContentReadyAlone ==
  ASSUME Alone, AloneInv, keys' \in Checks, NEW o \in Ops, ContentReady(o)
  PROVE  AloneInv'
<1>1. o \in Active /\ at[o] = "fetching" BY DEF ContentReady, Active, Over
<1>2. /\ o \in UserOps /\ count = 0
      /\ asked[o] = rev /\ hash = NoContent
  BY <1>1, OnlyOne, OwesByStage
<1>3. rev \in Int /\ asked[o] .. rev = {rev}
  <2>1. rev \in Int BY RevisionIsContent DEF AloneInv, TypeOK
  <2> QED BY <1>2, <2>1
<1>4. Store(rev, Uses(o)) /\ Proceed(o, rev) /\ UNCHANGED <<rev, asked, since>>
  BY <1>3 DEF ContentReady
<1>5. hash' = rev /\ count' = Uses(o) /\ UNCHANGED warned
  BY <1>2, <1>4 DEF Store
<1>6. at \in [Ops -> Stages] BY DEF AloneInv, TypeOK
<1>7. PICK s \in {"deferred", "asking", "building"} :
        /\ at' = [at EXCEPT ![o] = s] /\ Uses(o) = OwesAt(o, s)
        /\ built' = built \/ built' = [built EXCEPT ![o] = rev]
  <2>1. CASE o \in Sends
    <3>1. Uses(o) = 1 BY <2>1, ContentHashAssumption DEF Uses
    <3>2. built' = built BY <1>4, <2>1 DEF Proceed
    <3>3. PICK s \in {"deferred", "asking"} : at' = [at EXCEPT ![o] = s]
      BY <1>4, <2>1 DEF Proceed, DeferOrAsk
    <3> QED BY <1>2, <3>1, <3>2, <3>3, OwesByStage
  <2>2. CASE o \notin Sends
    <3>1. Uses(o) = 2 BY <1>2, <2>2 DEF Uses, UserOps
    <3> QED BY <1>2, <1>4, <2>2, <3>1, OwesByStage DEF Proceed
  <2> QED BY <2>1, <2>2
<1>8. s \in Stages \ {"idle", "refetching"} BY DEF Stages
<1>9. count' = OwesAt(o, s) /\ count' # 0 BY <1>2, <1>5, <1>7 DEF Uses
<1>10. hash' = IF count' = 0 THEN NoContent ELSE rev BY <1>5, <1>9
<1>11. rev' = rev /\ asked' = asked /\ warned' = warned /\ since' = since BY <1>4, <1>5
<1> QED BY <1>1, <1>7, <1>8, <1>9, <1>10, <1>11, StepOfOne, Zenon

\* An operation that owes at least one reference drops one.
LEMMA UnrefAlone ==
  ASSUME Alone, AloneInv, keys' \in Checks, NEW o \in Active,
         NEW s \in Stages \ {"idle", "refetching"}, at' = [at EXCEPT ![o] = s],
         OwesAt(o, at[o]) = OwesAt(o, s) + 1, OwesAt(o, s) \in Nat, Unref,
         UNCHANGED <<rev, asked, built, since>>
  PROVE  AloneInv'
<1>1. count = OwesAt(o, s) + 1 /\ count \in Nat /\ hash = rev
  <2>1. count = OwesAt(o, at[o]) /\ hash = IF count = 0 THEN NoContent ELSE rev
    BY OnlyOne, Zenon
  <2> QED BY <2>1
<1>2. /\ count' = count - 1 /\ UNCHANGED warned
      /\ hash' = IF count = 1 THEN NoContent ELSE hash
  <2>1. count # 0 BY <1>1
  <2> QED BY <2>1, Zenon DEF Unref
<1>3. count' = OwesAt(o, s) BY <1>1, <1>2
<1>4. hash' = IF count' = 0 THEN NoContent ELSE rev BY <1>1, <1>2
<1>5. rev' = rev /\ asked' = asked /\ built' = built /\ since' = since OBVIOUS
<1> QED BY <1>2, <1>3, <1>4, <1>5, StepOfOne, Zenon

-----------------------------------------------------------------------------
\* Every step keeps the invariant.
LEMMA NextAlone ==
  ASSUME Alone, AloneInv, [Next]_vars
  PROVE  AloneInv'
<1> USE ContentHashAssumption
<1>k. keys' \in Checks BY KeysStay DEF AloneInv, TypeOK
<1> USE <1>k
<1>1. CASE UNCHANGED Rest
  <2>1. TypeOK' BY <1>1 DEF Rest, AloneInv, TypeOK
  <2>2. Active' = Active BY <1>1 DEF Rest, Active
  <2>3. OneAtATime' BY <2>2 DEF AloneInv, OneAtATime
  <2>4. \A o \in Ops : Owes(o)' = Owes(o) BY <1>1 DEF Rest, Owes
  <2>5. Active \subseteq Ops BY DEF Active
  <2>6. Counted' BY <1>1, <2>2, <2>4, <2>5 DEF Rest, AloneInv, Counted
  <2>7. Current' BY <1>1, <2>2 DEF Rest, AloneInv, Current
  <2> QED BY <2>1, <2>3, <2>6, <2>7 DEF AloneInv
<1>2. CASE Edit BY <1>2, EditAlone
<1>3. ASSUME NEW o \in Ops, Start(o) PROVE AloneInv' BY <1>3, StartAlone
<1>4. ASSUME NEW o \in Ops, ContentReady(o) PROVE AloneInv' BY <1>4, ContentReadyAlone
<1>5. ASSUME NEW o \in Ops, ContentFails(o) PROVE AloneInv'
  <2>1. /\ o \in Active /\ at[o] = "fetching" /\ at' = [at EXCEPT ![o] = "failed"]
        /\ UNCHANGED <<rev, asked, built, since, hash, count, warned>>
    BY <1>5, SnapshotsIdle DEF ContentFails, Active, Over
  <2>2. o \in UserOps /\ count = 0 /\ hash = NoContent
    BY <2>1, OnlyOne, OwesByStage
  <2>3. OwesAt(o, "failed") = 0 BY <2>2, OwesByStage DEF Over
  <2>4. "failed" \in Stages \ {"idle", "refetching"} BY DEF Stages
  <2>5. count' = OwesAt(o, "failed") /\ hash' = IF count' = 0 THEN NoContent ELSE rev
    BY <2>1, <2>2, <2>3
  <2>6. built' = built /\ rev' = rev /\ asked' = asked /\ warned' = warned /\ since' = since
    BY <2>1
  <2> QED BY <2>1, <2>4, <2>5, <2>6, StepOfOne, Zenon
<1>6. ASSUME NEW o \in Ops, KeyReady(o) PROVE AloneInv'
  <2>1. /\ o \in Active /\ at[o] = "deferred" /\ at' = [at EXCEPT ![o] = "asking"]
        /\ UNCHANGED <<rev, asked, built, since, hash, count, warned>>
    BY <1>6 DEF KeyReady, Continues, Active, Over
  <2>2. o \in UserOps /\ count = 1 /\ hash = rev
    BY <2>1, OnlyOne, OwesByStage
  <2>3. OwesAt(o, "asking") = 1 BY <2>2, OwesByStage
  <2>4. "asking" \in Stages \ {"idle", "refetching"} BY DEF Stages
  <2>5. count' = OwesAt(o, "asking") /\ hash' = IF count' = 0 THEN NoContent ELSE rev
    BY <2>1, <2>2, <2>3
  <2>6. built' = built /\ rev' = rev /\ asked' = asked /\ warned' = warned /\ since' = since
    BY <2>1
  <2> QED BY <2>1, <2>4, <2>5, <2>6, StepOfOne, Zenon
<1>7. ASSUME NEW o \in Ops, Cancelled(o) \/ Refused(o) PROVE AloneInv'
  <2>1. /\ o \in Active /\ at[o] \in {"deferred", "asking"}
        /\ at' = [at EXCEPT ![o] = "failed"]
        /\ Unref /\ UNCHANGED <<rev, asked, built, since>>
    BY <1>7 DEF Cancelled, Refused, Drop, Active, Over
  <2>2. OwesAt(o, at[o]) = 1 /\ OwesAt(o, "failed") = 0
    BY <2>1, OnlyOne, OwesByStage DEF Over
  <2>3. "failed" \in Stages \ {"idle", "refetching"} BY DEF Stages
  <2>4. OwesAt(o, at[o]) = OwesAt(o, "failed") + 1 /\ OwesAt(o, "failed") \in Nat BY <2>2
  <2> QED BY <2>1, <2>3, <2>4, UnrefAlone, Zenon
<1>8. ASSUME NEW o \in Ops, Agreed(o) PROVE AloneInv'
  <2>1. o \in Active /\ at[o] = "asking" BY <1>8 DEF Agreed, Active, Over
  <2>2. o \in UserOps /\ count = 1 /\ hash = rev
    BY <2>1, OnlyOne, OwesByStage
  <2>3. hash # NoContent BY <2>2 DEF AloneInv, Counted
  <2>4. /\ at' = [at EXCEPT ![o] = "building"] /\ built' = [built EXCEPT ![o] = rev]
        /\ count' = 2 /\ UNCHANGED <<rev, asked, since, hash, warned>>
    BY <1>8, <2>2, <2>3 DEF Agreed, Cached
  <2>5. OwesAt(o, "building") = 2 BY <2>2, OwesByStage
  <2>6. "building" \in Stages \ {"idle", "refetching"} BY DEF Stages
  <2>7. count' = OwesAt(o, "building") /\ hash' = IF count' = 0 THEN NoContent ELSE rev
    BY <2>2, <2>4, <2>5
  <2>8. rev' = rev /\ asked' = asked /\ warned' = warned /\ since' = since BY <2>4
  <2> QED BY <2>1, <2>4, <2>6, <2>7, <2>8, StepOfOne, Zenon
<1>9. ASSUME NEW o \in Ops, ContentReadyAgain(o) \/ ContentFailsAgain(o) PROVE AloneInv'
  BY <1>9 DEF ContentReadyAgain, ContentFailsAgain, AloneInv, Counted
<1>10. ASSUME NEW o \in Ops, Built(o) PROVE AloneInv'
  <2>1. /\ o \in Active /\ at[o] = "building" /\ Unref
        /\ UNCHANGED <<rev, asked, built, since>>
    BY <1>10 DEF Built, Active, Over
  <2>2. o \in UserOps BY <2>1, OnlyOne
  <2>3. PICK s \in {"answered", "failing"} : at' = [at EXCEPT ![o] = s]
    <3>1. o \notin Snapshots BY <2>1, SnapshotsIdle
    <3> QED BY <1>10, <3>1 DEF Built
  <2>4. OwesAt(o, at[o]) = 2 /\ OwesAt(o, s) = 1 BY <2>1, <2>2, OwesByStage
  <2>5. s \in Stages \ {"idle", "refetching"} BY DEF Stages
  <2>6. OwesAt(o, at[o]) = OwesAt(o, s) + 1 /\ OwesAt(o, s) \in Nat BY <2>4
  <2> QED BY <2>1, <2>3, <2>5, <2>6, UnrefAlone, Zenon
<1>11. ASSUME NEW o \in Ops, Finish(o) PROVE AloneInv'
  <2>1. /\ o \in Active /\ at[o] \in {"answered", "failing"} /\ Unref
        /\ UNCHANGED <<rev, asked, built, since>>
    BY <1>11 DEF Finish, Drop, Active, Over
  <2>2. o \in UserOps BY <2>1, OnlyOne
  <2>3. PICK s \in Over : at' = [at EXCEPT ![o] = s] BY <1>11 DEF Finish, Over
  <2>4. OwesAt(o, at[o]) = 1 /\ OwesAt(o, s) = 0 BY <2>1, <2>2, OwesByStage
  <2>5. s \in Stages \ {"idle", "refetching"} BY DEF Stages, Over
  <2>6. OwesAt(o, at[o]) = OwesAt(o, s) + 1 /\ OwesAt(o, s) \in Nat BY <2>4
  <2> QED BY <2>1, <2>3, <2>5, <2>6, UnrefAlone, Zenon
<1>12. UNCHANGED vars \/ Recheck \/ KeyKnown => UNCHANGED Rest
  BY DEF vars, Rest, Recheck, KeyKnown
<1> QED BY <1>1, <1>2, <1>3, <1>4, <1>5, <1>6, <1>7, <1>8, <1>9, <1>10, <1>11, <1>12 DEF Next

-----------------------------------------------------------------------------
\* What has begun never looks as if it had not.
LEMMA StillBegun ==
  ASSUME at \in [Ops -> Stages], [Next]_vars
  PROVE  at' \in [Ops -> Stages] /\ (Alone' => Alone)
<1>1. at' = at \/ \E o \in Ops, s \in Stages \ {"idle"} : at' = [at EXCEPT ![o] = s]
  <2>1. {"fetching", "deferred", "asking", "refetching", "building", "answered",
         "failing", "done", "failed"} = Stages \ {"idle"}
    BY DEF Stages
  <2>2. CASE UNCHANGED vars BY <2>2 DEF vars
  <2>3. CASE Edit \/ Recheck \/ KeyKnown BY <2>3 DEF Edit, Recheck, KeyKnown
  <2>4. ASSUME NEW o \in Ops, Start(o) PROVE <1>1 BY <2>1, <2>4 DEF Start, Proceed, DeferOrAsk
  <2>5. ASSUME NEW o \in Ops, ContentReady(o) PROVE <1>1
    BY <2>1, <2>5 DEF ContentReady, Proceed, DeferOrAsk
  <2>6. ASSUME NEW o \in Ops, ContentFails(o) \/ KeyReady(o) \/ Cancelled(o) \/ Refused(o)
        PROVE  <1>1
    BY <2>1, <2>6 DEF ContentFails, KeyReady, Cancelled, Refused
  <2>7. ASSUME NEW o \in Ops, Agreed(o) PROVE <1>1 BY <2>1, <2>7 DEF Agreed
  <2>8. ASSUME NEW o \in Ops, ContentReadyAgain(o) \/ ContentFailsAgain(o) PROVE <1>1
    BY <2>1, <2>8 DEF ContentReadyAgain, ContentFailsAgain
  <2>9. ASSUME NEW o \in Ops, Built(o) PROVE <1>1 BY <2>1, <2>9 DEF Built, Over
  <2>10. ASSUME NEW o \in Ops, Finish(o) PROVE <1>1 BY <2>1, <2>10 DEF Finish
  <2> QED BY <2>2, <2>3, <2>4, <2>5, <2>6, <2>7, <2>8, <2>9, <2>10 DEF Next
<1>2. Snapshots \subseteq Ops BY DEF Ops
<1> QED BY <1>1, <1>2 DEF Alone

\* Before the autosave has asked for a message, whatever the number of sends,
\* saves, failures, refusals and deferrals, every message holds everything
\* typed before the user asked for it, and no assertion of the protocol fails:
\* e_msg_composer_prepare_content_hash() and its callers.
THEOREM UserOperationsSafe == Spec => [](AloneNothingIsMissing /\ AloneNoWarning)
<1> DEFINE Inv == at \in [Ops -> Stages] /\ (Alone => AloneInv)
<1>1. Init => Inv
  <2>1. Init => at \in [Ops -> Stages] BY DEF Init, Stages
  <2> QED BY <2>1, InitAlone
<1>2. Inv /\ [Next]_vars => Inv' BY NextAlone, StillBegun
<1>3. Inv => AloneNothingIsMissing /\ AloneNoWarning
  <2>1. SUFFICES ASSUME Alone, AloneInv PROVE NothingTypedIsMissing /\ warned = {}
    BY DEF AloneNothingIsMissing, AloneNoWarning
  <2>2. ASSUME NEW o \in UserOps, built[o] # NoContent PROVE built[o] >= asked[o]
    <3>1. built[o] = asked[o] /\ asked[o] \in Revisions
      BY <2>1, <2>2 DEF AloneInv, Current, TypeOK, Ops
    <3> QED BY <3>1, RevisionIsContent
  <2> QED BY <2>1, <2>2 DEF NothingTypedIsMissing, AloneInv, Counted
<1> QED BY <1>1, <1>2, <1>3, PTL DEF Spec
\* The same as a theorem of its own: before the autosave has asked for a
\* message no answer of the editor overwrites text that is in use, and no
\* reference is dropped that was not taken.
THEOREM NoAssertionFails == Spec => []AloneNoWarning
BY UserOperationsSafe, PTL

-----------------------------------------------------------------------------
(* Whatever overlaps, snapshots included.                                  *)

(* Somebody will give up what is counted; nothing is older than the        *)
(* overlap, and no answer that is awaited can be; only a send asks.        *)
Waiting  == {"fetching", "refetching"}
Asking   == {"deferred", "asking"}
Warnings == {"overwritten", "not counted"}

Kept == IsFiniteSet(Debts) /\ KeptForUsers
Fresh ==
  /\ rev >= since
  /\ NotOlderThanOverlap
  /\ \A o \in Ops : at[o] \in Waiting => asked[o] >= since
Asks == \A o \in Ops : at[o] \in Asking => o \in Sends

SharedInv == TypeOK /\ Kept /\ Fresh /\ Asks

\* The references a stage owes are none, one or two.
LEMMA OwesFew == ASSUME NEW o, NEW s PROVE OwesAt(o, s) \in {0, 1, 2}
  BY DEF OwesAt

\* The k references of one operation, and what the others owe.
Pairs(o, k) == {<<o, i>> : i \in {j \in {1, 2} : j <= k}}

LEMMA OneMore ==
  ASSUME NEW R, IsFiniteSet(R), NEW o, NEW k \in {0, 1, 2}, Pairs(o, 2) \cap R = {}
  PROVE  /\ IsFiniteSet(R \cup Pairs(o, k))
         /\ Cardinality(R \cup Pairs(o, k)) = Cardinality(R) + k
<1> SUFFICES ASSUME NEW a, a = <<o, 1>>, NEW b, b = <<o, 2>>
             PROVE  /\ IsFiniteSet(R \cup Pairs(o, k))
                    /\ Cardinality(R \cup Pairs(o, k)) = Cardinality(R) + k
  OBVIOUS
<1>1. /\ a # b
      /\ Pairs(o, 0) = {} /\ Pairs(o, 1) = {a} /\ Pairs(o, 2) = {a} \cup {b}
  <2>1. {j \in {1, 2} : j <= 0} = {} /\ {j \in {1, 2} : j <= 1} = {1}
        /\ {j \in {1, 2} : j <= 2} = {1, 2}
    OBVIOUS
  <2> QED BY <2>1 DEF Pairs
<1>2. Cardinality(R) \in Nat BY FS_CardinalityType
<1>3. /\ IsFiniteSet(R \cup {a}) /\ Cardinality(R \cup {a}) = Cardinality(R) + 1
  BY <1>1, FS_AddElement
<1>4. /\ IsFiniteSet((R \cup {a}) \cup {b})
      /\ Cardinality((R \cup {a}) \cup {b}) = Cardinality(R \cup {a}) + 1
  <2>1. b \notin R \cup {a} BY <1>1
  <2> QED BY <1>3, <2>1, FS_AddElement
<1>5. R \cup Pairs(o, 0) = R /\ R \cup Pairs(o, 1) = R \cup {a}
      /\ R \cup Pairs(o, 2) = (R \cup {a}) \cup {b}
  BY <1>1
<1>6. CASE k = 0
  <2>1. R \cup Pairs(o, k) = R BY <1>5, <1>6
  <2>2. Cardinality(R) = Cardinality(R) + k BY <1>2, <1>6
  <2> QED BY <2>1, <2>2
<1>7. CASE k = 1 BY <1>3, <1>5, <1>7
<1>8. CASE k = 2
  <2>1. Cardinality((R \cup {a}) \cup {b}) = Cardinality(R) + 2 BY <1>2, <1>3, <1>4
  <2> QED BY <1>4, <1>5, <1>8, <2>1
<1> QED BY <1>6, <1>7, <1>8

\* The debts of an operation that moves are counted anew, those of the others
\* stay.
LEMMA DebtsNext ==
  ASSUME TypeOK, NEW o \in Ops, NEW s, at' = [at EXCEPT ![o] = s], IsFiniteSet(Debts)
  PROVE  /\ IsFiniteSet(Debts') /\ Cardinality(Debts) \in Nat
         /\ Cardinality(Debts') = Cardinality(Debts) - Owes(o) + OwesAt(o, s)
         /\ OwesAt(o, s) <= Cardinality(Debts')
<1> DEFINE Others == {d \in Debts : d[1] # o}
<1>1. at'[o] = s /\ \A p \in Ops : p # o => at'[p] = at[p] BY DEF TypeOK
<1>2. Owes(o)' = OwesAt(o, s) /\ \A p \in Ops : p # o => Owes(p)' = Owes(p)
  BY <1>1 DEF Owes
<1>3. IsFiniteSet(Others) /\ Cardinality(Others) \in Nat BY FS_Subset, FS_CardinalityType
<1>4. Owes(o) \in {0, 1, 2} /\ OwesAt(o, s) \in {0, 1, 2} BY OwesFew DEF Owes
<1>5. Debts = Others \cup Pairs(o, Owes(o)) BY DEF Debts, Pairs
<1>6. Debts' = Others \cup Pairs(o, OwesAt(o, s))
  BY <1>2 DEF Debts, Pairs
<1>7. Pairs(o, 2) \cap Others = {} BY DEF Pairs
<1> HIDE DEF Others
<1>8. Cardinality(Debts) = Cardinality(Others) + Owes(o) BY <1>3, <1>4, <1>5, <1>7, OneMore
<1>9. IsFiniteSet(Debts') /\ Cardinality(Debts') = Cardinality(Others) + OwesAt(o, s)
  BY <1>3, <1>4, <1>6, <1>7, OneMore
<1> QED BY <1>3, <1>4, <1>8, <1>9

\* A step of o, by what it does to the count, the text and the request.
LEMMA StepShared ==
  ASSUME SharedInv, keys' \in Checks, NEW o \in Ops, NEW s \in Stages, at' = [at EXCEPT ![o] = s],
         count' \in Nat, hash' \in Revisions \cup {NoContent},
         hash' = NoContent <=> count' = 0,
         count' <= count - Owes(o) + OwesAt(o, s) \/ count' <= OwesAt(o, s),
         rev' = rev, warned' \subseteq Warnings,
         built' \in [Ops -> Revisions \cup {NoContent}], asked' \in [Ops -> Revisions],
         since' = since \/ (since' = rev /\ \A p \in Ops : at[p] \notin Waiting),
         hash' # NoContent => hash' >= since',
         s \in Waiting => asked'[o] >= since',
         \A p \in Ops : p # o => asked'[p] = asked[p],
         s \in Asking => o \in Sends
  PROVE  SharedInv'
<1>1. TypeOK'
  <2>1. at' \in [Ops -> Stages] /\ since' \in Revisions /\ rev' \in Revisions
    BY DEF SharedInv, TypeOK
  <2> QED BY <2>1 DEF TypeOK, Warnings
<1>2. Kept'
  <2>1. /\ IsFiniteSet(Debts') /\ Cardinality(Debts) \in Nat
        /\ Cardinality(Debts') = Cardinality(Debts) - Owes(o) + OwesAt(o, s)
        /\ OwesAt(o, s) <= Cardinality(Debts')
    BY DebtsNext DEF SharedInv, Kept
  <2>2. count <= Cardinality(Debts) /\ count \in Nat
    BY DEF SharedInv, Kept, KeptForUsers, TypeOK
  <2>3. Owes(o) \in {0, 1, 2} /\ OwesAt(o, s) \in {0, 1, 2} BY OwesFew DEF Owes
  <2>4. Cardinality(Debts') \in Nat BY <2>1, FS_CardinalityType
  <2>5. count' <= Cardinality(Debts') BY <2>1, <2>2, <2>3, <2>4
  <2> QED BY <2>1, <2>5 DEF Kept, KeptForUsers
<1>3. Fresh'
  <2>1. rev \in Int BY RevisionIsContent DEF SharedInv, TypeOK
  <2>2. rev' >= since' BY <2>1 DEF SharedInv, Fresh
  <2>3. ASSUME NEW p \in Ops, at'[p] \in Waiting PROVE asked'[p] >= since'
    <3>1. at'[o] = s /\ (p # o => at'[p] = at[p]) BY DEF SharedInv, TypeOK
    <3>2. CASE p = o
      <4>1. asked'[o] >= since' BY <2>3, <3>1, <3>2
      <4> QED BY <3>2, <4>1
    <3>3. CASE p # o BY <2>3, <3>1, <3>3 DEF SharedInv, Fresh
    <3> QED BY <3>2, <3>3
  <2> QED BY <2>2, <2>3 DEF Fresh, NotOlderThanOverlap
<1>4. Asks'
  <2>1. at'[o] = s /\ \A p \in Ops : p # o => at'[p] = at[p] BY DEF SharedInv, TypeOK
  <2> QED BY <2>1 DEF SharedInv, Asks
<1> QED BY <1>1, <1>2, <1>3, <1>4 DEF SharedInv

\* e_msg_composer_unref_content_hash(), with or without something to drop.
LEMMA UnrefShared ==
  ASSUME SharedInv, Unref
  PROVE  /\ count' \in Nat /\ hash' \in Revisions \cup {NoContent}
         /\ hash' = NoContent <=> count' = 0
         /\ count' = 0 \/ count' = count - 1
         /\ hash' # NoContent => hash' = hash
         /\ warned' \subseteq Warnings
<1>1. /\ count \in Nat /\ hash \in Revisions \cup {NoContent}
      /\ warned \subseteq Warnings
      /\ hash = NoContent <=> count = 0
  BY DEF SharedInv, TypeOK, Kept, KeptForUsers, Warnings
<1>2. CASE count = 0
  <2>1. hash' = hash /\ count' = count BY <1>2, Zenon DEF Unref
  <2>2. warned' \subseteq Warnings BY <1>1, <1>2, Zenon DEF Unref, Warnings
  <2> QED BY <1>1, <1>2, <2>1, <2>2
<1>3. CASE count # 0
  <2>1. /\ count' = count - 1 /\ warned' = warned
        /\ hash' = IF count = 1 THEN NoContent ELSE hash
    BY <1>3, Zenon DEF Unref
  <2> QED BY <1>1, <1>3, <2>1
<1> QED BY <1>2, <1>3

\* A step that drops a reference, or has none to drop.
LEMMA DropShared ==
  ASSUME SharedInv, keys' \in Checks, NEW o \in Ops, NEW s \in Stages, s \notin Waiting, s \notin Asking,
         at' = [at EXCEPT ![o] = s], Unref, UNCHANGED <<rev, asked, built, since>>,
         OwesAt(o, s) >= Owes(o) - 1
  PROVE  SharedInv'
<1>1. /\ count' \in Nat /\ hash' \in Revisions \cup {NoContent}
      /\ hash' = NoContent <=> count' = 0
      /\ count' = 0 \/ count' = count - 1
      /\ hash' # NoContent => hash' = hash
      /\ warned' \subseteq Warnings
  BY UnrefShared
<1>2. Owes(o) \in {0, 1, 2} /\ OwesAt(o, s) \in {0, 1, 2} BY OwesFew DEF Owes
<1>3. count \in Nat BY DEF SharedInv, TypeOK
<1>4. count' <= count - Owes(o) + OwesAt(o, s) \/ count' <= OwesAt(o, s) BY <1>1, <1>2, <1>3
<1>5. hash' # NoContent => hash' >= since'
  BY <1>1 DEF SharedInv, Fresh, NotOlderThanOverlap
<1>6. built' \in [Ops -> Revisions \cup {NoContent}] /\ asked' \in [Ops -> Revisions]
  BY DEF SharedInv, TypeOK
<1> QED BY <1>1, <1>4, <1>5, <1>6, StepShared

\* Where an operation goes once it has the text, and what it will owe then.
LEMMA ProceedShared ==
  ASSUME SharedInv, NEW o \in Ops, NEW r \in Revisions, Proceed(o, r)
  PROVE  /\ built' \in [Ops -> Revisions \cup {NoContent}]
         /\ \E s \in Stages \ Waiting :
              at' = [at EXCEPT ![o] = s] /\ OwesAt(o, s) = Uses(o) /\ (s \in Asking => o \in Sends)
<1>1. built' \in [Ops -> Revisions \cup {NoContent}] BY DEF Proceed, SharedInv, TypeOK
<1>5. {"deferred", "asking", "building"} \subseteq Stages \ Waiting BY DEF Stages, Waiting
<1>2. CASE o \in Sends
  <2>1. Uses(o) = 1 BY <1>2, ContentHashAssumption DEF Uses
  <2>2. OwesAt(o, "deferred") = 1 /\ OwesAt(o, "asking") = 1 BY DEF OwesAt, Over
  <2>3. PICK s \in {"deferred", "asking"} : at' = [at EXCEPT ![o] = s]
    BY <1>2 DEF Proceed, DeferOrAsk
  <2> QED BY <1>1, <1>2, <1>5, <2>1, <2>2, <2>3
<1>3. CASE o \in Saves
  <2>1. Uses(o) = 2 /\ o \notin Sends BY <1>3, ContentHashAssumption DEF Uses
  <2>2. OwesAt(o, "building") = 2 BY <1>3 DEF OwesAt, Over, UserOps
  <2> QED BY <1>1, <1>5, <2>1, <2>2 DEF Proceed, Asking
<1>4. CASE o \in Snapshots
  <2>1. Uses(o) = 1 /\ o \notin Sends /\ o \notin UserOps
    BY <1>4, ContentHashAssumption DEF Uses, UserOps
  <2>2. OwesAt(o, "building") = 1 BY <2>1 DEF OwesAt, Over
  <2> QED BY <1>1, <1>5, <2>1, <2>2 DEF Proceed, Asking
<1> QED BY <1>2, <1>3, <1>4 DEF Ops, UserOps

\* The answer of the editor.
LEMMA StoreShared ==
  ASSUME SharedInv, NEW o \in Ops, at[o] \in Waiting,
         NEW r \in asked[o] .. rev, NEW n \in {1, 2}, Store(r, n), since' = since
  PROVE  /\ r \in Revisions /\ hash' \in Revisions /\ count' = n /\ hash' >= since'
         /\ hash' # NoContent
         /\ warned' \subseteq Warnings
<1>1. /\ rev \in Revisions /\ asked[o] \in Revisions /\ since \in Revisions
      /\ warned \subseteq Warnings /\ asked[o] >= since
  BY DEF SharedInv, TypeOK, Fresh, Warnings
<1>2. r \in Revisions /\ r >= since BY <1>1, ContentHashAssumption DEF Revisions
<1>3. hash' = r /\ count' = n BY DEF Store
<1>4. warned' \subseteq Warnings BY <1>1 DEF Store, Warnings
<1>5. r # NoContent BY <1>2, RevisionIsContent
<1> QED BY <1>2, <1>3, <1>4, <1>5

LEMMA InitShared == ASSUME Init PROVE SharedInv
<1> USE ContentHashAssumption DEF Init
<1>1. TypeOK BY DEF TypeOK, Revisions, NoContent, Stages, Checks, Checked
<1>2. Debts = {}
  <2>1. \A o \in Ops : Owes(o) = 0 BY DEF Owes, OwesAt
  <2> QED BY <2>1 DEF Debts
<1>3. IsFiniteSet(Debts) /\ Cardinality(Debts) = 0 BY <1>2, FS_EmptySet
<1>4. Kept BY <1>3 DEF Kept, KeptForUsers
<1>5. Fresh BY DEF Fresh, NotOlderThanOverlap, Waiting
<1>6. Asks BY DEF Asks, Asking
<1> QED BY <1>1, <1>4, <1>5, <1>6 DEF SharedInv

\* The overlap begins anew only when nobody has a debt, so without a text.
LEMMA StartShared ==
  ASSUME SharedInv, keys' \in Checks, NEW o \in Ops, Start(o)
  PROVE  SharedInv'
<1>1. /\ at[o] = "idle" /\ rev' = rev
      /\ asked' = [asked EXCEPT ![o] = rev]
      /\ since' = IF Active = {} THEN rev ELSE since
  BY DEF Start
<1>2. /\ rev \in Revisions /\ since \in Revisions /\ rev \in Int /\ count \in Nat
      /\ hash \in Revisions \cup {NoContent} /\ warned \subseteq Warnings
      /\ built \in [Ops -> Revisions \cup {NoContent}] /\ rev >= since
      /\ hash = NoContent <=> count = 0
  BY RevisionIsContent DEF SharedInv, TypeOK, Fresh, Kept, KeptForUsers, Warnings
<1>3. asked' \in [Ops -> Revisions] /\ asked'[o] = rev /\ \A p \in Ops : p # o => asked'[p] = asked[p]
  BY <1>1, <1>2 DEF SharedInv, TypeOK
<1>4. Owes(o) = 0 BY <1>1 DEF Owes, OwesAt
<1>5. Active = {} => hash = NoContent
  <2> SUFFICES ASSUME Active = {} PROVE hash = NoContent OBVIOUS
  <2>1. \A p \in Ops : Owes(p) = 0 BY DEF Active, Owes, OwesAt
  <2>2. Debts = {} BY <2>1 DEF Debts
  <2>3. count = 0 BY <1>2, <2>2, FS_EmptySet DEF SharedInv, Kept, KeptForUsers
  <2> QED BY <1>2, <2>3
<1>6. hash # NoContent => hash >= since'
  BY <1>1, <1>5 DEF SharedInv, Fresh, NotOlderThanOverlap
<1>7. \/ since' = since
      \/ since' = rev /\ \A p \in Ops : at[p] \notin Waiting
  BY <1>1 DEF Active, Over, Waiting
<1>8. asked'[o] >= since' BY <1>1, <1>2, <1>3
<1>9. CASE Cached
  <2>1. count' = count + Uses(o) /\ Proceed(o, hash) /\ UNCHANGED <<hash, warned>>
    BY <1>9 DEF Start
  <2>2. hash \in Revisions BY <1>2, <1>9 DEF Cached
  <2>3. built' \in [Ops -> Revisions \cup {NoContent}] BY <2>1, <2>2, ProceedShared, Zenon
  <2>4. PICK s \in Stages \ Waiting :
          at' = [at EXCEPT ![o] = s] /\ OwesAt(o, s) = Uses(o) /\ (s \in Asking => o \in Sends)
    BY <2>1, <2>2, ProceedShared
  <2>5. s \in Stages /\ s \notin Waiting OBVIOUS
  <2>6. Uses(o) \in {1, 2} BY DEF Uses
  <2>7. /\ count' \in Nat /\ count' <= count - Owes(o) + OwesAt(o, s)
        /\ hash' = NoContent <=> count' = 0
    BY <1>2, <1>4, <1>9, <2>1, <2>4, <2>6 DEF Cached
  <2>8. /\ hash' \in Revisions \cup {NoContent}
        /\ hash' # NoContent => hash' >= since'
        /\ warned' \subseteq Warnings
    BY <1>2, <1>6, <2>1
  <2> QED BY <1>1, <1>3, <1>7, <2>3, <2>4, <2>5, <2>7, <2>8, StepShared
<1>10. CASE ~ Cached
  <2>1. at' = [at EXCEPT ![o] = "fetching"] /\ UNCHANGED <<hash, count, built, warned>>
    BY <1>10 DEF Start
  <2>2. "fetching" \in Stages /\ OwesAt(o, "fetching") = 0 /\ "fetching" \notin Asking
    BY DEF Stages, OwesAt, Asking
  <2>3. count' \in Nat /\ count' <= count - Owes(o) + OwesAt(o, "fetching")
    BY <1>2, <1>4, <2>1, <2>2
  <2>4. /\ hash' \in Revisions \cup {NoContent}
        /\ hash' # NoContent => hash' >= since'
        /\ hash' = NoContent <=> count' = 0
        /\ warned' \subseteq Warnings
        /\ built' \in [Ops -> Revisions \cup {NoContent}]
    BY <1>2, <1>6, <2>1
  <2> QED BY <1>1, <1>3, <1>7, <1>8, <2>1, <2>2, <2>3, <2>4, StepShared
<1> QED BY <1>9, <1>10

\* An answer, the first or the second of an operation.
LEMMA ReadyShared ==
  ASSUME SharedInv, keys' \in Checks, NEW o \in Ops, ContentReady(o) \/ ContentReadyAgain(o)
  PROVE  SharedInv'
<1>1. at[o] \in Waiting /\ UNCHANGED <<rev, asked, since>>
  BY DEF ContentReady, ContentReadyAgain, Waiting
<1>a. asked' \in [Ops -> Revisions] BY <1>1 DEF SharedInv, TypeOK
<1>2. CASE ContentReady(o)
  <2>1. PICK r \in asked[o] .. rev : Store(r, Uses(o)) /\ Proceed(o, r)
    BY <1>2 DEF ContentReady
  <2>2. Uses(o) \in {1, 2} BY DEF Uses
  <2>3. /\ r \in Revisions /\ hash' \in Revisions /\ count' = Uses(o) /\ hash' >= since'
        /\ hash' # NoContent /\ warned' \subseteq Warnings
    BY <1>1, <2>1, <2>2, StoreShared
  <2>4. built' \in [Ops -> Revisions \cup {NoContent}] BY <2>1, <2>3, ProceedShared
  <2>5. PICK s \in Stages \ Waiting :
          at' = [at EXCEPT ![o] = s] /\ OwesAt(o, s) = Uses(o) /\ (s \in Asking => o \in Sends)
    BY <2>1, <2>3, ProceedShared
  <2>6. s \in Stages /\ s \notin Waiting OBVIOUS
  <2>7. count' \in Nat /\ count' <= OwesAt(o, s) /\ (hash' = NoContent <=> count' = 0)
    BY <2>2, <2>3, <2>5
  <2> QED BY <1>1, <1>a, <2>3, <2>4, <2>5, <2>6, <2>7, StepShared
<1>3. CASE ContentReadyAgain(o)
  <2>1. PICK r \in asked[o] .. rev : Store(r, 1) /\ built' = [built EXCEPT ![o] = r]
    BY <1>3 DEF ContentReadyAgain
  <2>2. /\ r \in Revisions /\ hash' \in Revisions /\ count' = 1 /\ hash' >= since'
        /\ hash' # NoContent /\ warned' \subseteq Warnings
    BY <1>1, <2>1, StoreShared
  <2>3. built' \in [Ops -> Revisions \cup {NoContent}]
    BY <2>1, <2>2 DEF SharedInv, TypeOK
  <2>4. at' = [at EXCEPT ![o] = "building"] BY <1>3 DEF ContentReadyAgain
  <2>5. /\ "building" \in Stages /\ OwesAt(o, "building") \in {1, 2}
        /\ "building" \notin Waiting /\ "building" \notin Asking
    BY DEF Stages, OwesAt, Over, Waiting, Asking
  <2>6. count' \in Nat /\ count' <= OwesAt(o, "building") /\ (hash' = NoContent <=> count' = 0)
    BY <2>2, <2>5
  <2> QED BY <1>1, <1>a, <2>2, <2>3, <2>4, <2>5, <2>6, StepShared
<1> QED BY <1>2, <1>3

\* A step that leaves the text and its count alone.
LEMMA QuietShared ==
  ASSUME SharedInv, keys' \in Checks, NEW o \in Ops, NEW s \in Stages, at' = [at EXCEPT ![o] = s],
         UNCHANGED <<rev, hash, count, built, warned, since>>,
         OwesAt(o, s) >= Owes(o), asked' \in [Ops -> Revisions],
         \A p \in Ops : p # o => asked'[p] = asked[p],
         s \in Waiting => asked'[o] >= since, s \in Asking => o \in Sends
  PROVE  SharedInv'
<1>1. /\ count \in Nat /\ hash \in Revisions \cup {NoContent}
      /\ hash = NoContent <=> count = 0
      /\ warned \subseteq Warnings
      /\ built \in [Ops -> Revisions \cup {NoContent}]
      /\ hash # NoContent => hash >= since
  BY DEF SharedInv, TypeOK, Kept, KeptForUsers, Fresh, NotOlderThanOverlap, Warnings
<1>2. Owes(o) \in {0, 1, 2} /\ OwesAt(o, s) \in {0, 1, 2} BY OwesFew DEF Owes
<1>3. count <= count - Owes(o) + OwesAt(o, s) BY <1>1, <1>2
<1> QED BY <1>1, <1>3, StepShared

LEMMA AgreedShared ==
  ASSUME SharedInv, keys' \in Checks, NEW o \in Ops, Agreed(o)
  PROVE  SharedInv'
<1>1. at[o] = "asking" /\ UNCHANGED <<rev, hash, warned, since>> BY DEF Agreed
<1>2. Owes(o) = 1 BY <1>1 DEF Owes, OwesAt, Over
<1>3. o \in Sends /\ o \in UserOps BY <1>1 DEF SharedInv, Asks, Asking, UserOps
<1>4. CASE Cached
  <2>1. /\ count' = count + 1 /\ at' = [at EXCEPT ![o] = "building"]
        /\ built' = [built EXCEPT ![o] = hash] /\ asked' = asked
    BY <1>4 DEF Agreed
  <2>2. /\ count \in Nat /\ hash \in Revisions \cup {NoContent} /\ hash # NoContent
        /\ hash = NoContent <=> count = 0
        /\ warned \subseteq Warnings
        /\ hash >= since /\ asked \in [Ops -> Revisions]
        /\ built' \in [Ops -> Revisions \cup {NoContent}]
    BY <1>4, <2>1
    DEF Cached, SharedInv, TypeOK, Kept, KeptForUsers, Fresh, NotOlderThanOverlap, Warnings
  <2>3. /\ "building" \in Stages /\ "building" \notin Waiting /\ "building" \notin Asking
    BY DEF Stages, Waiting, Asking
  <2>4. OwesAt(o, "building") = 2 BY <1>3 DEF OwesAt, Over
  <2>5. count' \in Nat /\ count' <= count - Owes(o) + OwesAt(o, "building") /\ count' # 0
    BY <1>2, <2>1, <2>2, <2>4
  <2> QED BY <1>1, <2>1, <2>2, <2>3, <2>5, StepShared
<1>5. CASE ~ Cached
  <2>1. /\ at' = [at EXCEPT ![o] = "refetching"] /\ asked' = [asked EXCEPT ![o] = rev]
        /\ UNCHANGED <<count, built>>
    BY <1>5 DEF Agreed
  <2>2. /\ rev \in Revisions /\ rev >= since /\ asked \in [Ops -> Revisions]
    BY DEF SharedInv, TypeOK, Fresh
  <2>3. /\ asked' \in [Ops -> Revisions] /\ asked'[o] >= since
        /\ \A p \in Ops : p # o => asked'[p] = asked[p]
    BY <2>1, <2>2
  <2>4. "refetching" \in Stages /\ "refetching" \notin Asking /\ OwesAt(o, "refetching") = 1
    BY DEF Stages, Asking, OwesAt, Over
  <2>5. OwesAt(o, "refetching") >= Owes(o) BY <1>2, <2>4
  <2> QED BY <1>1, <2>1, <2>3, <2>4, <2>5, QuietShared
<1> QED BY <1>4, <1>5
LEMMA FailsShared ==
  ASSUME SharedInv, keys' \in Checks, NEW o \in Ops, ContentFails(o)
  PROVE  SharedInv'
<1>1. /\ at[o] = "fetching" /\ at' = [at EXCEPT ![o] = "failed"]
      /\ UNCHANGED <<rev, asked, built, since>>
  BY DEF ContentFails
<1>2. /\ "failed" \in Stages /\ "failed" \notin Waiting /\ "failed" \notin Asking
      /\ OwesAt(o, "failed") = 0 /\ Owes(o) = 0
  BY <1>1 DEF Stages, Waiting, Asking, OwesAt, Over, Owes
<1>3. OwesAt(o, "failed") >= Owes(o) /\ OwesAt(o, "failed") >= Owes(o) - 1 BY <1>2
<1>4. CASE Unref BY <1>1, <1>2, <1>3, <1>4, DropShared
<1>5. CASE UNCHANGED <<hash, count, warned>>
  <2>1. asked' \in [Ops -> Revisions] BY <1>1 DEF SharedInv, TypeOK
  <2> QED BY <1>1, <1>2, <1>3, <1>5, <2>1, QuietShared
<1> QED BY <1>4, <1>5 DEF ContentFails

LEMMA EditShared ==
  ASSUME SharedInv, keys' \in Checks, Edit
  PROVE  SharedInv'
<1>1. rev < MaxRev /\ rev' = rev + 1 /\ UNCHANGED <<hash, count, at, asked, built, warned, since>>
  BY DEF Edit
<1>2. rev \in Int /\ rev \in Revisions /\ since \in Revisions /\ since \in Int
  BY RevisionIsContent DEF SharedInv, TypeOK
<1>3. rev' \in Revisions BY <1>1, <1>2, ContentHashAssumption DEF Revisions
<1>4. rev' >= since' BY <1>1, <1>2 DEF SharedInv, Fresh
<1>5. TypeOK' BY <1>1, <1>3 DEF SharedInv, TypeOK
<1>6. Debts' = Debts BY <1>1 DEF Debts, Owes
<1>7. Kept' BY <1>1, <1>6 DEF SharedInv, Kept, KeptForUsers
<1>8. Fresh' BY <1>1, <1>4 DEF SharedInv, Fresh, NotOlderThanOverlap
<1>9. Asks' BY <1>1 DEF SharedInv, Asks
<1> QED BY <1>5, <1>7, <1>8, <1>9 DEF SharedInv

\* The steps that drop the one reference of their stage, and go to s.
LEMMA EndsShared ==
  ASSUME SharedInv, keys' \in Checks, NEW o \in Ops,
         \/ Cancelled(o) \/ Refused(o) \/ ContentFailsAgain(o) \/ Built(o) \/ Finish(o)
  PROVE  SharedInv'
<1>1. Unref /\ UNCHANGED <<rev, asked, built, since>>
  BY DEF Cancelled, Refused, ContentFailsAgain, Built, Finish, Drop
<1>2. PICK s \in {"done", "failed", "answered", "failing"} :
        /\ at' = [at EXCEPT ![o] = s]
        /\ \/ Owes(o) = 1 /\ OwesAt(o, s) \in {0, 1}
           \/ Owes(o) = 2 /\ OwesAt(o, s) = 1
  <2>1. /\ OwesAt(o, "failed") = 0 /\ OwesAt(o, "done") = 0
        /\ OwesAt(o, "answered") = 1 /\ OwesAt(o, "failing") = 1
    BY DEF OwesAt, Over
  <2>2. at[o] \in {"deferred", "asking", "refetching", "answered", "failing"} => Owes(o) = 1
    BY DEF Owes, OwesAt, Over
  <2>3. at[o] = "building" => Owes(o) = IF o \in UserOps THEN 2 ELSE 1
    BY DEF Owes, OwesAt, Over
  <2>4. CASE Cancelled(o) \/ Refused(o)
    BY <2>1, <2>2, <2>4 DEF Cancelled, Refused
  <2>5. CASE ContentFailsAgain(o) BY <2>1, <2>2, <2>5 DEF ContentFailsAgain
  <2>6. CASE Finish(o) BY <2>1, <2>2, <2>6 DEF Finish
  <2>7. CASE Built(o)
    <3>1. at[o] = "building" BY <2>7 DEF Built
    <3>2. CASE o \in Snapshots
      <4>1. PICK s \in Over : at' = [at EXCEPT ![o] = s] BY <2>7, <3>2 DEF Built
      <4>2. Owes(o) = 1 BY <2>3, <3>1, <3>2, ContentHashAssumption
      <4>3. OwesAt(o, s) = 0 BY <2>1 DEF Over
      <4> QED BY <4>1, <4>2, <4>3 DEF Over
    <3>3. CASE o \notin Snapshots
      <4>1. PICK s \in {"answered", "failing"} : at' = [at EXCEPT ![o] = s]
        BY <2>7, <3>3 DEF Built
      <4>2. Owes(o) = 2 BY <2>3, <3>1, <3>3 DEF Ops
      <4>3. OwesAt(o, s) = 1 BY <2>1
      <4> QED BY <4>1, <4>2, <4>3
    <3> QED BY <3>2, <3>3
  <2> QED BY <2>4, <2>5, <2>6, <2>7
<1>3. s \in Stages /\ s \notin Waiting /\ s \notin Asking BY DEF Stages, Waiting, Asking
<1>4. OwesAt(o, s) >= Owes(o) - 1 BY <1>2
<1> QED BY <1>1, <1>2, <1>3, <1>4, DropShared

LEMMA NextShared ==
  ASSUME SharedInv, [Next]_vars
  PROVE  SharedInv'
<1>k. keys' \in Checks BY KeysStay DEF SharedInv, TypeOK
<1> USE <1>k
<1>1. CASE UNCHANGED Rest
  <2>1. UNCHANGED <<rev, hash, count, at, asked, built, warned, since>> BY <1>1 DEF Rest
  <2>2. Debts' = Debts BY <2>1 DEF Debts, Owes
  <2>3. TypeOK' BY <2>1 DEF SharedInv, TypeOK
  <2>4. Kept' BY <2>1, <2>2 DEF SharedInv, Kept, KeptForUsers
  <2>5. Fresh' /\ Asks' BY <2>1 DEF SharedInv, Fresh, NotOlderThanOverlap, Asks
  <2> QED BY <2>3, <2>4, <2>5 DEF SharedInv
<1>2. CASE Edit BY <1>2, EditShared
<1>3. ASSUME NEW o \in Ops, Start(o) PROVE SharedInv' BY <1>3, StartShared
<1>4. ASSUME NEW o \in Ops, ContentReady(o) \/ ContentReadyAgain(o) PROVE SharedInv'
  BY <1>4, ReadyShared
<1>5. ASSUME NEW o \in Ops, ContentFails(o) PROVE SharedInv' BY <1>5, FailsShared
<1>6. ASSUME NEW o \in Ops, KeyReady(o) PROVE SharedInv'
  <2>1. /\ at[o] = "deferred" /\ at' = [at EXCEPT ![o] = "asking"]
        /\ UNCHANGED <<rev, hash, count, asked, built, warned, since>>
    BY <1>6 DEF KeyReady, Continues
  <2>2. "asking" \in Stages /\ "asking" \notin Waiting BY DEF Stages, Waiting
  <2>3. OwesAt(o, "asking") = 1 /\ Owes(o) = 1 BY <2>1 DEF OwesAt, Owes, Over
  <2>4. o \in Sends BY <2>1 DEF SharedInv, Asks, Asking
  <2>5. asked' \in [Ops -> Revisions] BY <2>1 DEF SharedInv, TypeOK
  <2>6. OwesAt(o, "asking") >= Owes(o) BY <2>3
  <2> QED BY <2>1, <2>2, <2>4, <2>5, <2>6, QuietShared
<1>7. ASSUME NEW o \in Ops, Agreed(o) PROVE SharedInv' BY <1>7, AgreedShared
<1>8. ASSUME NEW o \in Ops,
             \/ Cancelled(o) \/ Refused(o) \/ ContentFailsAgain(o) \/ Built(o) \/ Finish(o)
      PROVE SharedInv'
  BY <1>8, EndsShared
<1>9. UNCHANGED vars \/ Recheck \/ KeyKnown => UNCHANGED Rest
  BY DEF vars, Rest, Recheck, KeyKnown
<1> QED BY <1>1, <1>2, <1>3, <1>4, <1>5, <1>6, <1>7, <1>8, <1>9 DEF Next

LEMMA SharedHolds == Spec => []SharedInv
<1>1. Init => SharedInv BY InitShared
<1>2. SharedInv /\ [Next]_vars => SharedInv' BY NextShared
<1> QED BY <1>1, <1>2, PTL DEF Spec

\* e_msg_composer_unref_content_hash() and everybody who calls it: however
\* operations and snapshots overlap and fail, the text is kept while it is
\* counted, and for each reference counted somebody will give one up.
THEOREM TextIsGivenUp == Spec => []KeptForUsers
<1>1. SharedInv => KeptForUsers BY DEF SharedInv, Kept
<1> QED BY <1>1, SharedHolds, PTL

\* e_msg_composer_prepare_content_hash(): text that is used again was taken
\* after the moment since when there has always been an operation going on.
THEOREM TextIsRecent == Spec => []NotOlderThanOverlap
<1>1. SharedInv => NotOlderThanOverlap BY DEF SharedInv, Fresh
<1> QED BY <1>1, SharedHolds, PTL
=============================================================================
