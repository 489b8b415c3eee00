--------------------------- MODULE ShellLineProofs ---------------------------
(***************************************************************************)
(* What a line change does for any number of activities and stores,        *)
(* whatever crosses it.                                                    *)
(*                                                                         *)
(* Base says how the preparation under way, the line, what was asked for   *)
(* and the session go together; it holds always.  Counted says what a      *)
(* reference count counts: a store that is still switching holds one, the  *)
(* task bar may hold one, and so does a handler that is suspended in its   *)
(* question.  It holds until such a handler goes on with another           *)
(* preparation under way: the shell then gives up a reference on the       *)
(* activity it has, not on the one it made the reference for.              *)
(***************************************************************************)
EXTENDS ShellLine, FiniteSetTheorems, TLAPS

Held(a) == Cardinality(pending[a]) + (IF act[a].shown THEN 1 ELSE 0)
             + (IF asking = a THEN 1 ELSE 0)

Counted ==
    /\ \A a \in Acts : act[a].refs = Held(a)
    /\ \A a \in Acts : act[a].toggle => ~act[a].shown
    /\ \A a \in Acts : act[a].shown => pending[a] = {}
    /\ asking \in Acts => pending[asking] = {} /\ ~act[asking].shown

\* Nothing is going to change the line.
Settled == preparing \in Acts => ~act[preparing].toggle

\* What the line will be, at each stage of a preparation, and when the session
\* has already followed it.
Bound == asked = IF Settled THEN online ELSE preparingOnline
Quiet == Settled /\ ~online => ~session

\* The shell's pointer is to an activity that is there.
Alive == preparing \in Acts => act[preparing].refs > 0

Base == Types /\ OnlyLatestFlips /\ Bound /\ Quiet /\ Alive

\* Without questions none is crossed.
Unasked == ~MayAsk => asking = NoAct /\ ~crossed

LineInv == Base /\ (~crossed => Counted) /\ Unasked /\ crossed \in BOOLEAN

-----------------------------------------------------------------------------
\* A set of stores is finite, and has a cardinality.
LEMMA StoreSets ==
    ASSUME NEW S \in SUBSET Stores
    PROVE  /\ Cardinality(S) \in Nat
           /\ Cardinality(S) = 0 <=> S = {}
           /\ \A x \in S : Cardinality(S \ {x}) = Cardinality(S) - 1
  <1>1. IsFiniteSet(S)
    BY LineAssumption, FS_Subset
  <1>2. Cardinality(S) \in Nat
    BY <1>1, FS_CardinalityType
  <1>3. Cardinality(S) = 0 <=> S = {}
    BY <1>1, FS_EmptySet
  <1>4. \A x \in S : Cardinality(S \ {x}) = Cardinality(S) - 1
    BY <1>1, FS_RemoveElement
  <1> QED
    BY <1>2, <1>3, <1>4

\* Every preparation has a store to wait for.
LEMMA SomeStore == Cardinality(Stores) \in Nat /\ Cardinality(Stores) > 0
  <1>1. Cardinality(Stores) \in Nat /\ (Cardinality(Stores) = 0 <=> Stores = {})
    BY StoreSets
  <1> QED
    BY <1>1, LineAssumption

LEMMA InitInv == Init => LineInv
  <1> SUFFICES ASSUME Init PROVE LineInv
    OBVIOUS
  <1>1. Cardinality({}) = 0
    BY FS_EmptySet
  <1>2. Types
    BY DEF Init, Types, Activity, Finalized
  <1>3. Counted
    BY <1>1, LineAssumption DEF Init, Counted, Held, Finalized
  <1>4. OnlyLatestFlips
    BY DEF Init, OnlyLatestFlips, Finalized
  <1>5. Bound /\ Quiet /\ Alive
    BY LineAssumption DEF Init, Bound, Quiet, Alive, Settled
  <1>6. Unasked /\ crossed \in BOOLEAN
    BY DEF Init, Unasked
  <1> QED
    BY <1>2, <1>3, <1>4, <1>5, <1>6 DEF LineInv, Base

-----------------------------------------------------------------------------
(***************************************************************************)
(* The beginning of a preparation.                                         *)
(***************************************************************************)
\* What superseding and cancelling leave alone: every count, and every
\* toggle reference but the superseded one's.
Weakened(r) ==
    /\ r \in [Acts -> Activity]
    /\ \A a \in Acts : /\ r[a].refs = act[a].refs
                       /\ r[a].shown = act[a].shown
                       /\ r[a].toggle => act[a].toggle
                       /\ act[a].refs = 0 => r[a] = Finalized

LEMMA CancelledFacts ==
    ASSUME NEW r \in Activity
    PROVE  /\ Cancelled(r) \in Activity
           /\ Cancelled(r).refs = r.refs
           /\ Cancelled(r).shown = r.shown
           /\ Cancelled(r).toggle = r.toggle
           /\ Cancelled(r).weak = r.weak
           /\ r = Finalized => Cancelled(r) = Finalized
  <1>1. CASE r.cancellable = "live"
    <2>1. Cancelled(r) = [r EXCEPT !.cancellable = "cancelled"]
      BY <1>1 DEF Cancelled
    <2>2. Finalized.cancellable = "none"
      BY DEF Finalized
    <2>3. r # Finalized
      BY <1>1, <2>2
    <2> QED
      BY <2>1, <2>3 DEF Activity
  <1>2. CASE r.cancellable # "live"
    BY <1>2 DEF Cancelled
  <1> QED
    BY <1>1, <1>2

LEMMA OthersWeakened ==
    ASSUME Base
    PROVE  Weakened(Others) /\ \A a \in Acts : ~Others[a].toggle
  <1>1. act \in [Acts -> Activity] /\ preparing \in Acts \cup {NoAct}
    BY DEF Base, Types
  <1>2. \A a \in Acts : act[a].refs = 0 => act[a] = Finalized
    BY DEF Base, Types
  <1>3. \A a \in Acts : act[a].toggle => a = preparing
    BY DEF Base, OnlyLatestFlips
  <1>4. CASE preparing = NoAct
    <2>1. Others = act
      BY <1>4 DEF Others
    <2>2. \A a \in Acts : act[a].toggle = FALSE
      BY <1>1, <1>3, <1>4, LineAssumption DEF Activity
    <2> QED
      BY <1>1, <1>2, <2>1, <2>2 DEF Weakened
  <1>5. CASE preparing \in Acts
    <2> DEFINE p == act[preparing]
    <2>1. p \in Activity
      BY <1>1, <1>5
    <2>2. Cancelled(p) \in Activity
      BY <2>1, CancelledFacts
    <2>3. Superseded(p) \in Activity /\ Superseded(p).toggle = FALSE
      BY <2>2 DEF Superseded, Activity
    <2>4. Superseded(p).refs = p.refs /\ Superseded(p).shown = p.shown
      BY <2>1, <2>2, CancelledFacts DEF Superseded, Activity
    <2>5. p = Finalized => Superseded(p) = Finalized
      <3>1. Finalized.toggle = FALSE /\ Finalized \in Activity
        BY DEF Finalized, Activity
      <3>2. [Finalized EXCEPT !.toggle = FALSE] = Finalized
        BY <3>1 DEF Activity
      <3> QED
        BY <2>1, <3>2, CancelledFacts DEF Superseded
    <2>6. Others = [act EXCEPT ![preparing] = Superseded(p)]
      BY <1>1, <1>5, LineAssumption DEF Others
    <2> HIDE DEF p
    <2>7. Others \in [Acts -> Activity]
      BY <1>1, <1>5, <2>3, <2>6
    <2>8. Others[preparing] = Superseded(p) /\ \A a \in Acts \ {preparing} : Others[a] = act[a]
      BY <1>1, <1>5, <2>6
    <2>9. \A a \in Acts \ {preparing} : act[a].toggle = FALSE
      BY <1>1, <1>3 DEF Activity
    <2> QED
      BY <1>2, <2>3, <2>4, <2>5, <2>7, <2>8, <2>9 DEF Weakened, p
  <1> QED
    BY <1>1, <1>4, <1>5

\* The activities with a new one, whose stores have all begun.
Begun(r, a) ==
    /\ r \in [Acts -> Activity]
    /\ r[a].refs = Cardinality(Stores)
    /\ r[a].toggle
    /\ ~r[a].shown
    /\ \A b \in Acts \ {a} : /\ r[b].refs = act[b].refs
                             /\ r[b].shown = act[b].shown
                             /\ ~r[b].toggle
                             /\ act[b].refs = 0 => r[b] = Finalized

\* The activities with a new one that nobody but the shell refers to.
Added(r, a) ==
    /\ r \in [Acts -> Activity]
    /\ r[a].refs = 1
    /\ r[a].toggle
    /\ ~r[a].shown
    /\ \A b \in Acts \ {a} : /\ r[b].refs = act[b].refs
                             /\ r[b].shown = act[b].shown
                             /\ ~r[b].toggle
                             /\ act[b].refs = 0 => r[b] = Finalized

LEMMA CreatedAdded ==
    ASSUME Base, NEW a \in Acts
    PROVE  Added([Others EXCEPT ![a] = Created], a)
  <1>1. Weakened(Others) /\ \A b \in Acts : ~Others[b].toggle
    BY OthersWeakened
  <1>2. Created \in Activity /\ Created.refs = 1 /\ Created.toggle /\ ~Created.shown
    <2>1. Finalized \in Activity /\ ~Finalized.shown
      BY DEF Finalized, Activity
    <2> QED
      BY <2>1 DEF Created, Activity
  <1>3. Others \in [Acts -> Activity]
    BY <1>1 DEF Weakened
  <1>4. /\ [Others EXCEPT ![a] = Created] \in [Acts -> Activity]
        /\ [Others EXCEPT ![a] = Created][a] = Created
        /\ \A b \in Acts \ {a} : [Others EXCEPT ![a] = Created][b] = Others[b]
    BY <1>2, <1>3
  <1> QED
    BY <1>1, <1>2, <1>4 DEF Added, Weakened

LEMMA AllCancelledAdded ==
    ASSUME NEW a \in Acts, NEW r, Added(r, a)
    PROVE  Added(AllCancelled(r), a)
  <1>1. r \in [Acts -> Activity]
    BY DEF Added
  <1>2. AllCancelled(r) \in [Acts -> Activity]
    BY <1>1, CancelledFacts DEF AllCancelled
  <1>3. \A b \in Acts :
           /\ AllCancelled(r)[b].refs = r[b].refs
           /\ AllCancelled(r)[b].shown = r[b].shown
           /\ AllCancelled(r)[b].toggle <=> r[b].toggle
           /\ r[b] = Finalized => AllCancelled(r)[b] = Finalized
    <2> SUFFICES ASSUME NEW b \in Acts
                 PROVE  /\ AllCancelled(r)[b].refs = r[b].refs
                        /\ AllCancelled(r)[b].shown = r[b].shown
                        /\ AllCancelled(r)[b].toggle <=> r[b].toggle
                        /\ r[b] = Finalized => AllCancelled(r)[b] = Finalized
      OBVIOUS
    <2>1. AllCancelled(r)[b] = Cancelled(r[b]) /\ r[b] \in Activity
      BY <1>1 DEF AllCancelled
    <2> QED
      BY <2>1, CancelledFacts
  <1> DEFINE q == AllCancelled(r)
  <1> HIDE DEF q
  <1>4. q[a].refs = 1 /\ q[a].toggle /\ ~q[a].shown
    BY <1>3 DEF Added, q
  <1>5. \A b \in Acts \ {a} : /\ q[b].refs = act[b].refs
                              /\ q[b].shown = act[b].shown
                              /\ ~q[b].toggle
                              /\ act[b].refs = 0 => q[b] = Finalized
    BY <1>3 DEF Added, q
  <1>6. q \in [Acts -> Activity]
    BY <1>2 DEF q
  <1>7. Added(q, a)
    BY <1>4, <1>5, <1>6 DEF Added
  <1> QED
    BY <1>7 DEF q

LEMMA OperationsBegun ==
    ASSUME NEW a \in Acts, NEW r, Added(r, a), NEW weak \in BOOLEAN
    PROVE  Begun(Released(WithOperations(r, a, weak), a), a)
  <1> DEFINE c == IF started THEN "live" ELSE r[a].cancellable
             u == r[a]
             n == u.refs + StoreRefs
             w == [u EXCEPT !.refs = n, !.weak = weak, !.cancellable = c]
             v == [w EXCEPT !.refs = @ - 1]
  <1>1. r \in [Acts -> Activity] /\ r[a] \in Activity
    BY DEF Added
  <1>2. c \in {"none", "live", "cancelled"}
    BY <1>1 DEF Activity
  <1>3. StoreRefs = Cardinality(Stores) /\ Cardinality(Stores) \in Nat
    BY SomeStore DEF StoreRefs
  <1>4. /\ w \in Activity
        /\ w.refs = 1 + Cardinality(Stores)
        /\ w.toggle = r[a].toggle
        /\ w.shown = r[a].shown
    <2>1. u.refs = 1 /\ n = 1 + Cardinality(Stores) /\ n \in Nat /\ u \in Activity
      BY <1>1, <1>3 DEF Added
    <2> HIDE DEF c, n, u
    <2>2. /\ w \in Activity /\ w.refs = n
          /\ w.toggle = u.toggle /\ w.shown = u.shown
      BY <1>2, <2>1 DEF Activity
    <2> QED
      BY <2>1, <2>2 DEF u
  <1>5. WithOperations(r, a, weak) = [r EXCEPT ![a] = w]
    BY <1>1 DEF WithOperations
  <1> HIDE DEF c, w
  <1>6. /\ v \in Activity
        /\ v.refs = Cardinality(Stores)
        /\ v.toggle = r[a].toggle
        /\ v.shown = r[a].shown
    BY <1>3, <1>4 DEF Activity
  <1>7. Released(WithOperations(r, a, weak), a) = [r EXCEPT ![a] = v]
    BY <1>1, <1>5 DEF Released
  <1> HIDE DEF v
  <1> QED
    BY <1>1, <1>6, <1>7 DEF Begun, Added

-----------------------------------------------------------------------------
\* A preparation begins: its stores switch, or its handler asks.
Begins(a) ==
    /\ preparing' = a
    /\ UNCHANGED <<online, crossed>>
    /\ preparingOnline' = asked'
    /\ {online, preparingOnline, netAvail, locked, autoReconnect, timer,
        session, started, asked}' \subseteq BOOLEAN

LEMMA BegunInv ==
    ASSUME LineInv, NEW a \in Acts, Fresh(a), Begun(act', a), Begins(a),
           Switching(a), UNCHANGED asking
    PROVE  LineInv'
  <1>1. /\ pending \in [Acts -> SUBSET Stores]
        /\ \A b \in Acts : act[b].refs = 0 => act[b] = Finalized
        /\ asking \in Acts \cup {NoAct}
    BY DEF LineInv, Base, Types
  <1>2. pending' \in [Acts -> SUBSET Stores]
    BY <1>1 DEF Switching
  <1>3. pending'[a] = Stores /\ \A b \in Acts \ {a} : pending'[b] = pending[b]
    BY <1>1 DEF Switching
  <1>4. Types'
    <2>1. \A b \in Acts : act'[b].refs = 0 => act'[b] = Finalized
      BY SomeStore DEF Begun
    <2> QED
      BY <1>1, <1>2, <2>1 DEF Types, Begun, Begins
  <1>5. OnlyLatestFlips'
    BY DEF OnlyLatestFlips, Begun, Begins
  <1>6. ~Settled' /\ preparing' = a
    BY DEF Settled, Begun, Begins
  <1>7. Bound' /\ Quiet'
    BY <1>6 DEF Bound, Quiet, Begins
  <1>8. Alive'
    BY <1>6, SomeStore DEF Alive, Begun
  <1>9. ASSUME ~crossed PROVE Counted'
    <2>1. /\ \A b \in Acts : act[b].refs = Held(b) /\ (act[b].shown => pending[b] = {})
          /\ asking \in Acts => pending[asking] = {} /\ ~act[asking].shown
      BY <1>9 DEF LineInv, Counted
    <2>2. asking # a
      <3>1. act[a].refs = 0 /\ pending[a] = {}
        BY DEF Fresh
      <3>2. Cardinality(pending[a]) = 0
        BY <3>1, FS_EmptySet
      <3> QED
        BY <2>1, <3>1, <3>2 DEF Held
    <2>3. act'[a].refs = Held(a)'
      BY <1>3, <2>2, SomeStore DEF Begun, Held
    <2>4. \A b \in Acts \ {a} : act'[b].refs = Held(b)'
      BY <1>3, <2>1 DEF Begun, Held
    <2>5. \A b \in Acts : act'[b].shown => pending'[b] = {}
      BY <1>3, <2>1 DEF Begun
    <2>6. asking' \in Acts => pending'[asking'] = {} /\ ~act'[asking'].shown
      BY <1>3, <2>1, <2>2 DEF Begun
    <2> QED
      BY <2>3, <2>4, <2>5, <2>6 DEF Counted, Begun
  <1>10. Unasked' /\ crossed' \in BOOLEAN /\ (~crossed' => Counted')
    BY <1>9 DEF LineInv, Unasked, Begins
  <1> QED
    BY <1>4, <1>5, <1>7, <1>8, <1>10 DEF LineInv, Base

LEMMA AskedInv ==
    ASSUME LineInv, NEW a \in Acts, Fresh(a), Added(act', a), Begins(a),
           asking = NoAct, asking' = a, MayAsk, UNCHANGED <<session, pending>>
    PROVE  LineInv'
  <1>1. /\ pending \in [Acts -> SUBSET Stores]
        /\ \A b \in Acts : act[b].refs = 0 => act[b] = Finalized
    BY DEF LineInv, Base, Types
  <1>2. Types'
    <2>1. \A b \in Acts : act'[b].refs = 0 => act'[b] = Finalized
      BY DEF Added
    <2> QED
      BY <1>1, <2>1 DEF Types, Added, Begins
  <1>3. OnlyLatestFlips'
    BY DEF OnlyLatestFlips, Added, Begins
  <1>4. ~Settled' /\ preparing' = a
    BY DEF Settled, Added, Begins
  <1>5. Bound' /\ Quiet' /\ Alive'
    BY <1>4 DEF Bound, Quiet, Alive, Begins, Added
  <1>6. ASSUME ~crossed PROVE Counted'
    <2>1. \A b \in Acts : act[b].refs = Held(b) /\ (act[b].shown => pending[b] = {})
      BY <1>6 DEF LineInv, Counted
    <2>2. pending[a] = {} /\ Cardinality(pending[a]) = 0
      BY FS_EmptySet DEF Fresh
    <2>3. act'[a].refs = Held(a)'
      BY <2>2 DEF Added, Held
    <2>4. \A b \in Acts \ {a} : act'[b].refs = Held(b)'
      BY <2>1, LineAssumption DEF Added, Held
    <2>5. \A b \in Acts : act'[b].shown => pending'[b] = {}
      BY <2>1, <2>2 DEF Added
    <2> QED
      BY <2>2, <2>3, <2>4, <2>5 DEF Counted, Added
  <1>7. Unasked' /\ crossed' \in BOOLEAN /\ (~crossed' => Counted')
    BY <1>6 DEF LineInv, Unasked, Begins
  <1> QED
    BY <1>2, <1>3, <1>5, <1>7 DEF LineInv, Base

\* What a request does to the line: the invariant, and no change of it yet.
LEMMA SetOnlineStep ==
    ASSUME LineInv, NEW line \in BOOLEAN, NEW net \in BOOLEAN, SetOnline(line, net),
           net => line \/ asking = NoAct, UNCHANGED crossed,
           {netAvail, locked, autoReconnect, timer, started}' \subseteq BOOLEAN
    PROVE  LineInv' /\ online' = online
  <1>0. /\ {online, preparingOnline, session, asked} \subseteq BOOLEAN
        /\ online' = online /\ asked' = line
    BY DEF LineInv, Base, Types, SetOnline
  <1>1. CASE /\ line = online
             /\ preparing = NoAct
             /\ UNCHANGED <<preparing, preparingOnline, act, session, pending, asking>>
    <2>1. Types'
      BY <1>0, <1>1 DEF LineInv, Base, Types
    <2>2. OnlyLatestFlips' /\ Quiet' /\ Alive' /\ Unasked'
      BY <1>0, <1>1 DEF LineInv, Base, OnlyLatestFlips, Quiet, Settled, Alive, Unasked
    <2>3. ~crossed' => Counted'
      BY <1>1 DEF LineInv, Counted, Held
    <2>4. Bound'
      BY <1>0, <1>1, LineAssumption DEF Bound, Settled
    <2> QED
      BY <1>0, <2>1, <2>2, <2>3, <2>4 DEF LineInv, Base
  <1>2. CASE \E a \in Acts :
                /\ Fresh(a)
                /\ IF line THEN PrepareForOnline(a) ELSE PrepareForOffline(a, net)
    <2> PICK a \in Acts :
                /\ Fresh(a)
                /\ IF line THEN PrepareForOnline(a) ELSE PrepareForOffline(a, net)
      BY <1>2
    <2> DEFINE new == [Others EXCEPT ![a] = Created]
    <2>1. Added(new, a)
      BY CreatedAdded DEF LineInv
    <2>2. CASE line
      <3>1. PrepareForOnline(a)
        BY <2>2
      <3>2. act' = Released(WithOperations(new, a, FALSE), a)
        BY <3>1 DEF PrepareForOnline
      <3> HIDE DEF new
      <3>3. Begun(act', a)
        BY <2>1, <3>2, OperationsBegun
      <3>4. Begins(a) /\ Switching(a) /\ UNCHANGED asking
        BY <1>0, <2>2, <3>1 DEF PrepareForOnline, Begins
      <3> QED
        BY <1>0, <3>3, <3>4, BegunInv
    <2>3. CASE ~line
      <3>1. PrepareForOffline(a, net)
        BY <2>3
      <3>2. CASE /\ started /\ net /\ MayAsk
                 /\ act' = new /\ asking' = a
                 /\ UNCHANGED <<session, pending>>
        <4>1. Begins(a)
          BY <1>0, <2>3, <3>1, <3>2 DEF PrepareForOffline, Begins
        <4> HIDE DEF new
        <4>2. Added(act', a)
          BY <2>1, <3>2
        <4> QED
          BY <1>0, <2>3, <3>2, <4>1, <4>2, AskedInv
      <3>3. CASE /\ act' = Released(PreparedForOffline(new, a, net, FALSE), a)
                 /\ session' = SessionOffline(net, FALSE)
                 /\ Switching(a)
                 /\ UNCHANGED asking
        <4> HIDE DEF new
        <4>1. Begun(act', a)
          <5>1. CASE Abrupt(net, FALSE)
            BY <2>1, <3>3, <5>1, AllCancelledAdded, OperationsBegun DEF PreparedForOffline
          <5>2. CASE ~Abrupt(net, FALSE)
            BY <2>1, <3>3, <5>2, OperationsBegun DEF PreparedForOffline
          <5> QED
            BY <5>1, <5>2
        <4>2. Begins(a)
          BY <1>0, <2>3, <3>1, <3>3 DEF PrepareForOffline, SessionOffline, Begins
        <4> QED
          BY <1>0, <3>3, <4>1, <4>2, BegunInv
      <3> QED
        BY <3>1, <3>2, <3>3 DEF PrepareForOffline
    <2> QED
      BY <2>2, <2>3
  <1> QED
    BY <1>1, <1>2 DEF SetOnline

-----------------------------------------------------------------------------
(***************************************************************************)
(* The end of a reference on a.  r is the activities as the caller of      *)
(* g_object_unref () leaves them.                                          *)
(***************************************************************************)
\* It is not the last; it is; it is, and the task bar takes one.
OneLess(r, s, a) ==
    /\ r[a].refs > 1
    /\ act'[a].refs = r[a].refs - 1
    /\ act'[a].toggle = r[a].toggle /\ act'[a].shown = r[a].shown
    /\ session' = s
    /\ UNCHANGED <<online, preparing, asked>>
Gone(r, a) ==
    /\ r[a].refs = 1
    /\ act'[a] = Finalized
    /\ preparing' = IF preparing = a THEN NoAct ELSE preparing
Kept(r, a) ==
    /\ r[a].refs = 1 /\ r[a].toggle
    /\ act'[a].refs = 1 /\ act'[a].toggle = FALSE /\ act'[a].shown = TRUE
    /\ preparing' = preparing

\* The last one of the activity the shell has a toggle reference on changes the
\* line, or what was asked for.
Changes(r, s, a) ==
    IF r[a].toggle
    THEN /\ session' = online'
         /\ \/ online' = online /\ asked' = online
            \/ online' = preparingOnline /\ asked' = asked
    ELSE session' = (s /\ ~r[a].weak) /\ UNCHANGED <<online, asked>>

Dropped(r, s, a) ==
    /\ act' \in [Acts -> Activity]
    /\ \A b \in Acts \ {a} : act'[b] = r[b]
    /\ OneLess(r, s, a) \/ ((Gone(r, a) \/ Kept(r, a)) /\ Changes(r, s, a))

LEMMA UnrefEffect ==
    ASSUME NEW r \in [Acts -> Activity], NEW s, NEW a \in Acts, r[a].refs > 0,
           Unref(r, s, a)
    PROVE  Dropped(r, s, a)
  <1>1. r[a] \in Activity /\ r[a].refs \in Nat
    BY DEF Activity
  <1>2. Finalized \in Activity
    BY DEF Finalized, Activity
  <1>3. CASE r[a].refs - 1 > 0
    <2> DEFINE u == r[a]
               left == u.refs - 1
               v == [u EXCEPT !.refs = left]
    <2>1. act' = [r EXCEPT ![a].refs = left] /\ session' = s
          /\ UNCHANGED <<online, preparing, asked>>
      BY <1>1, <1>3 DEF Unref
    <2>2. act' = [r EXCEPT ![a] = v]
      BY <2>1
    <2>3. left \in Nat /\ left = u.refs - 1 /\ u.refs > 1 /\ u \in Activity
      BY <1>1, <1>3
    <2> HIDE DEF left, u
    <2>4. v \in Activity /\ v.refs = left /\ v.toggle = u.toggle /\ v.shown = u.shown
      BY <2>3 DEF Activity
    <2> HIDE DEF v
    <2>5. act' \in [Acts -> Activity] /\ act'[a] = v /\ \A b \in Acts \ {a} : act'[b] = r[b]
      BY <2>2, <2>4
    <2>6. OneLess(r, s, a)
      BY <2>1, <2>3, <2>4, <2>5 DEF OneLess, u
    <2> QED
      BY <2>5, <2>6 DEF Dropped
  <1>4. CASE r[a].refs - 1 = 0
    <2>1. r[a].refs = 1
      BY <1>1, <1>4
    <2>2. ASSUME Finalize(r, a)
          PROVE  /\ act' \in [Acts -> Activity] /\ Gone(r, a)
                 /\ \A b \in Acts \ {a} : act'[b] = r[b]
      BY <1>2, <2>1, <2>2 DEF Finalize, Gone
    <2>3. CASE r[a].toggle
      <3>1. ReadyForOnlineChange(r, s /\ ~r[a].weak, a)
        BY <1>1, <1>4, <2>3 DEF Unref
      <3>2. Changes(r, s, a)
        BY <2>3, <3>1, Zenon DEF ReadyForOnlineChange, LineAfter, Notified, Changes
      <3>3. CASE Finalize(r, a)
        BY <2>2, <3>2, <3>3 DEF Dropped
      <3>4. CASE /\ act' = [r EXCEPT ![a].refs = 1, ![a].toggle = FALSE, ![a].shown = TRUE]
                 /\ UNCHANGED preparing
        <4> DEFINE u == r[a]
                   v == [u EXCEPT !.refs = 1, !.toggle = FALSE, !.shown = TRUE]
        <4>1. act' = [r EXCEPT ![a] = v]
          BY <3>4
        <4>2. u \in Activity
          BY <1>1
        <4> HIDE DEF u
        <4>3. v \in Activity /\ v.refs = 1 /\ v.toggle = FALSE /\ v.shown = TRUE
          BY <4>2 DEF Activity
        <4> HIDE DEF v
        <4>4. act' \in [Acts -> Activity] /\ act'[a] = v /\ \A b \in Acts \ {a} : act'[b] = r[b]
          BY <4>1, <4>3
        <4>5. Kept(r, a)
          BY <2>1, <2>3, <3>4, <4>3, <4>4 DEF Kept
        <4> QED
          BY <3>2, <4>4, <4>5 DEF Dropped
      <3> QED
        BY <3>1, <3>3, <3>4 DEF ReadyForOnlineChange
    <2>4. CASE ~r[a].toggle
      <3>1. Finalize(r, a) /\ session' = (s /\ ~r[a].weak) /\ UNCHANGED <<online, asked>>
        BY <1>1, <1>4, <2>4 DEF Unref
      <3>2. Changes(r, s, a)
        BY <2>4, <3>1, Zenon DEF Changes
      <3> QED
        BY <2>2, <3>1, <3>2 DEF Dropped
    <2> QED
      BY <2>3, <2>4
  <1> QED
    BY <1>1, <1>3, <1>4 DEF Unref

\* The activities as a callback finds them, or as a handler has made them.
SameToggles(r) ==
    /\ r \in [Acts -> Activity]
    /\ \A b \in Acts : /\ r[b].toggle = act[b].toggle
                       /\ r[b].refs = 0 => r[b] = Finalized
                       /\ act[b].refs > 0 => r[b].refs > 0

Rest == UNCHANGED <<preparingOnline, netAvail, locked, autoReconnect, timer, started>>

LEMMA DroppedBase ==
    ASSUME Base, NEW r, SameToggles(r), NEW s \in BOOLEAN, s => session, NEW a \in Acts,
           Dropped(r, s, a), Rest,
           asking' \in Acts \cup {NoAct}, pending' \in [Acts -> SUBSET Stores]
    PROVE  /\ Base'
           /\ online' # online => r[a].refs = 1 /\ r[a].toggle
  <1>1. /\ act \in [Acts -> Activity] /\ preparing \in Acts \cup {NoAct}
        /\ online \in BOOLEAN /\ session \in BOOLEAN /\ asked \in BOOLEAN
        /\ preparingOnline \in BOOLEAN /\ preparingOnline' = preparingOnline
        /\ {preparingOnline, netAvail, locked, autoReconnect, timer, started}' \subseteq BOOLEAN
    BY DEF Base, Types, Rest
  <1>2. /\ r \in [Acts -> Activity]
        /\ \A b \in Acts : r[b].toggle => b = preparing
        /\ \A b \in Acts : r[b].refs = 0 => r[b] = Finalized
        /\ preparing \in Acts => r[preparing].refs > 0
    BY <1>1 DEF SameToggles, Base, OnlyLatestFlips, Alive
  <1>3. /\ act' \in [Acts -> Activity]
        /\ \A b \in Acts \ {a} : act'[b] = r[b]
        /\ OneLess(r, s, a) \/ ((Gone(r, a) \/ Kept(r, a)) /\ Changes(r, s, a))
    BY DEF Dropped
  <1>4. /\ Finalized \in Activity /\ Finalized.refs = 0 /\ Finalized.toggle = FALSE
        /\ Finalized.shown = FALSE
    BY DEF Finalized, Activity
  <1>5. Settled <=> (preparing \in Acts => ~r[preparing].toggle)
    BY DEF Settled, SameToggles
  <1>6. asked = (IF Settled THEN online ELSE preparingOnline) /\ (Settled /\ ~online => ~session)
    BY DEF Base, Bound, Quiet
  <1>7. CASE OneLess(r, s, a)
    <2>1. /\ r[a].refs \in Nat /\ act'[a].refs = r[a].refs - 1 /\ r[a].refs > 1
          /\ act'[a].toggle = r[a].toggle
          /\ session' = s /\ UNCHANGED <<online, preparing, asked>>
      BY <1>2, <1>7 DEF OneLess, Activity
    <2>2. act'[a].refs > 0
      BY <2>1
    <2>3. \A b \in Acts : act'[b].toggle = r[b].toggle
      BY <1>3, <2>1
    <2>4. Settled' <=> Settled
      BY <1>5, <2>1, <2>3 DEF Settled
    <2>5. Types'
      <3>1. \A b \in Acts : act'[b].refs = 0 => act'[b] = Finalized
        BY <1>2, <1>3, <2>2
      <3> QED
        BY <1>1, <1>3, <2>1, <3>1 DEF Types
    <2>6. OnlyLatestFlips'
      BY <1>2, <2>1, <2>3 DEF OnlyLatestFlips
    <2>7. Bound' /\ Quiet'
      BY <1>1, <1>6, <2>1, <2>4 DEF Bound, Quiet
    <2>8. Alive'
      BY <1>2, <1>3, <2>1, <2>2 DEF Alive
    <2> QED
      BY <2>1, <2>5, <2>6, <2>7, <2>8 DEF Base
  <1>8. CASE (Gone(r, a) \/ Kept(r, a)) /\ Changes(r, s, a)
    <2>1. /\ r[a].refs = 1 /\ act'[a].toggle = FALSE
          /\ \/ act'[a] = Finalized /\ preparing' = IF preparing = a THEN NoAct ELSE preparing
             \/ act'[a].refs = 1 /\ preparing' = preparing /\ r[a].toggle
      BY <1>4, <1>8 DEF Gone, Kept
    <2>2. Types'
      <3>1. \A b \in Acts : act'[b].refs = 0 => act'[b] = Finalized
        BY <1>2, <1>3, <2>1
      <3>2. preparing' \in Acts \cup {NoAct}
        BY <1>1, <2>1
      <3>3. online' \in BOOLEAN /\ asked' \in BOOLEAN /\ session' \in BOOLEAN
        BY <1>1, <1>8 DEF Changes
      <3> QED
        BY <1>1, <1>3, <3>1, <3>2, <3>3 DEF Types
    <2>3. OnlyLatestFlips'
      <3>1. ASSUME NEW b \in Acts, act'[b].toggle PROVE b = preparing'
        <4>1. b # a
          BY <2>1, <3>1
        <4>2. b = preparing
          BY <1>2, <1>3, <3>1, <4>1
        <4> QED
          BY <2>1, <4>1, <4>2
      <3> QED
        BY <3>1 DEF OnlyLatestFlips
    <2>4. Alive'
      <3>1. ASSUME preparing' \in Acts PROVE act'[preparing'].refs > 0
        <4>1. preparing' = preparing
          BY <2>1, <3>1, LineAssumption
        <4>2. CASE preparing = a
          BY <2>1, <3>1, <4>1, <4>2, LineAssumption
        <4>3. CASE preparing # a
          BY <1>2, <1>3, <3>1, <4>1, <4>3
        <4> QED
          BY <4>2, <4>3
      <3> QED
        BY <3>1 DEF Alive
    <2>5. CASE r[a].toggle
      <3>1. preparing = a /\ ~Settled
        BY <1>2, <1>5, <2>5
      <3>2. Settled'
        BY <2>1, <3>1, LineAssumption DEF Settled
      <3>3. session' = online' /\ asked' = online'
        BY <1>6, <1>8, <2>5, <3>1 DEF Changes
      <3>4. Bound' /\ Quiet'
        BY <3>2, <3>3 DEF Bound, Quiet
      <3> QED
        BY <2>1, <2>2, <2>3, <2>4, <2>5, <3>4 DEF Base
    <2>6. CASE ~r[a].toggle
      <3>1. session' = (s /\ ~r[a].weak) /\ UNCHANGED <<online, asked>>
        BY <1>8, <2>6, Zenon DEF Changes
      <3>2. preparing' = IF preparing = a THEN NoAct ELSE preparing
        BY <2>1, <2>6
      <3>3. Settled' <=> Settled
        <4>1. CASE preparing = a
          BY <1>5, <2>6, <3>2, <4>1, LineAssumption DEF Settled
        <4>2. CASE preparing # a
          BY <1>3, <1>5, <3>2, <4>2 DEF Settled
        <4> QED
          BY <4>1, <4>2
      <3>4. session' => session
        BY <3>1
      <3>5. Bound' /\ Quiet'
        BY <1>1, <1>6, <3>1, <3>3, <3>4 DEF Bound, Quiet
      <3> QED
        BY <2>2, <2>3, <2>4, <3>1, <3>5 DEF Base
    <2> QED
      BY <2>5, <2>6
  <1> QED
    BY <1>3, <1>7, <1>8

\* What the references of r count, but for the one that is given up.
LEMMA DroppedCounted ==
    ASSUME NEW r \in [Acts -> Activity], NEW s, NEW a \in Acts, Dropped(r, s, a),
           pending' \in [Acts -> SUBSET Stores],
           \A b \in Acts : r[b].refs = Cardinality(pending'[b]) + (IF r[b].shown THEN 1 ELSE 0)
                                         + (IF asking' = b THEN 1 ELSE 0)
                                         + (IF b = a THEN 1 ELSE 0),
           \A b \in Acts : r[b].toggle => ~r[b].shown,
           \A b \in Acts : r[b].shown => pending'[b] = {},
           asking' \in Acts => pending'[asking'] = {} /\ ~r[asking'].shown
    PROVE  /\ Counted'
           /\ r[a].refs = 1 => pending'[a] = {}
  <1>1. /\ act' \in [Acts -> Activity]
        /\ \A b \in Acts \ {a} : act'[b] = r[b]
        /\ OneLess(r, s, a) \/ Gone(r, a) \/ Kept(r, a)
    BY DEF Dropped
  <1>2. \A b \in Acts : /\ Cardinality(pending'[b]) \in Nat
                        /\ Cardinality(pending'[b]) = 0 => pending'[b] = {}
    BY StoreSets
  <1>3. r[a].refs = 1 => /\ Cardinality(pending'[a]) = 0 /\ pending'[a] = {}
                         /\ ~r[a].shown /\ asking' # a
    BY <1>2
  <1>4. \A b \in Acts \ {a} : act'[b].refs = Held(b)'
    <2> SUFFICES ASSUME NEW b \in Acts \ {a}
                 PROVE  act'[b].refs = Held(b)'
      OBVIOUS
    <2>1. act'[b] = r[b] /\ Cardinality(pending'[b]) \in Nat
      BY <1>1, <1>2
    <2>2. r[b].refs = Cardinality(pending'[b]) + (IF r[b].shown THEN 1 ELSE 0)
                        + (IF asking' = b THEN 1 ELSE 0) + (IF b = a THEN 1 ELSE 0)
      OBVIOUS
    <2>3. r[b].refs = Cardinality(pending'[b]) + (IF r[b].shown THEN 1 ELSE 0)
                        + (IF asking' = b THEN 1 ELSE 0)
      BY <2>1, <2>2
    <2>4. act'[b].refs = Cardinality(pending'[b]) + (IF act'[b].shown THEN 1 ELSE 0)
                        + (IF asking' = b THEN 1 ELSE 0)
      BY <2>1, <2>3
    <2> QED
      BY <2>4, Zenon DEF Held
  <1>5. CASE OneLess(r, s, a)
    <2>1. /\ act'[a].refs = r[a].refs - 1
          /\ act'[a].toggle = r[a].toggle /\ act'[a].shown = r[a].shown
      BY <1>5 DEF OneLess
    <2>2. act'[a].refs = Held(a)'
      BY <1>2, <2>1 DEF Held
    <2>3. \A b \in Acts : act'[b].toggle = r[b].toggle /\ act'[b].shown = r[b].shown
      BY <1>1, <2>1
    <2>4. Counted'
      BY <1>4, <2>2, <2>3 DEF Counted
    <2> QED
      BY <1>3, <2>4
  <1>6. CASE Gone(r, a) \/ Kept(r, a)
    <2>1. r[a].refs = 1 /\ act'[a].toggle = FALSE
          /\ act'[a].refs = IF act'[a].shown THEN 1 ELSE 0
      BY <1>6 DEF Gone, Kept, Finalized
    <2>2. act'[a].refs = Held(a)'
      BY <1>3, <2>1 DEF Held
    <2>3. \A b \in Acts : act'[b].toggle => ~act'[b].shown
      BY <1>1, <2>1
    <2>4. \A b \in Acts : act'[b].shown => pending'[b] = {}
      BY <1>1, <1>3, <2>1
    <2>5. asking' \in Acts => pending'[asking'] = {} /\ ~act'[asking'].shown
      BY <1>1, <1>3, <2>1
    <2>6. Counted'
      BY <1>4, <2>2, <2>3, <2>4, <2>5 DEF Counted
    <2> QED
      BY <1>3, <2>6
  <1> QED
    BY <1>1, <1>5, <1>6

-----------------------------------------------------------------------------
\* A store that has finished: the line changes only when it was the last.
LEMMA StoreDoneStep ==
    ASSUME LineInv, NEW a \in Acts, NEW store \in Stores, StoreDone(a, store),
           UNCHANGED crossed
    PROVE  LineInv' /\ (online' # online /\ ~crossed => pending'[preparing] = {})
  <1>1. /\ store \in pending[a] /\ act[a].refs > 0
        /\ pending' = [pending EXCEPT ![a] = @ \ {store}]
        /\ Unref(act, session, a)
        /\ Rest /\ UNCHANGED asking
    BY DEF StoreDone, DoneCallback, Rest
  <1>2. /\ Base /\ act \in [Acts -> Activity]
        /\ pending \in [Acts -> SUBSET Stores]
        /\ session \in BOOLEAN /\ asking \in Acts \cup {NoAct}
        /\ \A b \in Acts : act[b].refs = 0 => act[b] = Finalized
        /\ \A b \in Acts : act[b].toggle => b = preparing
    BY DEF LineInv, Base, Types, OnlyLatestFlips
  <1>3. Dropped(act, session, a)
    BY <1>1, <1>2, UnrefEffect
  <1>4. SameToggles(act)
    BY <1>2 DEF SameToggles
  <1>5. /\ pending' \in [Acts -> SUBSET Stores]
        /\ pending'[a] = pending[a] \ {store}
        /\ \A b \in Acts \ {a} : pending'[b] = pending[b]
    BY <1>1, <1>2
  <1>6. Base' /\ (online' # online => act[a].refs = 1 /\ act[a].toggle)
    BY <1>1, <1>2, <1>3, <1>4, <1>5, DroppedBase
  <1>7. ASSUME ~crossed
        PROVE  Counted' /\ (act[a].refs = 1 => pending'[a] = {})
    <2>1. /\ \A b \in Acts : act[b].refs = Cardinality(pending[b])
                                 + (IF act[b].shown THEN 1 ELSE 0)
                                 + (IF asking = b THEN 1 ELSE 0)
          /\ \A b \in Acts : act[b].toggle => ~act[b].shown
          /\ \A b \in Acts : act[b].shown => pending[b] = {}
          /\ asking \in Acts => pending[asking] = {} /\ ~act[asking].shown
      BY <1>7 DEF LineInv, Counted, Held
    <2>2. /\ Cardinality(pending[a]) \in Nat
          /\ Cardinality(pending'[a]) = Cardinality(pending[a]) - 1
      BY <1>1, <1>2, <1>5, StoreSets
    <2>3. ASSUME NEW b \in Acts
          PROVE  act[b].refs = Cardinality(pending'[b]) + (IF act[b].shown THEN 1 ELSE 0)
                                 + (IF asking' = b THEN 1 ELSE 0)
                                 + (IF b = a THEN 1 ELSE 0)
      <3>1. Cardinality(pending[b]) \in Nat
        BY <1>2, StoreSets
      <3>2. CASE b = a
        BY <1>1, <2>1, <2>2, <3>2 DEF Rest
      <3>3. CASE b # a
        BY <1>1, <1>5, <2>1, <3>1, <3>3 DEF Rest
      <3> QED
        BY <3>2, <3>3
    <2>4. \A b \in Acts : act[b].shown => pending'[b] = {}
      BY <1>1, <1>5, <2>1
    <2>5. asking' \in Acts => pending'[asking'] = {} /\ ~act[asking'].shown
      BY <1>1, <1>5, <2>1
    <2> QED
      BY <1>2, <1>3, <1>5, <2>1, <2>3, <2>4, <2>5, DroppedCounted
  <1>8. online' # online /\ ~crossed => pending'[preparing] = {}
    BY <1>2, <1>6, <1>7
  <1>9. Unasked' /\ crossed' \in BOOLEAN /\ (~crossed' => Counted')
    BY <1>1, <1>7 DEF LineInv, Unasked
  <1> QED
    BY <1>6, <1>8, <1>9 DEF LineInv

\* The task bar lets the cancelled activity go.
LEMMA FeedbackStep ==
    ASSUME LineInv, NEW a \in Acts, FeedbackEnds(a), UNCHANGED crossed
    PROVE  LineInv' /\ (~crossed => online' = online)
  <1>1. act[a].shown /\ Unref(act, session, a) /\ Rest /\ UNCHANGED <<pending, asking>>
    BY DEF FeedbackEnds, Rest
  <1>2. /\ Base /\ act \in [Acts -> Activity]
        /\ pending \in [Acts -> SUBSET Stores]
        /\ session \in BOOLEAN /\ asking \in Acts \cup {NoAct}
        /\ \A b \in Acts : act[b].refs = 0 => act[b] = Finalized
    BY DEF LineInv, Base, Types
  <1>3. act[a].refs > 0
    <2>1. Finalized.shown = FALSE
      BY DEF Finalized
    <2>2. act[a].refs \in Nat /\ act[a].refs # 0
      BY <1>1, <1>2, <2>1 DEF Activity
    <2> QED
      BY <2>2
  <1>4. Dropped(act, session, a)
    BY <1>1, <1>2, <1>3, UnrefEffect
  <1>5. SameToggles(act)
    BY <1>2 DEF SameToggles
  <1>6. Base' /\ (online' # online => act[a].refs = 1 /\ act[a].toggle)
    BY <1>1, <1>2, <1>4, <1>5, DroppedBase
  <1>7. ASSUME ~crossed
        PROVE  Counted' /\ online' = online
    <2>1. /\ \A b \in Acts : act[b].refs = Cardinality(pending[b])
                                 + (IF act[b].shown THEN 1 ELSE 0)
                                 + (IF asking = b THEN 1 ELSE 0)
          /\ \A b \in Acts : act[b].toggle => ~act[b].shown
          /\ \A b \in Acts : act[b].shown => pending[b] = {}
          /\ asking \in Acts => pending[asking] = {} /\ ~act[asking].shown
      BY <1>7 DEF LineInv, Counted, Held
    <2>2. pending[a] = {} /\ asking # a /\ ~act[a].toggle
      BY <1>1, <2>1
    <2>3. act[a].refs = 1
      <3>1. Cardinality(pending[a]) = 0
        BY <2>2, FS_EmptySet
      <3> QED
        <4>1. act[a].refs = Cardinality(pending[a]) + (IF act[a].shown THEN 1 ELSE 0)
                              + (IF asking = a THEN 1 ELSE 0)
          BY <2>1
        <4>2. act[a].refs = 0 + 1 + 0
          BY <1>1, <2>2, <3>1, <4>1, Zenon
        <4> QED
          BY <4>2
    <2>4. act'[a] = Finalized /\ \A b \in Acts \ {a} : act'[b] = act[b]
      BY <1>4, <2>2, <2>3 DEF Dropped, OneLess, Kept, Gone
    <2>5. Finalized.refs = 0 /\ Finalized.toggle = FALSE /\ Finalized.shown = FALSE
      BY DEF Finalized
    <2>6. Held(a)' = 0
      BY <1>1, <2>2, <2>4, <2>5, FS_EmptySet DEF Held
    <2>7. \A b \in Acts : act'[b].refs = Held(b)'
      BY <1>1, <2>1, <2>4, <2>5, <2>6 DEF Held
    <2>8. Counted'
      BY <1>1, <2>1, <2>4, <2>5, <2>7 DEF Counted
    <2> QED
      BY <1>6, <2>2, <2>8
  <1>8. Unasked' /\ crossed' \in BOOLEAN /\ (~crossed' => Counted')
    BY <1>1, <1>7 DEF LineInv, Unasked
  <1> QED
    BY <1>6, <1>7, <1>8 DEF LineInv

\* The user cancels an activity.
LEMMA UserCancelStep ==
    ASSUME LineInv, NEW a \in Acts, UserCancel(a), UNCHANGED crossed
    PROVE  LineInv'
  <1>1. /\ act' = [act EXCEPT ![a] = Cancelled(act[a])]
        /\ UNCHANGED <<online, preparing, preparingOnline, netAvail, locked,
                       autoReconnect, timer, session, started, pending, asking, asked>>
    BY DEF UserCancel
  <1>2. act \in [Acts -> Activity] /\ act[a] \in Activity
    BY DEF LineInv, Base, Types
  <1>3. /\ Cancelled(act[a]) \in Activity
        /\ Cancelled(act[a]).refs = act[a].refs
        /\ Cancelled(act[a]).shown = act[a].shown
        /\ Cancelled(act[a]).toggle = act[a].toggle
        /\ act[a] = Finalized => Cancelled(act[a]) = Finalized
    BY <1>2, CancelledFacts
  <1>4. /\ act' \in [Acts -> Activity]
        /\ act'[a] = Cancelled(act[a])
        /\ \A b \in Acts \ {a} : act'[b] = act[b]
    BY <1>1, <1>2, <1>3
  <1>5. \A b \in Acts : /\ act'[b].refs = act[b].refs
                        /\ act'[b].shown = act[b].shown
                        /\ act'[b].toggle = act[b].toggle
                        /\ act[b] = Finalized => act'[b] = Finalized
    BY <1>3, <1>4
  <1>6. Types'
    BY <1>1, <1>4, <1>5 DEF LineInv, Base, Types
  <1>7. ~crossed' => Counted'
    BY <1>1, <1>5 DEF LineInv, Counted, Held
  <1>8. OnlyLatestFlips' /\ Alive'
    BY <1>1, <1>5 DEF LineInv, Base, OnlyLatestFlips, Alive
  <1>9. Settled' <=> Settled
    BY <1>1, <1>5 DEF Settled
  <1>10. Bound' /\ Quiet'
    BY <1>1, <1>9 DEF LineInv, Base, Bound, Quiet
  <1>11. Unasked' /\ crossed' \in BOOLEAN
    BY <1>1 DEF LineInv, Unasked
  <1> QED
    BY <1>6, <1>7, <1>8, <1>10, <1>11 DEF LineInv, Base

\* What leaves the activities and the line alone.
LEMMA QuietInv ==
    ASSUME LineInv,
           UNCHANGED <<online, preparing, preparingOnline, session, act, pending,
                       asking, asked, crossed>>,
           {netAvail, locked, autoReconnect, timer, started}' \subseteq BOOLEAN
    PROVE  LineInv'
  <1>1. Types'
    BY DEF LineInv, Base, Types
  <1>2. ~crossed' => Counted'
    BY DEF LineInv, Counted, Held
  <1>3. OnlyLatestFlips' /\ Bound' /\ Quiet' /\ Alive'
    BY DEF LineInv, Base, OnlyLatestFlips, Bound, Quiet, Alive, Settled
  <1>4. Unasked' /\ crossed' \in BOOLEAN
    BY DEF LineInv, Unasked
  <1> QED
    BY <1>1, <1>2, <1>3, <1>4 DEF LineInv, Base

-----------------------------------------------------------------------------
(***************************************************************************)
(* The handler goes on after its question.                                 *)
(***************************************************************************)
\* The activities as it leaves them: every store has a reference on its own.
Resumed(r, a) ==
    /\ SameToggles(r)
    /\ r[a].refs = act[a].refs + Cardinality(Stores)
    /\ \A b \in Acts : r[b].shown = act[b].shown
    /\ \A b \in Acts \ {a} : r[b].refs = act[b].refs

LEMMA AllCancelledFacts ==
    ASSUME act \in [Acts -> Activity], NEW b \in Acts
    PROVE  /\ AllCancelled(act) \in [Acts -> Activity]
           /\ AllCancelled(act)[b].refs = act[b].refs
           /\ AllCancelled(act)[b].shown = act[b].shown
           /\ AllCancelled(act)[b].toggle = act[b].toggle
           /\ act[b] = Finalized => AllCancelled(act)[b] = Finalized
  <1>1. AllCancelled(act) \in [Acts -> Activity]
    BY CancelledFacts DEF AllCancelled
  <1>2. AllCancelled(act)[b] = Cancelled(act[b]) /\ act[b] \in Activity
    BY DEF AllCancelled
  <1> QED
    BY <1>1, <1>2, CancelledFacts

LEMMA ResumedFacts ==
    ASSUME Base, NEW a \in Acts, NEW synchronize \in BOOLEAN
    PROVE  Resumed(PreparedForOffline(act, a, TRUE, synchronize), a)
  <1> DEFINE q == IF Abrupt(TRUE, synchronize) THEN AllCancelled(act) ELSE act
             u == q[a]
             c == IF started THEN "live" ELSE u.cancellable
             n == u.refs + StoreRefs
             w == [u EXCEPT !.refs = n, !.weak = TRUE, !.cancellable = c]
  <1>1. act \in [Acts -> Activity] /\ \A b \in Acts : act[b].refs = 0 => act[b] = Finalized
    BY DEF Base, Types
  <1>2. /\ q \in [Acts -> Activity]
        /\ \A b \in Acts : /\ q[b].refs = act[b].refs
                           /\ q[b].shown = act[b].shown
                           /\ q[b].toggle = act[b].toggle
                           /\ act[b] = Finalized => q[b] = Finalized
    <2>1. CASE Abrupt(TRUE, synchronize)
      BY <1>1, <2>1, AllCancelledFacts
    <2>2. CASE ~Abrupt(TRUE, synchronize)
      BY <1>1, <2>2
    <2> QED
      BY <2>1, <2>2
  <1>3. PreparedForOffline(act, a, TRUE, synchronize) = WithOperations(q, a, TRUE)
    BY DEF PreparedForOffline
  <1> HIDE DEF q
  <1>4. StoreRefs = Cardinality(Stores) /\ Cardinality(Stores) \in Nat /\ Cardinality(Stores) > 0
    BY SomeStore DEF StoreRefs
  <1>5. u \in Activity /\ u.refs \in Nat
    BY <1>2 DEF Activity
  <1>6. n \in Nat /\ n > 0 /\ n = act[a].refs + Cardinality(Stores)
    BY <1>2, <1>4, <1>5
  <1>7. c \in {"none", "live", "cancelled"}
    BY <1>5 DEF Activity
  <1>8. WithOperations(q, a, TRUE) = [q EXCEPT ![a] = w]
    BY <1>2 DEF WithOperations
  <1> HIDE DEF c, n, u
  <1>9. w \in Activity /\ w.refs = n /\ w.toggle = u.toggle /\ w.shown = u.shown
    BY <1>5, <1>6, <1>7 DEF Activity
  <1> HIDE DEF w
  <1> DEFINE r == [q EXCEPT ![a] = w]
  <1>10. r \in [Acts -> Activity] /\ r[a] = w /\ \A b \in Acts \ {a} : r[b] = q[b]
    BY <1>2, <1>9
  <1> HIDE DEF r
  <1>11. /\ r[a].refs = n /\ r[a].refs > 0
         /\ r[a].toggle = act[a].toggle /\ r[a].shown = act[a].shown
    BY <1>2, <1>6, <1>9, <1>10 DEF u
  <1>12. \A b \in Acts \ {a} : /\ r[b].refs = act[b].refs
                               /\ r[b].shown = act[b].shown
                               /\ r[b].toggle = act[b].toggle
                               /\ act[b] = Finalized => r[b] = Finalized
    BY <1>2, <1>10
  <1>13. SameToggles(r)
    <2> SUFFICES ASSUME NEW b \in Acts
                 PROVE  /\ r[b].toggle = act[b].toggle
                        /\ r[b].refs = 0 => r[b] = Finalized
                        /\ act[b].refs > 0 => r[b].refs > 0
      BY <1>10 DEF SameToggles
    <2>1. CASE b = a
      BY <1>6, <1>11, <2>1
    <2>2. CASE b # a
      BY <1>1, <1>12, <2>2
    <2> QED
      BY <2>1, <2>2
  <1>14. r[a].refs = act[a].refs + Cardinality(Stores)
    BY <1>6, <1>11
  <1>15. Resumed(r, a)
    BY <1>11, <1>12, <1>13, <1>14 DEF Resumed
  <1> QED
    BY <1>3, <1>8, <1>15 DEF r

LEMMA AnswerStep ==
    ASSUME LineInv, NEW a \in Acts, NEW synchronize \in BOOLEAN, Answer(a, synchronize)
    PROVE  LineInv' /\ (online' # online /\ ~crossed' => pending'[preparing] = {})
  <1> DEFINE r == PreparedForOffline(act, a, TRUE, synchronize)
             s == SessionOffline(TRUE, synchronize)
  <1>1. /\ Base /\ act \in [Acts -> Activity]
        /\ pending \in [Acts -> SUBSET Stores]
        /\ preparing \in Acts \cup {NoAct}
        /\ session \in BOOLEAN
        /\ {online, preparingOnline, netAvail, locked, autoReconnect, timer,
            session, started, asked} \subseteq BOOLEAN
        /\ \A b \in Acts : act[b].toggle => b = preparing
        /\ preparing \in Acts => act[preparing].refs > 0
        /\ crossed \in BOOLEAN
    BY DEF LineInv, Base, Types, OnlyLatestFlips, Alive
  <1>2. /\ asking = a /\ asking' = NoAct /\ Rest
        /\ crossed' = (crossed \/ preparing # a)
        /\ pending' = [pending EXCEPT ![a] = Stores]
        /\ \/ /\ preparing = NoAct /\ act' = r /\ session' = s
              /\ UNCHANGED <<online, preparing, asked>>
           \/ preparing # NoAct /\ Unref(r, s, preparing)
    BY DEF Answer, Switching, Rest
  <1>3. s \in BOOLEAN /\ (s => session)
    BY <1>1 DEF SessionOffline
  <1>4. Resumed(r, a)
    BY <1>1, ResumedFacts
  <1> HIDE DEF r, s
  <1>5. /\ SameToggles(r) /\ r \in [Acts -> Activity]
        /\ \A b \in Acts : r[b].toggle = act[b].toggle
        /\ \A b \in Acts : r[b].refs = 0 => r[b] = Finalized
        /\ \A b \in Acts : act[b].refs > 0 => r[b].refs > 0
    BY <1>4 DEF Resumed, SameToggles
  <1>6. /\ pending' \in [Acts -> SUBSET Stores]
        /\ pending'[a] = Stores
        /\ \A b \in Acts \ {a} : pending'[b] = pending[b]
    BY <1>1, <1>2
  <1>7. asking' \in Acts \cup {NoAct} /\ crossed' \in BOOLEAN /\ Unasked'
    BY <1>1, <1>2, LineAssumption DEF LineInv, Unasked
  <1>8. CASE preparing = NoAct
    <2>1. act' = r /\ session' = s /\ UNCHANGED <<online, preparing, asked>>
      BY <1>2, <1>8
    <2>2. crossed'
      BY <1>2, <1>8, LineAssumption
    <2>3. Types'
      BY <1>1, <1>2, <1>3, <1>5, <1>6, <1>7, <2>1 DEF Types, Rest
    <2>4. OnlyLatestFlips' /\ Alive'
      BY <1>1, <1>5, <1>8, <2>1, LineAssumption DEF OnlyLatestFlips, Alive
    <2>5. Settled /\ Settled'
      BY <1>8, <2>1, LineAssumption DEF Settled
    <2>6. Bound /\ Quiet
      BY <1>1 DEF Base
    <2>7. Bound' /\ Quiet'
      BY <1>3, <2>1, <2>5, <2>6 DEF Bound, Quiet
    <2> QED
      BY <1>7, <2>2, <2>3, <2>4, <2>7 DEF LineInv, Base
  <1>9. CASE preparing \in Acts
    <2>1. Unref(r, s, preparing) /\ r[preparing].refs > 0
      BY <1>1, <1>2, <1>5, <1>9, LineAssumption
    <2>2. Dropped(r, s, preparing)
      BY <1>5, <1>9, <2>1, UnrefEffect
    <2>3. Base'
      BY <1>1, <1>2, <1>3, <1>5, <1>6, <1>7, <1>9, <2>2, DroppedBase
    <2>4. ASSUME ~crossed'
          PROVE  Counted' /\ online' = online
      <3>1. ~crossed /\ preparing = a
        BY <1>1, <1>2, <2>4
      <3>2. /\ \A b \in Acts : act[b].refs = Cardinality(pending[b])
                                   + (IF act[b].shown THEN 1 ELSE 0)
                                   + (IF asking = b THEN 1 ELSE 0)
            /\ \A b \in Acts : act[b].toggle => ~act[b].shown
            /\ \A b \in Acts : act[b].shown => pending[b] = {}
            /\ pending[a] = {} /\ ~act[a].shown
        BY <1>2, <3>1 DEF LineInv, Counted, Held
      <3>3. act[a].refs = 1
        <4>1. Cardinality(pending[a]) = 0
          BY <3>2, FS_EmptySet
        <4> QED
          <5>1. act[a].refs = Cardinality(pending[a]) + (IF act[a].shown THEN 1 ELSE 0)
                                + (IF asking = a THEN 1 ELSE 0)
            BY <3>2
          <5>2. act[a].refs = 0 + 0 + 1
            BY <1>2, <3>2, <4>1, <5>1, Zenon
          <5> QED
            BY <5>2
      <3>4. /\ r[a].refs = act[a].refs + Cardinality(Stores)
            /\ \A b \in Acts : r[b].shown = act[b].shown
            /\ \A b \in Acts \ {a} : r[b].refs = act[b].refs
        BY <1>4 DEF Resumed
      <3>5. r[a].refs > 1
        BY <3>3, <3>4, SomeStore
      <3>6. UNCHANGED online
        BY <2>2, <3>1, <3>5 DEF Dropped, OneLess, Gone, Kept
      <3>7. ASSUME NEW b \in Acts
            PROVE  r[b].refs = Cardinality(pending'[b]) + (IF r[b].shown THEN 1 ELSE 0)
                                   + (IF asking' = b THEN 1 ELSE 0)
                                   + (IF b = a THEN 1 ELSE 0)
        <4>1. asking' # b
          BY <1>2, LineAssumption
        <4>2. Cardinality(pending[b]) \in Nat
          BY <1>1, StoreSets
        <4>3. CASE b = a
          BY <1>6, <3>2, <3>3, <3>4, <4>1, <4>3, SomeStore
        <4>4. CASE b # a
          BY <1>2, <1>6, <3>2, <3>4, <4>1, <4>2, <4>4
        <4> QED
          BY <4>3, <4>4
      <3>8. \A b \in Acts : r[b].toggle => ~r[b].shown
        BY <1>5, <3>2, <3>4
      <3>9. \A b \in Acts : r[b].shown => pending'[b] = {}
        BY <1>6, <3>2, <3>4
      <3>10. asking' \notin Acts
        BY <1>2, LineAssumption
      <3>11. Dropped(r, s, a)
        BY <2>2, <3>1
      <3>12. Counted'
        BY <1>5, <1>6, <3>7, <3>8, <3>9, <3>10, <3>11, DroppedCounted
      <3> QED
        BY <3>6, <3>12
    <2> QED
      BY <1>7, <2>3, <2>4 DEF LineInv
  <1> QED
    BY <1>1, <1>8, <1>9

-----------------------------------------------------------------------------
LEMMA LineStep ==
    ASSUME LineInv, Next
    PROVE  LineInv' /\ (online' # online /\ ~crossed' => pending'[preparing] = {})
  <1>0. {online, preparingOnline, netAvail, locked, autoReconnect, timer, session,
         started, asked} \subseteq BOOLEAN
    BY DEF LineInv, Base, Types
  <1>1. ASSUME NEW line \in BOOLEAN, UserLine(line), UNCHANGED crossed
        PROVE  LineInv' /\ online' = online
    <2>1. /\ SetOnline(line, netAvail) /\ asking = NoAct
          /\ {netAvail, locked, autoReconnect, timer, started}' \subseteq BOOLEAN
      BY <1>0, <1>1 DEF UserLine
    <2> QED
      BY <1>0, <1>1, <2>1, SetOnlineStep
  <1>2. ASSUME NetworkLost, UNCHANGED crossed
        PROVE  LineInv' /\ online' = online
    <2>1. CASE ForcedOffline
      <3>1. /\ SetOnline(FALSE, FALSE)
            /\ {netAvail, locked, autoReconnect, timer, started}' \subseteq BOOLEAN
        BY <1>0, <1>2, <2>1 DEF NetworkLost, TimerOnLoss
      <3> QED
        BY <1>2, <3>1, SetOnlineStep
    <2>2. CASE ~ForcedOffline
      <3>1. /\ UNCHANGED <<online, preparing, preparingOnline, session, act, pending,
                           asking, asked>>
            /\ {netAvail, locked, autoReconnect, timer, started}' \subseteq BOOLEAN
        BY <1>0, <1>2, <2>2 DEF NetworkLost
      <3> QED
        BY <1>2, <3>1, QuietInv
    <2> QED
      BY <2>1, <2>2
  <1>3. ASSUME NetworkBack, UNCHANGED crossed
        PROVE  LineInv' /\ online' = online
    BY <1>0, <1>3, QuietInv DEF NetworkBack
  <1>4. ASSUME TimerFires, UNCHANGED crossed
        PROVE  LineInv' /\ online' = online
    <2>1. /\ SetOnline(TRUE, netAvail)
          /\ {netAvail, locked, autoReconnect, timer, started}' \subseteq BOOLEAN
      BY <1>0, <1>4 DEF TimerFires
    <2> QED
      BY <1>0, <1>4, <2>1, SetOnlineStep
  <1>5. ASSUME StartBackend, UNCHANGED crossed
        PROVE  LineInv' /\ online' = online
    BY <1>0, <1>5, QuietInv DEF StartBackend
  <1>6. ASSUME NEW a \in Acts, UserCancel(a), UNCHANGED crossed
        PROVE  LineInv' /\ online' = online
    BY <1>6, UserCancelStep DEF UserCancel
  <1>7. ASSUME NEW a \in Acts, NEW store \in Stores, StoreDone(a, store), UNCHANGED crossed
        PROVE  LineInv' /\ (online' # online /\ ~crossed' => pending'[preparing] = {})
    BY <1>7, StoreDoneStep
  <1>8. ASSUME NEW a \in Acts, FeedbackEnds(a), UNCHANGED crossed
        PROVE  LineInv' /\ (online' # online /\ ~crossed' => pending'[preparing] = {})
    BY <1>8, FeedbackStep
  <1>9. ASSUME NEW a \in Acts, NEW synchronize \in BOOLEAN, Answer(a, synchronize)
        PROVE  LineInv' /\ (online' # online /\ ~crossed' => pending'[preparing] = {})
    BY <1>9, AnswerStep
  <1> QED
    BY <1>1, <1>2, <1>3, <1>4, <1>5, <1>6, <1>7, <1>8, <1>9 DEF Next, Moves

LEMMA LineStepOrStutter ==
    ASSUME LineInv, [Next]_vars
    PROVE  LineInv'
  <1>1. CASE Next
    BY <1>1, LineStep
  <1>2. CASE UNCHANGED vars
    <2>1. {netAvail, locked, autoReconnect, timer, started}' \subseteq BOOLEAN
      BY <1>2 DEF vars, LineInv, Base, Types
    <2> QED
      BY <1>2, <2>1, QuietInv DEF vars
  <1> QED
    BY <1>1, <1>2

LEMMA LineInvHolds == Spec => []LineInv
  <1>1. Init => LineInv
    BY InitInv
  <1>2. LineInv /\ [Next]_vars => LineInv'
    BY LineStepOrStutter
  <1> QED
    BY <1>1, <1>2, PTL DEF Spec

-----------------------------------------------------------------------------
\* Every variable keeps its type, whatever is asked, cancelled or crossed, and
\* an activity that has lost its last plain reference is finalised: neither
\* the shell's toggle reference nor its pointer keeps one alive.
THEOREM ActivitiesAreFinalised == Spec => []TypeOK
  <1>1. LineInv => TypeOK
    BY DEF LineInv, Base, TypeOK
  <1> QED
    BY <1>1, LineInvHolds, PTL

\* The activity a store's callback will unreference is still there, as long as
\* no question has been crossed.
THEOREM StoresAreHeld == Spec => []HeldWhileSwitching
  <1>1. LineInv => HeldWhileSwitching
    <2> SUFFICES ASSUME LineInv, ~crossed, NEW a \in Acts, pending[a] # {}
                 PROVE  act[a].refs > 0
      BY DEF HeldWhileSwitching
    <2>1. pending[a] \in SUBSET Stores
      BY DEF LineInv, Base, Types
    <2>2. Cardinality(pending[a]) \in Nat /\ Cardinality(pending[a]) # 0
      BY <2>1, StoreSets
    <2>3. act[a].refs = Cardinality(pending[a]) + (IF act[a].shown THEN 1 ELSE 0)
                          + (IF asking = a THEN 1 ELSE 0)
      BY DEF LineInv, Counted, Held
    <2> QED
      BY <2>2, <2>3
  <1> QED
    BY <1>1, LineInvHolds, PTL

\* Only the latest preparation can still change the line.
THEOREM SupersededNeverFlips == Spec => []OnlyLatestFlips
  <1>1. LineInv => OnlyLatestFlips
    BY DEF LineInv, Base
  <1> QED
    BY <1>1, LineInvHolds, PTL

\* When no preparation is under way, the line is what was last asked for and
\* not cancelled.
THEOREM LineFollowsRequests == Spec => []LineAsAsked
  <1>1. LineInv => LineAsAsked
    BY LineAssumption DEF LineInv, Base, Bound, Settled, LineAsAsked
  <1> QED
    BY <1>1, LineInvHolds, PTL

\* When the shell is offline and stays so, the mail session is offline too.
THEOREM OfflineSessionIsDown == Spec => []OfflineIsQuiet
  <1>1. LineInv => OfflineIsQuiet
    BY LineAssumption DEF LineInv, Base, Quiet, Settled, OfflineIsQuiet
  <1> QED
    BY <1>1, LineInvHolds, PTL

\* The line changes only when every store of the preparation has finished, as
\* long as no question has been crossed.
THEOREM LineWaitsForStores == Spec => DelayedUnlessCrossed
  <1>1. LineInv /\ [Next]_vars
           => [online' # online /\ ~crossed' => pending'[preparing] = {}]_vars
    BY LineStep
  <1> QED
    BY <1>1, LineInvHolds, PTL DEF Spec, DelayedUnlessCrossed

\* When no store ever requires the question, it waits for them always: what
\* the documentation of the two signals promises.
THEOREM LineAlwaysWaits ==
    ASSUME ~MayAsk
    PROVE  Spec => DelayedUntilReady
  <1>1. LineInv => ~crossed
    BY DEF LineInv, Unasked
  <1>2. LineInv /\ LineInv' /\ [Next]_vars
           => [online' # online => pending'[preparing] = {}]_vars
    BY <1>1, LineStep DEF LineInv, Unasked
  <1> QED
    BY <1>2, LineInvHolds, PTL DEF Spec, DelayedUntilReady
=============================================================================
