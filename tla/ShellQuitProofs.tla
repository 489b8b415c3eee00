--------------------------- MODULE ShellQuitProofs ---------------------------
(***************************************************************************)
(* What a quit promises, for any number of composers, of other holders of  *)
(* its activity and of nested dialogs.                                     *)
(*                                                                         *)
(* The operators below take the composers C, the main window m, how far    *)
(* the quit is q, the dialogs st, the field quit_cancelled cn and whether  *)
(* a save has failed fl as parameters, because a handler changes them one  *)
(* after the other within a step.                                          *)
(***************************************************************************)
EXTENDS ShellQuit, Integers, WellFoundedInduction, SequenceTheorems, TLAPS

Limit(C, m) == MaxDepth + (IF Windows(C, m) = {} THEN 1 ELSE 0)

\* A dialog about a message names its composer; one that can only be opened
\* when nothing else is on the screen is the first; a composer asked where else
\* to save waits for the answer; the last composer is gone, and what was in it
\* is saved or discarded; and a composer that is asked about does not save.
DialogOK(C, q, fl, i, d) ==
    /\ d.ask \in {"quit", "close", "drafts", "last"} => d.who \in Composers
    /\ d.ask \in {"close", "outbox"} => i = 1
    /\ d.ask = "drafts" => C[d.who].open /\ C[d.who].saving = "asking" /\ fl
    /\ d.ask = "last" => ~C[d.who].open /\ (C[d.who].changed => C[d.who].discard)
    /\ d.ask \in {"pending", "last"} => q = "preparing"
    /\ d.ask = "quit" /\ q = "none" => C[d.who].saving = "no"

Stacked(C, q, fl, st) ==
    /\ st \in Seq(Dialog)
    /\ \A i \in 1 .. Len(st) : DialogOK(C, q, fl, i, st[i])
    /\ \A i, j \in 1 .. Len(st) :
          st[i].ask = "drafts" /\ st[j].ask = "drafts" /\ st[i].who = st[j].who => i = j

LastOn(st, c) == \E i \in 1 .. Len(st) : st[i] = [ask |-> "last", who |-> c]

\* What a composer tells of its past as long as no save has failed, and its
\* reference on the activity.
Past(r, fl) ==
    /\ ~r.connected => r.exiting \/ fl
    /\ r.saving = "ended" => ~r.changed \/ fl

ComposerOK(r, c, q, fl, st) ==
    /\ r.holds => q = "preparing" /\ (r.open \/ LastOn(st, c))
    /\ Past(r, fl)

\* A composer that a request for a quit may pass over.
Passable(r) == ~r.open \/ r.exiting \/ (r.saving = "no" /\ (~r.changed \/ r.discard))

\* The composers a suspended emission has passed: each is passable still, or
\* is asked about again in a request nested in this one.
PassedBy(C, st, i) ==
    \A j \in Composers : j < st[i].who =>
        \/ Passable(C[j])
        \/ \E k \in i + 1 .. Len(st) : st[k].ask = "quit" /\ st[k].who <= j
Emissions(C, q, fl, cn, st) ==
    q = "none" /\ ~fl /\ ~cn
        => \A i \in 1 .. Len(st) : st[i].ask = "quit" => PassedBy(C, st, i)

State(C, m, q, fl, cn, st) ==
    /\ C \in [Composers -> Composer]
    /\ Len(st) <= Limit(C, m)
    /\ Windows(C, m) = {} => q # "none"
    /\ Stacked(C, q, fl, st)
    /\ \A c \in Composers : ComposerOK(C[c], c, q, fl, st)
    /\ Emissions(C, q, fl, cn, st)

Fields ==
    /\ {main, timer, cancelled, failed} \subseteq BOOLEAN
    /\ quit \in {"none", "preparing", "ready", "forced"}
    /\ holders \subseteq Holders
    /\ timer => quit = "preparing"

QuitInv == Fields /\ State(composer, main, quit, failed, cancelled, stack)

\* What a step says of the messages, with the composers as they were before it:
\* the steps of DraftsSaved and of QuitAskedFirst.
Word(C) ==
    /\ quit = "preparing" /\ quit' = "ready"
          => \A c \in Composers : C[c].holds => ~C[c].changed \/ composer'[c].discard
    /\ quit = "none" /\ quit' # "none" /\ ~failed
          => \A c \in Composers : C[c].open /\ C[c].changed
                => composer'[c].exiting \/ composer'[c].discard

Remembers(C) == \A c \in Composers : composer'[c].discard = C[c].discard


-----------------------------------------------------------------------------
(***************************************************************************)
(* The windows, the stack and the records.                                 *)
(***************************************************************************)
LEMMA WindowFacts ==
    ASSUME NEW C, NEW m \in BOOLEAN
    PROVE  /\ Windows(C, m) = {} <=> m = FALSE /\ \A c \in Composers : ~C[c].open
           /\ \A c \in Composers : c \in Windows(C, m) <=> C[c].open
           /\ Windows(C, m) \cup {NoWindow} \subseteq 0 .. NoWindow
  <1>1. N \in Nat
    BY QuitAssumption
  <1>2. Main \notin Composers
    BY <1>1 DEF Main, Composers
  <1>3. Windows(C, m) \subseteq Composers \cup {Main}
    BY DEF Windows
  <1>4. Composers \cup {Main, NoWindow} \subseteq 0 .. NoWindow
    BY <1>1 DEF Main, Composers, NoWindow
  <1>5. \A c \in Composers : c \in Windows(C, m) <=> C[c].open
    BY <1>2 DEF Windows
  <1>6. Main \in Windows(C, m) <=> m
    BY <1>2 DEF Windows
  <1> QED
    BY <1>3, <1>4, <1>5, <1>6

\* What does not open or close a window leaves the bound on the dialogs alone;
\* closing windows only raises it.
LEMMA LimitFacts ==
    ASSUME NEW C, NEW D, NEW m \in BOOLEAN
    PROVE  /\ Limit(C, m) \in Nat
           /\ Limit(C, m) >= MaxDepth /\ MaxDepth \in Nat /\ MaxDepth >= 1
           /\ Windows(C, m) # {} => Limit(C, m) = MaxDepth
           /\ Windows(C, m) = {} => Limit(C, m) = MaxDepth + 1
           /\ (\A c \in Composers : D[c].open = C[c].open)
                 => Windows(D, m) = Windows(C, m) /\ Limit(D, m) = Limit(C, m)
  <1>1. MaxDepth \in Nat /\ MaxDepth >= 1
    BY QuitAssumption
  <1>2. (\A c \in Composers : D[c].open = C[c].open) => Windows(D, m) = Windows(C, m)
    BY DEF Windows
  <1>3. CASE Windows(C, m) = {}
    BY <1>1, <1>2, <1>3 DEF Limit
  <1>4. CASE Windows(C, m) # {}
    BY <1>1, <1>2, <1>4 DEF Limit
  <1> QED
    BY <1>3, <1>4

\* A dialog that is opened, and the one on top.
LEMMA Pushed ==
    ASSUME NEW st \in Seq(Dialog), NEW d \in Dialog
    PROVE  /\ Append(st, d) \in Seq(Dialog)
           /\ Len(st) \in Nat
           /\ Len(Append(st, d)) = Len(st) + 1
           /\ \A i \in 1 .. Len(st) : Append(st, d)[i] = st[i]
           /\ Append(st, d)[Len(st) + 1] = d
  BY AppendProperties, LenProperties

LEMMA Popped ==
    ASSUME stack \in Seq(Dialog), stack # <<>>
    PROVE  /\ Len(stack) \in Nat /\ Len(stack) >= 1
           /\ Top = stack[Len(stack)] /\ Top \in Dialog
           /\ Below \in Seq(Dialog)
           /\ Len(Below) = Len(stack) - 1
           /\ \A i \in 1 .. Len(stack) - 1 : Below[i] = stack[i]
  <1>1. Len(stack) \in Nat /\ Len(stack) >= 1 /\ \A i \in 1 .. Len(stack) : stack[i] \in Dialog
    BY EmptySeq, LenProperties, ElementOfSeq, SMT
  <1>2. \A i \in 1 .. Len(stack) - 1 : stack[i] \in Dialog
    BY <1>1
  <1>3. 1 \in Int /\ Len(stack) - 1 \in Int
    BY <1>1
  <1>4. /\ Below \in Seq(Dialog)
        /\ Len(Below) = IF 1 <= Len(stack) - 1 THEN (Len(stack) - 1) - 1 + 1 ELSE 0
        /\ \A i \in 1 .. (Len(stack) - 1) - 1 + 1 : Below[i] = stack[1 + i - 1]
    BY <1>2, <1>3, SubSeqProperties DEF Below
  <1>5. Len(Below) = Len(stack) - 1
    <2>1. CASE 1 <= Len(stack) - 1
      BY <1>1, <1>4, <2>1
    <2>2. CASE Len(stack) = 1
      <3>1. ~ 1 <= Len(stack) - 1
        BY <2>2
      <3>2. Len(Below) = 0
        BY <1>4, <3>1, Zenon
      <3> QED
        BY <2>2, <3>2
    <2>3. Len(stack) \in Nat /\ Len(stack) >= 1
      BY <1>1
    <2>4. \A n \in Nat : n >= 1 => 1 <= n - 1 \/ n = 1
      OBVIOUS
    <2>5. 1 <= Len(stack) - 1 \/ Len(stack) = 1
      BY <2>3, <2>4, Zenon
    <2> QED
      BY <2>1, <2>2, <2>5, Zenon
  <1>6. \A i \in 1 .. Len(stack) - 1 : Below[i] = stack[i]
    BY <1>1, <1>4
  <1> QED
    BY <1>1, <1>4, <1>5, <1>6 DEF Top

LEMMA SaveBegunFields ==
    ASSUME NEW r \in Composer
    PROVE  /\ SaveBegun(r) \in Composer
           /\ SaveBegun(r).open = r.open /\ SaveBegun(r).changed = r.changed
           /\ SaveBegun(r).exiting = r.exiting /\ SaveBegun(r).connected = r.connected
           /\ SaveBegun(r).holds = r.holds /\ SaveBegun(r).discard = r.discard
           /\ SaveBegun(r).saving = (IF r.saving = "no" THEN "building" ELSE r.saving)
  BY DEF SaveBegun, Composer

\* What the preparation does to a composer.
LEMMA PreparedFields ==
    ASSUME NEW r \in Composer
    PROVE  /\ Prepared(r) \in Composer
           /\ Prepared(r).open = r.open /\ Prepared(r).changed = r.changed
           /\ Prepared(r).exiting = r.exiting /\ Prepared(r).connected = r.connected
           /\ Prepared(r).discard = r.discard
           /\ Prepared(r).holds => r.holds \/ r.open
           /\ Prepared(r).saving = r.saving \/ (r.saving = "no" /\ Prepared(r).saving = "building")
  <1>1. CASE r.open /\ r.connected /\ r.exiting
    <2> DEFINE s == SaveBegun(r)
    <2>1. /\ s \in Composer
          /\ s.open = r.open /\ s.changed = r.changed
          /\ s.exiting = r.exiting /\ s.connected = r.connected
          /\ s.holds = r.holds /\ s.discard = r.discard
          /\ s.saving = (IF r.saving = "no" THEN "building" ELSE r.saving)
      BY SaveBegunFields
    <2>2. Prepared(r) = [s EXCEPT !.holds = TRUE]
      BY <1>1 DEF Prepared
    <2> HIDE DEF s
    <2> QED
      BY <1>1, <2>1, <2>2 DEF Composer
  <1>2. CASE ~(r.open /\ r.connected /\ r.exiting)
    BY <1>2 DEF Prepared
  <1> QED
    BY <1>1, <1>2

LEMMA DesensitizedFields ==
    ASSUME NEW r \in Composer
    PROVE  /\ Desensitized(r) \in Composer
           /\ Desensitized(r).open = r.open /\ Desensitized(r).changed = r.changed
           /\ Desensitized(r).exiting = r.exiting /\ Desensitized(r).connected = r.connected
           /\ Desensitized(r).holds = r.holds /\ Desensitized(r).discard = r.discard
           /\ Desensitized(r).saving = r.saving
  BY DEF Desensitized, Composer

LEMMA ClosedFields ==
    ASSUME NEW r \in Composer
    PROVE  /\ Closed(r) \in Composer
           /\ Closed(r).open = FALSE /\ Closed(r).changed = r.changed
           /\ Closed(r).exiting = r.exiting /\ Closed(r).connected = r.connected
           /\ Closed(r).holds = FALSE /\ Closed(r).discard = r.discard
           /\ Closed(r).saving = r.saving
  BY DEF Closed, Composer

LEMMA LetGoFields ==
    ASSUME NEW r \in Composer
    PROVE  /\ LetGo(r) \in Composer
           /\ LetGo(r).open = r.open /\ LetGo(r).changed = r.changed
           /\ LetGo(r).exiting = r.exiting
           /\ LetGo(r).connected = r.connected \/ (r.exiting /\ r.open)
           /\ LetGo(r).holds = r.holds /\ LetGo(r).discard = r.discard
           /\ LetGo(r).saving = r.saving
  BY DEF LetGo, Composer

LEMMA AnsweredFields ==
    ASSUME NEW r \in Composer, NEW answer \in {"save", "discard", "cancel"}
    PROVE  /\ Answered(r, answer) \in Composer
           /\ Answered(r, answer).open = r.open /\ Answered(r, answer).changed = r.changed
           /\ Answered(r, answer).exiting = (r.exiting \/ answer = "save")
           /\ Answered(r, answer).connected = r.connected
           /\ Answered(r, answer).holds = r.holds
           /\ Answered(r, answer).discard
                 = (answer = "discard" \/ (quit = "preparing" /\ r.discard))
           /\ Answered(r, answer).saving = r.saving
  BY DEF Answered, Composer

-----------------------------------------------------------------------------
\* A set of numbers that is not empty has a smallest element.
LEMMA Smallest ==
    ASSUME NEW S, S \subseteq Nat, NEW n \in S
    PROVE  \E f \in S : \A s \in S : f <= s
  <1>1. \E f \in S : \A s \in S : ~ (<<s, f>> \in OpToRel(<, Nat))
    BY NatLessThanWellFounded, WFMin
  <1>2. PICK f \in S : \A s \in S : ~ (<<s, f>> \in OpToRel(<, Nat))
    BY <1>1
  <1>3. ASSUME NEW s \in S, s < f PROVE FALSE
    <2>1. <<s, f>> \in OpToRel(<, Nat)
      BY <1>3 DEF OpToRel
    <2> QED
      BY <1>2, <2>1
  <1>4. \A s \in S : s \in Nat /\ f \in Nat
    BY <1>2
  <1>5. \A s \in S : f <= s
    BY <1>3, <1>4
  <1> QED
    BY <1>2, <1>5

\* The first composer that blocks: there is one, or the end of the list.
LEMMA FirstFacts ==
    ASSUME NEW C, NEW i \in 1 .. N + 1
    PROVE  /\ FirstBlocking(C, i) \in i .. N + 1
           /\ FirstBlocking(C, i) \in Composers => Blocks(C[FirstBlocking(C, i)])
           /\ \A c \in i .. FirstBlocking(C, i) - 1 : ~Blocks(C[c])
           /\ FirstBlocking(C, i) = N + 1 \/ FirstBlocking(C, i) \in Composers
  <1> DEFINE Stops == {f \in i .. N + 1 : f \in Composers => Blocks(C[f])}
             First(f) == /\ f \in Composers => Blocks(C[f])
                         /\ \A c \in i .. f - 1 : ~Blocks(C[c])
  <1>1. N \in Nat
    BY QuitAssumption
  <1>2. N + 1 \in Stops /\ Stops \subseteq Nat
    BY <1>1 DEF Composers
  <1> HIDE DEF Stops
  <1>3. PICK f \in Stops : \A s \in Stops : f <= s
    BY <1>2, Smallest
  <1> USE DEF Stops
  <1>4. \A c \in i .. f - 1 : c \notin Stops
    BY <1>1, <1>3
  <1>5. \A c \in i .. f - 1 : c \in i .. N + 1
    BY <1>1, <1>3
  <1>6. First(f)
    BY <1>3, <1>4, <1>5
  <1>7. \E g \in i .. N + 1 : First(g)
    BY <1>3, <1>6
  <1>8. FirstBlocking(C, i) = CHOOSE g \in i .. N + 1 : First(g)
    BY DEF FirstBlocking
  <1> HIDE DEF First
  <1>9. FirstBlocking(C, i) \in i .. N + 1 /\ First(FirstBlocking(C, i))
    BY <1>7, <1>8, Zenon
  <1>10. \A g \in i .. N + 1 : g = N + 1 \/ g \in Composers
    BY <1>1 DEF Composers
  <1> QED
    BY <1>9, <1>10 DEF First

-----------------------------------------------------------------------------
(***************************************************************************)
(* The dialogs when one is opened, when the one on top is answered, and    *)
(* when the composers change under them.                                   *)
(***************************************************************************)
LEMMA PushKeeps ==
    ASSUME NEW C, NEW q, NEW fl, NEW st, NEW d \in Dialog,
           Stacked(C, q, fl, st), DialogOK(C, q, fl, Len(st) + 1, d),
           \A i \in 1 .. Len(st) :
              st[i].ask = "drafts" /\ d.ask = "drafts" => st[i].who # d.who
    PROVE  /\ Stacked(C, q, fl, Append(st, d))
           /\ \A c \in Composers : LastOn(st, c) => LastOn(Append(st, d), c)
           /\ \A c \in Composers : d = [ask |-> "last", who |-> c] => LastOn(Append(st, d), c)
  <1> DEFINE s == Append(st, d)
  <1>1. st \in Seq(Dialog)
    BY DEF Stacked
  <1>2. /\ s \in Seq(Dialog)
        /\ Len(st) \in Nat /\ Len(s) = Len(st) + 1
        /\ \A i \in 1 .. Len(st) : s[i] = st[i]
        /\ s[Len(st) + 1] = d
    BY <1>1, Pushed
  <1> HIDE DEF s
  <1>3. \A i \in 1 .. Len(s) : i \in 1 .. Len(st) \/ i = Len(st) + 1
    BY <1>2
  <1>4. \A i \in 1 .. Len(st) : DialogOK(C, q, fl, i, st[i])
    BY Zenon DEF Stacked
  <1>5. \A i \in 1 .. Len(s) : DialogOK(C, q, fl, i, s[i])
    BY <1>2, <1>3, <1>4, Zenon
  <1>6. \A i, j \in 1 .. Len(st) :
           st[i].ask = "drafts" /\ st[j].ask = "drafts" /\ st[i].who = st[j].who => i = j
    BY Zenon DEF Stacked
  <1>7. \A i, j \in 1 .. Len(s) :
           s[i].ask = "drafts" /\ s[j].ask = "drafts" /\ s[i].who = s[j].who => i = j
    BY <1>2, <1>3, <1>6, Zenon
  <1>8. Stacked(C, q, fl, s)
    BY <1>2, <1>5, <1>7, Zenon DEF Stacked
  <1>9. \A i \in 1 .. Len(st) : i \in 1 .. Len(s)
    BY <1>2
  <1>10. Len(st) + 1 \in 1 .. Len(s)
    BY <1>2
  <1>11. \A c \in Composers : LastOn(st, c) => LastOn(s, c)
    BY <1>2, <1>9, Zenon DEF LastOn
  <1>12. \A c \in Composers : d = [ask |-> "last", who |-> c] => LastOn(s, c)
    BY <1>2, <1>10, Zenon DEF LastOn
  <1> QED
    BY <1>8, <1>11, <1>12 DEF s

\* The question on top is answered: what is below it keeps what it says, and a
\* composer keeps its reference unless it was the one asked about last.
LEMMA PopKeeps ==
    ASSUME QuitInv, stack # <<>>
    PROVE  /\ Stacked(composer, quit, failed, Below)
           /\ DialogOK(composer, quit, failed, Len(stack), Top)
           /\ Top.ask # "last" =>
                 \A c \in Composers : ComposerOK(composer[c], c, quit, failed, Below)
           /\ Len(Below) <= Limit(composer, main)
           /\ Len(Below) + 1 <= Limit(composer, main)
           /\ Top.ask # "quit" => Emissions(composer, quit, failed, cancelled, Below)
           /\ Top.ask = "drafts" => \A i \in 1 .. Len(Below) :
                 Below[i].ask = "drafts" => Below[i].who # Top.who
  <1>1. /\ Stacked(composer, quit, failed, stack)
        /\ Len(stack) <= Limit(composer, main)
        /\ \A c \in Composers : ComposerOK(composer[c], c, quit, failed, stack)
        /\ Emissions(composer, quit, failed, cancelled, stack)
        /\ main \in BOOLEAN
    BY DEF QuitInv, State, Fields
  <1>2. stack \in Seq(Dialog)
    BY <1>1 DEF Stacked
  <1>3. /\ Len(stack) \in Nat /\ Len(stack) >= 1
        /\ Top = stack[Len(stack)] /\ Top \in Dialog
        /\ Below \in Seq(Dialog)
        /\ Len(Below) = Len(stack) - 1
        /\ \A i \in 1 .. Len(stack) - 1 : Below[i] = stack[i]
    BY <1>2, Popped
  <1>4. /\ \A i \in 1 .. Len(Below) : Below[i] = stack[i] /\ i \in 1 .. Len(stack) /\ i # Len(stack)
        /\ Len(stack) \in 1 .. Len(stack)
        /\ \A i \in 1 .. Len(stack) : i # Len(stack) => i \in 1 .. Len(Below)
    BY <1>3
  <1>5. Stacked(composer, quit, failed, Below)
    <2>1. \A i \in 1 .. Len(Below) : DialogOK(composer, quit, failed, i, Below[i])
      BY <1>1, <1>4, Zenon DEF Stacked
    <2>2. \A i, j \in 1 .. Len(Below) :
             Below[i].ask = "drafts" /\ Below[j].ask = "drafts" /\ Below[i].who = Below[j].who
                => i = j
      BY <1>1, <1>4, Zenon DEF Stacked
    <2> QED
      BY <1>3, <2>1, <2>2, Zenon DEF Stacked
  <1>6. DialogOK(composer, quit, failed, Len(stack), Top)
    BY <1>1, <1>3, <1>4, Zenon DEF Stacked
  <1>7. ASSUME Top.ask # "last"
        PROVE  \A c \in Composers : ComposerOK(composer[c], c, quit, failed, Below)
    <2>1. \A c : [ask |-> "last", who |-> c].ask = "last"
      OBVIOUS
    <2>2. ASSUME NEW c \in Composers, LastOn(stack, c) PROVE LastOn(Below, c)
      <3>1. PICK i \in 1 .. Len(stack) : stack[i] = [ask |-> "last", who |-> c]
        BY <2>2, Zenon DEF LastOn
      <3>2. i # Len(stack)
        BY <1>3, <1>7, <2>1, <3>1, Zenon
      <3> QED
        BY <1>4, <3>1, <3>2, Zenon DEF LastOn
    <2> QED
      BY <1>1, <2>2, Zenon DEF ComposerOK
  <1>8. Len(Below) <= Limit(composer, main) /\ Len(Below) + 1 <= Limit(composer, main)
    <2>1. Limit(composer, main) \in Nat
      BY <1>1, LimitFacts
    <2> QED
      BY <1>1, <1>3, <2>1
  <1>9. ASSUME Top.ask # "quit" PROVE Emissions(composer, quit, failed, cancelled, Below)
    <2>1. ASSUME quit = "none", ~failed, ~cancelled, NEW i \in 1 .. Len(Below),
                 Below[i].ask = "quit"
          PROVE  PassedBy(composer, Below, i)
      <3>1. PassedBy(composer, stack, i)
        BY <1>1, <1>4, <2>1, Zenon DEF Emissions
      <3>2. ASSUME NEW k \in i + 1 .. Len(stack), stack[k].ask = "quit"
            PROVE  k \in i + 1 .. Len(Below) /\ Below[k] = stack[k]
        <4>1. k # Len(stack)
          BY <1>3, <1>9, <3>2, Zenon
        <4>2. Len(stack) \in Nat /\ Len(Below) = Len(stack) - 1
          BY <1>3
        <4>3. k \in i + 1 .. Len(stack) - 1 /\ k \in 1 .. Len(stack) - 1
          BY <4>1, <4>2
        <4> QED
          BY <1>3, <4>2, <4>3, Zenon
      <3> QED
        BY <1>4, <3>1, <3>2, Zenon DEF PassedBy
    <2> QED
      BY <2>1, Zenon DEF Emissions
  <1>10. ASSUME Top.ask = "drafts", NEW i \in 1 .. Len(Below), Below[i].ask = "drafts"
         PROVE  Below[i].who # Top.who
    <2>1. \A j, k \in 1 .. Len(stack) :
             stack[j].ask = "drafts" /\ stack[k].ask = "drafts" /\ stack[j].who = stack[k].who
                => j = k
      BY <1>1, Zenon DEF Stacked
    <2> QED
      BY <1>3, <1>4, <1>10, <2>1, Zenon
  <1> QED
    BY <1>5, <1>6, <1>7, <1>8, <1>9, <1>10

\* A composer that does not ask where else to save is in no such dialog.
LEMMA NoDrafts ==
    ASSUME NEW C, NEW q, NEW fl, NEW st, Stacked(C, q, fl, st),
           NEW c \in Composers, C[c].saving # "asking"
    PROVE  \A i \in 1 .. Len(st) : st[i].ask = "drafts" => st[i].who # c
  BY Zenon DEF Stacked, DialogOK

\* One composer's record is replaced while its window stays open.  A save that
\* fails may be part of it.
Replaces(C, D, c, fl, gl, st) ==
    /\ D \in [Composers -> Composer]
    /\ \A d \in Composers \ {c} : D[d] = C[d]
    /\ C[c].open /\ D[c].open
    /\ \A i \in 1 .. Len(st) : st[i].ask = "drafts" => st[i].who # c
    /\ C[c].saving # "no" \/ D[c].saving = "no" \/ st = <<>>
    /\ Past(D[c], gl)
    /\ D[c].holds => C[c].holds
    /\ fl => gl
    /\ gl \/ st = <<>> \/ (Passable(C[c]) => Passable(D[c]))

LEMMA Replaced ==
    ASSUME NEW C, NEW D, NEW m \in BOOLEAN, NEW q, NEW fl \in BOOLEAN, NEW gl \in BOOLEAN,
           NEW cn, NEW st, NEW c \in Composers,
           State(C, m, q, fl, cn, st), Replaces(C, D, c, fl, gl, st)
    PROVE  State(D, m, q, gl, cn, st)
  <1> DEFINE r == D[c]
  <1> HIDE DEF r
  <1>0. /\ C[c].open /\ r.open
        /\ \A i \in 1 .. Len(st) : st[i].ask = "drafts" => st[i].who # c
        /\ C[c].saving # "no" \/ r.saving = "no" \/ st = <<>>
        /\ Past(r, gl) /\ (r.holds => C[c].holds) /\ (fl => gl)
        /\ gl \/ st = <<>> \/ (Passable(C[c]) => Passable(r))
    BY Zenon DEF Replaces, r
  <1>1. C \in [Composers -> Composer] /\ Stacked(C, q, fl, st)
    BY DEF State
  <1>2. D[c] = r /\ \A d \in Composers \ {c} : D[d] = C[d]
    BY Zenon DEF Replaces, r
  <1>3. D \in [Composers -> Composer]
    BY DEF Replaces
  <1>4. \A d \in Composers : D[d].open = C[d].open
    <2>1. r.open = TRUE /\ C[c].open = TRUE
      BY <1>0, <1>1, <1>2, <1>3 DEF Composer
    <2> QED
      BY <1>2, <2>1
  <1>5. Windows(D, m) = Windows(C, m) /\ Limit(D, m) = Limit(C, m)
    BY <1>4, LimitFacts
  <1>6. \A i \in 1 .. Len(st) : DialogOK(D, q, gl, i, st[i])
    <2> SUFFICES ASSUME NEW i \in 1 .. Len(st) PROVE DialogOK(D, q, gl, i, st[i])
      OBVIOUS
    <2>1. DialogOK(C, q, fl, i, st[i])
      BY <1>1, Zenon DEF Stacked
    <2>2. CASE st[i].who # c
      <3>1. ASSUME st[i].ask \in {"drafts", "last", "quit"} PROVE D[st[i].who] = C[st[i].who]
        <4>1. st[i].who \in Composers
          BY <2>1, <3>1 DEF DialogOK
        <4> QED
          BY <1>2, <2>2, <4>1, Zenon
      <3>2. st[i].ask = "drafts" => D[st[i].who] = C[st[i].who]
        BY <3>1
      <3>3. st[i].ask = "last" => D[st[i].who] = C[st[i].who]
        BY <3>1
      <3>4. st[i].ask = "quit" => D[st[i].who] = C[st[i].who]
        BY <3>1
      <3> QED
        BY <1>0, <2>1, <3>2, <3>3, <3>4, Zenon DEF DialogOK
    <2>3. CASE st[i].who = c
      <3>1. st[i].ask # "drafts"
        BY <1>0, <2>3, Zenon
      <3>2. st[i].ask # "last"
        BY <1>0, <2>1, <2>3, Zenon DEF DialogOK
      <3>3. CASE st # <<>>
        <4>1. st[i].ask = "quit" /\ q = "none" => D[st[i].who].saving = "no"
          BY <1>0, <1>2, <2>1, <2>3, <3>3, Zenon DEF DialogOK
        <4> QED
          BY <2>1, <3>1, <3>2, <4>1, Zenon DEF DialogOK
      <3>4. CASE st = <<>>
        <4>1. Len(st) = 0
          BY <3>4
        <4> QED
          BY <4>1
      <3> QED
        BY <3>3, <3>4
    <2> QED
      BY <2>2, <2>3
  <1>7. Stacked(D, q, gl, st)
    BY <1>1, <1>6, Zenon DEF Stacked
  <1>8. \A d \in Composers : ComposerOK(D[d], d, q, gl, st)
    <2> SUFFICES ASSUME NEW d \in Composers PROVE ComposerOK(D[d], d, q, gl, st)
      OBVIOUS
    <2>1. ComposerOK(C[d], d, q, fl, st)
      BY DEF State
    <2>2. CASE d = c
      BY <1>0, <1>2, <2>1, <2>2, Zenon DEF ComposerOK
    <2>3. CASE d # c
      BY <1>0, <1>2, <2>1, <2>3, Zenon DEF ComposerOK, Past
    <2> QED
      BY <2>2, <2>3
  <1>9. Emissions(D, q, gl, cn, st)
    <2> SUFFICES ASSUME q = "none", ~gl, ~cn, NEW i \in 1 .. Len(st), st[i].ask = "quit"
                 PROVE  PassedBy(D, st, i)
      BY Zenon DEF Emissions
    <2>1. PassedBy(C, st, i)
      BY <1>0, Zenon DEF State, Emissions
    <2>2. st # <<>>
      BY EmptySeq
    <2>3. \A j \in Composers : Passable(C[j]) => Passable(D[j])
      BY <1>0, <1>2, <2>2, Zenon
    <2> QED
      BY <2>1, <2>3, Zenon DEF PassedBy
  <1>10. Len(st) <= Limit(D, m) /\ (Windows(D, m) = {} => q # "none")
    BY <1>5, Zenon DEF State
  <1> QED
    BY <1>3, <1>7, <1>8, <1>9, <1>10, Zenon DEF State

-----------------------------------------------------------------------------
(***************************************************************************)
(* The second phase.                                                       *)
(***************************************************************************)
\* What a handler hands over to the next one: composers and dialogs that fit.
Handed(C, st) ==
    /\ C \in [Composers -> Composer]
    /\ Stacked(C, quit, failed, st)
    /\ \A c \in Composers : ComposerOK(C[c], c, quit, failed, st)

LEMMA ReadyStep ==
    ASSUME Fields, NEW C \in [Composers -> Composer], NEW how \in {"ready", "forced"},
           \A c \in Composers : Past(C[c], failed),
           Ready(C, how), UNCHANGED failed, cancelled' \in BOOLEAN
    PROVE  /\ QuitInv'
           /\ \A c \in Composers : /\ composer'[c].exiting = C[c].exiting
                                   /\ composer'[c].discard = C[c].discard
  <1>1. /\ quit' = how /\ main' = FALSE /\ timer' = FALSE /\ holders' = {} /\ stack' = <<>>
        /\ composer' = [c \in Composers |-> Closed(C[c])]
    BY Zenon DEF Ready
  <1>2. \A c \in Composers : composer'[c] = Closed(C[c])
    BY <1>1, Zenon
  <1>3. \A c \in Composers :
           /\ Closed(C[c]) \in Composer
           /\ Closed(C[c]).open = FALSE /\ Closed(C[c]).changed = C[c].changed
           /\ Closed(C[c]).exiting = C[c].exiting /\ Closed(C[c]).connected = C[c].connected
           /\ Closed(C[c]).holds = FALSE /\ Closed(C[c]).discard = C[c].discard
           /\ Closed(C[c]).saving = C[c].saving
    BY ClosedFields
  <1>4. composer' \in [Composers -> Composer]
    BY <1>1, <1>3
  <1>5. quit' # "none" /\ quit' # "preparing" /\ quit' \in {"none", "preparing", "ready", "forced"}
    BY <1>1
  <1>6. Fields'
    BY <1>1, <1>5 DEF Fields
  <1>7. Len(stack') = 0 /\ stack' \in Seq(Dialog)
    BY <1>1
  <1>8. Len(stack') <= Limit(composer', main')
    <2>1. Limit(composer', FALSE) \in Nat
      BY LimitFacts
    <2>2. Limit(composer', main') \in Nat
      BY <1>1, <2>1
    <2> QED
      BY <1>7, <2>2
  <1>9. \A i \in 1 .. Len(stack') : FALSE
    BY <1>7
  <1>10. Stacked(composer', quit', failed', stack')
    BY <1>7, <1>9, Zenon DEF Stacked
  <1>11. ASSUME NEW c \in Composers
         PROVE  ComposerOK(composer'[c], c, quit', failed', stack')
    <2> DEFINE r == composer'[c]
    <2>1. /\ ~r.holds /\ r.connected = C[c].connected /\ r.exiting = C[c].exiting
          /\ r.saving = C[c].saving /\ r.changed = C[c].changed
      BY <1>2, <1>3
    <2> HIDE DEF r
    <2>2. Past(C[c], failed) /\ failed' = failed
      OBVIOUS
    <2>3. Past(r, failed')
      BY <2>1, <2>2 DEF Past
    <2>4. ComposerOK(r, c, quit', failed', stack')
      BY <2>1, <2>3, Zenon DEF ComposerOK
    <2> QED
      BY <2>4 DEF r
  <1>12. Emissions(composer', quit', failed', cancelled', stack')
    BY <1>5, Zenon DEF Emissions
  <1>13. State(composer', main', quit', failed', cancelled', stack')
    BY <1>4, <1>5, <1>8, <1>10, <1>11, <1>12, Zenon DEF State
  <1> QED
    BY <1>2, <1>3, <1>6, <1>13, Zenon DEF QuitInv

\* A reference on the activity is given up.
LEMMA ReleaseStep ==
    ASSUME Fields, NEW C, NEW st, State(C, main, quit, failed, cancelled, st),
           NEW H, H \subseteq Holders, Release(C, st, H), UNCHANGED <<failed, cancelled>>
    PROVE  /\ QuitInv'
           /\ quit' = quit \/ (quit' = "ready" /\ \A c \in Composers : ~C[c].holds)
           /\ quit = "none" => quit' = "none"
           /\ \A c \in Composers : /\ composer'[c].exiting = C[c].exiting
                                   /\ composer'[c].discard = C[c].discard
  <1>1. CASE quit = "preparing" /\ ~Held(C, H) /\ Ready(C, "ready")
    <2>1. C \in [Composers -> Composer] /\ \A c \in Composers : Past(C[c], failed)
      BY Zenon DEF State, ComposerOK
    <2>2. cancelled' \in BOOLEAN
      BY DEF Fields
    <2>3. /\ QuitInv'
          /\ \A c \in Composers : /\ composer'[c].exiting = C[c].exiting
                                  /\ composer'[c].discard = C[c].discard
      BY <1>1, <2>1, <2>2, ReadyStep
    <2>4. quit' = "ready" /\ \A c \in Composers : ~C[c].holds
      BY <1>1, Zenon DEF Ready, Held
    <2> QED
      BY <1>1, <2>3, <2>4
  <1>2. CASE /\ quit = "none" \/ Held(C, H)
             /\ composer' = C /\ stack' = st /\ holders' = H
             /\ UNCHANGED <<main, quit, timer>>
    <2>1. State(composer', main', quit', failed', cancelled', stack')
      BY <1>2
    <2>2. Fields'
      BY <1>2 DEF Fields
    <2> QED
      BY <1>2, <2>1, <2>2, Zenon DEF QuitInv
  <1> QED
    BY <1>1, <1>2, Zenon DEF Release

\* The question about pending activities is asked over the others.
LEMMA PendingStep ==
    ASSUME Fields, NEW C, NEW st, Handed(C, st), Len(st) + 1 <= Limit(C, main),
           quit = "preparing",
           \E w \in Windows(C, main) \cup {NoWindow} :
              stack' = Append(st, [ask |-> "pending", who |-> w]),
           composer' = C, UNCHANGED <<main, quit, holders, failed>>,
           timer' \in BOOLEAN, cancelled' \in BOOLEAN
    PROVE  QuitInv'
  <1>0. main \in BOOLEAN
    BY DEF Fields
  <1>1. PICK w \in Windows(C, main) \cup {NoWindow} :
           stack' = Append(st, [ask |-> "pending", who |-> w])
    OBVIOUS
  <1> DEFINE d == [ask |-> "pending", who |-> w]
  <1>2. w \in 0 .. NoWindow
    BY <1>0, WindowFacts
  <1>3. d \in Dialog /\ d.ask = "pending"
    BY <1>2 DEF Dialog
  <1>4. stack' = Append(st, d)
    BY <1>1
  <1> HIDE DEF d
  <1>5. DialogOK(C, quit, failed, Len(st) + 1, d)
    BY <1>3 DEF DialogOK
  <1>6. st \in Seq(Dialog) /\ Stacked(C, quit, failed, st)
    BY Zenon DEF Handed, Stacked
  <1>7. d.ask # "drafts"
    BY <1>3
  <1>8. /\ Stacked(C, quit, failed, stack')
        /\ \A c \in Composers : LastOn(st, c) => LastOn(stack', c)
    BY <1>3, <1>4, <1>5, <1>6, <1>7, PushKeeps, Zenon
  <1>9. Len(stack') = Len(st) + 1
    BY <1>3, <1>4, <1>6, Pushed
  <1>10. \A c \in Composers : ComposerOK(C[c], c, quit, failed, stack')
    BY <1>8, Zenon DEF Handed, ComposerOK
  <1>11. quit # "none"
    OBVIOUS
  <1>12. State(C, main, quit, failed, cancelled', stack')
    BY <1>8, <1>9, <1>10, <1>11, Zenon DEF State, Handed, Emissions
  <1>13. State(composer', main', quit', failed', cancelled', stack')
    BY <1>12
  <1>14. Fields'
    BY DEF Fields
  <1> QED
    BY <1>13, <1>14, Zenon DEF QuitInv

LEMMA PrepareStep ==
    ASSUME Fields, NEW C, NEW st, Handed(C, st), Len(st) + 1 <= Limit(C, main), Len(st) \in Nat,
           Prepare(C, st), UNCHANGED failed, cancelled' \in BOOLEAN
    PROVE  /\ QuitInv'
           /\ quit = "preparing" => quit' = "preparing"
           /\ quit = "none" => quit' # "none"
           /\ \A c \in Composers : /\ composer'[c].exiting = C[c].exiting
                                   /\ composer'[c].discard = C[c].discard
  <1>0. C \in [Composers -> Composer] /\ main \in BOOLEAN
    BY DEF Handed, Fields
  <1>1. CASE quit = "preparing" /\ AskPending(C, st)
    <2>1. /\ \E w \in Windows(C, main) \cup {NoWindow} :
                stack' = Append(st, [ask |-> "pending", who |-> w])
          /\ composer' = C
          /\ UNCHANGED <<main, quit, holders, timer>>
      BY <1>1, Zenon DEF AskPending
    <2>2. timer' \in BOOLEAN
      BY <2>1 DEF Fields
    <2>3. QuitInv'
      BY <1>1, <2>1, <2>2, PendingStep
    <2> QED
      BY <1>1, <2>1, <2>3
  <1>2. ASSUME quit = "none", NEW D, D = [c \in Composers |-> Prepared(C[c])],
               NEW H \in SUBSET Holders,
               IF Held(D, H)
               THEN /\ quit' = "preparing"
                    /\ holders' = H
                    /\ timer' = TRUE
                    /\ composer' = [c \in Composers |-> Desensitized(D[c])]
                    /\ stack' = st
                    /\ UNCHANGED main
               ELSE Ready(D, "ready")
        PROVE  /\ QuitInv'
               /\ quit' # "none"
               /\ \A c \in Composers : /\ composer'[c].exiting = C[c].exiting
                                       /\ composer'[c].discard = C[c].discard
    <2>1. \A c \in Composers : ComposerOK(C[c], c, "none", failed, st)
      BY <1>2, Zenon DEF Handed
    <2>2. \A c \in Composers : ~C[c].holds /\ Past(C[c], failed)
      BY <2>1 DEF ComposerOK
    <2>3. \A c \in Composers :
             /\ D[c] \in Composer
             /\ D[c].open = C[c].open /\ D[c].changed = C[c].changed
             /\ D[c].exiting = C[c].exiting /\ D[c].connected = C[c].connected
             /\ D[c].discard = C[c].discard
             /\ D[c].holds => C[c].open
             /\ D[c].saving = C[c].saving \/ (C[c].saving = "no" /\ D[c].saving = "building")
      <3> SUFFICES ASSUME NEW c \in Composers
                   PROVE  /\ D[c] \in Composer
                          /\ D[c].open = C[c].open /\ D[c].changed = C[c].changed
                          /\ D[c].exiting = C[c].exiting /\ D[c].connected = C[c].connected
                          /\ D[c].discard = C[c].discard
                          /\ D[c].holds => C[c].open
                          /\ D[c].saving = C[c].saving
                                \/ (C[c].saving = "no" /\ D[c].saving = "building")
        OBVIOUS
      <3>1. D[c] = Prepared(C[c]) /\ C[c] \in Composer /\ ~C[c].holds
        BY <1>0, <1>2, <2>2, Zenon
      <3>2. /\ Prepared(C[c]) \in Composer
            /\ Prepared(C[c]).open = C[c].open /\ Prepared(C[c]).changed = C[c].changed
            /\ Prepared(C[c]).exiting = C[c].exiting
            /\ Prepared(C[c]).connected = C[c].connected
            /\ Prepared(C[c]).discard = C[c].discard
            /\ Prepared(C[c]).holds => C[c].holds \/ C[c].open
            /\ Prepared(C[c]).saving = C[c].saving
                  \/ (C[c].saving = "no" /\ Prepared(C[c]).saving = "building")
        BY <3>1, PreparedFields
      <3> QED
        BY <3>1, <3>2, Zenon
    <2>4. D \in [Composers -> Composer]
      BY <1>2, <2>3
    <2>5. \A c \in Composers : Past(D[c], failed)
      <3>1. "building" # "ended"
        OBVIOUS
      <3> QED
        BY <2>2, <2>3, <3>1, Zenon DEF Past
    <2>6. CASE ~Held(D, H)
      <3>1. Ready(D, "ready")
        BY <1>2, <2>6, Zenon
      <3>2. /\ QuitInv'
            /\ \A c \in Composers : /\ composer'[c].exiting = D[c].exiting
                                    /\ composer'[c].discard = D[c].discard
        BY <2>4, <2>5, <3>1, ReadyStep
      <3>3. quit' = "ready"
        BY <3>1, Zenon DEF Ready
      <3> QED
        BY <2>3, <3>2, <3>3
    <2>7. CASE Held(D, H)
      <3>1. /\ quit' = "preparing" /\ holders' = H /\ timer' = TRUE
            /\ composer' = [c \in Composers |-> Desensitized(D[c])]
            /\ stack' = st /\ main' = main
        BY <1>2, <2>7, Zenon
      <3>2. \A c \in Composers :
               /\ composer'[c] \in Composer
               /\ composer'[c].open = C[c].open /\ composer'[c].changed = C[c].changed
               /\ composer'[c].exiting = C[c].exiting /\ composer'[c].connected = C[c].connected
               /\ composer'[c].discard = C[c].discard
               /\ composer'[c].holds => C[c].open
               /\ composer'[c].saving = C[c].saving
                     \/ (C[c].saving = "no" /\ composer'[c].saving = "building")
        <4> SUFFICES ASSUME NEW c \in Composers
                     PROVE  /\ composer'[c] \in Composer
                            /\ composer'[c].open = C[c].open /\ composer'[c].changed = C[c].changed
                            /\ composer'[c].exiting = C[c].exiting
                            /\ composer'[c].connected = C[c].connected
                            /\ composer'[c].discard = C[c].discard
                            /\ composer'[c].holds => C[c].open
                            /\ composer'[c].saving = C[c].saving
                                  \/ (C[c].saving = "no" /\ composer'[c].saving = "building")
          OBVIOUS
        <4>1. composer'[c] = Desensitized(D[c])
          BY <3>1, Zenon
        <4>2. /\ Desensitized(D[c]) \in Composer
              /\ Desensitized(D[c]).open = D[c].open
              /\ Desensitized(D[c]).changed = D[c].changed
              /\ Desensitized(D[c]).exiting = D[c].exiting
              /\ Desensitized(D[c]).connected = D[c].connected
              /\ Desensitized(D[c]).holds = D[c].holds
              /\ Desensitized(D[c]).discard = D[c].discard
              /\ Desensitized(D[c]).saving = D[c].saving
          BY <2>3, DesensitizedFields
        <4> QED
          BY <2>3, <4>1, <4>2, Zenon
      <3>3. composer' \in [Composers -> Composer]
        BY <3>1, <3>2
      <3>4. Windows(composer', main) = Windows(C, main) /\ Limit(composer', main) = Limit(C, main)
        BY <1>0, <3>2, LimitFacts
      <3>5. Limit(C, main) \in Nat
        BY <1>0, LimitFacts
      <3>6. Len(st) <= Limit(C, main)
        BY <3>5
      <3>7. \A i \in 1 .. Len(st) : DialogOK(composer', "preparing", failed, i, st[i])
        <4> SUFFICES ASSUME NEW i \in 1 .. Len(st)
                     PROVE  DialogOK(composer', "preparing", failed, i, st[i])
          OBVIOUS
        <4>1. DialogOK(C, "none", failed, i, st[i])
          BY <1>2, Zenon DEF Handed, Stacked
        <4>2. st[i].ask # "last" /\ st[i].ask # "pending"
          BY <4>1 DEF DialogOK
        <4>3. st[i].ask = "drafts" => st[i].who \in Composers
          BY <4>1 DEF DialogOK
        <4>4. "preparing" # "none" /\ "asking" # "no"
          OBVIOUS
        <4>5. st[i].ask = "drafts" =>
                 composer'[st[i].who].open /\ composer'[st[i].who].saving = "asking" /\ failed
          BY <3>2, <4>1, <4>3, <4>4, Zenon DEF DialogOK
        <4>6. st[i].ask \in {"quit", "close", "drafts", "last"} => st[i].who \in Composers
          BY <4>1, Zenon DEF DialogOK
        <4>7. st[i].ask \in {"close", "outbox"} => i = 1
          BY <4>1, Zenon DEF DialogOK
        <4> QED
          BY <4>2, <4>4, <4>5, <4>6, <4>7, Zenon DEF DialogOK
      <3>8. Stacked(composer', "preparing", failed, st)
        BY <3>7, Zenon DEF Handed, Stacked
      <3>9. \A c \in Composers : ComposerOK(composer'[c], c, "preparing", failed, st)
        <4>1. "building" # "ended"
          OBVIOUS
        <4> QED
          BY <2>2, <3>2, <4>1, Zenon DEF ComposerOK, Past
      <3>10. "preparing" # "none"
        OBVIOUS
      <3>11. State(composer', main, "preparing", failed, cancelled', st)
        BY <3>3, <3>4, <3>6, <3>8, <3>9, <3>10, Zenon DEF State, Emissions
      <3>12. State(composer', main', quit', failed', cancelled', stack')
        BY <3>1, <3>11
      <3>13. Fields'
        BY <3>1 DEF Fields
      <3> QED
        BY <3>1, <3>2, <3>10, <3>12, <3>13, Zenon DEF QuitInv
    <2> QED
      BY <2>6, <2>7, Zenon
  <1>3. CASE quit = "preparing"
    BY <1>1, <1>3 DEF Prepare
  <1>4. CASE quit = "none"
    <2>1. quit # "preparing"
      BY <1>4
    <2>2. \E D \in {[c \in Composers |-> Prepared(C[c])]}, H \in SUBSET Holders :
             IF Held(D, H)
             THEN /\ quit' = "preparing"
                  /\ holders' = H
                  /\ timer' = TRUE
                  /\ composer' = [c \in Composers |-> Desensitized(D[c])]
                  /\ stack' = st
                  /\ UNCHANGED main
             ELSE Ready(D, "ready")
      BY <2>1, Zenon DEF Prepare
    <2>3. PICK D \in {[c \in Composers |-> Prepared(C[c])]}, H \in SUBSET Holders :
             IF Held(D, H)
             THEN /\ quit' = "preparing"
                  /\ holders' = H
                  /\ timer' = TRUE
                  /\ composer' = [c \in Composers |-> Desensitized(D[c])]
                  /\ stack' = st
                  /\ UNCHANGED main
             ELSE Ready(D, "ready")
      BY <2>2, Zenon
    <2>4. D = [c \in Composers |-> Prepared(C[c])]
      OBVIOUS
    <2>5. /\ QuitInv'
          /\ quit' # "none"
          /\ \A c \in Composers : /\ composer'[c].exiting = C[c].exiting
                                  /\ composer'[c].discard = C[c].discard
      BY <1>2, <1>4, <2>3, <2>4, Zenon
    <2> QED
      BY <2>1, <2>5, Zenon
  <1> QED
    BY <1>3, <1>4, Zenon DEF Prepare

-----------------------------------------------------------------------------
(***************************************************************************)
(* The first phase.                                                        *)
(***************************************************************************)
\* An emission that comes to composer i has passed those before it.
BeforeIsPassable(C, st, i) ==
    /\ \A j \in Composers : j < i => Passable(C[j])
    /\ \A k \in 1 .. Len(st) : st[k].ask = "quit" =>
          \A j \in Composers : j < st[k].who =>
             \/ Passable(C[j])
             \/ \E l \in k + 1 .. Len(st) : st[l].ask = "quit" /\ st[l].who <= j
             \/ i <= j

\* The composers that are let go are disconnected, and nothing else.
LEMMA PassedFacts ==
    ASSUME NEW C, NEW st, Handed(C, st), NEW i, NEW f
    PROVE  /\ Handed(Passed(C, i, f), st)
           /\ \A c \in Composers :
                 /\ Passed(C, i, f)[c] \in Composer
                 /\ Passed(C, i, f)[c].open = C[c].open
                 /\ Passed(C, i, f)[c].changed = C[c].changed
                 /\ Passed(C, i, f)[c].exiting = C[c].exiting
                 /\ Passed(C, i, f)[c].discard = C[c].discard
                 /\ Passed(C, i, f)[c].saving = C[c].saving
  <1> DEFINE D == Passed(C, i, f)
  <1>1. C \in [Composers -> Composer]
    BY Zenon DEF Handed
  <1>2. D = [c \in Composers |-> IF c \in i .. f - 1 THEN LetGo(C[c]) ELSE C[c]]
    BY DEF Passed
  <1> HIDE DEF D
  <1>3. ASSUME NEW c \in Composers
        PROVE  /\ D[c] \in Composer
               /\ D[c].open = C[c].open /\ D[c].changed = C[c].changed
               /\ D[c].exiting = C[c].exiting /\ D[c].discard = C[c].discard
               /\ D[c].holds = C[c].holds /\ D[c].saving = C[c].saving
               /\ D[c].connected = C[c].connected \/ (C[c].exiting /\ C[c].open)
    <2>1. C[c] \in Composer
      BY <1>1
    <2>2. CASE c \in i .. f - 1
      <3>1. D[c] = LetGo(C[c])
        BY <1>2, <2>2, Zenon
      <3>2. /\ LetGo(C[c]) \in Composer
            /\ LetGo(C[c]).open = C[c].open /\ LetGo(C[c]).changed = C[c].changed
            /\ LetGo(C[c]).exiting = C[c].exiting
            /\ LetGo(C[c]).connected = C[c].connected \/ (C[c].exiting /\ C[c].open)
            /\ LetGo(C[c]).holds = C[c].holds /\ LetGo(C[c]).discard = C[c].discard
            /\ LetGo(C[c]).saving = C[c].saving
        BY <2>1, LetGoFields
      <3> QED
        BY <3>1, <3>2, Zenon
    <2>3. CASE c \notin i .. f - 1
      <3>1. D[c] = C[c]
        BY <1>2, <2>3, Zenon
      <3> QED
        BY <2>1, <3>1, Zenon
    <2> QED
      BY <2>2, <2>3
  <1>4. D \in [Composers -> Composer]
    BY <1>2, <1>3
  <1>5. \A k \in 1 .. Len(st) : DialogOK(D, quit, failed, k, st[k])
    <2> SUFFICES ASSUME NEW k \in 1 .. Len(st) PROVE DialogOK(D, quit, failed, k, st[k])
      OBVIOUS
    <2>1. DialogOK(C, quit, failed, k, st[k])
      BY Zenon DEF Handed, Stacked
    <2>2. /\ st[k].ask = "quit" => st[k].who \in Composers
          /\ st[k].ask = "drafts" => st[k].who \in Composers
          /\ st[k].ask = "last" => st[k].who \in Composers
      BY <2>1 DEF DialogOK
    <2> QED
      BY <1>3, <2>1, <2>2, Zenon DEF DialogOK
  <1>6. Stacked(D, quit, failed, st)
    BY <1>5, Zenon DEF Handed, Stacked
  <1>7. \A c \in Composers : ComposerOK(D[c], c, quit, failed, st)
    <2> SUFFICES ASSUME NEW c \in Composers PROVE ComposerOK(D[c], c, quit, failed, st)
      OBVIOUS
    <2>1. ComposerOK(C[c], c, quit, failed, st)
      BY Zenon DEF Handed
    <2> DEFINE r == C[c]
               t == D[c]
    <2>2. /\ t.open = r.open /\ t.changed = r.changed
          /\ t.exiting = r.exiting /\ t.holds = r.holds /\ t.saving = r.saving
          /\ t.connected = r.connected \/ (r.exiting /\ r.open)
      BY <1>3
    <2>3. Past(r, failed)
      BY <2>1 DEF ComposerOK
    <2> HIDE DEF r, t
    <2>4. Past(t, failed)
      BY <2>2, <2>3 DEF Past
    <2>5. ComposerOK(r, c, quit, failed, st)
      BY <2>1 DEF r
    <2>6. ComposerOK(t, c, quit, failed, st)
      BY <2>2, <2>4, <2>5, Zenon DEF ComposerOK
    <2> QED
      BY <2>6 DEF t
  <1>8. Handed(D, st)
    BY <1>4, <1>6, <1>7, Zenon DEF Handed
  <1> QED
    BY <1>3, <1>8 DEF D

\* A composer that is passed may be passed.
LEMMA PassedIsPassable ==
    ASSUME NEW C, NEW st, Handed(C, st), ~failed, NEW c \in Composers, ~Blocks(C[c])
    PROVE  Passable(C[c])
  <1>1. C[c] \in Composer /\ ComposerOK(C[c], c, quit, failed, st)
    BY DEF Handed
  <1>2. Past(C[c], failed)
    BY <1>1, Zenon DEF ComposerOK
  <1>3. C[c].connected \/ C[c].exiting
    BY <1>2 DEF Past
  <1> QED
    BY <1>3 DEF Blocks, Passable

LEMMA EmissionStep ==
    ASSUME Fields, NEW C, NEW st, Handed(C, st), Len(st) + 1 <= Limit(C, main),
           NEW i \in 1 .. N + 1, NEW wc \in BOOLEAN,
           Windows(C, main) = {} /\ quit = "none" => ~wc,
           quit = "none" /\ ~failed /\ ~wc => BeforeIsPassable(C, st, i),
           Emission(C, st, i, wc), UNCHANGED failed
    PROVE  QuitInv' /\ Word(C) /\ Remembers(C)
  <1>0. C \in [Composers -> Composer] /\ main \in BOOLEAN /\ st \in Seq(Dialog)
    BY DEF Handed, Fields, Stacked
  <1>1. Limit(C, main) \in Nat /\ Len(st) \in Nat
    BY <1>0, LimitFacts, LenProperties
  <1>2. Len(st) <= Limit(C, main)
    BY <1>1
  <1> DEFINE f == FirstBlocking(C, i)
             D == Passed(C, i, f)
  <1>3. /\ f \in i .. N + 1
        /\ f \in Composers => Blocks(C[f])
        /\ \A c \in i .. f - 1 : ~Blocks(C[c])
        /\ f = N + 1 \/ f \in Composers
    BY FirstFacts
  <1>4. /\ Handed(D, st)
        /\ \A c \in Composers :
              /\ D[c] \in Composer
              /\ D[c].open = C[c].open /\ D[c].changed = C[c].changed
              /\ D[c].exiting = C[c].exiting /\ D[c].discard = C[c].discard
              /\ D[c].saving = C[c].saving
    BY PassedFacts
  <1>5. \/ /\ f = N + 1
           /\ cancelled' = wc
           /\ IF wc
              THEN /\ composer' = D
                   /\ stack' = st
                   /\ UNCHANGED <<main, quit, holders, timer>>
              ELSE Prepare(D, st)
        \/ /\ f \in Composers
           /\ composer' = D
           /\ IF D[f].saving # "no"
              THEN /\ cancelled' = TRUE
                   /\ stack' = st
              ELSE /\ cancelled' = wc
                   /\ stack' = Append(st, [ask |-> "quit", who |-> f])
           /\ UNCHANGED <<main, quit, holders, timer>>
    BY Zenon DEF Emission
  <1>6. \A c \in Composers : i <= c /\ c < f => c \in i .. f - 1
    <2>1. N \in Nat /\ Composers \subseteq Nat
      BY QuitAssumption DEF Composers
    <2> QED
      BY <1>3, <2>1
  <1> HIDE DEF f, D
  <1>7. Windows(D, main) = Windows(C, main) /\ Limit(D, main) = Limit(C, main)
    BY <1>0, <1>4, LimitFacts
  <1>8. Stacked(D, quit, failed, st) /\ D \in [Composers -> Composer]
        /\ \A c \in Composers : ComposerOK(D[c], c, quit, failed, st)
    BY <1>4, Zenon DEF Handed
  <1>9. \A c \in Composers : Passable(D[c]) <=> Passable(C[c])
    BY <1>4, Zenon DEF Passable
  <1>10. ASSUME ~failed, NEW c \in Composers, i <= c, c < f PROVE Passable(C[c])
    BY <1>3, <1>6, <1>10, PassedIsPassable
  \* What a step that leaves the quit as it is says.
  <1>11. ASSUME quit' = quit PROVE Word(C)
    <2>1. ~(quit = "preparing" /\ quit' = "ready") /\ ~(quit = "none" /\ quit' # "none")
      BY <1>11
    <2> QED
      BY <2>1, Zenon DEF Word
  <1>12. CASE /\ f = N + 1 /\ cancelled' = wc /\ wc /\ composer' = D /\ stack' = st
              /\ UNCHANGED <<main, quit, holders, timer>>
    <2>1. Windows(D, main) = {} => quit # "none"
      BY <1>7, <1>12
    <2>2. State(D, main, quit, failed, TRUE, st)
      BY <1>2, <1>7, <1>8, <2>1, Zenon DEF State, Emissions
    <2>3. State(composer', main', quit', failed', cancelled', stack')
      BY <1>12, <2>2
    <2>4. Fields'
      BY <1>12 DEF Fields
    <2> QED
      BY <1>4, <1>11, <1>12, <2>3, <2>4, Zenon DEF QuitInv, Remembers
  <1>13. CASE f = N + 1 /\ cancelled' = wc /\ ~wc /\ Prepare(D, st)
    <2>1. Len(st) + 1 <= Limit(D, main)
      BY <1>7
    <2>2. cancelled' \in BOOLEAN
      BY <1>13
    <2>3. /\ QuitInv'
          /\ quit = "preparing" => quit' = "preparing"
          /\ quit = "none" => quit' # "none"
          /\ \A c \in Composers : /\ composer'[c].exiting = D[c].exiting
                                  /\ composer'[c].discard = D[c].discard
      BY <1>1, <1>4, <1>13, <2>1, <2>2, PrepareStep
    <2>4. ASSUME quit = "none", ~failed, NEW c \in Composers, C[c].open, C[c].changed
          PROVE  composer'[c].exiting \/ composer'[c].discard
      <3>1. \A j \in Composers : j < i => Passable(C[j])
        BY <1>13, <2>4, Zenon DEF BeforeIsPassable
      <3>2. c < i \/ (i <= c /\ c < f)
        <4>1. N \in Nat /\ c \in 1 .. N
          BY QuitAssumption DEF Composers
        <4> QED
          BY <1>13, <4>1
      <3>3. Passable(C[c])
        BY <1>10, <2>4, <3>1, <3>2, Zenon
      <3>4. C[c].exiting \/ C[c].discard
        BY <2>4, <3>3 DEF Passable
      <3> QED
        BY <1>4, <2>3, <3>4, Zenon
    <2>5. quit = "preparing" => quit' # "ready"
      BY <2>3
    <2>6. Word(C)
      BY <2>4, <2>5, Zenon DEF Word
    <2> QED
      BY <1>4, <2>3, <2>6, Zenon DEF Remembers
  <1>14. CASE /\ f \in Composers /\ composer' = D /\ D[f].saving # "no"
              /\ cancelled' = TRUE /\ stack' = st
              /\ UNCHANGED <<main, quit, holders, timer>>
    <2>1. Windows(D, main) # {}
      <3>1. C[f].open
        BY <1>3, <1>14, Zenon DEF Blocks
      <3>2. f \in Windows(C, main)
        BY <1>0, <1>14, <3>1, WindowFacts
      <3> QED
        BY <1>7, <3>2, Zenon
    <2>2. State(D, main, quit, failed, TRUE, st)
      BY <1>2, <1>7, <1>8, <2>1, Zenon DEF State, Emissions
    <2>3. State(composer', main', quit', failed', cancelled', stack')
      BY <1>14, <2>2
    <2>4. Fields'
      BY <1>14 DEF Fields
    <2> QED
      BY <1>4, <1>11, <1>14, <2>3, <2>4, Zenon DEF QuitInv, Remembers
  <1>15. CASE /\ f \in Composers /\ composer' = D /\ D[f].saving = "no"
              /\ cancelled' = wc /\ stack' = Append(st, [ask |-> "quit", who |-> f])
              /\ UNCHANGED <<main, quit, holders, timer>>
    <2> DEFINE d == [ask |-> "quit", who |-> f]
    <2>1. d \in Dialog /\ d.ask = "quit" /\ d.who = f /\ stack' = Append(st, d)
      <3>1. f \in 0 .. NoWindow
        BY <1>15, QuitAssumption DEF Composers, NoWindow
      <3> QED
        BY <1>15, <3>1 DEF Dialog
    <2> HIDE DEF d
    <2>2. Windows(D, main) # {}
      <3>1. C[f].open
        BY <1>3, <1>15, Zenon DEF Blocks
      <3>2. f \in Windows(C, main)
        BY <1>0, <1>15, <3>1, WindowFacts
      <3> QED
        BY <1>7, <3>2, Zenon
    <2>3. DialogOK(D, quit, failed, Len(st) + 1, d)
      BY <1>15, <2>1 DEF DialogOK
    <2>4. d.ask # "drafts"
      BY <2>1
    <2>5. /\ Stacked(D, quit, failed, stack')
          /\ \A c \in Composers : LastOn(st, c) => LastOn(stack', c)
      BY <1>8, <2>1, <2>3, <2>4, PushKeeps, Zenon
    <2>6. /\ Len(stack') = Len(st) + 1
          /\ \A k \in 1 .. Len(st) : stack'[k] = st[k]
          /\ stack'[Len(st) + 1] = d
      BY <1>0, <2>1, Pushed
    <2>7. \A c \in Composers : ComposerOK(D[c], c, quit, failed, stack')
      BY <1>8, <2>5, Zenon DEF ComposerOK
    <2>8. Len(stack') <= Limit(D, main)
      BY <1>7, <2>6
    <2>9. Emissions(D, quit, failed, wc, stack')
      <3> SUFFICES ASSUME quit = "none", ~failed, ~wc,
                          NEW k \in 1 .. Len(stack'), stack'[k].ask = "quit"
                   PROVE  PassedBy(D, stack', k)
        BY Zenon DEF Emissions
      <3>1. BeforeIsPassable(C, st, i)
        OBVIOUS
      <3>2. CASE k = Len(st) + 1
        <4>1. ASSUME NEW j \in Composers, j < f PROVE Passable(C[j])
          <5>1. j \in Nat /\ i \in Nat
            BY QuitAssumption DEF Composers
          <5>2. j < i \/ i <= j
            BY <5>1
          <5> QED
            BY <1>10, <3>1, <4>1, <5>2, Zenon DEF BeforeIsPassable
        <4> QED
          BY <1>9, <2>1, <2>6, <3>2, <4>1, Zenon DEF PassedBy
      <3>3. CASE k # Len(st) + 1
        <4>1. k \in 1 .. Len(st)
          BY <1>1, <2>6, <3>3
        <4>2. stack'[k] = st[k]
          BY <2>6, <4>1, Zenon
        <4>3. ASSUME NEW j \in Composers, j < st[k].who
              PROVE  \/ Passable(D[j])
                     \/ \E l \in k + 1 .. Len(stack') : stack'[l].ask = "quit" /\ stack'[l].who <= j
          <5>1. \/ Passable(C[j])
                \/ \E l \in k + 1 .. Len(st) : st[l].ask = "quit" /\ st[l].who <= j
                \/ i <= j
            BY <3>1, <4>1, <4>2, <4>3, Zenon DEF BeforeIsPassable
          <5>2. ASSUME NEW l \in k + 1 .. Len(st), st[l].ask = "quit", st[l].who <= j
                PROVE  \E m \in k + 1 .. Len(stack') : stack'[m].ask = "quit" /\ stack'[m].who <= j
            <6>1. l \in 1 .. Len(st) /\ l \in k + 1 .. Len(stack')
              BY <1>1, <2>6, <4>1
            <6> QED
              BY <2>6, <5>2, <6>1, Zenon
          <5>3. ASSUME i <= j, ~(j < f)
                PROVE  \E m \in k + 1 .. Len(stack') : stack'[m].ask = "quit" /\ stack'[m].who <= j
            <6>1. Len(st) + 1 \in k + 1 .. Len(stack')
              BY <1>1, <2>6, <4>1
            <6>2. f <= j
              <7>1. f \in Nat /\ j \in Nat
                BY <1>15, QuitAssumption DEF Composers
              <7> QED
                BY <5>3, <7>1
            <6> QED
              BY <2>1, <2>6, <6>1, <6>2, Zenon
          <5> QED
            BY <1>9, <1>10, <5>1, <5>2, <5>3, Zenon
        <4> QED
          BY <4>2, <4>3, Zenon DEF PassedBy
      <3> QED
        BY <3>2, <3>3
    <2>10. State(D, main, quit, failed, wc, stack')
      BY <1>8, <2>2, <2>5, <2>7, <2>8, <2>9, Zenon DEF State
    <2>11. State(composer', main', quit', failed', cancelled', stack')
      BY <1>15, <2>10
    <2>12. Fields'
      BY <1>15 DEF Fields
    <2> QED
      BY <1>4, <1>11, <1>15, <2>11, <2>12, Zenon DEF QuitInv, Remembers
  <1> QED
    BY <1>5, <1>12, <1>13, <1>14, <1>15, Zenon

\* A request: the mail backend's question, or the emission.
LEMMA RequestStep ==
    ASSUME Fields, NEW C, NEW st, Handed(C, st), Len(st) + 1 <= Limit(C, main),
           NEW isRemote \in BOOLEAN, main /\ ~isRemote => st = <<>>,
           RequestQuit(C, st, isRemote), UNCHANGED failed
    PROVE  QuitInv' /\ Word(C) /\ Remembers(C)
  <1>0. C \in [Composers -> Composer] /\ main \in BOOLEAN /\ st \in Seq(Dialog)
    BY DEF Handed, Fields, Stacked
  <1>1. CASE quit = "preparing" /\ AskPending(C, st) /\ UNCHANGED cancelled
    <2>1. /\ \E w \in Windows(C, main) \cup {NoWindow} :
                stack' = Append(st, [ask |-> "pending", who |-> w])
          /\ composer' = C
          /\ UNCHANGED <<main, quit, holders, timer>>
      BY <1>1, Zenon DEF AskPending
    <2>2. timer' \in BOOLEAN /\ cancelled' \in BOOLEAN
      BY <1>1, <2>1 DEF Fields
    <2>3. QuitInv'
      BY <1>1, <2>1, <2>2, PendingStep
    <2>4. ~(quit = "preparing" /\ quit' = "ready") /\ ~(quit = "none" /\ quit' # "none")
      BY <1>1, <2>1
    <2> QED
      BY <2>1, <2>3, <2>4, Zenon DEF Word, Remembers
  <1>2. CASE quit = "none" /\ Emission(C, st, 1, FALSE)
    <2>1. BeforeIsPassable(C, st, 1)
      <3>1. \A j \in Composers : ~(j < 1) /\ 1 <= j
        BY QuitAssumption DEF Composers
      <3> QED
        BY <3>1, Zenon DEF BeforeIsPassable
    <2>2. 1 \in 1 .. N + 1
      BY QuitAssumption
    <2> QED
      BY <1>2, <2>1, <2>2, EmissionStep
  <1>3. CASE /\ quit = "none" /\ ~isRemote /\ main
             /\ cancelled' = FALSE /\ composer' = C
             /\ stack' = Append(st, [ask |-> "outbox", who |-> Main])
             /\ UNCHANGED <<main, quit, holders, timer>>
    <2> DEFINE d == [ask |-> "outbox", who |-> Main]
    <2>1. d \in Dialog /\ d.ask = "outbox" /\ stack' = Append(st, d)
      <3>1. Main \in 0 .. NoWindow
        BY QuitAssumption DEF Main, NoWindow
      <3> QED
        BY <1>3, <3>1 DEF Dialog
    <2> HIDE DEF d
    <2>2. Len(st) + 1 = 1
      BY <1>3
    <2>3. DialogOK(C, quit, failed, Len(st) + 1, d)
      BY <2>1, <2>2 DEF DialogOK
    <2>4. d.ask # "drafts" /\ d.ask # "quit"
      BY <2>1
    <2>5. Stacked(C, quit, failed, st)
      BY Zenon DEF Handed
    <2>6. /\ Stacked(C, quit, failed, stack')
          /\ \A c \in Composers : LastOn(st, c) => LastOn(stack', c)
      BY <2>1, <2>3, <2>4, <2>5, PushKeeps, Zenon
    <2>7. Len(stack') = Len(st) + 1 /\ stack'[Len(st) + 1] = d
      BY <1>0, <2>1, Pushed
    <2>8. Len(stack') <= Limit(C, main)
      BY <2>7
    <2>9. \A c \in Composers : ComposerOK(C[c], c, quit, failed, stack')
      BY <2>6, Zenon DEF Handed, ComposerOK
    <2>10. Windows(C, main) # {}
      BY <1>0, <1>3, WindowFacts
    <2>11. \A k \in 1 .. Len(stack') : stack'[k] = d
      <3>1. \A k \in 1 .. Len(stack') : k = 1
        BY <2>2, <2>7
      <3> QED
        BY <2>2, <2>7, <3>1, Zenon
    <2>12. Emissions(C, quit, failed, cancelled', stack')
      BY <2>4, <2>11, Zenon DEF Emissions
    <2>13. State(C, main, quit, failed, cancelled', stack')
      BY <1>0, <2>6, <2>8, <2>9, <2>10, <2>12, Zenon DEF State
    <2>14. State(composer', main', quit', failed', cancelled', stack')
      BY <1>3, <2>13
    <2>15. Fields'
      BY <1>3 DEF Fields
    <2>16. ~(quit = "preparing" /\ quit' = "ready") /\ ~(quit = "none" /\ quit' # "none")
      BY <1>3
    <2> QED
      BY <1>3, <2>14, <2>15, <2>16, Zenon DEF QuitInv, Word, Remembers
  <1> QED
    BY <1>1, <1>2, <1>3, Zenon DEF RequestQuit

-----------------------------------------------------------------------------
(***************************************************************************)
(* A composer's window is destroyed.                                       *)
(***************************************************************************)
\* A message that is given up or saved is destroyed with its composer.
LEMMA DestroyStep ==
    ASSUME Fields, NEW C, NEW st, State(C, main, quit, failed, cancelled, st),
           NEW c \in Composers, C[c].open, C[c].changed => C[c].discard,
           \A i \in 1 .. Len(st) : st[i].ask = "drafts" => st[i].who # c,
           Destroy(C, st, c), UNCHANGED failed
    PROVE  QuitInv' /\ Word(C)
  <1>0. /\ C \in [Composers -> Composer] /\ main \in BOOLEAN
        /\ Stacked(C, quit, failed, st) /\ st \in Seq(Dialog)
        /\ holders \subseteq Holders
    BY DEF State, Stacked, Fields
  <1> DEFINE D == [C EXCEPT ![c].open = FALSE]
             E == [D EXCEPT ![c] = Closed(@)]
  <1>1. \/ ~QuitsAfterLast(D) /\ Release(E, st, holders) /\ UNCHANGED cancelled
        \/ /\ QuitsAfterLast(D) /\ quit = "preparing"
           /\ composer' = D
           /\ stack' = Append(st, [ask |-> "last", who |-> c])
           /\ UNCHANGED <<main, quit, holders, timer, cancelled>>
        \/ QuitsAfterLast(D) /\ quit = "none" /\ RequestQuit(D, st, FALSE)
    BY Zenon DEF Destroy
  <1>2. /\ D[c] = [C[c] EXCEPT !.open = FALSE]
        /\ \A d \in Composers \ {c} : D[d] = C[d]
        /\ D = [C EXCEPT ![c] = [C[c] EXCEPT !.open = FALSE]]
    BY <1>0
  <1>3. C[c] \in Composer
    BY <1>0
  <1>4. /\ D[c] \in Composer /\ ~D[c].open /\ D[c].changed = C[c].changed
        /\ D[c].exiting = C[c].exiting /\ D[c].connected = C[c].connected
        /\ D[c].holds = C[c].holds /\ D[c].discard = C[c].discard
        /\ D[c].saving = C[c].saving
    <2> DEFINE r == C[c]
               t == [r EXCEPT !.open = FALSE]
    <2>1. r \in Composer /\ D[c] = t
      BY <1>2, <1>3
    <2> HIDE DEF r
    <2>2. /\ t \in Composer /\ t.open = FALSE /\ t.changed = r.changed
          /\ t.exiting = r.exiting /\ t.connected = r.connected
          /\ t.holds = r.holds /\ t.discard = r.discard
          /\ t.saving = r.saving
      BY <2>1 DEF Composer
    <2> HIDE DEF t
    <2>3. /\ D[c] \in Composer /\ ~D[c].open /\ D[c].changed = r.changed
          /\ D[c].exiting = r.exiting /\ D[c].connected = r.connected
          /\ D[c].holds = r.holds /\ D[c].discard = r.discard
          /\ D[c].saving = r.saving
      BY <2>1, <2>2
    <2> QED
      BY <2>3 DEF r
  <1>5. D \in [Composers -> Composer]
    <2>1. [C[c] EXCEPT !.open = FALSE] \in Composer
      BY <1>2, <1>4
    <2> QED
      BY <1>0, <1>2, <2>1
  <1> HIDE DEF D
  <1>6. E[c] = Closed(D[c]) /\ \A d \in Composers \ {c} : E[d] = D[d]
    BY <1>5
  <1>7. /\ Closed(D[c]) \in Composer
        /\ Closed(D[c]).open = FALSE /\ Closed(D[c]).changed = D[c].changed
        /\ Closed(D[c]).exiting = D[c].exiting /\ Closed(D[c]).connected = D[c].connected
        /\ Closed(D[c]).holds = FALSE /\ Closed(D[c]).discard = D[c].discard
        /\ Closed(D[c]).saving = D[c].saving
    BY <1>4, ClosedFields
  <1>8. E \in [Composers -> Composer]
    BY <1>5, <1>7
  <1>9. /\ ~E[c].open /\ ~E[c].holds /\ E[c].changed = C[c].changed
        /\ E[c].exiting = C[c].exiting /\ E[c].connected = C[c].connected
        /\ E[c].discard = C[c].discard /\ E[c].saving = C[c].saving
    BY <1>4, <1>6, <1>7
  <1> HIDE DEF E
  <1>10. \A d \in Composers \ {c} : E[d] = C[d]
    BY <1>2, <1>6, Zenon
  <1>11. \A d \in Composers : E[d].open = D[d].open
    <2>1. E[c].open = FALSE /\ D[c].open = FALSE
      BY <1>4, <1>6, <1>7
    <2> QED
      BY <1>6, <2>1, Zenon
  <1>12. Windows(E, main) = Windows(D, main) /\ Limit(E, main) = Limit(D, main)
    BY <1>0, <1>11, LimitFacts
  <1>13. Len(st) <= MaxDepth /\ Len(st) \in Nat /\ MaxDepth \in Nat
    <2>1. Windows(C, main) # {}
      BY <1>0, WindowFacts
    <2>2. Limit(C, main) = MaxDepth /\ MaxDepth \in Nat
      BY <1>0, <2>1, LimitFacts
    <2>3. Len(st) <= Limit(C, main)
      BY Zenon DEF State
    <2> QED
      BY <1>0, <2>2, <2>3, LenProperties
  \* No dialog is about the message of c any longer, except a request passing it.
  <1>14. ASSUME NEW F \in {D, E}, NEW k \in 1 .. Len(st)
         PROVE  DialogOK(F, quit, failed, k, st[k])
    <2>1. DialogOK(C, quit, failed, k, st[k])
      BY <1>0, Zenon DEF Stacked
    <2>2. ~F[c].open /\ F[c].changed = C[c].changed /\ F[c].discard = C[c].discard
          /\ F[c].saving = C[c].saving /\ \A d \in Composers \ {c} : F[d] = C[d]
      BY <1>2, <1>4, <1>9, <1>10
    <2>3. /\ st[k].ask = "quit" => st[k].who \in Composers
          /\ st[k].ask = "drafts" => st[k].who \in Composers /\ st[k].who # c
          /\ st[k].ask = "last" => st[k].who \in Composers /\ st[k].who # c
      <3>1. st[k].ask \in {"quit", "drafts", "last"} => st[k].who \in Composers
        BY <2>1 DEF DialogOK
      <3>2. st[k].ask = "last" => st[k].who # c
        BY <2>1, Zenon DEF DialogOK
      <3> QED
        BY <3>1, <3>2
    <2>4. st[k].ask = "quit" /\ quit = "none" => F[st[k].who].saving = "no"
      <3>1. CASE st[k].who = c
        BY <2>1, <2>2, <3>1, Zenon DEF DialogOK
      <3>2. CASE st[k].who # c
        BY <2>1, <2>2, <2>3, <3>2, Zenon DEF DialogOK
      <3> QED
        BY <3>1, <3>2
    <2>5. st[k].ask = "drafts" => F[st[k].who] = C[st[k].who]
      BY <2>2, <2>3, Zenon
    <2>6. st[k].ask = "last" => F[st[k].who] = C[st[k].who]
      BY <2>2, <2>3, Zenon
    <2> QED
      BY <2>1, <2>4, <2>5, <2>6, Zenon DEF DialogOK
  <1>15. Stacked(D, quit, failed, st) /\ Stacked(E, quit, failed, st)
    BY <1>0, <1>14, Zenon DEF Stacked
  <1>16. Past(C[c], failed) /\ Past(D[c], failed) /\ Past(E[c], failed)
    <2>1. Past(C[c], failed)
      BY Zenon DEF State, ComposerOK
    <2> QED
      BY <1>4, <1>9, <2>1, Zenon DEF Past
  <1>17. CASE ~QuitsAfterLast(D) /\ Release(E, st, holders) /\ UNCHANGED cancelled
    <2>1. \A d \in Composers : ComposerOK(E[d], d, quit, failed, st)
      <3> SUFFICES ASSUME NEW d \in Composers PROVE ComposerOK(E[d], d, quit, failed, st)
        OBVIOUS
      <3>1. CASE d = c
        BY <1>9, <1>16, <3>1, Zenon DEF ComposerOK
      <3>2. CASE d # c
        BY <1>10, <3>2, Zenon DEF State
      <3> QED
        BY <3>1, <3>2
    <2>2. Windows(E, main) # {}
      BY <1>12, <1>17, Zenon DEF QuitsAfterLast
    <2>3. Len(st) <= Limit(E, main)
      <3>1. Limit(E, main) = MaxDepth
        BY <1>0, <2>2, LimitFacts
      <3> QED
        BY <1>13, <3>1
    <2>4. \A d \in Composers : Passable(C[d]) => Passable(E[d])
      <3>1. Passable(E[c])
        BY <1>9 DEF Passable
      <3> QED
        BY <1>10, <3>1, Zenon
    <2>5. Emissions(E, quit, failed, cancelled, st)
      <3>1. Emissions(C, quit, failed, cancelled, st)
        BY Zenon DEF State
      <3> QED
        BY <2>4, <3>1, Zenon DEF Emissions, PassedBy
    <2>6. State(E, main, quit, failed, cancelled, st)
      BY <1>8, <1>15, <2>1, <2>2, <2>3, <2>5, Zenon DEF State
    <2>7. UNCHANGED <<failed, cancelled>>
      BY <1>17
    <2>8. /\ QuitInv'
          /\ quit' = quit \/ (quit' = "ready" /\ \A d \in Composers : ~E[d].holds)
          /\ quit = "none" => quit' = "none"
          /\ \A d \in Composers : /\ composer'[d].exiting = E[d].exiting
                                  /\ composer'[d].discard = E[d].discard
      BY <1>0, <1>17, <2>6, <2>7, ReleaseStep
    <2>9. ASSUME quit = "preparing", quit' = "ready", NEW d \in Composers, C[d].holds
          PROVE  ~C[d].changed \/ composer'[d].discard
      <3>1. \A e \in Composers : ~E[e].holds
        <4>1. quit' # quit
          BY <2>9
        <4> QED
          BY <2>8, <4>1, Zenon
      <3>2. d = c
        BY <1>10, <2>9, <3>1, Zenon
      <3> QED
        BY <1>9, <2>8, <3>2, Zenon
    <2>10. Word(C)
      BY <2>8, <2>9, Zenon DEF Word
    <2> QED
      BY <2>8, <2>10
  <1>18. ASSUME QuitsAfterLast(D)
         PROVE  /\ Windows(D, main) = {} /\ main = FALSE
                /\ Limit(D, main) = MaxDepth + 1
    <2>1. Windows(D, main) = {}
      BY <1>18, Zenon DEF QuitsAfterLast
    <2> QED
      BY <1>0, <2>1, WindowFacts, LimitFacts
  <1>19. CASE /\ QuitsAfterLast(D) /\ quit = "preparing"
              /\ composer' = D
              /\ stack' = Append(st, [ask |-> "last", who |-> c])
              /\ UNCHANGED <<main, quit, holders, timer, cancelled>>
    <2> DEFINE d == [ask |-> "last", who |-> c]
    <2>1. d \in Dialog /\ d.ask = "last" /\ d.who = c /\ stack' = Append(st, d)
      <3>1. c \in 0 .. NoWindow
        BY QuitAssumption DEF Composers, NoWindow
      <3> QED
        BY <1>19, <3>1 DEF Dialog
    <2>2. d = [ask |-> "last", who |-> c]
      OBVIOUS
    <2> HIDE DEF d
    <2>3. DialogOK(D, quit, failed, Len(st) + 1, d)
      <3>1. ~D[c].open /\ (D[c].changed => D[c].discard)
        BY <1>4
      <3> QED
        BY <1>19, <2>1, <3>1 DEF DialogOK
    <2>4. d.ask # "drafts"
      BY <2>1
    <2>5. /\ Stacked(D, quit, failed, stack')
          /\ \A e \in Composers : LastOn(st, e) => LastOn(stack', e)
          /\ \A e \in Composers : d = [ask |-> "last", who |-> e] => LastOn(stack', e)
      BY <1>15, <2>1, <2>3, <2>4, PushKeeps, Zenon
    <2>6. Len(stack') = Len(st) + 1
      BY <1>0, <2>1, Pushed
    <2>7. \A e \in Composers : ComposerOK(D[e], e, quit, failed, stack')
      <3> SUFFICES ASSUME NEW e \in Composers PROVE ComposerOK(D[e], e, quit, failed, stack')
        OBVIOUS
      <3>1. ComposerOK(C[e], e, quit, failed, st)
        BY Zenon DEF State
      <3>2. CASE e = c
        <4>1. LastOn(stack', c)
          BY <2>2, <2>5, Zenon
        <4> QED
          BY <1>16, <1>19, <3>2, <4>1, Zenon DEF ComposerOK
      <3>3. CASE e # c
        BY <1>2, <2>5, <3>1, <3>3, Zenon DEF ComposerOK
      <3> QED
        BY <3>2, <3>3
    <2>8. Len(stack') <= Limit(D, main)
      <3>1. Limit(D, main) = MaxDepth + 1
        BY <1>18, <1>19
      <3> QED
        BY <1>13, <2>6, <3>1
    <2>9. quit # "none"
      BY <1>19
    <2>10. State(D, main, quit, failed, cancelled, stack')
      BY <1>5, <2>5, <2>7, <2>8, <2>9, Zenon DEF State, Emissions
    <2>11. State(composer', main', quit', failed', cancelled', stack')
      BY <1>19, <2>10
    <2>12. Fields'
      BY <1>19 DEF Fields
    <2>13. ~(quit = "preparing" /\ quit' = "ready") /\ ~(quit = "none" /\ quit' # "none")
      BY <1>19
    <2> QED
      BY <2>11, <2>12, <2>13, Zenon DEF QuitInv, Word
  <1>20. CASE QuitsAfterLast(D) /\ quit = "none" /\ RequestQuit(D, st, FALSE)
    <2>1. \A d \in Composers : ComposerOK(D[d], d, quit, failed, st)
      <3> SUFFICES ASSUME NEW d \in Composers PROVE ComposerOK(D[d], d, quit, failed, st)
        OBVIOUS
      <3>1. ComposerOK(C[d], d, quit, failed, st)
        BY Zenon DEF State
      <3>2. CASE d = c
        <4>1. ~C[c].holds
          <5>1. quit # "preparing"
            BY <1>20
          <5> QED
            BY <3>1, <3>2, <5>1, Zenon DEF ComposerOK
        <4>2. ~D[c].holds
          BY <1>4, <4>1
        <4> QED
          BY <1>16, <3>2, <4>2, Zenon DEF ComposerOK
      <3>3. CASE d # c
        BY <1>2, <3>1, <3>3, Zenon
      <3> QED
        BY <3>2, <3>3
    <2>2. Handed(D, st)
      BY <1>5, <1>15, <2>1, Zenon DEF Handed
    <2>3. Len(st) + 1 <= Limit(D, main) /\ ~main
      <3>1. Limit(D, main) = MaxDepth + 1 /\ ~main
        BY <1>18, <1>20
      <3> QED
        BY <1>13, <3>1
    <2>4. QuitInv' /\ Word(D) /\ Remembers(D)
      BY <1>20, <2>2, <2>3, RequestStep
    <2>5. ASSUME quit = "none", quit' # "none", ~failed, NEW d \in Composers,
                 C[d].open, C[d].changed
          PROVE  composer'[d].exiting \/ composer'[d].discard
      <3>1. CASE d # c
        BY <1>2, <2>4, <2>5, <3>1, Zenon DEF Word
      <3>2. CASE d = c
        <4>1. C[c].discard
          BY <2>5, <3>2
        <4> QED
          BY <1>4, <2>4, <3>2, <4>1, Zenon DEF Remembers
      <3> QED
        BY <3>1, <3>2
    <2>6. quit # "preparing"
      BY <1>20
    <2>7. Word(C)
      BY <2>5, <2>6, Zenon DEF Word
    <2> QED
      BY <2>4, <2>7
  <1> QED
    BY <1>1, <1>17, <1>19, <1>20, Zenon

-----------------------------------------------------------------------------
(***************************************************************************)
(* The actions.                                                            *)
(***************************************************************************)
LEMMA InvFacts ==
    ASSUME QuitInv
    PROVE  /\ Fields /\ State(composer, main, quit, failed, cancelled, stack)
           /\ Handed(composer, stack)
           /\ composer \in [Composers -> Composer] /\ stack \in Seq(Dialog)
           /\ main \in BOOLEAN /\ failed \in BOOLEAN /\ cancelled \in BOOLEAN
           /\ timer \in BOOLEAN /\ holders \subseteq Holders
           /\ timer => quit = "preparing"
           /\ Room => Len(stack) + 1 <= Limit(composer, main)
           /\ stack = <<>> => /\ Len(stack) + 1 <= Limit(composer, main)
                              /\ \A i \in 1 .. Len(stack) : FALSE
  <1>1. Fields /\ State(composer, main, quit, failed, cancelled, stack)
    BY Zenon DEF QuitInv
  <1>2. Handed(composer, stack)
    BY <1>1, Zenon DEF State, Handed
  <1>3. /\ main \in BOOLEAN /\ failed \in BOOLEAN /\ cancelled \in BOOLEAN
        /\ timer \in BOOLEAN /\ holders \subseteq Holders
        /\ timer => quit = "preparing"
    BY <1>1 DEF Fields
  <1>4. composer \in [Composers -> Composer] /\ stack \in Seq(Dialog)
    BY <1>1, Zenon DEF State, Stacked
  <1>5. /\ Limit(composer, main) \in Nat /\ Limit(composer, main) >= MaxDepth
        /\ MaxDepth \in Nat /\ MaxDepth >= 1 /\ Len(stack) \in Nat
    BY <1>3, <1>4, LimitFacts, LenProperties
  <1>6. Room => Len(stack) + 1 <= Limit(composer, main)
    BY <1>5 DEF Room
  <1>7. ASSUME stack = <<>>
        PROVE  /\ Len(stack) + 1 <= Limit(composer, main)
               /\ \A i \in 1 .. Len(stack) : FALSE
    <2>1. Len(stack) = 0
      BY <1>7
    <2> QED
      BY <1>5, <2>1
  <1> QED
    BY <1>1, <1>2, <1>3, <1>4, <1>6, <1>7

\* A step that leaves the quit as it is.
LEMMA StayStep ==
    ASSUME Fields, UNCHANGED <<quit, holders>>, main' \in BOOLEAN, failed' \in BOOLEAN,
           timer' \in BOOLEAN, timer' => timer, cancelled' \in BOOLEAN,
           State(composer', main', quit, failed', cancelled', stack')
    PROVE  QuitInv' /\ Word(composer)
  <1>1. State(composer', main', quit', failed', cancelled', stack')
    OBVIOUS
  <1>2. Fields'
    BY DEF Fields
  <1>3. ~(quit = "preparing" /\ quit' = "ready") /\ ~(quit = "none" /\ quit' # "none")
    OBVIOUS
  <1> QED
    BY <1>1, <1>2, <1>3, Zenon DEF QuitInv, Word

\* The steps that replace one composer's record and leave the dialogs alone.
LEMMA ReplaceStep ==
    ASSUME QuitInv, NEW c \in Composers, NEW r \in Composer,
           composer[c].open, r.open,
           composer[c].saving # "asking",
           composer[c].saving # "no" \/ r.saving = "no" \/ stack = <<>>,
           failed => failed', failed' \in BOOLEAN,
           Past(r, failed'), r.holds => composer[c].holds,
           failed' \/ stack = <<>> \/ (Passable(composer[c]) => Passable(r)),
           composer' = [composer EXCEPT ![c] = r],
           UNCHANGED <<main, quit, holders, timer, cancelled, stack>>
    PROVE  QuitInv' /\ Word(composer)
  <1>1. /\ Fields /\ State(composer, main, quit, failed, cancelled, stack)
        /\ main \in BOOLEAN /\ failed \in BOOLEAN /\ cancelled \in BOOLEAN /\ timer \in BOOLEAN
    BY InvFacts
  <1>2. \A i \in 1 .. Len(stack) : stack[i].ask = "drafts" => stack[i].who # c
    <2>1. Stacked(composer, quit, failed, stack)
      BY <1>1, Zenon DEF State
    <2> QED
      BY <2>1, NoDrafts
  <1>3. Replaces(composer, composer', c, failed, failed', stack)
    <2>1. /\ composer' \in [Composers -> Composer]
          /\ composer'[c] = r /\ \A d \in Composers \ {c} : composer'[d] = composer[d]
      BY InvFacts
    <2> QED
      BY <1>2, <2>1, Zenon DEF Replaces
  <1>5. State(composer', main, quit, failed', cancelled, stack)
    BY <1>1, <1>3, Replaced
  <1>4. State(composer', main', quit, failed', cancelled', stack')
    BY <1>5
  <1> QED
    BY <1>1, <1>4, StayStep

LEMMA EditStep ==
    ASSUME QuitInv, NEW c \in Composers, Edit(c), UNCHANGED failed
    PROVE  QuitInv' /\ Word(composer)
  <1> DEFINE s == composer[c]
             r == [[s EXCEPT !.changed = TRUE] EXCEPT !.discard = FALSE]
  <1>1. composer \in [Composers -> Composer] /\ failed \in BOOLEAN
    BY InvFacts
  <1>2. stack = <<>> /\ s.open /\ s.saving = "no" /\ s \in Composer
    BY <1>1 DEF Edit, Idle
  <1>3. composer' = [composer EXCEPT ![c] = r]
    BY <1>1, Zenon DEF Edit
  <1>4. UNCHANGED <<main, quit, holders, timer, cancelled, stack>>
    BY DEF Edit
  <1>5. Past(s, failed)
    BY Zenon DEF QuitInv, State, ComposerOK
  <1> HIDE DEF s
  <1>6. /\ r \in Composer /\ r.open = s.open /\ r.saving = s.saving
        /\ r.connected = s.connected /\ r.exiting = s.exiting /\ r.holds = s.holds
    BY <1>2 DEF Composer
  <1> HIDE DEF r
  <1>7. Past(r, failed)
    BY <1>2, <1>5, <1>6 DEF Past
  <1>8. /\ composer[c].open /\ r.open /\ composer[c].saving # "asking"
        /\ r.saving = "no" /\ r.holds = composer[c].holds
    BY <1>2, <1>6 DEF s
  <1> QED
    BY <1>1, <1>2, <1>3, <1>4, <1>6, <1>7, <1>8, ReplaceStep

LEMMA SaveDraftStep ==
    ASSUME QuitInv, NEW c \in Composers, SaveDraft(c), UNCHANGED failed
    PROVE  QuitInv' /\ Word(composer)
  <1> DEFINE s == composer[c]
             r == SaveBegun(s)
  <1>1. composer \in [Composers -> Composer] /\ failed \in BOOLEAN
    BY InvFacts
  <1>2. stack = <<>> /\ s.open /\ s.saving = "no" /\ s \in Composer
    BY <1>1 DEF SaveDraft, Idle
  <1>3. composer' = [composer EXCEPT ![c] = r]
    BY <1>1, Zenon DEF SaveDraft
  <1>4. UNCHANGED <<main, quit, holders, timer, cancelled, stack>>
    BY DEF SaveDraft
  <1>5. Past(s, failed)
    BY Zenon DEF QuitInv, State, ComposerOK
  <1>6. /\ r \in Composer /\ r.open = s.open /\ r.saving = "building"
        /\ r.connected = s.connected /\ r.exiting = s.exiting /\ r.holds = s.holds
    BY <1>2, SaveBegunFields
  <1> HIDE DEF s, r
  <1>7. Past(r, failed)
    BY <1>2, <1>5, <1>6 DEF Past
  <1>8. /\ composer[c].open /\ r.open /\ composer[c].saving # "asking"
        /\ r.holds = composer[c].holds
    BY <1>2, <1>6 DEF s
  <1> QED
    BY <1>1, <1>2, <1>3, <1>4, <1>6, <1>7, <1>8, ReplaceStep

LEMMA CloseStep ==
    ASSUME QuitInv, NEW c \in Composers, Close(c), UNCHANGED failed
    PROVE  QuitInv' /\ Word(composer)
  <1>1. /\ Fields /\ State(composer, main, quit, failed, cancelled, stack)
        /\ Handed(composer, stack)
        /\ composer \in [Composers -> Composer]
        /\ main \in BOOLEAN /\ failed \in BOOLEAN /\ cancelled \in BOOLEAN /\ timer \in BOOLEAN
    BY InvFacts
  <1>2. /\ stack = <<>> /\ composer[c].open /\ composer[c].saving = "no"
        /\ IF composer[c].changed
           THEN /\ stack' = <<[ask |-> "close", who |-> c]>>
                /\ UNCHANGED <<main, composer, quit, holders, timer, cancelled>>
           ELSE Destroy(composer, stack, c)
    BY Zenon DEF Close, Idle
  <1>3. Len(stack) + 1 <= Limit(composer, main) /\ \A i \in 1 .. Len(stack) : FALSE
    BY <1>2, InvFacts
  <1>4. CASE ~composer[c].changed
    <2>1. Destroy(composer, stack, c)
      BY <1>2, <1>4, Zenon
    <2> QED
      BY <1>1, <1>2, <1>3, <1>4, <2>1, DestroyStep
  <1>5. CASE composer[c].changed
    <2> DEFINE d == [ask |-> "close", who |-> c]
    <2>1. c \in 0 .. NoWindow
      BY QuitAssumption DEF Composers, NoWindow
    <2>2. stack' = <<d>> /\ UNCHANGED <<main, composer, quit, holders, timer, cancelled>>
      BY <1>2, <1>5, Zenon
    <2>3. d \in Dialog /\ d.ask = "close" /\ d.who = c
      BY <2>1 DEF Dialog
    <2> HIDE DEF d
    <2>4. stack' = Append(stack, d)
      BY <1>2, <2>2
    <2>5. stack \in Seq(Dialog) /\ Stacked(composer, quit, failed, stack)
      BY <1>1, Zenon DEF Handed, Stacked
    <2>6. Len(stack) + 1 = 1
      BY <1>2
    <2>7. DialogOK(composer, quit, failed, Len(stack) + 1, d)
      BY <2>3, <2>6 DEF DialogOK
    <2>8. d.ask # "drafts" /\ d.ask # "quit"
      BY <2>3
    <2>9. /\ Stacked(composer, quit, failed, stack')
          /\ \A e \in Composers : LastOn(stack, e) => LastOn(stack', e)
      BY <2>3, <2>4, <2>5, <2>7, <2>8, PushKeeps, Zenon
    <2>10. Len(stack') = Len(stack) + 1 /\ stack'[Len(stack) + 1] = d
      BY <2>3, <2>4, <2>5, Pushed
    <2>11. Len(stack') <= Limit(composer, main)
      BY <1>3, <2>10
    <2>12. \A e \in Composers : ComposerOK(composer[e], e, quit, failed, stack')
      BY <1>1, <2>9, Zenon DEF Handed, ComposerOK
    <2>13. \A k \in 1 .. Len(stack') : stack'[k] = d
      <3>1. \A k \in 1 .. Len(stack') : k = 1
        BY <2>6, <2>10
      <3> QED
        BY <2>6, <2>10, <3>1, Zenon
    <2>14. Emissions(composer, quit, failed, cancelled, stack')
      BY <2>8, <2>13, Zenon DEF Emissions
    <2>15. State(composer, main, quit, failed, cancelled, stack')
      BY <1>1, <2>9, <2>11, <2>12, <2>14, Zenon DEF State
    <2>16. State(composer', main', quit, failed', cancelled', stack')
      BY <2>2, <2>15
    <2> QED
      BY <1>1, <2>2, <2>16, StayStep
  <1> QED
    BY <1>4, <1>5

LEMMA CloseMainStep ==
    ASSUME QuitInv, CloseMain, UNCHANGED failed
    PROVE  QuitInv' /\ Word(composer)
  <1>1. /\ Fields /\ State(composer, main, quit, failed, cancelled, stack)
        /\ Handed(composer, stack)
        /\ composer \in [Composers -> Composer]
        /\ main \in BOOLEAN /\ failed \in BOOLEAN /\ cancelled \in BOOLEAN /\ timer \in BOOLEAN
    BY InvFacts
  <1>2. /\ stack = <<>> /\ main
        /\ IF Windows(composer, main) = {Main}
           THEN RequestQuit(composer, stack, FALSE)
           ELSE /\ main' = FALSE
                /\ UNCHANGED <<composer, quit, holders, timer, cancelled, stack>>
    BY Zenon DEF CloseMain, Idle
  <1>3. Len(stack) + 1 <= Limit(composer, main)
    BY <1>2, InvFacts
  <1>4. CASE Windows(composer, main) = {Main}
    <2>1. RequestQuit(composer, stack, FALSE)
      BY <1>2, <1>4, Zenon
    <2> QED
      BY <1>1, <1>2, <1>3, <2>1, RequestStep
  <1>5. CASE Windows(composer, main) # {Main}
    <2>1. main' = FALSE /\ UNCHANGED <<composer, quit, holders, timer, cancelled, stack>>
      BY <1>2, <1>5, Zenon
    <2>2. Windows(composer, FALSE) # {}
      BY <1>2, <1>5 DEF Windows
    <2>3. Limit(composer, FALSE) \in Nat
      BY LimitFacts
    <2>4. Len(stack) <= Limit(composer, FALSE)
      <3>1. Len(stack) = 0
        BY <1>2
      <3>2. \A n \in Nat : 0 <= n
        OBVIOUS
      <3> QED
        BY <2>3, <3>1, <3>2, Zenon
    <2>5. State(composer, FALSE, quit, failed, cancelled, stack)
      BY <1>1, <2>2, <2>4, Zenon DEF State
    <2>6. State(composer', main', quit, failed', cancelled', stack')
      BY <2>1, <2>5
    <2>7. main' \in BOOLEAN
      BY <2>1
    <2> QED
      BY <1>1, <2>1, <2>6, <2>7, StayStep
  <1> QED
    BY <1>4, <1>5

LEMMA UserQuitStep ==
    ASSUME QuitInv, UserQuit, UNCHANGED failed
    PROVE  QuitInv' /\ Word(composer)
  <1>1. stack = <<>> /\ RequestQuit(composer, stack, FALSE)
    BY Zenon DEF UserQuit, Idle
  <1>2. Fields /\ Handed(composer, stack) /\ Len(stack) + 1 <= Limit(composer, main)
    BY <1>1, InvFacts
  <1> QED
    BY <1>1, <1>2, RequestStep

LEMMA RemoteQuitStep ==
    ASSUME QuitInv, RemoteQuit, UNCHANGED failed
    PROVE  QuitInv' /\ Word(composer)
  <1>1. Room /\ RequestQuit(composer, stack, TRUE)
    BY Zenon DEF RemoteQuit
  <1>2. Fields /\ Handed(composer, stack) /\ Len(stack) + 1 <= Limit(composer, main)
    BY <1>1, InvFacts
  <1> QED
    BY <1>1, <1>2, RequestStep

-----------------------------------------------------------------------------
(***************************************************************************)
(* What the main loop brings.                                              *)
(***************************************************************************)
LEMMA BuiltStep ==
    ASSUME QuitInv, NEW c \in Composers, Built(c), UNCHANGED failed
    PROVE  QuitInv' /\ Word(composer)
  <1> DEFINE s == composer[c]
             r == [[[s EXCEPT !.saving = "appending"] EXCEPT !.changed = TRUE]
                      EXCEPT !.notify = Notifies(s)]
  <1>1. composer \in [Composers -> Composer] /\ failed \in BOOLEAN
    BY InvFacts
  <1>2. s.open /\ s.saving = "building" /\ s \in Composer
    BY <1>1 DEF Built
  <1>3. composer' = [composer EXCEPT ![c] = r]
    BY <1>1, Zenon DEF Built
  <1>4. UNCHANGED <<main, quit, holders, timer, cancelled, stack>>
    BY DEF Built
  <1>5. Past(s, failed)
    BY Zenon DEF QuitInv, State, ComposerOK
  <1>6. Notifies(s) \in BOOLEAN
    BY <1>2 DEF Notifies, Composer
  <1> HIDE DEF s
  <1>7. /\ r \in Composer /\ r.open = s.open /\ r.saving = "appending"
        /\ r.connected = s.connected /\ r.exiting = s.exiting /\ r.holds = s.holds
    BY <1>2, <1>6 DEF Composer
  <1> HIDE DEF r
  <1>8. Past(r, failed)
    BY <1>2, <1>5, <1>7 DEF Past
  <1>9. Passable(s) => Passable(r)
    BY <1>2, <1>7 DEF Passable
  <1>10. /\ composer[c].open /\ r.open /\ composer[c].saving # "asking"
         /\ composer[c].saving # "no" /\ r.holds = composer[c].holds
         /\ Passable(composer[c]) => Passable(r)
    BY <1>2, <1>7, <1>9 DEF s
  <1> QED
    BY <1>1, <1>2, <1>3, <1>4, <1>7, <1>8, <1>10, ReplaceStep

LEMMA BuildFailedStep ==
    ASSUME QuitInv, NEW c \in Composers, BuildFailed(c), failed' = TRUE
    PROVE  QuitInv' /\ Word(composer)
  <1> DEFINE s == composer[c]
             r == [[s EXCEPT !.saving = "ended"] EXCEPT !.exiting = FALSE]
  <1>1. composer \in [Composers -> Composer] /\ failed \in BOOLEAN
    BY InvFacts
  <1>2. s.open /\ s.saving = "building" /\ s \in Composer
    BY <1>1 DEF BuildFailed
  <1>3. composer' = [composer EXCEPT ![c] = r]
    BY <1>1, Zenon DEF BuildFailed
  <1>4. UNCHANGED <<main, quit, holders, timer, cancelled, stack>>
    BY DEF BuildFailed
  <1> HIDE DEF s
  <1>5. r \in Composer /\ r.open = s.open /\ r.holds = s.holds
    BY <1>2 DEF Composer
  <1> HIDE DEF r
  <1>6. Past(r, failed')
    BY DEF Past
  <1>7. /\ composer[c].open /\ r.open /\ composer[c].saving # "asking"
        /\ composer[c].saving # "no" /\ r.holds = composer[c].holds
    BY <1>2, <1>5 DEF s
  <1>8. failed' /\ failed' \in BOOLEAN
    OBVIOUS
  <1> QED
    BY <1>3, <1>4, <1>5, <1>6, <1>7, <1>8, ReplaceStep

LEMMA AppendedStep ==
    ASSUME QuitInv, NEW c \in Composers, Appended(c), UNCHANGED failed
    PROVE  QuitInv' /\ Word(composer)
  <1> DEFINE s == composer[c]
             r == [[s EXCEPT !.saving = "ended"] EXCEPT !.changed = FALSE]
  <1>1. composer \in [Composers -> Composer] /\ failed \in BOOLEAN
    BY InvFacts
  <1>2. s.open /\ s.saving = "appending" /\ s \in Composer
    BY <1>1 DEF Appended
  <1>3. composer' = [composer EXCEPT ![c] = r]
    BY <1>1, Zenon DEF Appended
  <1>4. UNCHANGED <<main, quit, holders, timer, cancelled, stack>>
    BY DEF Appended
  <1>5. Past(s, failed)
    BY Zenon DEF QuitInv, State, ComposerOK
  <1> HIDE DEF s
  <1>6. /\ r \in Composer /\ r.open = s.open /\ r.changed = FALSE
        /\ r.connected = s.connected /\ r.exiting = s.exiting /\ r.holds = s.holds
    BY <1>2 DEF Composer
  <1> HIDE DEF r
  <1>7. Past(r, failed)
    BY <1>5, <1>6 DEF Past
  <1>8. Passable(s) => Passable(r)
    BY <1>2, <1>6 DEF Passable
  <1>9. /\ composer[c].open /\ r.open /\ composer[c].saving # "asking"
        /\ composer[c].saving # "no" /\ r.holds = composer[c].holds
        /\ Passable(composer[c]) => Passable(r)
    BY <1>2, <1>6, <1>8 DEF s
  <1> QED
    BY <1>1, <1>3, <1>4, <1>6, <1>7, <1>9, ReplaceStep

LEMMA AppendStoppedStep ==
    ASSUME QuitInv, NEW c \in Composers, AppendStopped(c), failed' = TRUE
    PROVE  QuitInv' /\ Word(composer)
  <1> DEFINE s == composer[c]
             r == [[s EXCEPT !.saving = "ended"] EXCEPT !.changed = TRUE]
  <1>1. composer \in [Composers -> Composer] /\ failed \in BOOLEAN
    BY InvFacts
  <1>2. s.open /\ s.saving = "appending" /\ s \in Composer
    BY <1>1 DEF AppendStopped
  <1>3. composer' = [composer EXCEPT ![c] = r]
    BY <1>1, Zenon DEF AppendStopped
  <1>4. UNCHANGED <<main, quit, holders, timer, cancelled, stack>>
    BY DEF AppendStopped
  <1> HIDE DEF s
  <1>5. r \in Composer /\ r.open = s.open /\ r.holds = s.holds
    BY <1>2 DEF Composer
  <1> HIDE DEF r
  <1>6. Past(r, failed')
    BY DEF Past
  <1>7. /\ composer[c].open /\ r.open /\ composer[c].saving # "asking"
        /\ composer[c].saving # "no" /\ r.holds = composer[c].holds
    BY <1>2, <1>5 DEF s
  <1>8. failed' /\ failed' \in BOOLEAN
    OBVIOUS
  <1> QED
    BY <1>3, <1>4, <1>5, <1>6, <1>7, <1>8, ReplaceStep

LEMMA AppendAsksStep ==
    ASSUME QuitInv, NEW c \in Composers, AppendAsks(c), failed' = TRUE
    PROVE  QuitInv' /\ Word(composer)
  <1> DEFINE s == composer[c]
             C == [composer EXCEPT ![c].saving = "asking"]
             d == [ask |-> "drafts", who |-> c]
  <1>1. /\ composer \in [Composers -> Composer] /\ stack \in Seq(Dialog)
        /\ failed \in BOOLEAN /\ main \in BOOLEAN /\ cancelled \in BOOLEAN /\ timer \in BOOLEAN
        /\ Fields /\ State(composer, main, quit, failed, cancelled, stack)
    BY InvFacts
  <1>2. /\ s.open /\ s.saving = "appending" /\ s \in Composer
        /\ composer' = C /\ stack' = Append(stack, d)
        /\ UNCHANGED <<main, quit, holders, timer, cancelled>>
    BY <1>1 DEF AppendAsks
  <1>3. Len(stack) + 1 <= Limit(composer, main)
    BY InvFacts DEF AppendAsks
  <1>4. \A i \in 1 .. Len(stack) : stack[i].ask = "drafts" => stack[i].who # c
    <2>1. Stacked(composer, quit, failed, stack) /\ s.saving # "asking"
      BY <1>1, <1>2 DEF State
    <2> QED
      BY <2>1, NoDrafts
  <1>5. /\ C \in [Composers -> Composer]
        /\ C[c] = [s EXCEPT !.saving = "asking"]
        /\ \A e \in Composers \ {c} : C[e] = composer[e]
    <2>1. [s EXCEPT !.saving = "asking"] \in Composer
      BY <1>2 DEF Composer
    <2>2. C = [composer EXCEPT ![c] = [s EXCEPT !.saving = "asking"]]
      BY <1>1
    <2> QED
      BY <1>1, <2>1, <2>2
  <1> HIDE DEF s, C
  <1>6. /\ C[c].open = s.open /\ C[c].holds = s.holds /\ C[c].saving = "asking"
    BY <1>2, <1>5 DEF Composer
  <1>7. Replaces(composer, C, c, failed, TRUE, stack)
    <2>1. Past(C[c], TRUE)
      BY DEF Past
    <2>2. /\ composer[c].open /\ C[c].open /\ composer[c].saving # "no"
          /\ C[c].holds => composer[c].holds
      BY <1>2, <1>6 DEF s
    <2> QED
      BY <1>4, <1>5, <2>1, <2>2, Zenon DEF Replaces
  <1>8. State(C, main, quit, TRUE, cancelled, stack)
    BY <1>1, <1>7, Replaced
  <1>9. d \in Dialog /\ d.ask = "drafts" /\ d.who = c
    <2>1. c \in 0 .. NoWindow
      BY QuitAssumption DEF Composers, NoWindow
    <2> QED
      BY <2>1 DEF Dialog
  <1> HIDE DEF d
  <1>10. DialogOK(C, quit, TRUE, Len(stack) + 1, d)
    BY <1>2, <1>6, <1>9 DEF DialogOK
  <1>11. Stacked(C, quit, TRUE, stack)
    BY <1>8, Zenon DEF State
  <1>12. \A i \in 1 .. Len(stack) :
            stack[i].ask = "drafts" /\ d.ask = "drafts" => stack[i].who # d.who
    BY <1>4, <1>9, Zenon
  <1>13. /\ Stacked(C, quit, TRUE, stack')
         /\ \A e \in Composers : LastOn(stack, e) => LastOn(stack', e)
    BY <1>2, <1>9, <1>10, <1>11, <1>12, PushKeeps, Zenon
  <1>14. Len(stack') = Len(stack) + 1
    BY <1>1, <1>2, <1>9, Pushed
  <1>15. Windows(C, main) = Windows(composer, main) /\ Limit(C, main) = Limit(composer, main)
    <2>1. C[c].open = composer[c].open
      BY <1>6 DEF s
    <2>2. \A e \in Composers : C[e].open = composer[e].open
      BY <1>5, <2>1, Zenon
    <2> QED
      BY <1>1, <2>2, LimitFacts
  <1>16. Len(stack') <= Limit(C, main)
    BY <1>3, <1>14, <1>15
  <1>17. \A e \in Composers : ComposerOK(C[e], e, quit, TRUE, stack')
    BY <1>8, <1>13, Zenon DEF State, ComposerOK
  <1>18. State(C, main, quit, TRUE, cancelled, stack')
    BY <1>5, <1>8, <1>13, <1>16, <1>17, Zenon DEF State, Emissions
  <1>19. State(composer', main', quit, failed', cancelled', stack')
    BY <1>2, <1>18
  <1>20. failed' \in BOOLEAN
    OBVIOUS
  <1> QED
    BY <1>1, <1>2, <1>19, <1>20, StayStep

LEMMA SaveEndsStep ==
    ASSUME QuitInv, NEW c \in Composers, SaveEnds(c), UNCHANGED failed
    PROVE  QuitInv' /\ Word(composer)
  <1> DEFINE s == composer[c]
             r == [[s EXCEPT !.saving = "no"] EXCEPT !.notify = FALSE]
             C == [composer EXCEPT ![c] = r]
             t == [[r EXCEPT !.sensitive = TRUE] EXCEPT !.exiting = FALSE]
  <1>1. /\ composer \in [Composers -> Composer] /\ stack \in Seq(Dialog)
        /\ failed \in BOOLEAN /\ main \in BOOLEAN /\ cancelled \in BOOLEAN /\ timer \in BOOLEAN
        /\ Fields /\ State(composer, main, quit, failed, cancelled, stack)
    BY InvFacts
  <1>2. s.open /\ s.saving = "ended" /\ s \in Composer
    BY <1>1 DEF SaveEnds
  <1>3. \/ Saved(s) /\ Destroy(C, stack, c)
        \/ /\ ~Saved(s)
           /\ composer' = [C EXCEPT ![c].sensitive = TRUE, ![c].exiting = FALSE]
           /\ UNCHANGED <<main, quit, holders, timer, cancelled, stack>>
        \/ composer' = C /\ UNCHANGED <<main, quit, holders, timer, cancelled, stack>>
    <2>1. C = [composer EXCEPT ![c].saving = "no", ![c].notify = FALSE]
      BY <1>1, Zenon
    <2> HIDE DEF C
    <2> QED
      BY <2>1, Zenon DEF SaveEnds
  <1>4. Past(s, failed)
    BY Zenon DEF QuitInv, State, ComposerOK
  <1>5. \A i \in 1 .. Len(stack) : stack[i].ask = "drafts" => stack[i].who # c
    <2>1. Stacked(composer, quit, failed, stack) /\ s.saving # "asking"
      BY <1>1, <1>2 DEF State
    <2> QED
      BY <2>1, NoDrafts
  <1> HIDE DEF s
  <1>6. /\ r \in Composer /\ r.open = s.open /\ r.saving = "no" /\ r.changed = s.changed
        /\ r.connected = s.connected /\ r.exiting = s.exiting /\ r.holds = s.holds
        /\ r.discard = s.discard
    BY <1>2 DEF Composer
  <1> HIDE DEF r
  <1>7. /\ t \in Composer /\ t.open = r.open /\ t.saving = r.saving
        /\ t.holds = r.holds
    BY <1>6 DEF Composer
  <1>8. [C EXCEPT ![c].sensitive = TRUE, ![c].exiting = FALSE] = [composer EXCEPT ![c] = t]
    <2>1. C[c] = r /\ \A e \in Composers \ {c} : C[e] = composer[e]
      BY <1>1
    <2>2. C \in [Composers -> Composer]
      BY <1>1, <1>6
    <2> HIDE DEF C
    <2>3. [C EXCEPT ![c].sensitive = TRUE, ![c].exiting = FALSE]
             = [C EXCEPT ![c] = [[C[c] EXCEPT !.sensitive = TRUE] EXCEPT !.exiting = FALSE]]
      BY <2>2, Zenon
    <2>4. [C EXCEPT ![c] = t] = [composer EXCEPT ![c] = t]
      <3> HIDE DEF t
      <3> QED
        BY <1>1, <2>1, <2>2
    <2> QED
      BY <2>1, <2>3, <2>4, Zenon
  <1> HIDE DEF t
  <1>9. Past(r, failed)
    BY <1>4, <1>6 DEF Past
  <1>10. Passable(s) => Passable(r)
    BY <1>2, <1>6 DEF Passable
  <1>11. /\ composer[c].open /\ composer[c].saving # "asking" /\ composer[c].saving # "no"
         /\ r.open /\ r.holds = composer[c].holds /\ t.open /\ t.holds = composer[c].holds
         /\ Passable(composer[c]) => Passable(r)
    BY <1>2, <1>6, <1>7, <1>10 DEF s
  <1>12. CASE composer' = C /\ UNCHANGED <<main, quit, holders, timer, cancelled, stack>>
    BY <1>1, <1>6, <1>9, <1>11, <1>12, ReplaceStep
  <1>13. CASE /\ ~Saved(s)
              /\ composer' = [C EXCEPT ![c].sensitive = TRUE, ![c].exiting = FALSE]
              /\ UNCHANGED <<main, quit, holders, timer, cancelled, stack>>
    <2>1. failed
      BY <1>2, <1>4, <1>13 DEF Saved, Past
    <2>2. Past(t, failed)
      BY <2>1 DEF Past
    <2>3. composer' = [composer EXCEPT ![c] = t]
      BY <1>8, <1>13
    <2> HIDE DEF C
    <2> QED
      BY <1>1, <1>7, <1>11, <1>13, <2>1, <2>2, <2>3, ReplaceStep
  <1>14. CASE Saved(s) /\ Destroy(C, stack, c)
    <2>1. /\ C \in [Composers -> Composer] /\ C[c] = r
          /\ \A e \in Composers \ {c} : C[e] = composer[e]
      BY <1>1, <1>6
    <2> HIDE DEF C
    <2>2. Replaces(composer, C, c, failed, failed, stack)
      BY <1>5, <1>9, <1>11, <2>1, Zenon DEF Replaces
    <2>3. State(C, main, quit, failed, cancelled, stack)
      BY <1>1, <2>2, Replaced
    <2>4. C[c].open /\ ~C[c].changed
      BY <1>2, <1>6, <1>14, <2>1 DEF Saved
    <2>5. QuitInv' /\ Word(C)
      BY <1>1, <1>5, <1>14, <2>3, <2>4, DestroyStep
    <2>6. \A e \in Composers : /\ C[e].open = composer[e].open /\ C[e].holds = composer[e].holds
                               /\ C[e].changed = composer[e].changed
      <3>1. /\ C[c].open = composer[c].open /\ C[c].holds = composer[c].holds
            /\ C[c].changed = composer[c].changed
        BY <1>6, <2>1 DEF s
      <3> QED
        BY <2>1, <3>1, Zenon
    <2>7. Word(composer)
      BY <2>5, <2>6, Zenon DEF Word
    <2> QED
      BY <2>5, <2>7
  <1> QED
    BY <1>3, <1>12, <1>13, <1>14, Zenon

LEMMA HolderDoneStep ==
    ASSUME QuitInv, NEW h \in Holders, HolderDone(h), UNCHANGED failed
    PROVE  QuitInv' /\ Word(composer)
  <1>1. /\ Fields /\ State(composer, main, quit, failed, cancelled, stack)
        /\ holders \subseteq Holders
    BY InvFacts
  <1>2. holders \ {h} \subseteq Holders /\ Release(composer, stack, holders \ {h})
        /\ UNCHANGED <<failed, cancelled>>
    BY <1>1 DEF HolderDone
  <1>3. /\ QuitInv'
        /\ quit' = quit \/ (quit' = "ready" /\ \A c \in Composers : ~composer[c].holds)
        /\ quit = "none" => quit' = "none"
    BY <1>1, <1>2, ReleaseStep
  <1>4. quit = "preparing" => quit # "ready"
    OBVIOUS
  <1>5. Word(composer)
    BY <1>3, <1>4, Zenon DEF Word
  <1> QED
    BY <1>3, <1>5

LEMMA TimerFiresStep ==
    ASSUME QuitInv, TimerFires, UNCHANGED failed
    PROVE  QuitInv' /\ Word(composer)
  <1>1. /\ Fields /\ Handed(composer, stack) /\ cancelled \in BOOLEAN
        /\ quit = "preparing" /\ Len(stack) + 1 <= Limit(composer, main)
    BY InvFacts DEF TimerFires
  <1>2. /\ timer' = FALSE
        /\ \E w \in Windows(composer, main) \cup {NoWindow} :
              stack' = Append(stack, [ask |-> "pending", who |-> w])
        /\ UNCHANGED <<main, composer, quit, holders, cancelled>>
    BY Zenon DEF TimerFires
  <1>3. timer' \in BOOLEAN /\ cancelled' \in BOOLEAN
    BY <1>1, <1>2
  <1>4. QuitInv'
    BY <1>1, <1>2, <1>3, PendingStep
  <1>5. ~(quit = "preparing" /\ quit' = "ready") /\ ~(quit = "none" /\ quit' # "none")
    BY <1>1, <1>2
  <1> QED
    BY <1>4, <1>5, Zenon DEF Word

-----------------------------------------------------------------------------
(***************************************************************************)
(* The answers.                                                            *)
(***************************************************************************)
LEMMA AnswerOutboxStep ==
    ASSUME QuitInv, NEW goOn \in BOOLEAN, AnswerOutbox(goOn), UNCHANGED failed
    PROVE  QuitInv' /\ Word(composer)
  <1>1. /\ Fields /\ State(composer, main, quit, failed, cancelled, stack)
        /\ composer \in [Composers -> Composer]
        /\ main \in BOOLEAN /\ failed \in BOOLEAN /\ cancelled \in BOOLEAN /\ timer \in BOOLEAN
    BY InvFacts
  <1>2. /\ stack # <<>> /\ Top.ask = "outbox"
        /\ IF goOn
           THEN Emission(composer, Below, 1, cancelled)
           ELSE /\ cancelled' = TRUE
                /\ stack' = Below
                /\ UNCHANGED <<main, composer, quit, holders, timer>>
    BY Zenon DEF AnswerOutbox, Asked
  <1>3. Top.ask # "last" /\ Top.ask # "quit"
    BY <1>2
  <1>4. /\ Stacked(composer, quit, failed, Below)
        /\ \A c \in Composers : ComposerOK(composer[c], c, quit, failed, Below)
        /\ Len(Below) <= Limit(composer, main)
        /\ Len(Below) + 1 <= Limit(composer, main)
    BY <1>2, <1>3, PopKeeps
  <1>5. CASE goOn
    <2>1. Handed(composer, Below)
      BY <1>1, <1>4, Zenon DEF Handed
    <2>2. BeforeIsPassable(composer, Below, 1)
      <3>1. \A j \in Composers : ~(j < 1) /\ 1 <= j
        BY QuitAssumption DEF Composers
      <3> QED
        BY <3>1, Zenon DEF BeforeIsPassable
    <2>3. 1 \in 1 .. N + 1
      BY QuitAssumption
    <2>4. Windows(composer, main) = {} /\ quit = "none" => ~cancelled
      BY <1>1 DEF State
    <2>5. Emission(composer, Below, 1, cancelled)
      BY <1>2, <1>5, Zenon
    <2> QED
      BY <1>1, <1>4, <2>1, <2>2, <2>3, <2>4, <2>5, EmissionStep
  <1>6. CASE ~goOn
    <2>1. /\ cancelled' = TRUE /\ stack' = Below
          /\ UNCHANGED <<main, composer, quit, holders, timer>>
      BY <1>2, <1>6, Zenon
    <2>2. State(composer, main, quit, failed, TRUE, Below)
      BY <1>1, <1>4, Zenon DEF State, Emissions
    <2>3. State(composer', main', quit, failed', cancelled', stack')
      BY <2>1, <2>2
    <2>4. cancelled' \in BOOLEAN
      BY <2>1
    <2> QED
      BY <1>1, <2>1, <2>3, <2>4, StayStep
  <1> QED
    BY <1>5, <1>6

\* The answer about a message, seen in the composers.
AnsweredIn(C, c, answer) == C = [composer EXCEPT ![c] = Answered(composer[c], answer)]

LEMMA AnsweredFacts ==
    ASSUME QuitInv, NEW c \in Composers, NEW answer \in {"save", "discard", "cancel"},
           NEW st, Stacked(composer, quit, failed, st),
           \A e \in Composers : ComposerOK(composer[e], e, quit, failed, st),
           NEW C, AnsweredIn(C, c, answer)
    PROVE  /\ Handed(C, st)
           /\ \A e \in Composers : /\ C[e].open = composer[e].open
                                   /\ C[e].changed = composer[e].changed
                                   /\ C[e].holds = composer[e].holds
                                   /\ C[e].saving = composer[e].saving
           /\ \A e \in Composers \ {c} : C[e] = composer[e]
           /\ C[c].exiting = (composer[c].exiting \/ answer = "save")
           /\ answer = "discard" => C[c].discard
           /\ Windows(C, main) = Windows(composer, main)
           /\ Limit(C, main) = Limit(composer, main)
  <1>1. composer \in [Composers -> Composer] /\ main \in BOOLEAN
    BY InvFacts
  <1> DEFINE s == composer[c]
             r == Answered(s, answer)
  <1>0. C = [composer EXCEPT ![c] = Answered(composer[c], answer)]
    BY DEF AnsweredIn
  <1>2. /\ C[c] = r /\ \A e \in Composers \ {c} : C[e] = composer[e]
    BY <1>0, <1>1
  <1>3. s \in Composer /\ s = composer[c]
    BY <1>1
  <1> HIDE DEF s
  <1>4. /\ r \in Composer /\ r.open = s.open /\ r.changed = s.changed
        /\ r.exiting = (s.exiting \/ answer = "save") /\ r.connected = s.connected
        /\ r.holds = s.holds /\ r.saving = s.saving
        /\ r.discard = (answer = "discard" \/ (quit = "preparing" /\ s.discard))
    BY <1>3, AnsweredFields
  <1>5. C \in [Composers -> Composer]
    <2>1. Answered(composer[c], answer) \in Composer
      BY <1>3, <1>4
    <2> QED
      BY <1>0, <1>1, <2>1
  <1> HIDE DEF r
  <1>6. \A e \in Composers : /\ C[e].open = composer[e].open
                             /\ C[e].changed = composer[e].changed
                             /\ C[e].holds = composer[e].holds
                             /\ C[e].saving = composer[e].saving
    <2>1. /\ C[c].open = composer[c].open /\ C[c].changed = composer[c].changed
          /\ C[c].holds = composer[c].holds /\ C[c].saving = composer[c].saving
      BY <1>2, <1>3, <1>4
    <2> QED
      BY <1>2, <2>1, Zenon
  <1>7. \A e \in Composers : quit = "preparing" /\ composer[e].discard => C[e].discard
    <2>1. quit = "preparing" /\ composer[c].discard => C[c].discard
      BY <1>2, <1>3, <1>4
    <2> QED
      BY <1>2, <2>1, Zenon
  <1>8. \A k \in 1 .. Len(st) : DialogOK(C, quit, failed, k, st[k])
    <2> SUFFICES ASSUME NEW k \in 1 .. Len(st) PROVE DialogOK(C, quit, failed, k, st[k])
      OBVIOUS
    <2>1. DialogOK(composer, quit, failed, k, st[k])
      BY Zenon DEF Stacked
    <2>2. /\ st[k].ask = "quit" => st[k].who \in Composers
          /\ st[k].ask = "drafts" => st[k].who \in Composers
          /\ st[k].ask = "last" => st[k].who \in Composers /\ quit = "preparing"
      BY <2>1 DEF DialogOK
    <2> QED
      BY <1>6, <1>7, <2>1, <2>2, Zenon DEF DialogOK
  <1>9. Stacked(C, quit, failed, st)
    BY <1>8, Zenon DEF Stacked
  <1>10. Past(s, failed)
    BY <1>3, Zenon DEF ComposerOK
  <1>11. Past(r, failed)
    BY <1>4, <1>10 DEF Past
  <1>12. \A e \in Composers : ComposerOK(C[e], e, quit, failed, st)
    <2> SUFFICES ASSUME NEW e \in Composers PROVE ComposerOK(C[e], e, quit, failed, st)
      OBVIOUS
    <2>1. CASE e = c
      BY <1>2, <1>6, <1>11, <2>1, Zenon DEF ComposerOK
    <2>2. CASE e # c
      BY <1>2, <2>2, Zenon
    <2> QED
      BY <2>1, <2>2
  <1>13. Handed(C, st)
    BY <1>5, <1>9, <1>12, Zenon DEF Handed
  <1>14. Windows(C, main) = Windows(composer, main) /\ Limit(C, main) = Limit(composer, main)
    BY <1>1, <1>6, LimitFacts
  <1>15. C[c].exiting = (composer[c].exiting \/ answer = "save")
    BY <1>2, <1>3, <1>4
  <1>16. answer = "discard" => C[c].discard
    BY <1>2, <1>4
  <1> QED
    BY <1>2, <1>6, <1>13, <1>14, <1>15, <1>16

LEMMA AnswerQuitStep ==
    ASSUME QuitInv, NEW answer \in {"save", "discard", "cancel"}, AnswerQuit(answer),
           UNCHANGED failed
    PROVE  QuitInv' /\ Word(composer)
  <1>1. /\ Fields /\ State(composer, main, quit, failed, cancelled, stack)
        /\ composer \in [Composers -> Composer] /\ stack \in Seq(Dialog)
        /\ main \in BOOLEAN /\ failed \in BOOLEAN /\ cancelled \in BOOLEAN /\ timer \in BOOLEAN
    BY InvFacts
  <1> DEFINE c == Top.who
             C == [composer EXCEPT ![c] = Answered(composer[c], answer)]
  <1>2. stack # <<>> /\ Top.ask = "quit"
    BY Zenon DEF AnswerQuit, Asked
  <1>3. Top.ask # "last"
    BY <1>2
  <1>4. /\ Stacked(composer, quit, failed, Below)
        /\ \A e \in Composers : ComposerOK(composer[e], e, quit, failed, Below)
        /\ DialogOK(composer, quit, failed, Len(stack), Top)
        /\ Len(Below) <= Limit(composer, main)
        /\ Len(Below) + 1 <= Limit(composer, main)
    BY <1>2, <1>3, PopKeeps
  <1>5. c \in Composers /\ (quit = "none" => composer[c].saving = "no")
    BY <1>2, <1>4 DEF DialogOK
  <1>6. \/ /\ answer = "discard" \/ C[c].exiting \/ ParentGone
           /\ Emission(C, Below, c + 1, cancelled)
        \/ /\ cancelled' = TRUE
           /\ composer' = C
           /\ stack' = Below
           /\ UNCHANGED <<main, quit, holders, timer>>
    <2>1. C = [composer EXCEPT ![c] = Answered(@, answer)]
      BY <1>1, Zenon
    <2> HIDE DEF C
    <2> QED
      BY <2>1, Zenon DEF AnswerQuit
  <1>7. AnsweredIn(C, c, answer)
    BY Zenon DEF AnsweredIn
  <1> HIDE DEF C
  <1> HIDE DEF c
  <1>8. /\ Handed(C, Below)
        /\ \A e \in Composers : /\ C[e].open = composer[e].open
                                /\ C[e].changed = composer[e].changed
                                /\ C[e].holds = composer[e].holds
                                /\ C[e].saving = composer[e].saving
        /\ \A e \in Composers \ {c} : C[e] = composer[e]
        /\ answer = "discard" => C[c].discard
        /\ Windows(C, main) = Windows(composer, main)
        /\ Limit(C, main) = Limit(composer, main)
    BY <1>4, <1>5, <1>7, AnsweredFacts
  <1>9. /\ Len(stack) \in Nat /\ Len(stack) >= 1
        /\ Top = stack[Len(stack)] /\ Len(Below) = Len(stack) - 1
        /\ \A i \in 1 .. Len(stack) - 1 : Below[i] = stack[i]
    BY <1>1, <1>2, Popped
  <1>10. CASE /\ answer = "discard" \/ C[c].exiting \/ ParentGone
              /\ Emission(C, Below, c + 1, cancelled)
    <2>1. Len(Below) + 1 <= Limit(C, main)
      BY <1>4, <1>8
    <2>2. c + 1 \in 1 .. N + 1
      BY <1>5, QuitAssumption DEF Composers
    <2>3. Windows(C, main) = {} /\ quit = "none" => ~cancelled
      BY <1>1, <1>8 DEF State
    <2>4. ASSUME quit = "none", ~failed, ~cancelled
          PROVE  BeforeIsPassable(C, Below, c + 1)
      <3>1. Emissions(composer, quit, failed, cancelled, stack)
        BY <1>1, Zenon DEF State
      <3>2. \A k \in 1 .. Len(stack) : stack[k].ask = "quit" => PassedBy(composer, stack, k)
        BY <2>4, <3>1, Zenon DEF Emissions
      <3>3. Len(stack) \in 1 .. Len(stack)
        BY <1>9
      <3>4. PassedBy(composer, stack, Len(stack))
        BY <1>2, <1>9, <3>2, <3>3, Zenon
      <3>5. \A k \in Len(stack) + 1 .. Len(stack) : FALSE
        BY <1>9
      <3>6. \A j \in Composers : j < c => Passable(composer[j])
        BY <1>9, <3>4, <3>5, Zenon DEF PassedBy, c
      <3>7. Passable(C[c])
        <4>1. CASE answer = "discard"
          <5>1. C[c].discard /\ C[c].saving = "no"
            BY <1>5, <1>8, <2>4, <4>1
          <5> QED
            BY <5>1 DEF Passable
        <4>2. CASE C[c].exiting
          BY <4>2 DEF Passable
        <4>3. CASE ParentGone
          <5>1. ~composer[c].open
            BY <1>1, <1>5, <4>3, WindowFacts DEF ParentGone, c
          <5>2. ~C[c].open
            BY <1>5, <1>8, <5>1, Zenon
          <5> QED
            BY <5>2 DEF Passable
        <4> QED
          BY <1>10, <4>1, <4>2, <4>3
      <3>8. \A j \in Composers : Passable(composer[j]) => Passable(C[j])
        BY <1>8, <3>7, Zenon
      <3>9. \A j \in Composers : /\ j < c + 1 => j < c \/ j = c
                                 /\ c <= j => c = j \/ c + 1 <= j
        BY <1>5, QuitAssumption DEF Composers
      <3>10. \A j \in Composers : j < c + 1 => Passable(C[j])
        BY <3>6, <3>7, <3>8, <3>9, Zenon
      <3>11. ASSUME NEW k \in 1 .. Len(Below), Below[k].ask = "quit",
                    NEW j \in Composers, j < Below[k].who
             PROVE  \/ Passable(C[j])
                    \/ \E l \in k + 1 .. Len(Below) : Below[l].ask = "quit" /\ Below[l].who <= j
                    \/ c + 1 <= j
        <4>1. k \in 1 .. Len(stack) /\ Below[k] = stack[k]
          BY <1>9
        <4>2. PassedBy(composer, stack, k)
          BY <3>2, <3>11, <4>1, Zenon
        <4>3. \/ Passable(composer[j])
              \/ \E l \in k + 1 .. Len(stack) : stack[l].ask = "quit" /\ stack[l].who <= j
          BY <3>11, <4>1, <4>2, Zenon DEF PassedBy
        <4>4. ASSUME NEW l \in k + 1 .. Len(stack), stack[l].ask = "quit", stack[l].who <= j
              PROVE  \/ Passable(C[j])
                     \/ \E m \in k + 1 .. Len(Below) : Below[m].ask = "quit" /\ Below[m].who <= j
                     \/ c + 1 <= j
          <5>1. CASE l = Len(stack)
            <6>1. c <= j
              BY <1>9, <4>4, <5>1, Zenon DEF c
            <6> QED
              BY <3>7, <3>9, <6>1, Zenon
          <5>2. CASE l # Len(stack)
            <6>1. l \in k + 1 .. Len(Below) /\ l \in 1 .. Len(stack) - 1
              <7>1. Len(stack) \in Nat /\ Len(Below) = Len(stack) - 1
                BY <1>9
              <7> QED
                BY <5>2, <7>1
            <6> QED
              BY <1>9, <4>4, <6>1, Zenon
          <5> QED
            BY <5>1, <5>2
        <4> QED
          BY <3>8, <4>3, <4>4, Zenon
      <3> QED
        BY <3>10, <3>11, Zenon DEF BeforeIsPassable
    <2>5. Emission(C, Below, c + 1, cancelled)
      BY <1>10
    <2>6. QuitInv' /\ Word(C)
      BY <1>1, <1>8, <2>1, <2>2, <2>3, <2>4, <2>5, EmissionStep
    <2>7. Word(composer)
      BY <1>8, <2>6, Zenon DEF Word
    <2> QED
      BY <2>6, <2>7
  <1>11. CASE /\ cancelled' = TRUE
              /\ composer' = C
              /\ stack' = Below
              /\ UNCHANGED <<main, quit, holders, timer>>
    <2>1. Len(Below) <= Limit(C, main) /\ (Windows(C, main) = {} => quit # "none")
      BY <1>1, <1>4, <1>8, Zenon DEF State
    <2>2. State(C, main, quit, failed, TRUE, Below)
      BY <1>8, <2>1, Zenon DEF State, Handed, Emissions
    <2>3. State(composer', main', quit, failed', cancelled', stack')
      BY <1>11, <2>2
    <2>4. cancelled' \in BOOLEAN
      BY <1>11
    <2> QED
      BY <1>1, <1>11, <2>3, <2>4, StayStep
  <1> QED
    BY <1>6, <1>10, <1>11, Zenon

LEMMA AnswerCloseStep ==
    ASSUME QuitInv, NEW answer \in {"save", "discard", "cancel"}, AnswerClose(answer),
           UNCHANGED failed
    PROVE  QuitInv' /\ Word(composer)
  <1>1. /\ Fields /\ State(composer, main, quit, failed, cancelled, stack)
        /\ composer \in [Composers -> Composer] /\ stack \in Seq(Dialog)
        /\ main \in BOOLEAN /\ failed \in BOOLEAN /\ cancelled \in BOOLEAN /\ timer \in BOOLEAN
    BY InvFacts
  <1> DEFINE c == Top.who
             C == [composer EXCEPT ![c] = Answered(composer[c], answer)]
  <1>2. stack # <<>> /\ Top.ask = "close" /\ (ParentGone => answer = "cancel")
    BY Zenon DEF AnswerClose, Asked
  <1>3. Top.ask # "last" /\ Top.ask # "quit"
    BY <1>2
  <1>4. /\ Stacked(composer, quit, failed, Below)
        /\ \A e \in Composers : ComposerOK(composer[e], e, quit, failed, Below)
        /\ DialogOK(composer, quit, failed, Len(stack), Top)
        /\ Len(Below) <= Limit(composer, main)
    BY <1>2, <1>3, PopKeeps
  <1>5. c \in Composers /\ Len(stack) = 1
    BY <1>2, <1>4 DEF DialogOK
  <1>6. IF answer = "discard"
        THEN Destroy(C, Below, c)
        ELSE /\ composer' = IF answer = "save" THEN [C EXCEPT ![c] = SaveBegun(C[c])] ELSE C
             /\ stack' = Below
             /\ UNCHANGED <<main, quit, holders, timer, cancelled>>
    <2>1. C = [composer EXCEPT ![c] = Answered(@, answer)]
      BY <1>1, Zenon
    <2> HIDE DEF C
    <2>2. [C EXCEPT ![c] = SaveBegun(@)] = [C EXCEPT ![c] = SaveBegun(C[c])]
      BY Zenon
    <2> QED
      BY <2>1, <2>2, Zenon DEF AnswerClose
  <1>7. AnsweredIn(C, c, answer)
    BY Zenon DEF AnsweredIn
  <1>8. answer = "discard" => composer[c].open
    <2>1. answer = "discard" => ~ParentGone
      BY <1>2
    <2>2. c # NoWindow
      BY <1>5, QuitAssumption DEF Composers, NoWindow
    <2> QED
      BY <1>1, <1>5, <2>1, <2>2, WindowFacts DEF ParentGone
  <1> HIDE DEF C
  <1> HIDE DEF c
  <1>9. /\ Handed(C, Below)
        /\ \A e \in Composers : /\ C[e].open = composer[e].open
                                /\ C[e].changed = composer[e].changed
                                /\ C[e].holds = composer[e].holds
                                /\ C[e].saving = composer[e].saving
        /\ answer = "discard" => C[c].discard
        /\ Windows(C, main) = Windows(composer, main)
        /\ Limit(C, main) = Limit(composer, main)
    BY <1>4, <1>5, <1>7, AnsweredFacts
  <1>10. Below \in Seq(Dialog) /\ Len(Below) = 0
    <2>1. Below \in Seq(Dialog) /\ Len(Below) = Len(stack) - 1
      BY <1>1, <1>2, Popped
    <2> QED
      BY <1>5, <2>1
  <1>11. \A i \in 1 .. Len(Below) : FALSE
    BY <1>10
  <1>12. State(C, main, quit, failed, cancelled, Below)
    <2>1. Len(Below) <= Limit(C, main) /\ (Windows(C, main) = {} => quit # "none")
      BY <1>1, <1>4, <1>9, Zenon DEF State
    <2>2. Emissions(C, quit, failed, cancelled, Below)
      BY <1>11, Zenon DEF Emissions
    <2> QED
      BY <1>9, <2>1, <2>2, Zenon DEF State, Handed
  <1>13. CASE answer = "discard"
    <2>1. Destroy(C, Below, c)
      BY <1>6, <1>13, Zenon
    <2>2. C[c].open /\ (C[c].changed => C[c].discard)
      BY <1>5, <1>8, <1>9, <1>13, Zenon
    <2>3. \A i \in 1 .. Len(Below) : Below[i].ask = "drafts" => Below[i].who # c
      BY <1>11, Zenon
    <2>4. QuitInv' /\ Word(C)
      BY <1>1, <1>5, <1>12, <2>1, <2>2, <2>3, DestroyStep
    <2>5. Word(composer)
      BY <1>9, <2>4, Zenon DEF Word
    <2> QED
      BY <2>4, <2>5
  <1>14. CASE answer # "discard"
    <2>1. /\ composer' = IF answer = "save" THEN [C EXCEPT ![c] = SaveBegun(C[c])] ELSE C
          /\ stack' = Below
          /\ UNCHANGED <<main, quit, holders, timer, cancelled>>
      BY <1>6, <1>14, Zenon
    <2>2. State(composer', main, quit, failed, cancelled, Below)
      <3>1. CASE composer' = C
        BY <1>12, <3>1
      <3>2. CASE composer' = [C EXCEPT ![c] = SaveBegun(C[c])]
        <4>1. C \in [Composers -> Composer] /\ C[c] \in Composer
          BY <1>5, <1>9 DEF Handed
        <4> DEFINE s == C[c]
                   r == SaveBegun(s)
        <4>2. /\ r \in Composer /\ r.open = s.open /\ r.changed = s.changed
              /\ r.exiting = s.exiting /\ r.connected = s.connected
              /\ r.holds = s.holds /\ r.discard = s.discard
              /\ r.saving = (IF s.saving = "no" THEN "building" ELSE s.saving)
          BY <4>1, SaveBegunFields
        <4>3. Past(s, failed)
          BY <1>5, <1>9, Zenon DEF Handed, ComposerOK
        <4>4. /\ composer' \in [Composers -> Composer] /\ composer'[c] = r
              /\ \A e \in Composers \ {c} : composer'[e] = C[e]
          BY <1>5, <3>2, <4>1, <4>2
        <4>5. s = C[c]
          OBVIOUS
        <4> HIDE DEF s, r
        <4>6. Past(r, failed)
          <5>1. r.saving = s.saving \/ r.saving = "building"
            BY <4>2
          <5>2. "building" # "ended"
            OBVIOUS
          <5> QED
            BY <4>2, <4>3, <5>1, <5>2, Zenon DEF Past
        <4>7. \A e \in Composers : composer'[e].open = C[e].open
          BY <4>2, <4>4, <4>5, Zenon
        <4>8. Windows(composer', main) = Windows(C, main) /\ Limit(composer', main) = Limit(C, main)
          BY <1>1, <4>7, LimitFacts
        <4>9. \A e \in Composers : ComposerOK(composer'[e], e, quit, failed, Below)
          <5> SUFFICES ASSUME NEW e \in Composers
                       PROVE  ComposerOK(composer'[e], e, quit, failed, Below)
            OBVIOUS
          <5>1. ComposerOK(C[e], e, quit, failed, Below)
            BY <1>9, Zenon DEF Handed
          <5>2. CASE e = c
            BY <4>2, <4>4, <4>5, <4>6, <5>1, <5>2, Zenon DEF ComposerOK
          <5>3. CASE e # c
            BY <4>4, <5>1, <5>3, Zenon
          <5> QED
            BY <5>2, <5>3
        <4>10. Stacked(composer', quit, failed, Below)
          BY <1>10, <1>11, Zenon DEF Stacked
        <4>11. Len(Below) <= Limit(composer', main) /\ (Windows(composer', main) = {} => quit # "none")
          BY <1>12, <4>8, Zenon DEF State
        <4> QED
          BY <1>11, <4>4, <4>9, <4>10, <4>11, Zenon DEF State, Emissions
      <3> QED
        BY <2>1, <3>1, <3>2, Zenon
    <2>3. State(composer', main', quit, failed', cancelled', stack')
      BY <2>1, <2>2
    <2> QED
      BY <1>1, <2>1, <2>3, StayStep
  <1> QED
    BY <1>13, <1>14

LEMMA AnswerDraftsStep ==
    ASSUME QuitInv, NEW useLocal \in BOOLEAN, AnswerDrafts(useLocal), UNCHANGED failed
    PROVE  QuitInv' /\ Word(composer)
  <1>1. /\ Fields /\ State(composer, main, quit, failed, cancelled, stack)
        /\ composer \in [Composers -> Composer]
        /\ main \in BOOLEAN /\ failed \in BOOLEAN /\ cancelled \in BOOLEAN /\ timer \in BOOLEAN
    BY InvFacts
  <1> DEFINE c == Top.who
             s == composer[c]
             r == IF useLocal THEN [s EXCEPT !.saving = "appending"]
                  ELSE [[s EXCEPT !.saving = "ended"] EXCEPT !.changed = TRUE]
  <1>2. /\ stack # <<>> /\ Top.ask = "drafts"
        /\ stack' = Below
        /\ UNCHANGED <<main, quit, holders, timer, cancelled>>
    BY Zenon DEF AnswerDrafts, Asked
  <1>3. Top.ask # "last" /\ Top.ask # "quit"
    BY <1>2
  <1>4. /\ Stacked(composer, quit, failed, Below)
        /\ \A e \in Composers : ComposerOK(composer[e], e, quit, failed, Below)
        /\ DialogOK(composer, quit, failed, Len(stack), Top)
        /\ Len(Below) <= Limit(composer, main)
        /\ Emissions(composer, quit, failed, cancelled, Below)
        /\ \A i \in 1 .. Len(Below) : Below[i].ask = "drafts" => Below[i].who # c
    BY <1>2, <1>3, PopKeeps
  <1>5. c \in Composers /\ s.open /\ s.saving = "asking" /\ failed
    BY <1>2, <1>4 DEF DialogOK
  <1>6. s \in Composer /\ s = composer[c]
    BY <1>1, <1>5
  <1>7. composer' = [composer EXCEPT ![c] = r]
    <2>1. CASE useLocal
      <3>1. composer' = [composer EXCEPT ![c].saving = "appending"]
        BY <2>1, Zenon DEF AnswerDrafts
      <3>2. r = [s EXCEPT !.saving = "appending"]
        BY <2>1
      <3> HIDE DEF r
      <3> QED
        BY <1>1, <3>1, <3>2, Zenon
    <2>2. CASE ~useLocal
      <3>1. composer' = [composer EXCEPT ![c].saving = "ended", ![c].changed = TRUE]
        BY <2>2, Zenon DEF AnswerDrafts
      <3>2. r = [[s EXCEPT !.saving = "ended"] EXCEPT !.changed = TRUE]
        BY <2>2
      <3>3. [composer EXCEPT ![c].saving = "ended", ![c].changed = TRUE]
               = [composer EXCEPT ![c] = [[s EXCEPT !.saving = "ended"] EXCEPT !.changed = TRUE]]
        BY <1>1, <1>5, Zenon
      <3> HIDE DEF r
      <3> QED
        BY <3>1, <3>2, <3>3
    <2> QED
      BY <2>1, <2>2
  <1> HIDE DEF s
  <1>8. r \in Composer /\ r.open = s.open /\ r.holds = s.holds
    BY <1>6 DEF Composer
  <1> HIDE DEF r
  <1>9. /\ composer' \in [Composers -> Composer] /\ composer'[c] = r
        /\ \A e \in Composers \ {c} : composer'[e] = composer[e]
    <2> HIDE DEF c
    <2> QED
      BY <1>1, <1>5, <1>7, <1>8
  <1> HIDE DEF c
  <1>10. Replaces(composer, composer', c, failed, failed, Below)
    <2>1. Past(r, failed)
      BY <1>5 DEF Past
    <2>2. /\ composer[c].open /\ composer'[c].open /\ composer[c].saving # "no"
          /\ (composer'[c].holds => composer[c].holds) /\ Past(composer'[c], failed)
      BY <1>5, <1>6, <1>8, <1>9, <2>1
    <2> QED
      BY <1>4, <1>5, <1>9, <2>2, Zenon DEF Replaces
  <1>11. State(composer, main, quit, failed, cancelled, Below)
    BY <1>1, <1>4, Zenon DEF State
  <1>12. State(composer', main, quit, failed, cancelled, Below)
    BY <1>1, <1>5, <1>10, <1>11, Replaced
  <1>13. State(composer', main', quit, failed', cancelled', stack')
    BY <1>2, <1>12
  <1> QED
    BY <1>1, <1>2, <1>13, StayStep

LEMMA AnswerPendingStep ==
    ASSUME QuitInv, NEW closeNow \in BOOLEAN, AnswerPending(closeNow), UNCHANGED failed
    PROVE  QuitInv' /\ Word(composer)
  <1>1. /\ Fields /\ State(composer, main, quit, failed, cancelled, stack)
        /\ composer \in [Composers -> Composer] /\ stack \in Seq(Dialog)
        /\ main \in BOOLEAN /\ failed \in BOOLEAN /\ cancelled \in BOOLEAN /\ timer \in BOOLEAN
        /\ holders \subseteq Holders
    BY InvFacts
  <1>2. /\ stack # <<>> /\ (Top.ask = "pending" \/ Top.ask = "last") /\ UNCHANGED cancelled
        /\ \/ Ready(composer, "forced")
           \/ /\ Top.ask = "pending" /\ stack' = Below
              /\ UNCHANGED <<main, composer, quit, holders, timer>>
           \/ /\ Top.ask = "last"
              /\ Release([composer EXCEPT ![Top.who] = Closed(@)], Below, holders)
    BY Zenon DEF AnswerPending, Asked
  <1>3. Top.ask # "quit"
    BY <1>2
  <1>4. /\ Stacked(composer, quit, failed, Below)
        /\ Top.ask # "last" =>
              \A e \in Composers : ComposerOK(composer[e], e, quit, failed, Below)
        /\ DialogOK(composer, quit, failed, Len(stack), Top)
        /\ Len(Below) <= Limit(composer, main)
        /\ Emissions(composer, quit, failed, cancelled, Below)
    BY <1>2, <1>3, PopKeeps
  <1>5. quit = "preparing"
    BY <1>2, <1>4 DEF DialogOK
  <1>6. quit # "none" /\ quit # "ready"
    BY <1>5
  <1>7. CASE Ready(composer, "forced")
    <2>1. \A e \in Composers : Past(composer[e], failed)
      BY <1>1, Zenon DEF State, ComposerOK
    <2>2. QuitInv'
      BY <1>1, <1>2, <1>7, <2>1, ReadyStep
    <2>3. quit' # "ready"
      BY <1>7 DEF Ready
    <2> QED
      BY <1>6, <2>2, <2>3, Zenon DEF Word
  <1>8. CASE /\ Top.ask = "pending" /\ stack' = Below
             /\ UNCHANGED <<main, composer, quit, holders, timer>>
    <2>1. Top.ask # "last"
      BY <1>8
    <2>2. State(composer, main, quit, failed, cancelled, Below)
      BY <1>1, <1>4, <2>1, Zenon DEF State
    <2>3. State(composer', main', quit, failed', cancelled', stack')
      BY <1>2, <1>8, <2>2
    <2> QED
      BY <1>1, <1>2, <1>8, <2>3, StayStep
  <1>9. CASE /\ Top.ask = "last"
             /\ Release([composer EXCEPT ![Top.who] = Closed(@)], Below, holders)
    <2> DEFINE c == Top.who
               C == [composer EXCEPT ![c] = Closed(composer[c])]
    <2>1. /\ c \in Composers /\ ~composer[c].open
          /\ composer[c].changed => composer[c].discard
      BY <1>4, <1>9 DEF DialogOK
    <2>2. Release(C, Below, holders)
      <3>1. C = [composer EXCEPT ![c] = Closed(@)]
        BY <1>1, Zenon
      <3> HIDE DEF C
      <3> QED
        BY <1>9, <3>1, Zenon
    <2>3. /\ Closed(composer[c]) \in Composer
          /\ Closed(composer[c]).open = FALSE
          /\ Closed(composer[c]).changed = composer[c].changed
          /\ Closed(composer[c]).exiting = composer[c].exiting
          /\ Closed(composer[c]).connected = composer[c].connected
          /\ Closed(composer[c]).holds = FALSE
          /\ Closed(composer[c]).discard = composer[c].discard
          /\ Closed(composer[c]).saving = composer[c].saving
      BY <1>1, <2>1, ClosedFields
    <2>4. /\ C \in [Composers -> Composer] /\ C[c] = Closed(composer[c])
          /\ \A e \in Composers \ {c} : C[e] = composer[e]
      <3> HIDE DEF c
      <3> QED
        BY <1>1, <2>1, <2>3
    <2> HIDE DEF C
    <2>5. /\ ~C[c].open /\ ~C[c].holds /\ C[c].changed = composer[c].changed
          /\ C[c].exiting = composer[c].exiting /\ C[c].connected = composer[c].connected
          /\ C[c].discard = composer[c].discard /\ C[c].saving = composer[c].saving
      BY <2>3, <2>4
    <2>6. \A e \in Composers : C[e].open = composer[e].open
      <3>1. C[c].open = FALSE /\ composer[c].open = FALSE
        <4>1. composer[c] \in Composer /\ ~composer[c].open
          BY <1>1, <2>1
        <4>2. composer[c].open = FALSE
          BY <4>1 DEF Composer
        <4> QED
          BY <2>3, <2>4, <4>2
      <3> QED
        BY <2>4, <3>1, Zenon
    <2>7. Windows(C, main) = Windows(composer, main) /\ Limit(C, main) = Limit(composer, main)
      BY <1>1, <2>6, LimitFacts
    <2>8. \A k \in 1 .. Len(Below) : DialogOK(C, quit, failed, k, Below[k])
      <3> SUFFICES ASSUME NEW k \in 1 .. Len(Below)
                   PROVE  DialogOK(C, quit, failed, k, Below[k])
        OBVIOUS
      <3>1. DialogOK(composer, quit, failed, k, Below[k])
        BY <1>4, Zenon DEF Stacked
      <3>2. \A e \in Composers : /\ C[e].open = composer[e].open
                                 /\ C[e].changed = composer[e].changed
                                 /\ C[e].discard = composer[e].discard
                                 /\ C[e].saving = composer[e].saving
        BY <2>4, <2>5, <2>6, Zenon
      <3>3. /\ Below[k].ask = "quit" => Below[k].who \in Composers
            /\ Below[k].ask = "drafts" => Below[k].who \in Composers
            /\ Below[k].ask = "last" => Below[k].who \in Composers
        BY <3>1 DEF DialogOK
      <3> QED
        BY <3>1, <3>2, <3>3, Zenon DEF DialogOK
    <2>9. Stacked(C, quit, failed, Below)
      BY <1>4, <2>8, Zenon DEF Stacked
    <2>10. \A e \in Composers : ComposerOK(C[e], e, quit, failed, Below)
      <3> SUFFICES ASSUME NEW e \in Composers PROVE ComposerOK(C[e], e, quit, failed, Below)
        OBVIOUS
      <3>1. ComposerOK(composer[e], e, quit, failed, stack)
        BY <1>1, Zenon DEF State
      <3>2. CASE e = c
        <4>1. Past(composer[c], failed)
          BY <3>1, <3>2, Zenon DEF ComposerOK
        <4>2. Past(C[c], failed)
          BY <2>5, <4>1, Zenon DEF Past
        <4> QED
          BY <2>5, <3>2, <4>2, Zenon DEF ComposerOK
      <3>3. CASE e # c
        <4>1. ASSUME LastOn(stack, e) PROVE LastOn(Below, e)
          <5>1. PICK i \in 1 .. Len(stack) : stack[i] = [ask |-> "last", who |-> e]
            BY <4>1, Zenon DEF LastOn
          <5>2. /\ Len(stack) \in Nat /\ Top = stack[Len(stack)]
                /\ Len(Below) = Len(stack) - 1
                /\ \A j \in 1 .. Len(stack) - 1 : Below[j] = stack[j]
            BY <1>1, <1>2, Popped
          <5>3. i # Len(stack)
            <6>1. stack[i].who = e
              BY <5>1
            <6> QED
              BY <3>3, <5>2, <6>1, Zenon
          <5>4. i \in 1 .. Len(Below) /\ i \in 1 .. Len(stack) - 1
            <6>1. Len(stack) \in Nat /\ Len(Below) = Len(stack) - 1
              BY <5>2
            <6> QED
              BY <5>3, <6>1
          <5> QED
            BY <5>1, <5>2, <5>4, Zenon DEF LastOn
        <4> QED
          BY <2>4, <3>1, <3>3, <4>1, Zenon DEF ComposerOK
      <3> QED
        BY <3>2, <3>3
    <2>11. State(C, main, quit, failed, cancelled, Below)
      BY <1>4, <1>6, <2>4, <2>7, <2>9, <2>10, Zenon DEF State, Emissions
    <2>12. UNCHANGED <<failed, cancelled>>
      BY <1>2
    <2>13. /\ QuitInv'
           /\ quit' = quit \/ (quit' = "ready" /\ \A e \in Composers : ~C[e].holds)
           /\ \A e \in Composers : composer'[e].discard = C[e].discard
      BY <1>1, <2>2, <2>11, <2>12, ReleaseStep
    <2>14. ASSUME quit' = "ready", NEW e \in Composers, composer[e].holds
           PROVE  ~composer[e].changed \/ composer'[e].discard
      <3>1. \A d \in Composers : ~C[d].holds
        BY <1>6, <2>13, <2>14
      <3>2. e = c
        BY <2>4, <2>14, <3>1, Zenon
      <3> QED
        BY <2>1, <2>5, <2>13, <3>2, Zenon
    <2>15. Word(composer)
      BY <1>6, <2>14, Zenon DEF Word
    <2> QED
      BY <2>13, <2>15
  <1> QED
    BY <1>2, <1>7, <1>8, <1>9, Zenon

-----------------------------------------------------------------------------
(***************************************************************************)
(* The theorems.                                                           *)
(***************************************************************************)
LEMMA InitInv ==
    ASSUME Init
    PROVE  QuitInv
  <1>1. PICK f \in [Composers -> BOOLEAN] : composer = [c \in Composers |-> NewComposer(f[c])]
    BY Zenon DEF Init
  <1>2. /\ main \in BOOLEAN /\ quit = "none" /\ holders = {} /\ timer = FALSE
        /\ cancelled = FALSE /\ stack = <<>> /\ failed = FALSE
        /\ Windows(composer, main) # {}
    BY DEF Init
  <1>3. \A c \in Composers :
           /\ composer[c] \in Composer /\ ~composer[c].holds /\ composer[c].connected
           /\ composer[c].saving = "no"
    BY <1>1 DEF NewComposer, Composer
  <1>4. composer \in [Composers -> Composer]
    BY <1>1, <1>3
  <1>5. \A c \in Composers : ComposerOK(composer[c], c, quit, failed, stack)
    <2>1. "no" # "ended"
      OBVIOUS
    <2> QED
      BY <1>3, <2>1, Zenon DEF ComposerOK, Past
  <1>6. stack \in Seq(Dialog) /\ Len(stack) = 0
    BY <1>2
  <1>7. \A i \in 1 .. Len(stack) : FALSE
    BY <1>6
  <1>8. Len(stack) <= Limit(composer, main)
    <2>1. Limit(composer, main) \in Nat
      BY <1>2, LimitFacts
    <2> QED
      BY <1>6, <2>1
  <1>9. Stacked(composer, quit, failed, stack) /\ Emissions(composer, quit, failed, cancelled, stack)
    BY <1>6, <1>7, Zenon DEF Stacked, Emissions
  <1>10. State(composer, main, quit, failed, cancelled, stack)
    BY <1>2, <1>4, <1>5, <1>8, <1>9, Zenon DEF State
  <1>11. Fields
    BY <1>2 DEF Fields
  <1> QED
    BY <1>10, <1>11, Zenon DEF QuitInv

LEMMA NextStep ==
    ASSUME QuitInv, Next
    PROVE  QuitInv' /\ Word(composer)
  <1>1. ASSUME NEW c \in Composers, SaveSteps(c) PROVE QuitInv' /\ Word(composer)
    BY <1>1, BuiltStep, AppendedStep, SaveEndsStep, Zenon DEF SaveSteps
  <1>2. ASSUME NEW c \in Composers, SaveFails(c) PROVE QuitInv' /\ Word(composer)
    BY <1>2, BuildFailedStep, AppendAsksStep, AppendStoppedStep, Zenon DEF SaveFails
  <1>3. ASSUME NEW c \in Composers, Edit(c) \/ SaveDraft(c) \/ Close(c), UNCHANGED failed
        PROVE  QuitInv' /\ Word(composer)
    BY <1>3, EditStep, SaveDraftStep, CloseStep, Zenon
  <1>4. ASSUME CloseMain \/ UserQuit \/ RemoteQuit, UNCHANGED failed
        PROVE  QuitInv' /\ Word(composer)
    BY <1>4, CloseMainStep, UserQuitStep, RemoteQuitStep, Zenon
  <1>5. ASSUME Answers, UNCHANGED failed PROVE QuitInv' /\ Word(composer)
    BY <1>5, AnswerOutboxStep, AnswerDraftsStep, AnswerPendingStep, AnswerQuitStep,
       AnswerCloseStep, Zenon DEF Answers
  <1>6. ASSUME NEW h \in Holders, HolderDone(h), UNCHANGED failed
        PROVE  QuitInv' /\ Word(composer)
    BY <1>6, HolderDoneStep
  <1>7. ASSUME TimerFires, UNCHANGED failed PROVE QuitInv' /\ Word(composer)
    BY <1>7, TimerFiresStep
  <1> QED
    BY <1>1, <1>2, <1>3, <1>4, <1>5, <1>6, <1>7, Zenon DEF Next, Others

LEMMA StutterStep ==
    ASSUME QuitInv, UNCHANGED vars
    PROVE  QuitInv' /\ Word(composer)
  <1>1. UNCHANGED <<main, composer, quit, holders, timer, cancelled, stack, failed>>
    BY DEF vars
  <1>2. State(composer', main', quit', failed', cancelled', stack') /\ Fields'
    BY <1>1 DEF QuitInv, Fields
  <1>3. ~(quit = "preparing" /\ quit' = "ready") /\ ~(quit = "none" /\ quit' # "none")
    BY <1>1
  <1> QED
    BY <1>2, <1>3, Zenon DEF QuitInv, Word

LEMMA AlwaysInv == Spec => []QuitInv
  <1>1. Init => QuitInv
    BY InitInv
  <1>2. QuitInv /\ [Next]_vars => QuitInv'
    BY NextStep, StutterStep
  <1> QED
    BY <1>1, <1>2, PTL DEF Spec

LEMMA AlwaysWord == Spec => [][Word(composer)]_vars
  <1>1. QuitInv /\ [Next]_vars => [Word(composer)]_vars
    BY NextStep
  <1> QED
    BY <1>1, AlwaysInv, PTL DEF Spec

\* The states are what TypeOK says: at most one dialog over the bound on nested
\* ones, and a reference on the quit's activity only while a quit is prepared,
\* with an open composer or one whose destruction waits for an answer.
THEOREM QuitIsTyped == Spec => []TypeOK
  <1>1. ASSUME QuitInv PROVE TypeOK
    <2>1. /\ Fields /\ composer \in [Composers -> Composer] /\ stack \in Seq(Dialog)
          /\ main \in BOOLEAN
      BY <1>1, InvFacts
    <2>2. Len(stack) <= MaxDepth + 1
      <3>1. Len(stack) <= Limit(composer, main)
        BY <1>1, Zenon DEF QuitInv, State
      <3>2. Limit(composer, main) \in {MaxDepth, MaxDepth + 1}
        BY <2>1, LimitFacts
      <3>3. Len(stack) \in Nat /\ MaxDepth \in Nat
        BY <2>1, LenProperties, QuitAssumption
      <3> QED
        BY <3>1, <3>2, <3>3
    <2>3. ASSUME NEW c \in Composers, composer[c].holds
          PROVE  /\ quit = "preparing"
                 /\ composer[c].open
                       \/ \E i \in DOMAIN stack : stack[i] = [ask |-> "last", who |-> c]
      <3>1. ComposerOK(composer[c], c, quit, failed, stack)
        BY <1>1, Zenon DEF QuitInv, State
      <3>2. DOMAIN stack = 1 .. Len(stack)
        BY <2>1, LenProperties
      <3> QED
        BY <2>3, <3>1, <3>2, Zenon DEF ComposerOK, LastOn
    <2> QED
      BY <2>1, <2>2, <2>3, Zenon DEF TypeOK, Fields
  <1> QED
    BY <1>1, AlwaysInv, PTL

\* Whoever closes the last window makes the application quit, whatever dialogs
\* are open and in whatever order they are answered.
THEOREM NeverWithoutWindow == Spec => []NoWindowQuits
  <1>1. QuitInv => NoWindowQuits
    BY Zenon DEF QuitInv, State, NoWindowQuits
  <1> QED
    BY <1>1, AlwaysInv, PTL

\* A quit that nobody forces is ready only when each composer it waited for has
\* no unsaved change left, or its message was discarded.
THEOREM DraftsAreSaved == Spec => DraftsSaved
  <1>1. Word(composer) =>
           (quit = "preparing" /\ quit' = "ready" =>
               \A c \in Composers : composer[c].holds =>
                   ~composer[c].changed \/ composer'[c].discard)
    BY Zenon DEF Word
  <1> QED
    BY <1>1, AlwaysWord, PTL DEF DraftsSaved

\* No quit begins before every changed message has been asked about, as long as
\* saving has not failed, however many requests are nested in one another.
THEOREM EveryMessageAsked == Spec => QuitAskedFirst
  <1>1. Word(composer) =>
           (quit = "none" /\ quit' # "none" /\ ~failed =>
               \A c \in Composers : composer[c].open /\ composer[c].changed =>
                   composer'[c].exiting \/ composer'[c].discard)
    BY Zenon DEF Word
  <1> QED
    BY <1>1, AlwaysWord, PTL DEF QuitAskedFirst
=============================================================================
