--------------------------- MODULE AutosaveProofs ---------------------------
(***************************************************************************)
(* Proofs about Autosave, for any number of composers, files, windows,     *)
(* revisions and sessions.                                                 *)
(***************************************************************************)
EXTENDS Autosave, SequenceTheorems, TLAPS

-----------------------------------------------------------------------------
(* Types.                                                                  *)

Types == TypeOK /\ dialogs \in Seq(Question)

\* What is on top of a stack of questions, and what is below.
LEMMA TopQuestion ==
  ASSUME NEW s \in Seq(Question), s # <<>>
  PROVE  /\ Front(s) \in Seq(Question)
         /\ Last(s) \in Question
         /\ Len(s) \in DOMAIN s /\ Last(s) = s[Len(s)]
<1>1. Len(s) \in Nat /\ Len(s) >= 1 /\ \A i \in 1 .. Len(s) : s[i] \in Question
  BY EmptySeq, LenProperties, ElementOfSeq, SMT
<1>2. DOMAIN s = 1 .. Len(s) BY LenProperties
<1>3. Last(s) = s[Len(s)] /\ Len(s) \in 1 .. Len(s) BY <1>1 DEF Last
<1>4. \A i \in 1 .. Len(s) - 1 : s[i] \in Question BY <1>1
<1>5. SubSeq(s, 1, Len(s) - 1) \in Seq(Question)
  <2>1. 1 \in Int /\ Len(s) - 1 \in Int BY <1>1
  <2> QED BY <1>4, <2>1, SubSeqProperties
<1> QED BY <1>1, <1>2, <1>3, <1>5 DEF Front

\* Each question of a stack is one.
LEMMA EachQuestion ==
  ASSUME NEW s \in Seq(Question)
  PROVE  \A i \in DOMAIN s : s[i] \in Question
BY LenProperties, ElementOfSeq

\* A save is put into its slot; the other one stays.
LEMMA SlotFacts ==
  ASSUME NEW s \in Save \X Save, NEW i \in Slots, NEW v \in Save
  PROVE  /\ [s EXCEPT ![i] = v] \in Save \X Save
         /\ [s EXCEPT ![i] = v][i] = v
         /\ \A j \in Slots : j # i => [s EXCEPT ![i] = v][j] = s[j]
         /\ s[i] \in Save
<1>1. s[1] \in Save /\ s[2] \in Save /\ s = <<s[1], s[2]>> OBVIOUS
<1>2. CASE i = 1 BY <1>1, <1>2 DEF Slots
<1>3. CASE i = 2 BY <1>1, <1>3 DEF Slots
<1> QED BY <1>2, <1>3 DEF Slots

LEMMA Constant ==
  /\ Unused \in Composer /\ NoSave \in Save /\ Idle \in Save \X Save
  /\ Unused.life = "none" /\ Unused.file = NoFile /\ Unused.malfunction = FALSE
  /\ Unused.deletes = FALSE /\ Unused.text = 0
  /\ Absent = -2 /\ Empty = -1 /\ Torn = 0 /\ MaxText \in Nat
  /\ NoFile \notin Files
<1>1. MaxText \in Nat /\ NoFile \notin Files BY AutosaveAssumption
<1>2. 0 \in 0 .. MaxText BY <1>1
<1>3. Absent = -2 /\ Empty = -1 /\ Torn = 0 BY DEF Absent, Empty, Torn
<1>4. NoSave \in Save BY <1>2 DEF NoSave, Save
<1>5. Idle \in Save \X Save BY <1>4 DEF Idle
<1>6. Unused \in Composer BY <1>2 DEF Unused, Composer
<1>7. /\ Unused.life = "none" /\ Unused.file = NoFile /\ Unused.malfunction = FALSE
      /\ Unused.deletes = FALSE /\ Unused.text = 0
  BY DEF Unused
<1> QED BY <1>1, <1>3, <1>4, <1>5, <1>6, <1>7

\* composer_autosave_changed_cb() may start the timer and does nothing else.
LEMMA ScheduledFacts ==
  ASSUME NEW K \in Composer
  PROVE  /\ Scheduled(K) \in Composer /\ Rescheduled(K) \in Composer
         /\ Rescheduled(K) = Scheduled(K)
         /\ Scheduled(K).life = K.life /\ Scheduled(K).file = K.file
         /\ Scheduled(K).text = K.text /\ Scheduled(K).deletes = K.deletes
         /\ Scheduled(K).malfunction = K.malfunction
BY DEF Scheduled, Rescheduled, Composer

LEMMA CancelledFacts ==
  ASSUME NEW s \in Save
  PROVE  /\ Cancelled(s) \in Save /\ Cancelled(s).stage = s.stage
         /\ Cancelled(s).text = s.text
         /\ s.stage # "none" => Cancelled(s).cancelled
BY DEF Cancelled, Save

\* What the end of a reference on a composer does: nothing, or it was the last
\* one and the composer goes, its file with it.
LEMMA ReleasedFacts ==
  ASSUME NEW K \in [Composers -> Composer], NEW S \in [Composers -> Save \X Save],
         NEW D \in [Files -> Absent .. MaxText], NEW c \in Composers, Released(K, S, D, c)
  PROVE  /\ saves' = S
         /\ composer' \in [Composers -> Composer]
         /\ disk' \in [Files -> Absent .. MaxText]
         /\ \A d \in Composers : d # c => composer'[d] = K[d]
         /\ \/ composer'[c] = K[c] /\ ~ (K[c].life = "closing" /\ S[c] = Idle)
            \/ composer'[c] = Unused /\ K[c].life = "closing" /\ S[c] = Idle
         /\ \A f \in Files :
              \/ disk'[f] = D[f]
              \/ /\ disk'[f] = Absent
                 /\ composer'[c] = Unused /\ K[c].life = "closing"
                 /\ K[c].deletes /\ K[c].file = f
<1>1. saves' = S BY DEF Released
<1>2. CASE K[c].life = "closing" /\ S[c] = Idle
  <2>1. composer' = [K EXCEPT ![c] = Unused] BY <1>2 DEF Released
  <2>2. disk' = IF K[c].deletes /\ K[c].file # NoFile
                THEN [D EXCEPT ![K[c].file] = Absent] ELSE D
    BY <1>2 DEF Released
  <2>3. Absent \in Absent .. MaxText BY Constant
  <2> QED BY <1>1, <1>2, <2>1, <2>2, <2>3, Constant
<1>3. CASE ~ (K[c].life = "closing" /\ S[c] = Idle)
  BY <1>1, <1>3 DEF Released
<1> QED BY <1>2, <1>3

LEMMA InitTypes == Init => Types
<1> SUFFICES ASSUME Init PROVE Types OBVIOUS
<1>1. disk \in [Files -> Absent .. MaxText] BY Constant DEF Init
<1>2. /\ composer \in [Composers -> Composer] /\ saves \in [Composers -> Save \X Save]
      /\ loads \in [Files -> Nat] /\ window \in [Windows -> {"none", "added", "mapped"}]
      /\ restored \in BOOLEAN /\ handlers \subseteq Windows
      /\ handlerId \in Windows \cup {NoWindow} /\ dialogs = <<>>
  BY Constant DEF Init, Started
<1>3. dialogs \in Seq(Question) /\ \A i \in DOMAIN dialogs : dialogs[i] \in Question
  BY <1>2, EachQuestion, EmptySeq
<1>4. session \in 1 .. MaxSessions /\ shared \subseteq Files \cup {NoFile}
  BY AutosaveAssumption DEF Init
<1> QED BY <1>1, <1>2, <1>3, <1>4 DEF Types, TypeOK

\* One composer changes.
LEMMA OneComposer ==
  ASSUME composer \in [Composers -> Composer], NEW c \in Composers, NEW K \in Composer,
         composer' = [composer EXCEPT ![c] = K]
  PROVE  /\ composer' \in [Composers -> Composer]
         /\ composer'[c] = K
         /\ \A d \in Composers : d # c => composer'[d] = composer[d]
OBVIOUS

\* One save of a composer changes.
LEMMA OneSave ==
  ASSUME saves \in [Composers -> Save \X Save], NEW c \in Composers, NEW i \in Slots,
         NEW v \in Save
  PROVE  LET S == [saves EXCEPT ![c] = [saves[c] EXCEPT ![i] = v]]
         IN  /\ S \in [Composers -> Save \X Save]
             /\ S[c][i] = v
             /\ \A j \in Slots : j # i => S[c][j] = saves[c][j]
             /\ \A d \in Composers : d # c => S[d] = saves[d]
<1>1. saves[c] \in Save \X Save OBVIOUS
<1> DEFINE p == [saves[c] EXCEPT ![i] = v]
<1>2. p \in Save \X Save /\ p[i] = v /\ \A j \in Slots : j # i => p[j] = saves[c][j]
  BY <1>1, SlotFacts
<1> HIDE DEF p
<1> DEFINE S == [saves EXCEPT ![c] = p]
<1>3. /\ S \in [Composers -> Save \X Save] /\ S[c] = p
      /\ \A d \in Composers : d # c => S[d] = saves[d]
  BY <1>2
<1>4. S[c][i] = v /\ \A j \in Slots : j # i => S[c][j] = saves[c][j] BY <1>2, <1>3
<1> HIDE DEF S
<1>5. S = [saves EXCEPT ![c] = [saves[c] EXCEPT ![i] = v]] BY DEF S, p
<1> QED BY <1>3, <1>4, <1>5, Zenon

-----------------------------------------------------------------------------
(* What each step of a composer does: nothing to the other composers.      *)

\* The other composers and their saves stay, and what nobody asks about.
Others(c) ==
  /\ \A d \in Composers : d # c => composer'[d] = composer[d] /\ saves'[d] = saves[d]
  /\ UNCHANGED <<window, session, shared>>

LEMMA NewComposerDoes ==
  ASSUME Types, NEW c \in Composers, NewComposer(c)
  PROVE  /\ Types' /\ Others(c) /\ UNCHANGED <<disk, saves, loads, dialogs>>
         /\ composer[c].life = "none" /\ composer'[c].file = NoFile
         /\ composer'[c].malfunction = FALSE
<1> DEFINE K == [Unused EXCEPT !.life = "open"]
<1>1. K \in Composer /\ K.file = NoFile /\ K.malfunction = FALSE /\ K.life = "open"
  BY Constant DEF Composer
<1>2. composer' = [composer EXCEPT ![c] = K] BY DEF NewComposer
<1> HIDE DEF K
<1>3. /\ composer' \in [Composers -> Composer] /\ composer'[c] = K
      /\ \A d \in Composers : d # c => composer'[d] = composer[d]
  BY <1>1, <1>2, OneComposer DEF Types, TypeOK
<1>4. UNCHANGED <<disk, saves, loads, registry, dialogs, session>> /\ composer[c].life = "none"
  BY DEF NewComposer
<1>5. Types' BY <1>3, <1>4 DEF Types, TypeOK, registry
<1> QED BY <1>1, <1>3, <1>4, <1>5 DEF Others, registry

\* A message is typed on.
LEMMA TextFacts ==
  ASSUME NEW K \in Composer, K.text + 1 \in 0 .. MaxText
  PROVE  LET L == [K EXCEPT !.text = @ + 1, !.changed = TRUE]
         IN  /\ L \in Composer /\ L.file = K.file /\ L.life = K.life
             /\ L.malfunction = K.malfunction /\ L.deletes = K.deletes
             /\ L.text = K.text + 1
<1> SUFFICES ASSUME NEW t, t = K.text + 1, t \in 0 .. MaxText
             PROVE  LET L == [K EXCEPT !.text = t, !.changed = TRUE]
                    IN  /\ L \in Composer /\ L.file = K.file /\ L.life = K.life
                        /\ L.malfunction = K.malfunction /\ L.deletes = K.deletes
                        /\ L.text = t
  OBVIOUS
<1> QED BY DEF Composer

LEMMA EditDoes ==
  ASSUME Types, NEW c \in Composers, Edit(c)
  PROVE  /\ Types' /\ Others(c) /\ UNCHANGED <<disk, saves, loads, dialogs>>
         /\ composer'[c].life = composer[c].life /\ composer'[c].file = composer[c].file
         /\ composer'[c].malfunction = composer[c].malfunction
         /\ composer'[c].deletes = composer[c].deletes
         /\ composer'[c].text >= composer[c].text
<1> DEFINE K == [composer[c] EXCEPT !.text = @ + 1, !.changed = TRUE]
<1>1. composer[c] \in Composer /\ composer[c].text < MaxText /\ MaxText \in Nat
  BY AutosaveAssumption DEF Types, TypeOK, Edit
<1>2. composer[c].text + 1 \in 0 .. MaxText /\ composer[c].text + 1 >= composer[c].text
  BY <1>1 DEF Composer
<1>3. /\ K \in Composer /\ K.file = composer[c].file /\ K.life = composer[c].life
      /\ K.malfunction = composer[c].malfunction /\ K.deletes = composer[c].deletes
      /\ K.text = composer[c].text + 1
  BY <1>1, <1>2, TextFacts, Zenon
<1>4. composer' = [composer EXCEPT ![c] = Scheduled(K)] BY Zenon DEF Edit
<1> HIDE DEF K
<1>5. /\ composer' \in [Composers -> Composer] /\ composer'[c] = Scheduled(K)
      /\ \A d \in Composers : d # c => composer'[d] = composer[d]
  BY <1>3, <1>4, ScheduledFacts, OneComposer DEF Types, TypeOK
<1>6. UNCHANGED <<disk, saves, loads, registry, dialogs, session>> BY DEF Edit
<1>7. Types' BY <1>5, <1>6 DEF Types, TypeOK, registry
<1> QED BY <1>2, <1>3, <1>5, <1>6, <1>7, ScheduledFacts DEF Others, registry

LEMMA SaveDraftDoes ==
  ASSUME Types, NEW c \in Composers, SaveDraft(c)
  PROVE  /\ Types' /\ Others(c) /\ UNCHANGED <<disk, saves, loads, dialogs>>
         /\ composer'[c].life = composer[c].life /\ composer'[c].file = composer[c].file
         /\ composer'[c].malfunction = composer[c].malfunction
         /\ composer'[c].deletes = composer[c].deletes
         /\ composer'[c].text >= composer[c].text
<1> DEFINE K == [composer[c] EXCEPT !.changed = FALSE]
<1>1. composer[c] \in Composer BY DEF Types, TypeOK
<1>2. K \in Composer BY <1>1 DEF Composer
<1>3. /\ K.file = composer[c].file /\ K.life = composer[c].life
      /\ K.malfunction = composer[c].malfunction /\ K.deletes = composer[c].deletes
      /\ K.text = composer[c].text
  BY <1>1 DEF Composer
<1>4. composer' = [composer EXCEPT ![c] = K] BY DEF SaveDraft
<1> HIDE DEF K
<1>5. /\ composer' \in [Composers -> Composer] /\ composer'[c] = K
      /\ \A d \in Composers : d # c => composer'[d] = composer[d]
  BY <1>2, <1>4, OneComposer DEF Types, TypeOK
<1>6. UNCHANGED <<disk, saves, loads, registry, dialogs, session>> BY DEF SaveDraft
<1>7. Types' BY <1>5, <1>6 DEF Types, TypeOK, registry
<1>8. composer[c].text \in Int BY <1>1 DEF Composer
<1> QED BY <1>3, <1>5, <1>6, <1>7, <1>8 DEF Others, registry

LEMMA MalfunctionDoes ==
  ASSUME Types, NEW c \in Composers, Malfunction(c)
  PROVE  /\ Types' /\ Others(c) /\ UNCHANGED <<disk, saves, loads, dialogs>> /\ Breaks
         /\ composer'[c].life = composer[c].life /\ composer'[c].file = composer[c].file
         /\ composer'[c].text = composer[c].text
         /\ composer'[c].malfunction /\ ~composer'[c].deletes
<1> DEFINE K == [composer[c] EXCEPT !.malfunction = TRUE, !.deletes = FALSE]
<1>1. composer[c] \in Composer BY DEF Types, TypeOK
<1>2. /\ K \in Composer /\ K.malfunction /\ ~K.deletes
      /\ K.life = composer[c].life /\ K.file = composer[c].file /\ K.text = composer[c].text
  BY <1>1 DEF Composer
<1>3. composer' = [composer EXCEPT ![c] = K] BY DEF Malfunction, Broken
<1> HIDE DEF K
<1>4. /\ composer' \in [Composers -> Composer] /\ composer'[c] = K
      /\ \A d \in Composers : d # c => composer'[d] = composer[d]
  BY <1>2, <1>3, OneComposer DEF Types, TypeOK
<1>5. UNCHANGED <<disk, saves, loads, registry, dialogs, session>> /\ Breaks
  BY DEF Malfunction
<1>6. Types' BY <1>4, <1>5 DEF Types, TypeOK, registry
<1> QED BY <1>2, <1>4, <1>5, <1>6 DEF Others, registry

LEMMA ContentReadyDoes ==
  ASSUME Types, NEW c \in Composers, NEW i \in Slots, ContentReady(c, i)
  PROVE  /\ Types' /\ Others(c) /\ UNCHANGED <<disk, composer, loads, dialogs>>
         /\ saves[c][i].stage # "none" /\ ~saves[c][i].cancelled
         /\ saves'[c][i].text >= saves[c][i].text /\ saves'[c][i].text <= composer[c].text
         /\ \A j \in Slots : j # i => saves'[c][j] = saves[c][j]
<1>1. /\ saves \in [Composers -> Save \X Save] /\ composer[c] \in Composer
      /\ saves[c] \in Save \X Save
  BY DEF Types, TypeOK
<1>2. saves[c][i] \in Save BY <1>1, SlotFacts
<1>3. PICK t \in saves[c][i].text .. composer[c].text :
        saves' = [saves EXCEPT ![c][i].stage = "building", ![c][i].text = t]
  BY DEF ContentReady
<1> DEFINE v == [saves[c][i] EXCEPT !.stage = "building", !.text = t]
<1>4. /\ saves[c][i].text \in 0 .. MaxText /\ composer[c].text \in 0 .. MaxText
      /\ MaxText \in Nat
  BY <1>1, <1>2, Constant DEF Save, Composer
<1>5. t \in 0 .. MaxText /\ t >= saves[c][i].text /\ t <= composer[c].text
  BY <1>4
<1>6. v \in Save /\ v.text = t BY <1>2, <1>5 DEF Save
<1>7. saves' = [saves EXCEPT ![c] = [saves[c] EXCEPT ![i] = v]]
  BY <1>1, <1>2, <1>3
<1> HIDE DEF v
<1>8. /\ saves' \in [Composers -> Save \X Save]
      /\ saves'[c][i] = v
      /\ \A j \in Slots : j # i => saves'[c][j] = saves[c][j]
      /\ \A d \in Composers : d # c => saves'[d] = saves[d]
  BY <1>1, <1>6, <1>7, OneSave
<1>9. /\ UNCHANGED <<disk, composer, loads, registry, dialogs, session>>
      /\ saves[c][i].stage # "none" /\ ~saves[c][i].cancelled
  BY DEF ContentReady
<1>10. Types' BY <1>8, <1>9 DEF Types, TypeOK, registry
<1> QED BY <1>5, <1>6, <1>8, <1>9, <1>10 DEF Others, registry

LEMMA BuiltDoes ==
  ASSUME Types, NEW c \in Composers, NEW i \in Slots, Built(c, i)
  PROVE  /\ Types' /\ Others(c) /\ UNCHANGED <<disk, composer, loads, dialogs>>
         /\ saves[c][i].stage # "none" /\ ~saves[c][i].cancelled
         /\ saves'[c][i].text = saves[c][i].text
         /\ \A j \in Slots : j # i => saves'[c][j] = saves[c][j]
<1>1. saves \in [Composers -> Save \X Save] /\ saves[c] \in Save \X Save
  BY DEF Types, TypeOK
<1>2. saves[c][i] \in Save BY <1>1, SlotFacts
<1> DEFINE v == [saves[c][i] EXCEPT !.stage = "writing"]
<1>3. v \in Save /\ v.text = saves[c][i].text BY <1>2 DEF Save
<1>4. saves' = [saves EXCEPT ![c] = [saves[c] EXCEPT ![i] = v]]
  BY <1>1, <1>2 DEF Built
<1> HIDE DEF v
<1>5. /\ saves' \in [Composers -> Save \X Save]
      /\ saves'[c][i] = v
      /\ \A j \in Slots : j # i => saves'[c][j] = saves[c][j]
      /\ \A d \in Composers : d # c => saves'[d] = saves[d]
  BY <1>1, <1>3, <1>4, OneSave
<1>6. /\ UNCHANGED <<disk, composer, loads, registry, dialogs, session>>
      /\ saves[c][i].stage # "none" /\ ~saves[c][i].cancelled
  BY DEF Built
<1>7. Types' BY <1>5, <1>6 DEF Types, TypeOK, registry
<1> QED BY <1>3, <1>5, <1>6, <1>7 DEF Others, registry

\* The composer as the timer leaves it.
LEMMA UntimedFacts ==
  ASSUME NEW K \in Composer
  PROVE  LET L == [K EXCEPT !.timer = FALSE]
         IN  /\ L \in Composer /\ L.life = K.life /\ L.file = K.file /\ L.text = K.text
             /\ L.deletes = K.deletes /\ L.malfunction = K.malfunction
BY DEF Composer

\* create_snapshot_file(): the composer's file, or one that nobody knows of.
LEMMA FileFacts ==
  ASSUME Types, NEW c \in Composers, NEW f \in SnapshotFiles(c)
  PROVE  /\ f \in Files
         /\ f = composer[c].file \/ (composer[c].file = NoFile /\ Unheard(f))
<1>1. composer[c].file \in Files \cup {NoFile} BY DEF Types, TypeOK, Composer
<1> QED BY <1>1 DEF SnapshotFiles

LEMMA NewSaveFacts ==
  ASSUME Types, NEW c \in Composers
  PROVE  /\ NewSave(c) \in Save /\ NewSave(c).stage # "none"
         /\ NewSave(c).text \in {saves[c][1].text, composer[c].text}
         /\ saves[c][1].stage = "none" => NewSave(c).text = composer[c].text
<1>1. saves[c][1] \in Save /\ composer[c] \in Composer
  BY SlotFacts DEF Types, TypeOK, Slots
<1>2. saves[c][1].text \in 0 .. MaxText /\ composer[c].text \in 0 .. MaxText
  BY <1>1 DEF Save, Composer
<1>3. \A t \in 0 .. MaxText :
        /\ [stage |-> "building", text |-> t, cancelled |-> FALSE] \in Save
        /\ [stage |-> "fetching", text |-> t, cancelled |-> FALSE] \in Save
  BY DEF Save
<1>4. CASE saves[c][1].stage = "building" BY <1>2, <1>3, <1>4 DEF NewSave
<1>5. CASE saves[c][1].stage # "building" BY <1>2, <1>3, <1>5 DEF NewSave
<1> QED BY <1>4, <1>5

LEMMA TimerFiresDoes ==
  ASSUME Types, NEW c \in Composers, TimerFires(c)
  PROVE  /\ Types' /\ Others(c) /\ UNCHANGED <<loads, dialogs>>
         /\ composer[c].life = "open" /\ composer'[c].life = "open"
         /\ composer'[c].malfunction = composer[c].malfunction
         /\ composer'[c].text = composer[c].text
         /\ composer[c].malfunction => composer'[c].deletes = composer[c].deletes
         /\ saves[c][2] = NoSave
         /\ \/ composer'[c].file = composer[c].file /\ UNCHANGED <<disk, saves>>
            \/ \E f \in SnapshotFiles(c) :
                 /\ composer'[c].file = f
                 /\ \A g \in Files : disk'[g] = IF g = f /\ composer[c].file = NoFile THEN Empty ELSE disk[g]
                 /\ saves'[c] = <<NewSave(c), Cancelled(saves[c][1])>>
<1>1. /\ composer \in [Composers -> Composer] /\ composer[c] \in Composer
      /\ saves \in [Composers -> Save \X Save] /\ saves[c][1] \in Save
      /\ disk \in [Files -> Absent .. MaxText]
  BY SlotFacts DEF Types, TypeOK, Slots
<1>2. /\ UNCHANGED <<loads, registry, dialogs, session>>
      /\ composer[c].life = "open" /\ saves[c][2] = NoSave
  BY DEF TimerFires
<1>3. CASE /\ composer[c].malfunction
           /\ composer' = [composer EXCEPT ![c].timer = FALSE]
           /\ UNCHANGED <<disk, saves>>
  <2> DEFINE K == [composer[c] EXCEPT !.timer = FALSE]
  <2>1. composer' = [composer EXCEPT ![c] = K] BY <1>1, <1>3
  <2>2. /\ K \in Composer /\ K.life = composer[c].life /\ K.file = composer[c].file
        /\ K.text = composer[c].text /\ K.deletes = composer[c].deletes
        /\ K.malfunction = composer[c].malfunction
    BY <1>1, UntimedFacts, Zenon
  <2> HIDE DEF K
  <2>3. /\ composer' \in [Composers -> Composer] /\ composer'[c] = K
        /\ \A d \in Composers : d # c => composer'[d] = composer[d]
    BY <1>1, <2>1, <2>2, OneComposer
  <2>4. Types' BY <1>2, <1>3, <2>3 DEF Types, TypeOK, registry
  <2> QED BY <1>2, <1>3, <2>2, <2>3, <2>4 DEF Others, registry
<1>4. ASSUME ~composer[c].malfunction, NEW f \in SnapshotFiles(c),
             composer' = [composer EXCEPT ![c].timer = FALSE, ![c].file = f,
                            ![c].deletes = @ \/ composer[c].file = NoFile],
             disk' = IF composer[c].file = NoFile THEN [disk EXCEPT ![f] = Empty] ELSE disk,
             saves' = [saves EXCEPT ![c] = <<NewSave(c), Cancelled(saves[c][1])>>]
      PROVE  /\ Types' /\ Others(c)
             /\ composer'[c].life = composer[c].life
             /\ composer'[c].malfunction = composer[c].malfunction
             /\ composer'[c].text = composer[c].text
             /\ composer'[c].file = f
             /\ \A g \in Files : disk'[g] = IF g = f /\ composer[c].file = NoFile THEN Empty ELSE disk[g]
             /\ saves'[c] = <<NewSave(c), Cancelled(saves[c][1])>>
  <2>1. f \in Files BY FileFacts
  <2>2. PICK b \in BOOLEAN : b = (composer[c].deletes \/ composer[c].file = NoFile) OBVIOUS
  <2> DEFINE K == [composer[c] EXCEPT !.timer = FALSE, !.file = f, !.deletes = b]
  <2>3. composer' = [composer EXCEPT ![c] = K] BY <1>1, <1>4, <2>2
  <2>4. /\ K \in Composer /\ K.life = composer[c].life /\ K.file = f
        /\ K.text = composer[c].text /\ K.malfunction = composer[c].malfunction
    BY <1>1, <2>1 DEF Composer
  <2> HIDE DEF K
  <2>5. /\ composer' \in [Composers -> Composer] /\ composer'[c] = K
        /\ \A d \in Composers : d # c => composer'[d] = composer[d]
    BY <1>1, <2>3, <2>4, OneComposer
  <2>6. NewSave(c) \in Save /\ Cancelled(saves[c][1]) \in Save
    BY <1>1, NewSaveFacts, CancelledFacts
  <2>7. /\ saves' \in [Composers -> Save \X Save]
        /\ saves'[c] = <<NewSave(c), Cancelled(saves[c][1])>>
        /\ \A d \in Composers : d # c => saves'[d] = saves[d]
    BY <1>1, <1>4, <2>6
  <2>8. Empty \in Absent .. MaxText BY Constant
  <2>9. /\ disk' \in [Files -> Absent .. MaxText]
        /\ \A g \in Files : disk'[g] = IF g = f /\ composer[c].file = NoFile THEN Empty ELSE disk[g]
    BY <1>1, <1>4, <2>1, <2>8
  <2>10. Types' BY <1>2, <2>5, <2>7, <2>9 DEF Types, TypeOK, registry
  <2> QED BY <1>2, <2>4, <2>5, <2>7, <2>9, <2>10 DEF Others, registry
<1>5. CASE /\ ~composer[c].malfunction /\ composer[c].file = NoFile
           /\ composer' = [composer EXCEPT ![c] = Rescheduled([@ EXCEPT !.timer = FALSE])]
           /\ UNCHANGED <<disk, saves>>
  <2> DEFINE K == [composer[c] EXCEPT !.timer = FALSE]
  <2>1. composer' = [composer EXCEPT ![c] = Rescheduled(K)] BY <1>1, <1>5
  <2>2. /\ K \in Composer /\ K.life = composer[c].life /\ K.file = composer[c].file
        /\ K.text = composer[c].text /\ K.deletes = composer[c].deletes
        /\ K.malfunction = composer[c].malfunction
    BY <1>1, UntimedFacts, Zenon
  <2> HIDE DEF K
  <2>3. /\ composer' \in [Composers -> Composer] /\ composer'[c] = Rescheduled(K)
        /\ \A d \in Composers : d # c => composer'[d] = composer[d]
    BY <1>1, <2>1, <2>2, ScheduledFacts, OneComposer
  <2>4. Types' BY <1>2, <1>5, <2>3 DEF Types, TypeOK, registry
  <2>5. /\ Rescheduled(K).life = K.life /\ Rescheduled(K).file = K.file
        /\ Rescheduled(K).text = K.text /\ Rescheduled(K).malfunction = K.malfunction
    BY <2>2, ScheduledFacts
  <2> QED BY <1>2, <1>5, <2>2, <2>3, <2>4, <2>5 DEF Others, registry
<1>6. CASE /\ ~composer[c].malfunction
           /\ \E f \in SnapshotFiles(c) :
                /\ composer' = [composer EXCEPT ![c].timer = FALSE, ![c].file = f,
                                  ![c].deletes = @ \/ composer[c].file = NoFile]
                /\ disk' = IF composer[c].file = NoFile THEN [disk EXCEPT ![f] = Empty] ELSE disk
           /\ saves' = [saves EXCEPT ![c] = <<NewSave(c), Cancelled(saves[c][1])>>]
  BY <1>2, <1>4, <1>6, Zenon
<1>7. \/ /\ composer[c].malfunction
         /\ composer' = [composer EXCEPT ![c].timer = FALSE]
         /\ UNCHANGED <<disk, saves>>
      \/ /\ ~composer[c].malfunction
         /\ \E f \in SnapshotFiles(c) :
              /\ composer' = [composer EXCEPT ![c].timer = FALSE, ![c].file = f,
                                ![c].deletes = @ \/ composer[c].file = NoFile]
              /\ disk' = IF composer[c].file = NoFile THEN [disk EXCEPT ![f] = Empty] ELSE disk
         /\ saves' = [saves EXCEPT ![c] = <<NewSave(c), Cancelled(saves[c][1])>>]
      \/ /\ ~composer[c].malfunction /\ composer[c].file = NoFile
         /\ composer' = [composer EXCEPT ![c] = Rescheduled([@ EXCEPT !.timer = FALSE])]
         /\ UNCHANGED <<disk, saves>>
  BY Zenon DEF TimerFires
<1> QED BY <1>2, <1>3, <1>5, <1>6, <1>7, Zenon

\* Composer c keeps what the others see of it.
Same(c) ==
  /\ composer'[c].life = composer[c].life /\ composer'[c].file = composer[c].file
  /\ composer'[c].text = composer[c].text /\ composer'[c].deletes = composer[c].deletes
  /\ composer'[c].malfunction = composer[c].malfunction

\* A save of composer c is over, and leaves D; it may have been what the
\* composer waited for, and then its file goes.
SaveOver(c, i, D) ==
  /\ Others(c) /\ UNCHANGED <<loads, dialogs>>
  /\ saves[c][i].stage # "none"
  /\ saves'[c][i] = NoSave /\ \A j \in Slots : j # i => saves'[c][j] = saves[c][j]
  /\ Same(c) \/ (composer'[c] = Unused /\ composer[c].life = "closing" /\ saves'[c] = Idle)
  /\ \A f \in Files :
       \/ disk'[f] = D[f]
       \/ /\ disk'[f] = Absent /\ composer'[c] = Unused
          /\ composer[c].life = "closing" /\ composer[c].deletes /\ composer[c].file = f

LEMMA SaveOverDoes ==
  ASSUME Types, NEW c \in Composers, NEW i \in Slots,
         NEW K \in {composer[c], Rescheduled(composer[c])},
         NEW D \in [Files -> Absent .. MaxText],
         saves[c][i].stage # "none",
         Released([composer EXCEPT ![c] = K], [saves EXCEPT ![c][i] = NoSave], D, c),
         UNCHANGED <<loads, registry, dialogs, session>>
  PROVE  Types' /\ SaveOver(c, i, D)
<1>1. /\ composer \in [Composers -> Composer] /\ composer[c] \in Composer
      /\ saves \in [Composers -> Save \X Save] /\ saves[c] \in Save \X Save
  BY DEF Types, TypeOK
<1>2. /\ K \in Composer /\ K.life = composer[c].life /\ K.file = composer[c].file
      /\ K.text = composer[c].text /\ K.deletes = composer[c].deletes
      /\ K.malfunction = composer[c].malfunction
  BY <1>1, ScheduledFacts
<1> DEFINE C == [composer EXCEPT ![c] = K]
           S == [saves EXCEPT ![c][i] = NoSave]
<1>3. C \in [Composers -> Composer] /\ C[c] = K /\ \A d \in Composers : d # c => C[d] = composer[d]
  BY <1>1, <1>2
<1>4. S = [saves EXCEPT ![c] = [saves[c] EXCEPT ![i] = NoSave]] BY <1>1
<1>5. /\ S \in [Composers -> Save \X Save] /\ S[c][i] = NoSave
      /\ \A j \in Slots : j # i => S[c][j] = saves[c][j]
      /\ \A d \in Composers : d # c => S[d] = saves[d]
  BY <1>1, <1>4, OneSave, Constant
<1>6. Released(C, S, D, c) OBVIOUS
<1> HIDE DEF C, S
<1>7. /\ saves' = S
      /\ composer' \in [Composers -> Composer]
      /\ disk' \in [Files -> Absent .. MaxText]
      /\ \A d \in Composers : d # c => composer'[d] = C[d]
      /\ \/ composer'[c] = C[c] /\ ~ (C[c].life = "closing" /\ S[c] = Idle)
         \/ composer'[c] = Unused /\ C[c].life = "closing" /\ S[c] = Idle
      /\ \A f \in Files :
           \/ disk'[f] = D[f]
           \/ /\ disk'[f] = Absent
              /\ composer'[c] = Unused /\ C[c].life = "closing"
              /\ C[c].deletes /\ C[c].file = f
  BY <1>3, <1>5, <1>6, ReleasedFacts, SMTT(60)
<1>8. Types' BY <1>5, <1>7 DEF Types, TypeOK, registry
<1>9. Others(c) BY <1>3, <1>5, <1>7 DEF Others, registry
<1>10. Same(c) \/ (composer'[c] = Unused /\ composer[c].life = "closing" /\ saves'[c] = Idle)
  BY <1>2, <1>3, <1>7 DEF Same
<1>11. \A f \in Files :
         \/ disk'[f] = D[f]
         \/ /\ disk'[f] = Absent /\ composer'[c] = Unused
            /\ composer[c].life = "closing" /\ composer[c].deletes /\ composer[c].file = f
  BY <1>2, <1>3, <1>7
<1> QED BY <1>5, <1>7, <1>8, <1>9, <1>10, <1>11 DEF SaveOver

LEMMA WrittenDoes ==
  ASSUME Types, NEW c \in Composers, NEW i \in Slots, Written(c, i)
  PROVE  Types' /\ \E D \in [Files -> Absent .. MaxText] :
           /\ SaveOver(c, i, D)
           /\ \A f \in Files : D[f] = IF f = composer[c].file THEN saves[c][i].text ELSE disk[f]
<1> DEFINE D == [disk EXCEPT ![composer[c].file] = saves[c][i].text]
<1>1. /\ composer \in [Composers -> Composer] /\ saves[c] \in Save \X Save
      /\ disk \in [Files -> Absent .. MaxText]
  BY DEF Types, TypeOK
<1>2. saves[c][i] \in Save BY <1>1, SlotFacts
<1>3. saves[c][i].text \in 0 .. MaxText BY <1>2 DEF Save
<1>4. saves[c][i].text \in Absent .. MaxText BY <1>3, Constant
<1>5. /\ D \in [Files -> Absent .. MaxText]
      /\ \A f \in Files : D[f] = IF f = composer[c].file THEN saves[c][i].text ELSE disk[f]
  BY <1>1, <1>4
<1>6. /\ saves[c][i].stage # "none"
      /\ Released(composer, [saves EXCEPT ![c][i] = NoSave], D, c)
      /\ UNCHANGED <<loads, registry, dialogs, session>>
  BY DEF Written
<1>7. [composer EXCEPT ![c] = composer[c]] = composer BY <1>1
<1> HIDE DEF D
<1>8. Types' /\ SaveOver(c, i, D)
  <2> DEFINE K == composer[c]
  <2>1. Released([composer EXCEPT ![c] = K], [saves EXCEPT ![c][i] = NoSave], D, c)
    BY <1>6, <1>7
  <2>2. K \in {composer[c], Rescheduled(composer[c])} OBVIOUS
  <2> QED BY <1>5, <1>6, <2>1, <2>2, SaveOverDoes
<1> QED BY <1>5, <1>8

LEMMA FailsDoes ==
  ASSUME Types, NEW c \in Composers, NEW i \in Slots, Fails(c, i)
  PROVE  Types' /\ SaveOver(c, i, disk)
<1>1. composer[c] \in Composer /\ disk \in [Files -> Absent .. MaxText]
  BY DEF Types, TypeOK
<1>2. PICK K \in {composer[c], Rescheduled(composer[c])} :
        Released([composer EXCEPT ![c] = K], [saves EXCEPT ![c][i] = NoSave], disk, c)
  BY DEF Fails
<1>3. saves[c][i].stage # "none" /\ UNCHANGED <<loads, registry, dialogs, session>>
  BY DEF Fails
<1> QED BY <1>1, <1>2, <1>3, SaveOverDoes

LEMMA WritingFailsDoes ==
  ASSUME Types, NEW c \in Composers, NEW i \in Slots, WritingFails(c, i)
  PROVE  Types' /\ Tears /\ \E D \in [Files -> Absent .. MaxText] :
           /\ SaveOver(c, i, D)
           /\ \A f \in Files : D[f] = disk[f] \/ (f = composer[c].file /\ D[f] \in {Empty, Torn})
<1>1. /\ composer \in [Composers -> Composer]
      /\ disk \in [Files -> Absent .. MaxText]
  BY DEF Types, TypeOK
<1>2. PICK left \in {Empty, Torn} :
        Released([composer EXCEPT ![c] = Rescheduled(@)], [saves EXCEPT ![c][i] = NoSave],
                 [disk EXCEPT ![composer[c].file] = left], c)
  BY DEF WritingFails
<1> DEFINE D == [disk EXCEPT ![composer[c].file] = left]
<1>3. left \in Absent .. MaxText BY Constant
<1>4. /\ D \in [Files -> Absent .. MaxText]
      /\ \A f \in Files : D[f] = disk[f] \/ (f = composer[c].file /\ D[f] \in {Empty, Torn})
  BY <1>1, <1>3
<1>5. saves[c][i].stage # "none" /\ UNCHANGED <<loads, registry, dialogs, session>> /\ Tears
  BY DEF WritingFails
<1>6. Types' /\ SaveOver(c, i, D)
  <2> DEFINE K == Rescheduled(composer[c])
  <2>1. Released([composer EXCEPT ![c] = K], [saves EXCEPT ![c][i] = NoSave], D, c)
    BY <1>1, <1>2
  <2>2. K \in {composer[c], Rescheduled(composer[c])} OBVIOUS
  <2> HIDE DEF D, K
  <2> QED BY <1>4, <1>5, <2>1, <2>2, SaveOverDoes
<1> QED BY <1>4, <1>5, <1>6

\* The window of composer c is destroyed: the composer waits for its saves, or
\* goes, its file with it.
Gone(c, D) ==
  /\ \A d \in Composers : d # c => composer'[d] = composer[d]
  /\ \/ composer'[c] = Unused /\ saves'[c] = Idle
     \/ /\ composer'[c].life = "closing" /\ composer'[c].file = composer[c].file
        /\ composer'[c].text = composer[c].text /\ composer'[c].deletes = composer[c].deletes
        /\ composer'[c].malfunction = composer[c].malfunction /\ saves'[c] # Idle
  /\ \A f \in Files :
       \/ disk'[f] = D[f]
       \/ /\ disk'[f] = Absent /\ composer'[c] = Unused
          /\ composer[c].deletes /\ composer[c].file = f

LEMMA DestroyedDoes ==
  ASSUME Types, NEW c \in Composers, NEW S \in [Composers -> Save \X Save],
         NEW D \in [Files -> Absent .. MaxText], NEW L,
         Destroyed(c, S, D, L)
  PROVE  /\ composer' \in [Composers -> Composer]
         /\ disk' \in [Files -> Absent .. MaxText]
         /\ saves' = S /\ loads' = L
         /\ Gone(c, D)
<1>1. composer \in [Composers -> Composer] /\ composer[c] \in Composer
  BY DEF Types, TypeOK
<1> DEFINE k == [composer[c] EXCEPT !.life = "closing", !.timer = FALSE]
           C == [composer EXCEPT ![c] = k]
<1>2. /\ k \in Composer /\ k.life = "closing" /\ k.file = composer[c].file
      /\ k.text = composer[c].text /\ k.deletes = composer[c].deletes
      /\ k.malfunction = composer[c].malfunction
  BY <1>1 DEF Composer
<1>3. C = [composer EXCEPT ![c].life = "closing", ![c].timer = FALSE] BY <1>1
<1>4. Released(C, S, D, c) /\ loads' = L BY <1>3 DEF Destroyed
<1> HIDE DEF k
<1>5. C \in [Composers -> Composer] /\ C[c] = k /\ \A d \in Composers : d # c => C[d] = composer[d]
  BY <1>1, <1>2
<1> HIDE DEF C
<1>6. /\ saves' = S
      /\ composer' \in [Composers -> Composer]
      /\ disk' \in [Files -> Absent .. MaxText]
      /\ \A d \in Composers : d # c => composer'[d] = C[d]
      /\ \/ composer'[c] = C[c] /\ ~ (C[c].life = "closing" /\ S[c] = Idle)
         \/ composer'[c] = Unused /\ C[c].life = "closing" /\ S[c] = Idle
      /\ \A f \in Files :
           \/ disk'[f] = D[f]
           \/ /\ disk'[f] = Absent
              /\ composer'[c] = Unused /\ C[c].life = "closing"
              /\ C[c].deletes /\ C[c].file = f
  BY <1>4, <1>5, ReleasedFacts
<1>7. Gone(c, D) BY <1>2, <1>5, <1>6 DEF Gone
<1> QED BY <1>4, <1>6, <1>7

\* A question is put over the others.
LEMMA AskedFacts ==
  ASSUME NEW s \in Seq(Question), NEW q \in Question
  PROVE  /\ Append(s, q) \in Seq(Question)
         /\ Len(Append(s, q)) = Len(s) + 1
         /\ Append(s, q)[Len(s) + 1] = q
BY AppendProperties

LEMMA CloseDoes ==
  ASSUME Types, NEW c \in Composers, NEW emits \in BOOLEAN, Close(c, emits)
  PROVE  /\ Types' /\ UNCHANGED <<loads, window, session, shared>>
         /\ composer[c].life = "open" /\ ~AskedAbout(c)
         /\ \A d \in Composers : d # c => saves'[d] = saves[d]
         /\ \A i \in Slots : /\ saves'[c][i].stage = saves[c][i].stage
                             /\ saves'[c][i].text = saves[c][i].text
         /\ saves'[c][2] = saves[c][2]
         /\ \/ /\ composer[c].malfunction /\ UNCHANGED <<disk, composer>>
               /\ dialogs' = Append(dialogs, [about |-> "malfunction", who |-> c])
            \/ /\ ~ (composer[c].malfunction /\ composer[c].file # NoFile)
               /\ Gone(c, disk) /\ UNCHANGED dialogs
<1>1. /\ composer \in [Composers -> Composer] /\ disk \in [Files -> Absent .. MaxText]
      /\ saves \in [Composers -> Save \X Save] /\ saves[c] \in Save \X Save
      /\ saves[c][1] \in Save /\ saves[c][2] \in Save
  BY DEF Types, TypeOK
<1> DEFINE T == [saves EXCEPT ![c] = <<Cancelled(@[1]), @[2]>>]
<1>2. PICK S \in {IF emits THEN T ELSE saves} :
       IF composer[c].malfunction /\ composer[c].file # NoFile
       THEN /\ dialogs' = Append(dialogs, [about |-> "malfunction", who |-> c])
            /\ saves' = S
            /\ UNCHANGED <<disk, composer, loads>>
       ELSE /\ Destroyed(c, S, disk, loads)
            /\ UNCHANGED dialogs
  BY Zenon DEF Close
<1>3. /\ composer[c].life = "open" /\ ~AskedAbout(c)
      /\ UNCHANGED <<registry, session>>
  BY DEF Close
<1>4. /\ Cancelled(saves[c][1]) \in Save
      /\ Cancelled(saves[c][1]).stage = saves[c][1].stage
      /\ Cancelled(saves[c][1]).text = saves[c][1].text
  BY <1>1, CancelledFacts
<1>5. /\ T \in [Composers -> Save \X Save]
      /\ T[c] = <<Cancelled(saves[c][1]), saves[c][2]>>
      /\ \A d \in Composers : d # c => T[d] = saves[d]
  BY <1>1, <1>4
<1> HIDE DEF T
<1>6. S = T \/ S = saves BY <1>2
<1>7. /\ S \in [Composers -> Save \X Save]
      /\ \A d \in Composers : d # c => S[d] = saves[d]
      /\ S[c][1].stage = saves[c][1].stage /\ S[c][1].text = saves[c][1].text
      /\ S[c][2] = saves[c][2]
  <2>1. CASE S = T BY <1>4, <1>5, <2>1
  <2>2. CASE S = saves BY <1>1, <2>2
  <2> QED BY <1>6, <2>1, <2>2
<1>8. CASE composer[c].malfunction /\ composer[c].file # NoFile
  <2>1. /\ dialogs' = Append(dialogs, [about |-> "malfunction", who |-> c])
        /\ saves' = S /\ UNCHANGED <<disk, composer, loads>>
    BY <1>2, <1>8, Zenon
  <2>2. dialogs' \in Seq(Question)
    <3>1. [about |-> "malfunction", who |-> c] \in Question BY DEF Question
    <3> QED BY <2>1, <3>1, AskedFacts DEF Types
  <2>3. \A i \in DOMAIN dialogs' : dialogs'[i] \in Question BY <2>2, EachQuestion
  <2>4. Types' BY <1>3, <1>7, <2>1, <2>2, <2>3 DEF Types, TypeOK, registry
  <2> QED BY <1>3, <1>7, <1>8, <2>1, <2>4 DEF registry, Slots
<1>9. CASE ~ (composer[c].malfunction /\ composer[c].file # NoFile)
  <2>1. Destroyed(c, S, disk, loads) /\ UNCHANGED dialogs BY <1>2, <1>9, Zenon
  <2>2. /\ composer' \in [Composers -> Composer]
        /\ disk' \in [Files -> Absent .. MaxText]
        /\ saves' = S /\ loads' = loads
        /\ Gone(c, disk)
    BY <1>1, <1>7, <2>1, DestroyedDoes
  <2>3. Types' BY <1>3, <1>7, <2>1, <2>2 DEF Types, TypeOK, registry
  <2> QED BY <1>3, <1>7, <1>9, <2>1, <2>2, <2>3 DEF registry, Slots
<1> QED BY <1>8, <1>9

-----------------------------------------------------------------------------
(* What the registry's steps do, and the end of a session.                 *)

LEMMA WindowAddedDoes ==
  ASSUME Types, NEW w \in Windows, WindowAdded(w)
  PROVE  /\ Types' /\ UNCHANGED <<disk, composer, saves, loads, dialogs, session, shared>>
         /\ window[w] = "none" /\ window'[w] = "added"
         /\ \A v \in Windows : v # w => window'[v] = window[v]
<1>1. /\ window \in [Windows -> {"none", "added", "mapped"}] /\ handlers \subseteq Windows
      /\ handlerId \in Windows \cup {NoWindow}
  BY DEF Types, TypeOK
<1>2. /\ UNCHANGED <<disk, composer, saves, loads, restored, dialogs, session, shared>>
      /\ window[w] = "none" /\ window' = [window EXCEPT ![w] = "added"]
      /\ \/ UNCHANGED <<handlers, handlerId>>
         \/ handlers' = handlers \cup {w} /\ handlerId' = w
  BY DEF WindowAdded
<1>3. /\ window' \in [Windows -> {"none", "added", "mapped"}] /\ window'[w] = "added"
      /\ \A v \in Windows : v # w => window'[v] = window[v]
  BY <1>1, <1>2
<1>4. handlers' \subseteq Windows /\ handlerId' \in Windows \cup {NoWindow}
  BY <1>1, <1>2
<1>5. Types' BY <1>2, <1>3, <1>4 DEF Types, TypeOK
<1> QED BY <1>2, <1>3, <1>5

LEMMA MappedDoes ==
  ASSUME Types, NEW w \in Windows, Mapped(w)
  PROVE  /\ Types' /\ UNCHANGED <<composer, saves, loads, session>>
         /\ window[w] = "added" /\ window'[w] = "mapped"
         /\ \A v \in Windows : v # w => window'[v] = window[v]
         /\ \/ UNCHANGED <<disk, dialogs, shared>>
            \/ /\ shared' = shared \cup {f \in Unowned : InUse(f)}
               /\ \A f \in Files : disk'[f] = disk[f] \/ (disk'[f] = Absent /\ f \in Unowned)
               /\ \/ UNCHANGED dialogs
                  \/ \E q \in Question : /\ q.about = "orphans" /\ q.files = Orphans
                                         /\ dialogs' = Append(dialogs, q)
<1>1. /\ window \in [Windows -> {"none", "added", "mapped"}] /\ handlers \subseteq Windows
      /\ handlerId \in Windows \cup {NoWindow} /\ disk \in [Files -> Absent .. MaxText]
      /\ restored \in BOOLEAN
  BY DEF Types, TypeOK
<1>2. /\ UNCHANGED <<composer, saves, loads, session>>
      /\ window[w] = "added" /\ window' = [window EXCEPT ![w] = "mapped"]
  BY DEF Mapped
<1>3. /\ window' \in [Windows -> {"none", "added", "mapped"}] /\ window'[w] = "mapped"
      /\ \A v \in Windows : v # w => window'[v] = window[v]
  BY <1>1, <1>2
<1> DEFINE D == [f \in Files |-> IF f \in Unowned \ Orphans THEN Absent ELSE disk[f]]
           q == [about |-> "orphans", window |-> w, files |-> Orphans]
<1>4. D \in [Files -> Absent .. MaxText] BY <1>1, Constant
<1>5. \A f \in Files : D[f] = disk[f] \/ (D[f] = Absent /\ f \in Unowned) OBVIOUS
<1>6. q \in Question /\ q.about = "orphans" /\ q.files = Orphans
  BY DEF Question, Orphans, Unowned
<1> DEFINE X == shared \cup {f \in Unowned : InUse(f)}
<1>7. \/ UNCHANGED <<disk, restored, handlers, handlerId, dialogs, shared>>
      \/ disk' = D /\ shared' = X /\ HandlerEnds(w) /\ UNCHANGED dialogs
      \/ /\ disk' = D /\ shared' = X /\ dialogs' = Append(dialogs, q)
         /\ UNCHANGED <<restored, handlers, handlerId>>
  BY Zenon DEF Mapped
<1>14. X \subseteq Files \cup {NoFile} /\ shared \subseteq Files \cup {NoFile}
  BY DEF Types, TypeOK, Unowned
<1>15. shared' \subseteq Files \cup {NoFile} BY <1>7, <1>14
<1> HIDE DEF D, q
<1>8. disk' \in [Files -> Absent .. MaxText] BY <1>1, <1>4, <1>7
<1>9. dialogs = dialogs' \/ dialogs' = Append(dialogs, q) BY <1>7
<1>10. dialogs' \in Seq(Question) BY <1>6, <1>9, AskedFacts DEF Types
<1>11. \A i \in DOMAIN dialogs' : dialogs'[i] \in Question BY <1>10, EachQuestion
<1>12. restored' \in BOOLEAN /\ handlers' \subseteq Windows /\ handlerId' \in Windows \cup {NoWindow}
  BY <1>1, <1>7 DEF HandlerEnds
<1>13. Types' BY <1>2, <1>3, <1>8, <1>10, <1>11, <1>12, <1>15 DEF Types, TypeOK
<1> QED BY <1>2, <1>3, <1>5, <1>6, <1>7, <1>13

LEMMA LoadsFacts ==
  ASSUME Types, NEW F
  PROVE  /\ WithLoads(F) \in [Files -> Nat]
         /\ \A f \in Files : WithLoads(F)[f] = IF f \in F THEN loads[f] + 1 ELSE loads[f]
         /\ Without(F) \in [Files -> Absent .. MaxText]
         /\ \A f \in Files : Without(F)[f] = IF f \in F THEN Absent ELSE disk[f]
<1>1. loads \in [Files -> Nat] /\ disk \in [Files -> Absent .. MaxText]
  BY DEF Types, TypeOK
<1> QED BY <1>1, Constant DEF WithLoads, Without

\* The answer to the question on top: the files it is about are loaded or
\* deleted, and the composer it is about is destroyed.
Answered(recover) ==
  LET q == Last(dialogs)
  IN  \/ /\ q.about = "orphans" /\ UNCHANGED <<composer, shared>>
         /\ \/ recover /\ loads' = WithLoads(q.files) /\ UNCHANGED disk
            \/ ~recover /\ disk' = Without(q.files) /\ UNCHANGED loads
      \/ /\ q.about = "malfunction" /\ q.who \in Composers
         /\ \/ /\ recover /\ Gone(q.who, disk)
               /\ loads' = WithLoads({composer[q.who].file})
               /\ shared' = IF saves[q.who] = Idle THEN shared
                            ELSE shared \cup {composer[q.who].file}
            \/ /\ ~recover /\ Gone(q.who, Without({composer[q.who].file}))
               /\ UNCHANGED <<loads, shared>>

LEMMA AnswerDoes ==
  ASSUME Types, NEW recover \in BOOLEAN, Answer(recover)
  PROVE  /\ Types' /\ UNCHANGED <<saves, window, session>>
         /\ dialogs # <<>> /\ dialogs' = Front(dialogs)
         /\ Answered(recover)
<1> DEFINE q == Last(dialogs)
           F == {composer[q.who].file}
           G == IF saves[q.who] = Idle THEN shared ELSE shared \cup F
<1>1. /\ dialogs # <<>> /\ dialogs' = Front(dialogs) /\ UNCHANGED <<window, session>>
      /\ \/ /\ q.about = "orphans"
            /\ HandlerEnds(q.window)
            /\ loads' = IF recover THEN WithLoads(q.files) ELSE loads
            /\ disk' = IF recover THEN disk ELSE Without(q.files)
            /\ UNCHANGED <<composer, saves, shared>>
         \/ /\ q.about = "malfunction"
            /\ IF recover THEN Destroyed(q.who, saves, disk, WithLoads(F)) /\ shared' = G
                          ELSE Destroyed(q.who, saves, Without(F), loads) /\ UNCHANGED shared
            /\ UNCHANGED <<restored, handlers, handlerId>>
  BY Zenon DEF Answer
<1>2. q \in Question /\ dialogs' \in Seq(Question) BY <1>1, TopQuestion DEF Types
<1>3. \A i \in DOMAIN dialogs' : dialogs'[i] \in Question BY <1>2, EachQuestion
<1> HIDE DEF q
<1>4. /\ loads \in [Files -> Nat] /\ disk \in [Files -> Absent .. MaxText]
      /\ handlers \subseteq Windows /\ saves \in [Composers -> Save \X Save]
      /\ window' \in [Windows -> {"none", "added", "mapped"}] /\ session' \in 1 .. MaxSessions
      /\ shared \subseteq Files \cup {NoFile}
  BY <1>1 DEF Types, TypeOK
<1>5. CASE /\ q.about = "orphans"
           /\ HandlerEnds(q.window)
           /\ loads' = IF recover THEN WithLoads(q.files) ELSE loads
           /\ disk' = IF recover THEN disk ELSE Without(q.files)
           /\ UNCHANGED <<composer, saves, shared>>
  <2>1. /\ loads' \in [Files -> Nat] /\ disk' \in [Files -> Absent .. MaxText]
        /\ \/ recover /\ loads' = WithLoads(q.files) /\ disk' = disk
           \/ ~recover /\ disk' = Without(q.files) /\ loads' = loads
    BY <1>4, <1>5, LoadsFacts
  <2>2. restored' \in BOOLEAN /\ handlers' \subseteq Windows /\ handlerId' \in Windows \cup {NoWindow}
    BY <1>4, <1>5 DEF HandlerEnds
  <2>3. Types' BY <1>2, <1>3, <1>4, <1>5, <2>1, <2>2 DEF Types, TypeOK
  <2> QED BY <1>1, <1>5, <2>1, <2>3 DEF q, Answered
<1>6. CASE /\ q.about = "malfunction"
           /\ IF recover THEN Destroyed(q.who, saves, disk, WithLoads(F)) /\ shared' = G
                         ELSE Destroyed(q.who, saves, Without(F), loads) /\ UNCHANGED shared
           /\ UNCHANGED <<restored, handlers, handlerId>>
  <2>1. q.who \in Composers BY <1>2, <1>6 DEF Question
  <2>2. G \subseteq Files \cup {NoFile}
    <3>1. composer[q.who].file \in Files \cup {NoFile} BY <2>1 DEF Types, TypeOK, Composer
    <3> QED BY <1>4, <3>1
  <2>3. CASE recover
    <3>1. Destroyed(q.who, saves, disk, WithLoads(F)) /\ shared' = G BY <1>6, <2>3
    <3>2. WithLoads(F) \in [Files -> Nat] BY LoadsFacts
    <3>3. /\ composer' \in [Composers -> Composer]
          /\ disk' \in [Files -> Absent .. MaxText]
          /\ saves' = saves /\ loads' = WithLoads(F)
          /\ Gone(q.who, disk)
      BY <1>4, <2>1, <3>1, <3>2, DestroyedDoes
    <3>4. Types' BY <1>2, <1>3, <1>4, <1>6, <2>2, <3>1, <3>2, <3>3 DEF Types, TypeOK
    <3> QED BY <1>1, <1>6, <2>1, <2>3, <3>1, <3>3, <3>4 DEF q, Answered
  <2>4. CASE ~recover
    <3>1. Destroyed(q.who, saves, Without(F), loads) /\ UNCHANGED shared BY <1>6, <2>4
    <3>2. Without(F) \in [Files -> Absent .. MaxText] BY LoadsFacts
    <3>3. /\ composer' \in [Composers -> Composer]
          /\ disk' \in [Files -> Absent .. MaxText]
          /\ saves' = saves /\ loads' = loads
          /\ Gone(q.who, Without(F))
      BY <1>4, <2>1, <3>1, <3>2, DestroyedDoes
    <3>4. Types' BY <1>2, <1>3, <1>4, <1>6, <3>1, <3>3 DEF Types, TypeOK
    <3> QED BY <1>1, <1>6, <2>1, <2>4, <3>1, <3>3, <3>4 DEF q, Answered
  <2> QED BY <2>3, <2>4
<1> QED BY <1>1, <1>5, <1>6

LEMMA LoadedDoes ==
  ASSUME Types, NEW f \in Files, Loaded(f)
  PROVE  /\ Types' /\ UNCHANGED <<disk, saves, window, dialogs, session, shared>>
         /\ loads[f] > 0 /\ loads'[f] = loads[f] - 1 /\ disk[f] # Absent
         /\ \A g \in Files : g # f => loads'[g] = loads[g]
         /\ \E c \in Composers :
              /\ composer[c].life = "none"
              /\ \A d \in Composers : d # c => composer'[d] = composer[d]
              /\ composer'[c].life = "open" /\ composer'[c].file = f
              /\ composer'[c].text >= disk[f] /\ composer'[c].malfunction = FALSE
<1>1. /\ loads \in [Files -> Nat] /\ disk \in [Files -> Absent .. MaxText]
      /\ composer \in [Composers -> Composer]
  BY DEF Types, TypeOK
<1>2. /\ UNCHANGED <<disk, saves, registry, dialogs, session>>
      /\ loads[f] > 0 /\ disk[f] # Absent /\ loads' = [loads EXCEPT ![f] = @ - 1]
  BY DEF Loaded
<1>3. /\ loads' \in [Files -> Nat] /\ loads'[f] = loads[f] - 1
      /\ \A g \in Files : g # f => loads'[g] = loads[g]
  BY <1>1, <1>2
<1>4. ASSUME NEW c \in Composers, composer[c].life = "none",
             composer' = [composer EXCEPT ![c] = Scheduled([Unused EXCEPT
                  !.life = "open", !.changed = TRUE, !.text = RestoredText(f),
                  !.file = f, !.deletes = TRUE])]
      PROVE  /\ Types'
             /\ \A d \in Composers : d # c => composer'[d] = composer[d]
             /\ composer'[c].life = "open" /\ composer'[c].file = f
             /\ composer'[c].text >= disk[f] /\ composer'[c].malfunction = FALSE
  <2>1. RestoredText(f) \in 0 .. MaxText /\ RestoredText(f) >= disk[f]
    <3>1. disk[f] \in -2 .. MaxText /\ disk[f] # -2 /\ MaxText \in Nat
      BY <1>1, <1>2, Constant
    <3>2. RestoredText(f) = IF disk[f] = -1 THEN 0 ELSE disk[f] BY Constant DEF RestoredText
    <3> QED BY <3>1, <3>2
  <2>2. PICK t \in 0 .. MaxText : t = RestoredText(f) BY <2>1
  <2> DEFINE K == [Unused EXCEPT !.life = "open", !.changed = TRUE, !.text = t,
                                 !.file = f, !.deletes = TRUE]
  <2>3. K \in Composer /\ K.life = "open" /\ K.text = t /\ K.file = f /\ K.malfunction = FALSE
    BY Constant DEF Composer
  <2>4. composer' = [composer EXCEPT ![c] = Scheduled(K)] BY <1>4, <2>2, Zenon
  <2> HIDE DEF K
  <2>5. /\ Scheduled(K) \in Composer /\ Scheduled(K).life = "open" /\ Scheduled(K).text = t
        /\ Scheduled(K).file = f /\ Scheduled(K).malfunction = FALSE
    BY <2>3, ScheduledFacts
  <2>6. /\ composer' \in [Composers -> Composer] /\ composer'[c] = Scheduled(K)
        /\ \A d \in Composers : d # c => composer'[d] = composer[d]
    BY <1>1, <2>4, <2>5, OneComposer
  <2>7. Types' BY <1>1, <1>2, <1>3, <2>6 DEF Types, TypeOK, registry
  <2> QED BY <2>1, <2>2, <2>5, <2>6, <2>7
<1>5. UNCHANGED <<disk, saves, window, dialogs, session, shared>> BY <1>2 DEF registry
<1> QED BY <1>2, <1>3, <1>4, <1>5, Zenon DEF Loaded

LEMMA LoadFailsDoes ==
  ASSUME Types, NEW f \in Files, LoadFails(f)
  PROVE  /\ Types' /\ UNCHANGED <<composer, disk, saves, window, dialogs, session, shared>>
         /\ loads[f] > 0 /\ loads'[f] = loads[f] - 1
         /\ \A g \in Files : g # f => loads'[g] = loads[g]
<1>1. loads \in [Files -> Nat] BY DEF Types, TypeOK
<1>2. /\ UNCHANGED <<composer, disk, saves, registry, dialogs, session>>
      /\ loads[f] > 0 /\ loads' = [loads EXCEPT ![f] = @ - 1]
  BY DEF LoadFails
<1>3. /\ loads' \in [Files -> Nat] /\ loads'[f] = loads[f] - 1
      /\ \A g \in Files : g # f => loads'[g] = loads[g]
  BY <1>1, <1>2
<1>4. Types' BY <1>2, <1>3 DEF Types, TypeOK, registry
<1> QED BY <1>2, <1>3, <1>4 DEF registry

\* A new session knows nothing, and a file is deleted at the end of the last
\* one only with its composer or without an answer.
LEMMA NextSessionDoes ==
  ASSUME Types, Crash \/ Exit
  PROVE  /\ Types'
         /\ composer' = [k \in Composers |-> Unused] /\ saves' = [k \in Composers |-> Idle]
         /\ loads' = [k \in Files |-> 0] /\ window' = [w \in Windows |-> "none"]
         /\ dialogs' = <<>> /\ shared' = {}
         /\ Crash => UNCHANGED disk
         /\ \A f \in Files :
              disk'[f] = disk[f] \/ (disk'[f] = Absent /\ (DeletedAtExit(f) \/ Unanswered(f)))
<1>1. disk \in [Files -> Absent .. MaxText] /\ session \in 1 .. MaxSessions /\ MaxSessions \in Nat
  BY AutosaveAssumption DEF Types, TypeOK
<1>2. /\ session < MaxSessions /\ session' = session + 1
      /\ Started(composer', saves', loads', window', restored', handlers', handlerId', dialogs')
      /\ shared' = {} /\ (Crash => UNCHANGED disk)
  BY DEF Crash, Exit, NextSession
<1>3. \/ disk' = disk
      \/ disk' = [f \in Files |-> IF DeletedAtExit(f) \/ Unanswered(f) THEN Absent ELSE disk[f]]
  BY DEF Crash, Exit
<1>4. /\ disk' \in [Files -> Absent .. MaxText]
      /\ \A f \in Files :
           disk'[f] = disk[f] \/ (disk'[f] = Absent /\ (DeletedAtExit(f) \/ Unanswered(f)))
  BY <1>1, <1>3, Constant
<1>5. session' \in 1 .. MaxSessions BY <1>1, <1>2
<1>6. /\ composer' = [k \in Composers |-> Unused] /\ saves' = [k \in Composers |-> Idle]
      /\ loads' = [k \in Files |-> 0] /\ window' = [w \in Windows |-> "none"]
      /\ dialogs' = <<>> /\ restored' = FALSE /\ handlers' = {} /\ handlerId' = NoWindow
  BY <1>2 DEF Started
<1>7. dialogs' \in Seq(Question) /\ \A i \in DOMAIN dialogs' : dialogs'[i] \in Question
  BY <1>6, EachQuestion, EmptySeq
<1>8. Types' BY <1>2, <1>4, <1>5, <1>6, <1>7, Constant DEF Types, TypeOK
<1> QED BY <1>2, <1>4, <1>6, <1>8

-----------------------------------------------------------------------------
(* The type invariant.                                                     *)

LEMMA TypesStep == Types /\ [Next]_vars => Types'
<1> SUFFICES ASSUME Types, [Next]_vars PROVE Types' OBVIOUS
<1>1. CASE UNCHANGED vars BY <1>1 DEF Types, TypeOK, vars
<1>2. CASE \E c \in Composers :
             \/ NewComposer(c) \/ Edit(c) \/ SaveDraft(c) \/ Malfunction(c) \/ TimerFires(c)
             \/ \E emits \in BOOLEAN : Close(c, emits)
  BY <1>2, NewComposerDoes, EditDoes, SaveDraftDoes, MalfunctionDoes, TimerFiresDoes,
     CloseDoes, Zenon
<1>3. CASE \E c \in Composers, i \in Slots :
             \/ ContentReady(c, i) \/ Built(c, i) \/ Written(c, i) \/ Fails(c, i)
             \/ WritingFails(c, i)
  BY <1>3, ContentReadyDoes, BuiltDoes, WrittenDoes, FailsDoes, WritingFailsDoes, Zenon
<1>4. CASE \/ \E w \in Windows : WindowAdded(w) \/ Mapped(w)
           \/ \E recover \in BOOLEAN : Answer(recover)
           \/ \E f \in Files : Loaded(f) \/ LoadFails(f)
           \/ Exit \/ Crash
  BY <1>4, WindowAddedDoes, MappedDoes, AnswerDoes, LoadedDoes, LoadFailsDoes,
     NextSessionDoes, Zenon
<1> QED BY <1>1, <1>2, <1>3, <1>4, Zenon DEF Next

\* Every variable keeps its type, broken editors, torn and slow saves included.
THEOREM AutosaveTyped == Spec => []TypeOK
<1>1. Types => TypeOK BY DEF Types
<1> QED BY InitTypes, TypesStep, <1>1, PTL DEF Spec
-----------------------------------------------------------------------------
(* A broken editor.                                                        *)

\* composer_autosave_editor_is_malfunction_cb() takes the file of a broken
\* composer from it, and nothing gives it back.
Detached == \A c \in Composers : composer[c].malfunction => ~composer[c].deletes

\* The steps that keep Detached: they break no composer but to detach its file.
LEMMA StillDetached ==
  ASSUME Detached,
         \A c \in Composers :
            \/ composer'[c] = composer[c]
            \/ ~composer'[c].malfunction
            \/ ~composer'[c].deletes
            \/ /\ composer'[c].malfunction = composer[c].malfunction
               /\ composer'[c].deletes = composer[c].deletes
  PROVE  Detached'
BY DEF Detached

LEMMA DetachedStep == Types /\ Detached /\ [Next]_vars => Detached'
<1> SUFFICES ASSUME Types, Detached, [Next]_vars PROVE Detached' OBVIOUS
<1>1. CASE UNCHANGED vars BY <1>1 DEF Detached, vars
<1>2. CASE \E c \in Composers : NewComposer(c) \/ Edit(c) \/ SaveDraft(c) \/ Malfunction(c)
  <2>1. PICK c \in Composers : NewComposer(c) \/ Edit(c) \/ SaveDraft(c) \/ Malfunction(c)
    BY <1>2
  <2> QED
    BY <2>1, NewComposerDoes, EditDoes, SaveDraftDoes, MalfunctionDoes, StillDetached DEF Others
<1>3. CASE \E c \in Composers : TimerFires(c)
  <2>1. PICK c \in Composers : TimerFires(c) BY <1>3
  <2>2. /\ Others(c) /\ composer'[c].malfunction = composer[c].malfunction
        /\ composer[c].malfunction => composer'[c].deletes = composer[c].deletes
    BY <2>1, TimerFiresDoes
  <2> QED BY <2>2 DEF Others, Detached
<1>4. CASE \E c \in Composers, emits \in BOOLEAN : Close(c, emits)
  <2>1. PICK c \in Composers, emits \in BOOLEAN : Close(c, emits) BY <1>4
  <2>2. UNCHANGED composer \/ Gone(c, disk) BY <2>1, CloseDoes
  <2> QED BY <2>2, Constant, StillDetached DEF Gone
<1>5. CASE \E c \in Composers, i \in Slots : ContentReady(c, i) \/ Built(c, i)
  <2>1. UNCHANGED composer BY <1>5, ContentReadyDoes, BuiltDoes
  <2> QED BY <2>1 DEF Detached
<1>6. CASE \E c \in Composers, i \in Slots : Written(c, i) \/ Fails(c, i) \/ WritingFails(c, i)
  <2>1. PICK c \in Composers, i \in Slots : Written(c, i) \/ Fails(c, i) \/ WritingFails(c, i)
    BY <1>6
  <2>2. \E D : SaveOver(c, i, D) BY <2>1, WrittenDoes, FailsDoes, WritingFailsDoes
  <2>3. Others(c) /\ (Same(c) \/ composer'[c] = Unused) BY <2>2 DEF SaveOver
  <2> QED BY <2>3, Constant, StillDetached DEF Others, Same
<1>7. CASE \E w \in Windows : WindowAdded(w) \/ Mapped(w)
  <2>1. UNCHANGED composer BY <1>7, WindowAddedDoes, MappedDoes
  <2> QED BY <2>1 DEF Detached
<1>8. CASE \E recover \in BOOLEAN : Answer(recover)
  <2>1. UNCHANGED composer \/ \E c \in Composers : \E D : Gone(c, D)
    BY <1>8, AnswerDoes DEF Answered
  <2> QED BY <2>1, Constant, StillDetached DEF Gone
<1>9. CASE \E f \in Files : Loaded(f) \/ LoadFails(f)
  <2>1. \/ UNCHANGED composer
        \/ \E c \in Composers : /\ \A d \in Composers : d # c => composer'[d] = composer[d]
                                /\ ~composer'[c].malfunction
    BY <1>9, LoadedDoes, LoadFailsDoes
  <2> QED BY <2>1, StillDetached
<1>10. CASE Exit \/ Crash
  <2>1. composer' = [k \in Composers |-> Unused] BY <1>10, NextSessionDoes
  <2> QED BY <2>1, Constant DEF Detached
<1> QED BY <1>1, <1>2, <1>3, <1>4, <1>5, <1>6, <1>7, <1>8, <1>9, <1>10, Zenon DEF Next

-----------------------------------------------------------------------------
(* Who has which file.                                                     *)

\* Question i is about what a session has left behind, file f among it.
AskedOf(i, f) == dialogs[i].about = "orphans" /\ f \in dialogs[i].files

\* One at most has file f: a composer, open or not finalised, for which it is
\* there as long as it is open; the load of the file; or a question.
Sole(f) ==
  /\ \A c \in Composers : composer[c].file = f =>
       /\ \A d \in Composers : composer[d].file = f => d = c
       /\ loads[f] = 0
       /\ \A i \in DOMAIN dialogs : ~AskedOf(i, f)
       /\ composer[c].life = "open" => disk[f] # Absent
  /\ loads[f] # 0 => loads[f] = 1 /\ \A i \in DOMAIN dialogs : ~AskedOf(i, f)
  /\ \A i, j \in DOMAIN dialogs : AskedOf(i, f) /\ AskedOf(j, f) => i = j

\* So it is with every file that was not given to somebody else meanwhile.
OwnInv ==
  /\ \A c \in Composers : composer[c].life = "none" => composer[c].file = NoFile
  /\ \A f \in Files \ shared : Sole(f)

LEMMA InitOwn == Init => OwnInv
<1> SUFFICES ASSUME Init PROVE OwnInv OBVIOUS
<1>1. /\ composer = [k \in Composers |-> Unused] /\ loads = [k \in Files |-> 0]
      /\ dialogs = <<>>
  BY DEF Init, Started
<1>2. DOMAIN dialogs = {} BY <1>1
<1> QED BY <1>1, <1>2, Constant DEF OwnInv, Sole

\* A file of a composer is one of the files.
LEMMA OwnedFile ==
  ASSUME Types
  PROVE  \A c \in Composers : composer[c].file \in Files \cup {NoFile}
BY DEF Types, TypeOK, Composer

\* A step that gives file f to nobody, and keeps it for the composer it has.
LEMMA StillSole ==
  ASSUME NEW f \in Files, Sole(f), loads'[f] = loads[f], UNCHANGED dialogs,
         \A c \in Composers : composer'[c].file = f =>
           /\ composer[c].file = f
           /\ composer'[c].life = "open" => disk'[f] # Absent
  PROVE  Sole(f)'
BY DEF Sole, AskedOf

\* Composers have a file only while they are there.
LEMMA StillNone ==
  ASSUME OwnInv, NEW c \in Composers,
         \A d \in Composers : d # c => composer'[d] = composer[d],
         composer'[c].life = "none" => composer'[c].file = NoFile
  PROVE  \A d \in Composers : composer'[d].life = "none" => composer'[d].file = NoFile
BY DEF OwnInv

\* A question is put over the others: who is asked about which file.
LEMMA AskedMore ==
  ASSUME NEW s \in Seq(Question), NEW q \in Question
  PROVE  /\ \A i \in DOMAIN Append(s, q) :
              \/ i \in DOMAIN s /\ Append(s, q)[i] = s[i]
              \/ i = Len(s) + 1 /\ Append(s, q)[i] = q
<1>1. /\ Len(s) \in Nat /\ DOMAIN s = 1 .. Len(s)
      /\ Append(s, q) \in Seq(Question) /\ Len(Append(s, q)) = Len(s) + 1
      /\ \A i \in 1 .. Len(s) : Append(s, q)[i] = s[i]
      /\ Append(s, q)[Len(s) + 1] = q
  BY LenProperties, AppendProperties
<1>2. DOMAIN Append(s, q) = 1 .. Len(s) + 1 BY <1>1, LenProperties
<1> QED BY <1>1, <1>2

\* The question on top is taken away: the others stay, and it was none of them.
LEMMA AskedLess ==
  ASSUME NEW s \in Seq(Question), s # <<>>
  PROVE  \A i \in DOMAIN Front(s) : i \in DOMAIN s /\ Front(s)[i] = s[i] /\ i # Len(s)
<1>1. Len(s) \in Nat /\ Len(s) >= 1 /\ DOMAIN s = 1 .. Len(s)
      /\ \A i \in 1 .. Len(s) : s[i] \in Question
  BY EmptySeq, LenProperties, ElementOfSeq, SMT
<1>2. PICK n \in Nat : n = Len(s) - 1 /\ \A i \in 1 .. n : i \in 1 .. Len(s) /\ i # Len(s)
  <2>1. \A m \in Nat : m >= 1 =>
          m - 1 \in Nat /\ \A i \in 1 .. m - 1 : i \in 1 .. m /\ i # m
    OBVIOUS
  <2>2. Len(s) \in Nat /\ Len(s) >= 1 BY <1>1
  <2> QED BY <2>1, <2>2, Zenon
<1>3. 1 \in Int /\ n \in Int /\ \A i \in 1 .. n : s[i] \in Question
  <2>1. 1 \in Int /\ n \in Int OBVIOUS
  <2>2. \A i \in 1 .. n : s[i] \in Question BY <1>1, <1>2, Zenon
  <2> QED BY <2>1, <2>2
<1>4. Front(s) = SubSeq(s, 1, n) BY <1>2 DEF Front
<1>5. /\ SubSeq(s, 1, n) \in Seq(Question)
      /\ Len(SubSeq(s, 1, n)) = IF 1 <= n THEN n - 1 + 1 ELSE 0
      /\ \A i \in 1 .. n - 1 + 1 : SubSeq(s, 1, n)[i] = s[1 + i - 1]
  BY <1>3, SubSeqProperties
<1>6. n - 1 + 1 = n /\ (~ (1 <= n) => n = 0) /\ \A i \in 1 .. n : 1 + i - 1 = i BY <1>2
<1>7. Front(s) \in Seq(Question) /\ Len(Front(s)) = n /\ \A i \in 1 .. n : Front(s)[i] = s[i]
  BY <1>4, <1>5, <1>6
<1>8. DOMAIN Front(s) = 1 .. n BY <1>7, LenProperties
<1> QED BY <1>1, <1>2, <1>7, <1>8

\* What a save over leaves in the files: another content, but never nothing.
Fills(c, D) == \A f \in Files : D[f] = disk[f] \/ (f = composer[c].file /\ D[f] # Absent)

LEMMA WrittenFills ==
  ASSUME Types, NEW c \in Composers, NEW i \in Slots, Written(c, i)
  PROVE  \E D : /\ SaveOver(c, i, D) /\ Fills(c, D)
                /\ \A f \in Files : D[f] = IF f = composer[c].file THEN saves[c][i].text ELSE disk[f]
<1>1. saves[c] \in Save \X Save BY DEF Types, TypeOK
<1>2. saves[c][i] \in Save BY <1>1, SlotFacts
<1>3. saves[c][i].text \in 0 .. MaxText BY <1>2 DEF Save
<1>4. saves[c][i].text # Absent BY <1>3, Constant
<1>5. PICK D \in [Files -> Absent .. MaxText] :
        /\ SaveOver(c, i, D)
        /\ \A f \in Files : D[f] = IF f = composer[c].file THEN saves[c][i].text ELSE disk[f]
  BY WrittenDoes
<1> QED BY <1>4, <1>5 DEF Fills

LEMMA SaveOverFills ==
  ASSUME Types, NEW c \in Composers, NEW i \in Slots,
         Written(c, i) \/ Fails(c, i) \/ WritingFails(c, i)
  PROVE  \E D : SaveOver(c, i, D) /\ Fills(c, D)
<1>1. CASE Written(c, i) BY <1>1, WrittenFills
<1>2. CASE Fails(c, i) BY <1>2, FailsDoes DEF Fills
<1>3. CASE WritingFails(c, i) BY <1>3, WritingFailsDoes, Constant DEF Fills
<1> QED BY <1>1, <1>2, <1>3

\* The composer that goes has its file to itself: nobody else misses it.
LEMMA SaveOverOwn ==
  ASSUME Types, OwnInv, NEW c \in Composers, NEW i \in Slots, NEW D,
         SaveOver(c, i, D), Fills(c, D)
  PROVE  OwnInv'
<1>1. UNCHANGED <<loads, dialogs, shared>> BY DEF SaveOver, Others
<1>2. \A d \in Composers : d # c => composer'[d] = composer[d] BY DEF SaveOver, Others
<1>3. \/ composer'[c].file = composer[c].file /\ composer'[c].life = composer[c].life
      \/ composer'[c] = Unused
  BY DEF SaveOver, Same
<1>4. ASSUME NEW f \in Files \ shared PROVE Sole(f)'
  <2>1. Sole(f) BY DEF OwnInv
  <2>2. ASSUME NEW d \in Composers, composer'[d].file = f
        PROVE  composer[d].file = f /\ (composer'[d].life = "open" => disk'[f] # Absent)
    <3>1. composer[d].file = f /\ composer'[d].life = composer[d].life
          /\ (d = c => composer'[c] # Unused)
      BY <1>2, <1>3, <2>2, Constant
    <3>2. ASSUME composer[d].life = "open" PROVE disk'[f] # Absent
      <4>1. disk[f] # Absent /\ \A e \in Composers : composer[e].file = f => e = d
        BY <2>1, <3>1, <3>2 DEF Sole
      <4>2. D[f] # Absent BY <4>1 DEF Fills
      <4>3. disk'[f] = D[f] BY <3>1, <4>1 DEF SaveOver
      <4> QED BY <4>2, <4>3
    <3> QED BY <3>1, <3>2
  <2> QED BY <1>1, <2>1, <2>2, StillSole
<1>5. composer'[c].life = "none" => composer'[c].file = NoFile BY <1>3, Constant DEF OwnInv
<1>6. \A d \in Composers : composer'[d].life = "none" => composer'[d].file = NoFile
  BY <1>2, <1>5, StillNone
<1> QED BY <1>1, <1>4, <1>6 DEF OwnInv

\* A name for a new file is nobody's.
LEMMA TimerFiresOwn ==
  ASSUME Types, OwnInv, NEW c \in Composers, TimerFires(c)
  PROVE  OwnInv'
<1>1. /\ Others(c) /\ UNCHANGED <<loads, dialogs, shared>>
      /\ composer[c].life = "open" /\ composer'[c].life = "open"
      /\ \A d \in Composers : d # c => composer'[d] = composer[d]
  BY TimerFiresDoes DEF Others
<1>2. \A d \in Composers : composer'[d].life = "none" => composer'[d].file = NoFile
  BY <1>1, StillNone
<1>3. CASE composer'[c].file = composer[c].file /\ UNCHANGED <<disk, saves>>
  <2>1. ASSUME NEW f \in Files \ shared PROVE Sole(f)'
    <3>1. Sole(f) BY DEF OwnInv
    <3>2. \A d \in Composers : composer'[d].file = f =>
            composer[d].file = f /\ (composer'[d].life = "open" => disk'[f] # Absent)
      BY <1>1, <1>3, <3>1 DEF Sole
    <3> QED BY <1>1, <3>1, <3>2, StillSole
  <2> QED BY <1>1, <1>2, <2>1 DEF OwnInv
<1>4. ASSUME NEW g \in SnapshotFiles(c), composer'[c].file = g,
             \A f \in Files : disk'[f] = IF f = g /\ composer[c].file = NoFile THEN Empty ELSE disk[f]
      PROVE  OwnInv'
  <2>1. g \in Files /\ (g = composer[c].file \/ (composer[c].file = NoFile /\ Unheard(g)))
    BY FileFacts
  <2>2. ASSUME NEW f \in Files \ shared PROVE Sole(f)'
    <3>1. Sole(f) BY DEF OwnInv
    <3>2. disk[f] # Absent => disk'[f] # Absent BY <1>4, Constant
    <3>3. CASE g = composer[c].file \/ f # g
      <4>1. \A d \in Composers : composer'[d].file = f =>
              composer[d].file = f /\ (composer'[d].life = "open" => disk'[f] # Absent)
        BY <1>1, <1>4, <3>1, <3>2, <3>3 DEF Sole
      <4> QED BY <1>1, <3>1, <4>1, StillSole
    <3>4. CASE composer[c].file = NoFile /\ Unheard(g) /\ f = g
      <4>1. \A d \in Composers : composer[d].file # f BY <3>4 DEF Unheard
      <4>2. loads[f] = 0 /\ \A i \in DOMAIN dialogs : ~AskedOf(i, f)
        <5>1. loads[f] \in Nat BY DEF Types, TypeOK
        <5> QED BY <3>4, <5>1 DEF Unheard, InUse, AskedOf
      <4>3. disk'[f] # Absent BY <1>4, <3>4, Constant
      <4>4. \A d \in Composers : composer'[d].file = f => d = c BY <1>1, <4>1
      <4> QED BY <1>1, <4>2, <4>3, <4>4 DEF Sole, AskedOf
    <3> QED BY <2>1, <3>3, <3>4
  <2> QED BY <1>1, <1>2, <2>2 DEF OwnInv
<1> QED BY <1>3, <1>4, TimerFiresDoes

\* A window destroyed: the file goes, or stays with the composer, or is deleted
\* already.
LEMMA GoneSole ==
  ASSUME NEW f \in Files, Sole(f), NEW c \in Composers, NEW D, Gone(c, D),
         D[f] = disk[f] \/ composer[c].file = f
  PROVE  \A d \in Composers : composer'[d].file = f =>
           composer[d].file = f /\ (composer'[d].life = "open" => disk'[f] # Absent)
<1>1. /\ \A d \in Composers : d # c => composer'[d] = composer[d]
      /\ composer'[c] = Unused
           \/ (composer'[c].life = "closing" /\ composer'[c].file = composer[c].file)
      /\ disk'[f] = D[f] \/ composer[c].file = f
  BY DEF Gone
<1> SUFFICES ASSUME NEW d \in Composers, composer'[d].file = f
             PROVE  composer[d].file = f /\ (composer'[d].life = "open" => disk'[f] # Absent)
  OBVIOUS
<1>2. CASE d = c BY <1>1, <1>2, Constant
<1>3. CASE d # c
  <2>1. composer[d].file = f /\ composer'[d].life = composer[d].life BY <1>1, <1>3
  <2>2. composer[c].file # f BY <1>3, <2>1 DEF Sole
  <2>3. disk'[f] = disk[f] BY <1>1, <2>2
  <2> QED BY <2>1, <2>3 DEF Sole
<1> QED BY <1>2, <1>3

\* A composer whose window is destroyed keeps its file or is no more.
LEMMA GoneNone ==
  ASSUME OwnInv, NEW c \in Composers, NEW D, Gone(c, D)
  PROVE  \A d \in Composers : composer'[d].life = "none" => composer'[d].file = NoFile
<1>1. /\ \A d \in Composers : d # c => composer'[d] = composer[d]
      /\ composer'[c] = Unused \/ composer'[c].life = "closing"
  BY DEF Gone
<1> QED BY <1>1, Constant, StillNone

LEMMA CloseOwn ==
  ASSUME Types, OwnInv, NEW c \in Composers, NEW emits \in BOOLEAN, Close(c, emits)
  PROVE  OwnInv'
<1>1. UNCHANGED <<loads, shared>> BY CloseDoes
<1>2. CASE UNCHANGED <<disk, composer>>
           /\ dialogs' = Append(dialogs, [about |-> "malfunction", who |-> c])
  <2> DEFINE q == [about |-> "malfunction", who |-> c]
  <2>1. q \in Question /\ q.about # "orphans" BY DEF Question
  <2>2. \A i \in DOMAIN dialogs' :
          (i \in DOMAIN dialogs /\ dialogs'[i] = dialogs[i]) \/ dialogs'[i] = q
    BY <1>2, <2>1, AskedMore DEF Types
  <2> HIDE DEF q
  <2>3. \A f \in Files, i \in DOMAIN dialogs' :
          AskedOf(i, f)' => i \in DOMAIN dialogs /\ AskedOf(i, f)
    BY <2>1, <2>2 DEF AskedOf
  <2>4. ASSUME NEW f \in Files \ shared PROVE Sole(f)'
    <3>1. Sole(f) BY DEF OwnInv
    <3> QED BY <1>1, <1>2, <2>3, <3>1 DEF Sole
  <2> QED BY <1>1, <1>2, <2>4 DEF OwnInv
<1>3. CASE Gone(c, disk) /\ UNCHANGED dialogs
  <2>1. ASSUME NEW f \in Files \ shared PROVE Sole(f)'
    <3>1. Sole(f) BY DEF OwnInv
    <3> QED BY <1>1, <1>3, <3>1, GoneSole, StillSole
  <2> QED BY <1>1, <1>3, <2>1, GoneNone DEF OwnInv
<1> QED BY <1>2, <1>3, CloseDoes

\* A question is asked about files that nobody has, but for those given away.
LEMMA MappedOwn ==
  ASSUME Types, OwnInv, NEW w \in Windows, Mapped(w)
  PROVE  OwnInv'
<1>1. UNCHANGED <<composer, loads>> BY MappedDoes
<1>2. CASE UNCHANGED <<disk, dialogs, shared>> BY <1>1, <1>2 DEF OwnInv, Sole, AskedOf
<1>3. CASE /\ shared' = shared \cup {f \in Unowned : InUse(f)}
           /\ \A f \in Files : disk'[f] = disk[f] \/ (disk'[f] = Absent /\ f \in Unowned)
           /\ \/ UNCHANGED dialogs
              \/ \E q \in Question : /\ q.about = "orphans" /\ q.files = Orphans
                                     /\ dialogs' = Append(dialogs, q)
  <2>1. ASSUME NEW f \in Files \ shared' PROVE Sole(f)'
    <3>1. Sole(f) /\ f \notin shared BY <1>3, <2>1 DEF OwnInv
    <3>2. \A c \in Composers : composer[c].file = f =>
            (composer[c].life = "open" => disk'[f] # Absent)
      <4> SUFFICES ASSUME NEW c \in Composers, composer[c].file = f, composer[c].life = "open"
                   PROVE  disk'[f] # Absent
        OBVIOUS
      <4>1. disk[f] # Absent BY <3>1 DEF Sole
      <4>2. f \notin Unowned BY DEF Unowned, Registered
      <4> QED BY <1>3, <4>1, <4>2
    <3>3. CASE UNCHANGED dialogs BY <1>1, <3>1, <3>2, <3>3, StillSole
    <3>4. ASSUME NEW q \in Question, q.files = Orphans, dialogs' = Append(dialogs, q)
          PROVE  Sole(f)'
      <4>1. \A i \in DOMAIN dialogs' :
              \/ i \in DOMAIN dialogs /\ dialogs'[i] = dialogs[i]
              \/ i = Len(dialogs) + 1 /\ dialogs'[i] = q
        BY <3>4, AskedMore DEF Types
      <4>2. CASE f \in Orphans
        <5>1. f \in Unowned /\ ~InUse(f) BY <1>3, <2>1, <4>2 DEF Orphans
        <5>2. \A c \in Composers : composer[c].file # f
          <6> SUFFICES ASSUME NEW c \in Composers, composer[c].file = f PROVE FALSE
            OBVIOUS
          <6>1. composer[c].life \in {"none", "open", "closing"} BY DEF Types, TypeOK, Composer
          <6>2. composer[c].life # "none" BY Constant DEF OwnInv
          <6>3. composer[c].life # "open" BY <5>1 DEF Unowned, Registered
          <6>4. composer[c].life # "closing" BY <5>1 DEF InUse
          <6> QED BY <6>1, <6>2, <6>3, <6>4
        <5>3. loads[f] = 0
          <6>1. loads[f] \in Nat BY DEF Types, TypeOK
          <6> QED BY <5>1, <6>1 DEF InUse
        <5>4. \A i \in DOMAIN dialogs : ~AskedOf(i, f) BY <5>1 DEF InUse, AskedOf
        <5>5. \A i \in DOMAIN dialogs' : AskedOf(i, f)' => i = Len(dialogs) + 1
          BY <4>1, <5>4 DEF AskedOf
        <5> QED BY <1>1, <5>2, <5>3, <5>5 DEF Sole
      <4>3. CASE f \notin Orphans
        <5>1. \A i \in DOMAIN dialogs' : AskedOf(i, f)' => i \in DOMAIN dialogs /\ AskedOf(i, f)
          BY <3>4, <4>1, <4>3 DEF AskedOf
        <5> QED BY <1>1, <3>1, <3>2, <5>1 DEF Sole
      <4> QED BY <4>2, <4>3
    <3> QED BY <1>3, <3>3, <3>4
  <2> QED BY <1>1, <2>1 DEF OwnInv
<1> QED BY <1>2, <1>3, MappedDoes

\* The files of a question go to its loads, or to nobody; the file of a broken
\* composer too, unless a save keeps the composer.
LEMMA AnswerOwn ==
  ASSUME Types, OwnInv, NEW recover \in BOOLEAN, Answer(recover)
  PROVE  OwnInv'
<1> DEFINE q == Last(dialogs)
<1>1. /\ dialogs # <<>> /\ dialogs' = Front(dialogs) /\ UNCHANGED saves
      /\ Answered(recover)
  BY AnswerDoes
<1>2. /\ Len(dialogs) \in DOMAIN dialogs /\ q = dialogs[Len(dialogs)]
      /\ \A i \in DOMAIN dialogs' :
           i \in DOMAIN dialogs /\ dialogs'[i] = dialogs[i] /\ i # Len(dialogs)
  BY <1>1, TopQuestion, AskedLess DEF Types
<1>3. \A f \in Files, i \in DOMAIN dialogs' :
        AskedOf(i, f)' => i \in DOMAIN dialogs /\ AskedOf(i, f) /\ i # Len(dialogs)
  BY <1>2 DEF AskedOf
<1>4. \A f \in Files : loads[f] \in Nat BY DEF Types, TypeOK
<1>5. CASE /\ q.about = "orphans" /\ UNCHANGED <<composer, shared>>
           /\ \/ loads' = WithLoads(q.files) /\ UNCHANGED disk
              \/ disk' = Without(q.files) /\ UNCHANGED loads
  <2>1. ASSUME NEW f \in Files \ shared PROVE Sole(f)'
    <3>1. Sole(f) BY DEF OwnInv
    <3>2. CASE f \in q.files
      <4>1. AskedOf(Len(dialogs), f) BY <1>2, <1>5, <3>2 DEF AskedOf
      <4>2. /\ \A c \in Composers : composer[c].file # f
            /\ loads[f] = 0 /\ \A i \in DOMAIN dialogs' : ~AskedOf(i, f)'
        BY <1>2, <1>3, <3>1, <4>1 DEF Sole
      <4>3. loads'[f] = 0 \/ loads'[f] = 1 BY <1>5, <4>2, LoadsFacts
      <4> QED BY <1>5, <4>2, <4>3 DEF Sole
    <3>3. CASE f \notin q.files
      <4>1. loads'[f] = loads[f] /\ disk'[f] = disk[f] BY <1>5, <3>3, LoadsFacts
      <4> QED BY <1>3, <1>5, <3>1, <4>1 DEF Sole
    <3> QED BY <3>2, <3>3
  <2> QED BY <1>5, <2>1 DEF OwnInv
<1>6. ASSUME q.who \in Composers, Gone(q.who, disk),
             loads' = WithLoads({composer[q.who].file}),
             shared' = IF saves[q.who] = Idle THEN shared
                       ELSE shared \cup {composer[q.who].file}
      PROVE  OwnInv'
  <2>1. ASSUME NEW f \in Files \ shared' PROVE Sole(f)'
    <3>1. f \notin shared /\ Sole(f) BY <1>6, <2>1 DEF OwnInv
    <3>2. \A d \in Composers : composer'[d].file = f =>
            composer[d].file = f /\ (composer'[d].life = "open" => disk'[f] # Absent)
      BY <1>6, <3>1, GoneSole
    <3>3. CASE composer[q.who].file = f
      <4>1. saves[q.who] = Idle BY <1>6, <2>1, <3>3
      <4>2. /\ \A d \in Composers : composer[d].file = f => d = q.who
            /\ loads[f] = 0 /\ \A i \in DOMAIN dialogs : ~AskedOf(i, f)
        BY <1>6, <3>1, <3>3 DEF Sole
      <4>3. composer'[q.who].file # f
        <5>1. composer'[q.who] = Unused BY <1>1, <1>6, <4>1 DEF Gone
        <5> QED BY <5>1, Constant
      <4>4. loads'[f] = 1 BY <1>6, <3>3, <4>2, LoadsFacts
      <4>5. \A d \in Composers : composer'[d].file # f BY <3>2, <4>2, <4>3
      <4> QED BY <1>3, <4>2, <4>4, <4>5 DEF Sole
    <3>4. CASE composer[q.who].file # f
      <4>1. loads'[f] = loads[f] BY <1>6, <3>4, LoadsFacts
      <4> QED BY <1>3, <3>1, <3>2, <4>1 DEF Sole
    <3> QED BY <3>3, <3>4
  <2> QED BY <1>6, <2>1, GoneNone DEF OwnInv
<1>7. ASSUME q.who \in Composers, Gone(q.who, Without({composer[q.who].file})),
             UNCHANGED <<loads, shared>>
      PROVE  OwnInv'
  <2>1. ASSUME NEW f \in Files \ shared PROVE Sole(f)'
    <3>1. Sole(f) BY DEF OwnInv
    <3>2. Without({composer[q.who].file})[f] = disk[f] \/ composer[q.who].file = f
      BY LoadsFacts
    <3>3. \A d \in Composers : composer'[d].file = f =>
            composer[d].file = f /\ (composer'[d].life = "open" => disk'[f] # Absent)
      BY <1>7, <3>1, <3>2, GoneSole
    <3> QED BY <1>3, <1>7, <3>1, <3>3 DEF Sole
  <2> QED BY <1>7, <2>1, GoneNone DEF OwnInv
<1> QED BY <1>1, <1>5, <1>6, <1>7 DEF Answered

\* A load of a file is over: it has its composer, or nobody.
LEMMA LoadedOwn ==
  ASSUME Types, OwnInv, NEW f \in Files, Loaded(f) \/ LoadFails(f)
  PROVE  OwnInv'
<1>1. /\ UNCHANGED <<disk, dialogs, shared>>
      /\ loads[f] > 0 /\ loads'[f] = loads[f] - 1
      /\ \A g \in Files : g # f => loads'[g] = loads[g]
      /\ \/ UNCHANGED composer
         \/ \E c \in Composers :
              /\ disk[f] # Absent /\ composer[c].life = "none"
              /\ \A d \in Composers : d # c => composer'[d] = composer[d]
              /\ composer'[c].life = "open" /\ composer'[c].file = f
  BY LoadedDoes, LoadFailsDoes
<1>2. f \notin shared =>
        /\ loads[f] = 1 /\ \A c \in Composers : composer[c].file # f
        /\ \A i \in DOMAIN dialogs : ~AskedOf(i, f)
  BY <1>1 DEF OwnInv, Sole
<1>3. f \notin shared => loads'[f] = 0 BY <1>1, <1>2
<1>4. CASE UNCHANGED composer
  <2>1. ASSUME NEW g \in Files \ shared PROVE Sole(g)'
    <3>1. Sole(g) BY DEF OwnInv
    <3>2. CASE g = f BY <1>1, <1>2, <1>3, <1>4, <3>2 DEF Sole, AskedOf
    <3>3. CASE g # f
      <4>1. loads'[g] = loads[g] BY <1>1, <3>3
      <4> QED BY <1>1, <1>4, <3>1, <4>1 DEF Sole, AskedOf
    <3> QED BY <3>2, <3>3
  <2> QED BY <1>1, <1>4, <2>1 DEF OwnInv
<1>5. ASSUME NEW c \in Composers, disk[f] # Absent, composer[c].life = "none",
             \A d \in Composers : d # c => composer'[d] = composer[d],
             composer'[c].life = "open", composer'[c].file = f
      PROVE  OwnInv'
  <2>1. ASSUME NEW g \in Files \ shared PROVE Sole(g)'
    <3>1. Sole(g) BY DEF OwnInv
    <3>2. CASE g = f BY <1>1, <1>2, <1>3, <1>5, <3>2 DEF Sole, AskedOf
    <3>3. CASE g # f
      <4>1. loads'[g] = loads[g] BY <1>1, <3>3
      <4>2. \A d \in Composers : composer'[d].file = g =>
              composer[d].file = g /\ (composer'[d].life = "open" => disk'[g] # Absent)
        BY <1>1, <1>5, <3>1, <3>3 DEF Sole
      <4> QED BY <1>1, <3>1, <4>1, <4>2, StillSole
    <3> QED BY <3>2, <3>3
  <2>2. \A d \in Composers : composer'[d].life = "none" => composer'[d].file = NoFile
    BY <1>5, StillNone
  <2> QED BY <1>1, <2>1, <2>2 DEF OwnInv
<1> QED BY <1>1, <1>4, <1>5

LEMMA OwnStep == Types /\ OwnInv /\ [Next]_vars => OwnInv'
<1> SUFFICES ASSUME Types, OwnInv, [Next]_vars PROVE OwnInv' OBVIOUS
<1>1. CASE UNCHANGED vars BY <1>1 DEF OwnInv, Sole, AskedOf, vars
<1>2. CASE \E c \in Composers : NewComposer(c) \/ Edit(c) \/ SaveDraft(c) \/ Malfunction(c)
  <2>1. PICK c \in Composers : NewComposer(c) \/ Edit(c) \/ SaveDraft(c) \/ Malfunction(c)
    BY <1>2
  <2>2. /\ Others(c) /\ UNCHANGED <<disk, loads, dialogs>>
        /\ \/ composer'[c].file = NoFile
           \/ composer'[c].life = composer[c].life /\ composer'[c].file = composer[c].file
    BY <2>1, NewComposerDoes, EditDoes, SaveDraftDoes, MalfunctionDoes
  <2>3. UNCHANGED shared /\ \A d \in Composers : d # c => composer'[d] = composer[d]
    BY <2>2 DEF Others
  <2>4. ASSUME NEW f \in Files \ shared PROVE Sole(f)'
    <3>1. Sole(f) BY DEF OwnInv
    <3>2. \A d \in Composers : composer'[d].file = f =>
            composer[d].file = f /\ (composer'[d].life = "open" => disk'[f] # Absent)
      BY <2>2, <2>3, <3>1, Constant DEF Sole
    <3> QED BY <2>2, <3>1, <3>2, StillSole
  <2>5. \A d \in Composers : composer'[d].life = "none" => composer'[d].file = NoFile
    BY <2>2, <2>3, StillNone DEF OwnInv
  <2> QED BY <2>3, <2>4, <2>5 DEF OwnInv
<1>3. CASE \E c \in Composers : TimerFires(c) BY <1>3, TimerFiresOwn
<1>4. CASE \E c \in Composers, emits \in BOOLEAN : Close(c, emits) BY <1>4, CloseOwn
<1>5. CASE \E c \in Composers, i \in Slots : ContentReady(c, i) \/ Built(c, i)
  <2>1. UNCHANGED <<disk, composer, loads, dialogs, shared>>
    BY <1>5, ContentReadyDoes, BuiltDoes DEF Others
  <2> QED BY <2>1 DEF OwnInv, Sole, AskedOf
<1>6. CASE \E c \in Composers, i \in Slots : Written(c, i) \/ Fails(c, i) \/ WritingFails(c, i)
  BY <1>6, SaveOverFills, SaveOverOwn
<1>7. CASE \E w \in Windows : WindowAdded(w)
  <2>1. UNCHANGED <<disk, composer, loads, dialogs, shared>> BY <1>7, WindowAddedDoes
  <2> QED BY <2>1 DEF OwnInv, Sole, AskedOf
<1>8. CASE \E w \in Windows : Mapped(w) BY <1>8, MappedOwn
<1>9. CASE \E recover \in BOOLEAN : Answer(recover) BY <1>9, AnswerOwn
<1>10. CASE \E f \in Files : Loaded(f) \/ LoadFails(f) BY <1>10, LoadedOwn
<1>11. CASE Exit \/ Crash
  <2>1. /\ composer' = [k \in Composers |-> Unused] /\ loads' = [k \in Files |-> 0]
        /\ dialogs' = <<>>
    BY <1>11, NextSessionDoes
  <2>2. DOMAIN dialogs' = {} BY <2>1
  <2> QED BY <2>1, <2>2, Constant DEF OwnInv, Sole
<1> QED
  BY <1>1, <1>2, <1>3, <1>4, <1>5, <1>6, <1>7, <1>8, <1>9, <1>10, <1>11, Zenon DEF Next

\* create_snapshot_file() and e_composer_find_orphans(): the file an open
\* composer saves to is there and nobody else's, with any number of windows,
\* broken editors and composers that are not finalised; only what the registry
\* or the user gave to a second one while it was in use can be shared.
THEOREM FilesAreOwned == Spec => []OwnFile
<1>1. OwnInv => OwnFile BY DEF OwnInv, Sole, OwnFile, Owns
<1>2. Types /\ OwnInv /\ [Next]_vars => (Types /\ OwnInv)' BY TypesStep, OwnStep
<1> QED BY InitTypes, InitOwn, <1>1, <1>2, PTL DEF Spec

-----------------------------------------------------------------------------
(* What a broken editor leaves on the disk.                                *)

LEMMA AskedStep ==
  ASSUME Types, Detached, OwnInv, [Next]_vars, NEW c \in Composers, NEW f \in Files \ shared,
         Owns(c, f), composer[c].malfunction, disk[f] # Absent, disk'[f] = Absent
  PROVE  AnsweredNo(c) \/ QuitInstead(c)
<1>1. /\ composer[c].life = "open" /\ composer[c].file = f /\ f # NoFile
      /\ ~composer[c].deletes
  BY Constant DEF Owns, Detached
<1>2. /\ \A d \in Composers : composer[d].file = f => d = c
      /\ \A i \in DOMAIN dialogs : ~AskedOf(i, f)
  BY <1>1 DEF OwnInv, Sole
<1>3. CASE UNCHANGED vars BY <1>3 DEF vars
<1>4. CASE \E d \in Composers : NewComposer(d) \/ Edit(d) \/ SaveDraft(d) \/ Malfunction(d)
  <2>1. UNCHANGED disk
    BY <1>4, NewComposerDoes, EditDoes, SaveDraftDoes, MalfunctionDoes
  <2> QED BY <2>1
<1>5. CASE \E d \in Composers : TimerFires(d)
  <2>1. disk' = disk \/ disk'[f] = disk[f] \/ disk'[f] = Empty BY <1>5, TimerFiresDoes
  <2> QED BY <2>1, Constant
<1>6. CASE \E d \in Composers, emits \in BOOLEAN : Close(d, emits)
  <2>1. PICK d \in Composers, emits \in BOOLEAN : Close(d, emits) BY <1>6
  <2>2. UNCHANGED disk \/ Gone(d, disk) BY <2>1, CloseDoes
  <2>3. composer[d].file = f /\ composer[d].deletes BY <2>2 DEF Gone
  <2> QED BY <1>1, <1>2, <2>3
<1>7. CASE \E d \in Composers, i \in Slots : ContentReady(d, i) \/ Built(d, i)
  <2>1. UNCHANGED disk BY <1>7, ContentReadyDoes, BuiltDoes
  <2> QED BY <2>1
<1>8. CASE \E d \in Composers, i \in Slots : Written(d, i) \/ Fails(d, i) \/ WritingFails(d, i)
  <2>1. PICK d \in Composers, i \in Slots : Written(d, i) \/ Fails(d, i) \/ WritingFails(d, i)
    BY <1>8
  <2>2. PICK D : SaveOver(d, i, D) /\ Fills(d, D) BY <2>1, SaveOverFills
  <2>3. D[f] # Absent BY <2>2 DEF Fills
  <2>4. composer[d].file = f /\ composer[d].deletes BY <2>2, <2>3 DEF SaveOver
  <2> QED BY <1>1, <1>2, <2>4
<1>9. CASE \E w \in Windows : WindowAdded(w) \/ Mapped(w)
  <2>1. f \in Unowned BY <1>9, WindowAddedDoes, MappedDoes
  <2> QED BY <1>1, <2>1 DEF Unowned, Registered
<1>10. CASE \E recover \in BOOLEAN : Answer(recover)
  <2> DEFINE q == Last(dialogs)
  <2>1. PICK recover \in BOOLEAN : Answer(recover) BY <1>10
  <2>2. dialogs # <<>> /\ Answered(recover) BY <2>1, AnswerDoes
  <2>3. Len(dialogs) \in DOMAIN dialogs /\ q = dialogs[Len(dialogs)]
    BY <2>2, TopQuestion DEF Types
  <2>4. CASE q.about = "orphans" /\ (UNCHANGED disk \/ disk' = Without(q.files))
    <3>1. f \in q.files BY <2>4, LoadsFacts
    <3> QED BY <1>2, <2>3, <2>4, <3>1 DEF AskedOf
  <2>5. ASSUME q.who \in Composers, Gone(q.who, disk) PROVE FALSE
    <3>1. composer[q.who].file = f /\ composer[q.who].deletes BY <2>5 DEF Gone
    <3> QED BY <1>1, <1>2, <2>5, <3>1
  <2>6. ASSUME q.about = "malfunction", q.who \in Composers, ~recover,
               Gone(q.who, Without({composer[q.who].file}))
        PROVE  AnsweredNo(c)
    <3>1. Without({composer[q.who].file})[f] = disk[f] \/ composer[q.who].file = f
      BY LoadsFacts
    <3>2. composer[q.who].file = f BY <2>6, <3>1 DEF Gone
    <3>3. q.who = c BY <1>2, <2>6, <3>2
    <3> QED BY <2>1, <2>6, <3>3 DEF AnsweredNo
  <2> QED BY <2>2, <2>4, <2>5, <2>6 DEF Answered
<1>11. CASE \E g \in Files : Loaded(g) \/ LoadFails(g)
  <2>1. UNCHANGED disk BY <1>11, LoadedDoes, LoadFailsDoes
  <2> QED BY <2>1
<1>12. CASE Exit \/ Crash
  <2>1. Exit /\ (DeletedAtExit(f) \/ Unanswered(f)) BY <1>12, NextSessionDoes
  <2>2. ~DeletedAtExit(f) BY <1>1, <1>2 DEF DeletedAtExit
  <2>3. PICK i \in DOMAIN dialogs :
          \/ AskedOf(i, f)
          \/ dialogs[i].about = "malfunction" /\ composer[dialogs[i].who].file = f
    BY <2>1, <2>2 DEF Unanswered, AskedOf
  <2>4. dialogs[i].about = "malfunction" /\ composer[dialogs[i].who].file = f
    BY <1>2, <2>3
  <2>5. dialogs[i] \in Question BY EachQuestion DEF Types
  <2>6. dialogs[i].who \in Composers BY <2>4, <2>5 DEF Question
  <2>7. dialogs[i].who = c BY <1>2, <2>4, <2>6
  <2> QED BY <2>1, <2>4, <2>7 DEF QuitInstead, AskedAbout
<1> QED
  BY <1>3, <1>4, <1>5, <1>6, <1>7, <1>8, <1>9, <1>10, <1>11, <1>12, Zenon DEF Next

\* What a broken editor has left on the disk is deleted by the answer to the
\* question about it, or by quitting instead, and by nothing else, however
\* saves, closing windows, loads, crashes and the ends of sessions interleave.
THEOREM DeletingIsAsked == Spec => AskedBeforeDeleting
<1>1. Init => Detached BY Constant DEF Init, Started, Detached
<1>2. Types /\ Detached /\ OwnInv /\ [Next]_vars
        => [\A c \in Composers, f \in Files \ shared :
              Owns(c, f) /\ composer[c].malfunction /\ disk[f] # Absent /\ disk'[f] = Absent
                => AnsweredNo(c) \/ QuitInstead(c)]_vars
  BY AskedStep, Zenon
<1>3. Types /\ Detached /\ OwnInv /\ [Next]_vars => (Types /\ Detached /\ OwnInv)'
  BY TypesStep, DetachedStep, OwnStep
<1> QED BY InitTypes, InitOwn, <1>1, <1>2, <1>3, PTL DEF Spec, AskedBeforeDeleting

-----------------------------------------------------------------------------
(* The order of what is written.                                           *)

\* Neither snapshot of a composer is newer than its message, and the one that
\* was replaced is cancelled and no newer than the one that took its place.
InOrder(c) ==
  /\ composer[c].file = NoFile => \A i \in Slots : saves[c][i].stage = "none"
  /\ saves[c][1].stage # "none" => saves[c][1].text <= composer[c].text
  /\ saves[c][2].stage # "none" =>
       /\ saves[c][2].cancelled /\ saves[c][2].text <= composer[c].text
       /\ saves[c][1].stage # "none" => saves[c][2].text <= saves[c][1].text

\* A file that one composer has is no newer than its message, nor than the
\* present snapshot.
UpToDate(c) ==
  composer[c].file \in Files \ shared =>
    /\ disk[composer[c].file] <= composer[c].text
    /\ saves[c][1].stage # "none" => disk[composer[c].file] <= saves[c][1].text

OrderInv == \A c \in Composers : InOrder(c) /\ UpToDate(c)

LEMMA Numbers ==
  ASSUME Types
  PROVE  /\ \A f \in Files : disk[f] \in Int /\ disk[f] >= Absent
         /\ \A c \in Composers : composer[c].text \in Int /\ composer[c].text >= 0
         /\ \A c \in Composers, i \in Slots :
              saves[c][i].text \in Int /\ saves[c][i].text >= 0
<1>1. ASSUME NEW f \in Files PROVE disk[f] \in Int /\ disk[f] >= Absent
  <2>1. disk[f] \in -2 .. MaxText BY Constant DEF Types, TypeOK
  <2> QED BY <2>1, Constant
<1>2. ASSUME NEW c \in Composers PROVE composer[c].text \in Int /\ composer[c].text >= 0
  <2>1. composer[c].text \in 0 .. MaxText BY DEF Types, TypeOK, Composer
  <2> QED BY <2>1, Constant
<1>3. ASSUME NEW c \in Composers, NEW i \in Slots
      PROVE  saves[c][i].text \in Int /\ saves[c][i].text >= 0
  <2>1. saves[c] \in Save \X Save BY DEF Types, TypeOK
  <2>2. saves[c][i] \in Save BY <2>1, SlotFacts
  <2>3. saves[c][i].text \in 0 .. MaxText BY <2>2 DEF Save
  <2> QED BY <2>3, Constant
<1> QED BY <1>1, <1>2, <1>3

\* Nothing comes before Absent.
LEMMA AbsentIsOld == \A n \in Int : n >= 0 => Absent <= n /\ Empty <= n
BY Constant

\* A composer that a step leaves alone, but for what is typed and deleted.
LEMMA StillOrder ==
  ASSUME Types, Types', NEW c \in Composers, InOrder(c), UpToDate(c),
         composer'[c].file = composer[c].file, composer'[c].text >= composer[c].text,
         \A i \in Slots : /\ saves'[c][i].stage = saves[c][i].stage
                          /\ saves'[c][i].text = saves[c][i].text,
         saves'[c][2] = saves[c][2],
         shared \subseteq shared',
         composer[c].file \in Files \ shared =>
           disk'[composer[c].file] \in {disk[composer[c].file], Absent}
  PROVE  InOrder(c)' /\ UpToDate(c)'
<1>1. /\ composer[c].text \in Int /\ composer[c].text >= 0 /\ composer'[c].text \in Int
      /\ composer'[c].text >= 0
  <2>1. composer'[c].text \in 0 .. MaxText BY DEF Types, TypeOK, Composer
  <2> QED BY <2>1, Numbers, Constant
<1>2. \A i \in Slots : saves[c][i].text \in Int /\ saves[c][i].text >= 0 BY Numbers
<1>3. \A f \in Files : disk[f] \in Int BY Numbers
<1>4. 1 \in Slots /\ 2 \in Slots BY DEF Slots
<1>5. InOrder(c)'
  <2>1. composer'[c].file = NoFile => \A i \in Slots : saves'[c][i].stage = "none"
    BY DEF InOrder
  <2>2. saves'[c][1].stage # "none" => saves'[c][1].text <= composer'[c].text
    BY <1>1, <1>2, <1>4 DEF InOrder
  <2>3. saves'[c][2].stage # "none" =>
          /\ saves'[c][2].cancelled /\ saves'[c][2].text <= composer'[c].text
          /\ saves'[c][1].stage # "none" => saves'[c][2].text <= saves'[c][1].text
    BY <1>1, <1>2, <1>4 DEF InOrder
  <2> QED BY <2>1, <2>2, <2>3 DEF InOrder
<1>6. UpToDate(c)'
  <2> SUFFICES ASSUME composer[c].file \in Files \ shared'
               PROVE  /\ disk'[composer[c].file] <= composer'[c].text
                      /\ saves'[c][1].stage # "none" =>
                           disk'[composer[c].file] <= saves'[c][1].text
    BY DEF UpToDate
  <2>1. /\ disk[composer[c].file] <= composer[c].text
        /\ saves[c][1].stage # "none" => disk[composer[c].file] <= saves[c][1].text
        /\ disk'[composer[c].file] \in {disk[composer[c].file], Absent}
        /\ disk[composer[c].file] \in Int
    BY <1>3 DEF UpToDate
  <2>2. Absent <= composer'[c].text /\ Absent <= saves[c][1].text
    BY <1>1, <1>2, <1>4, AbsentIsOld
  <2>3. saves'[c][1].text = saves[c][1].text /\ saves'[c][1].stage = saves[c][1].stage
    BY <1>4
  <2>4. disk[composer[c].file] <= composer'[c].text BY <1>1, <2>1
  <2> QED BY <2>1, <2>2, <2>3, <2>4
<1> QED BY <1>5, <1>6

\* A composer without a file has nothing under way.
LEMMA NothingOrder ==
  ASSUME NEW c \in Composers, composer'[c].file = NoFile,
         \A i \in Slots : saves'[c][i].stage = "none"
  PROVE  InOrder(c)' /\ UpToDate(c)'
BY Constant DEF InOrder, UpToDate, Slots

\* What a step does to file f that is not going backwards.
Kept(f) == disk'[f] = disk[f] \/ disk'[f] = Absent \/ disk[f] = Absent

LEMMA GoneOrder ==
  ASSUME Types, Types', OrderInv, NEW c \in Composers, NEW D, Gone(c, D),
         \A f \in Files : D[f] \in {disk[f], Absent},
         \A d \in Composers : d # c => saves'[d] = saves[d],
         \A i \in Slots : /\ saves'[c][i].stage = saves[c][i].stage
                          /\ saves'[c][i].text = saves[c][i].text,
         saves'[c][2] = saves[c][2],
         shared \subseteq shared'
  PROVE  OrderInv' /\ \A f \in Files : Kept(f)
<1>1. /\ \A d \in Composers : d # c => composer'[d] = composer[d]
      /\ \A f \in Files : disk'[f] \in {disk[f], Absent}
      /\ \/ composer'[c] = Unused /\ saves'[c] = Idle
         \/ composer'[c].file = composer[c].file /\ composer'[c].text = composer[c].text
  BY DEF Gone
<1>2. \A d \in Composers : composer[d].text >= composer[d].text BY Numbers
<1>3. ASSUME NEW d \in Composers PROVE InOrder(d)' /\ UpToDate(d)'
  <2>1. InOrder(d) /\ UpToDate(d) BY DEF OrderInv
  <2>2. CASE d # c BY <1>1, <1>2, <2>1, <2>2, StillOrder
  <2>3. CASE d = c /\ composer'[c] = Unused /\ saves'[c] = Idle
    <3>1. \A i \in Slots : Idle[i].stage = "none" BY DEF Slots, Idle, NoSave
    <3> QED BY <2>3, <3>1, Constant, NothingOrder
  <2>4. CASE d = c /\ composer'[c].file = composer[c].file /\ composer'[c].text = composer[c].text
    BY <1>1, <1>2, <2>1, <2>4, StillOrder
  <2> QED BY <1>1, <2>2, <2>3, <2>4
<1> QED BY <1>1, <1>3 DEF OrderInv, Kept

\* A save that is over leaves D in the file: nothing newer than the message, nor
\* than the snapshot that took its place.
LEMMA SaveOverOrder ==
  ASSUME Types, Types', OwnInv, OrderInv, NEW c \in Composers, NEW i \in Slots, NEW D,
         SaveOver(c, i, D),
         \A f \in Files : f # composer[c].file => D[f] = disk[f],
         composer[c].file \in Files \ shared =>
           /\ D[composer[c].file] \in Int
           /\ D[composer[c].file] <= composer[c].text
           /\ saves[c][1].stage # "none" /\ i # 1 => D[composer[c].file] <= saves[c][1].text
  PROVE  OrderInv' /\ \A f \in Files : Kept(f) \/ (f = composer[c].file /\ disk'[f] = D[f])
<1>1. /\ UNCHANGED shared
      /\ \A d \in Composers : d # c => composer'[d] = composer[d] /\ saves'[d] = saves[d]
      /\ saves'[c][i] = NoSave /\ \A j \in Slots : j # i => saves'[c][j] = saves[c][j]
      /\ Same(c) \/ (composer'[c] = Unused /\ saves'[c] = Idle)
      /\ \A f \in Files : disk'[f] = D[f] \/ (disk'[f] = Absent /\ composer[c].file = f)
  BY DEF SaveOver, Others
<1>2. \A f \in Files : Kept(f) \/ (f = composer[c].file /\ disk'[f] = D[f])
  BY <1>1 DEF Kept
<1>3. ASSUME NEW d \in Composers, d # c PROVE InOrder(d)' /\ UpToDate(d)'
  <2>1. InOrder(d) /\ UpToDate(d) BY DEF OrderInv
  <2>2. composer[d].file \in Files \ shared => composer[d].file # composer[c].file
    BY <1>3 DEF OwnInv, Sole
  <2>3. composer[d].file \in Files \ shared => disk'[composer[d].file] = disk[composer[d].file]
    BY <1>1, <2>2
  <2>4. composer[d].text >= composer[d].text BY Numbers
  <2> QED BY <1>1, <1>3, <2>1, <2>3, <2>4, StillOrder
<1>4. CASE composer'[c] = Unused /\ saves'[c] = Idle
  <2>1. \A j \in Slots : Idle[j].stage = "none" BY DEF Slots, Idle, NoSave
  <2>2. InOrder(c)' /\ UpToDate(c)' BY <1>4, <2>1, Constant, NothingOrder
  <2> QED BY <1>2, <1>3, <2>2 DEF OrderInv
<1>5. CASE Same(c)
  <2>1. composer'[c].file = composer[c].file /\ composer'[c].text = composer[c].text
    BY <1>5 DEF Same
  <2>2. InOrder(c) /\ UpToDate(c) BY DEF OrderInv
  <2>3. \A j \in Slots : saves'[c][j].stage # "none" => j # i /\ saves'[c][j] = saves[c][j]
    BY <1>1 DEF NoSave
  <2>4. 1 \in Slots /\ 2 \in Slots BY DEF Slots
  <2>5. InOrder(c)' BY <2>1, <2>2, <2>3, <2>4 DEF InOrder
  <2>6. UpToDate(c)'
    <3> SUFFICES ASSUME composer[c].file \in Files \ shared
                 PROVE  /\ disk'[composer[c].file] <= composer[c].text
                        /\ saves'[c][1].stage # "none" =>
                             disk'[composer[c].file] <= saves[c][1].text
      BY <1>1, <2>1, <2>3, <2>4 DEF UpToDate
    <3>1. /\ Absent <= composer[c].text /\ Absent <= saves[c][1].text
      BY <2>4, Numbers, AbsentIsOld
    <3>2. disk'[composer[c].file] \in {D[composer[c].file], Absent} BY <1>1
    <3>3. saves'[c][1].stage # "none" => D[composer[c].file] <= saves[c][1].text
      BY <2>3, <2>4
    <3> QED BY <3>1, <3>2, <3>3
  <2> QED BY <1>2, <1>3, <2>5, <2>6 DEF OrderInv
<1> QED BY <1>1, <1>4, <1>5

\* The snapshot that is asked for next is at least as new as the one it replaces.
LEMMA TimerFiresOrder ==
  ASSUME Types, Types', OwnInv, OrderInv, NEW c \in Composers, TimerFires(c)
  PROVE  OrderInv' /\ \A f \in Files : Kept(f)
<1>1. /\ UNCHANGED shared /\ saves[c][2] = NoSave /\ composer'[c].text = composer[c].text
      /\ \A d \in Composers : d # c => composer'[d] = composer[d] /\ saves'[d] = saves[d]
  BY TimerFiresDoes DEF Others
<1>2. \A d \in Composers : composer[d].text >= composer[d].text BY Numbers
<1>3. CASE composer'[c].file = composer[c].file /\ UNCHANGED <<disk, saves>>
  <2>1. ASSUME NEW d \in Composers PROVE InOrder(d)' /\ UpToDate(d)'
    <3>1. InOrder(d) /\ UpToDate(d) BY DEF OrderInv
    <3> QED BY <1>1, <1>2, <1>3, <3>1, StillOrder
  <2> QED BY <1>3, <2>1 DEF OrderInv, Kept
<1>4. ASSUME NEW g \in SnapshotFiles(c), composer'[c].file = g,
             \A f \in Files : disk'[f] = IF f = g /\ composer[c].file = NoFile THEN Empty ELSE disk[f],
             saves'[c] = <<NewSave(c), Cancelled(saves[c][1])>>
      PROVE  OrderInv' /\ \A f \in Files : Kept(f)
  <2>1. g \in Files /\ (g = composer[c].file \/ (composer[c].file = NoFile /\ Unheard(g)))
    BY FileFacts
  <2>2. ASSUME NEW d \in Composers, d # c PROVE InOrder(d)' /\ UpToDate(d)'
    <3>1. InOrder(d) /\ UpToDate(d) BY DEF OrderInv
    <3>2. composer[d].file \in Files => disk'[composer[d].file] = disk[composer[d].file]
      BY <1>4, <2>1, Constant DEF Unheard
    <3> QED BY <1>1, <1>2, <2>2, <3>1, <3>2, StillOrder
  <2>3. 1 \in Slots /\ 2 \in Slots BY DEF Slots
  <2>4. /\ composer[c].text \in Int /\ composer[c].text >= 0
        /\ saves[c][1].text \in Int /\ saves[c][1].text >= 0
    BY <2>3, Numbers
  <2>5. InOrder(c) /\ UpToDate(c) BY DEF OrderInv
  <2>6. /\ saves'[c][1].text \in {saves[c][1].text, composer[c].text}
        /\ saves[c][1].stage = "none" => saves'[c][1].text = composer[c].text
        /\ saves'[c][1].stage # "none"
    BY <1>4, NewSaveFacts
  <2>7. saves[c][1].stage # "none" => saves[c][1].text <= composer[c].text
    BY <2>5 DEF InOrder
  <2>8. /\ saves'[c][1].text <= composer[c].text
        /\ saves[c][1].stage # "none" => saves[c][1].text <= saves'[c][1].text
    BY <2>4, <2>6, <2>7
  <2>9. /\ saves'[c][2].stage = saves[c][1].stage /\ saves'[c][2].text = saves[c][1].text
        /\ saves[c][1].stage # "none" => saves'[c][2].cancelled
    <3>1. saves[c] \in Save \X Save BY DEF Types, TypeOK
    <3>2. saves[c][1] \in Save BY <3>1
    <3> QED BY <1>4, <3>2, CancelledFacts
  <2>10. InOrder(c)' BY <1>1, <1>4, <2>1, <2>7, <2>8, <2>9, Constant DEF InOrder
  <2>11. UpToDate(c)'
    <3> SUFFICES ASSUME g \in Files \ shared
                 PROVE  disk'[g] <= composer[c].text /\ disk'[g] <= saves'[c][1].text
      BY <1>1, <1>4 DEF UpToDate
    <3>1. CASE composer[c].file = NoFile
      <4>1. disk'[g] = Empty BY <1>4, <2>1, <3>1
      <4>2. saves'[c][1].text \in Int /\ saves'[c][1].text >= 0 BY <2>4, <2>6
      <4> QED BY <2>4, <4>1, <4>2, AbsentIsOld
    <3>2. CASE composer[c].file = g /\ g # NoFile
      <4>1. disk'[g] = disk[g] BY <1>4, <3>2
      <4>2. /\ disk[g] <= composer[c].text
            /\ saves[c][1].stage # "none" => disk[g] <= saves[c][1].text
        BY <2>5, <3>2 DEF UpToDate
      <4> QED BY <2>6, <4>1, <4>2
    <3> QED BY <2>1, <3>1, <3>2, Constant
  <2>12. \A f \in Files : Kept(f) BY <1>4, <2>1, Constant DEF Kept, Unheard
  <2> QED BY <2>2, <2>10, <2>11, <2>12 DEF OrderInv
<1> QED BY <1>3, <1>4, TimerFiresDoes

\* The editor's answer is at least as new as the question, and goes to the
\* present snapshot: the other is cancelled.
LEMMA BuildingOrder ==
  ASSUME Types, Types', OrderInv, NEW c \in Composers, NEW i \in Slots,
         ContentReady(c, i) \/ Built(c, i)
  PROVE  OrderInv' /\ \A f \in Files : Kept(f)
<1>1. /\ UNCHANGED <<disk, composer, shared>>
      /\ \A d \in Composers : d # c => saves'[d] = saves[d]
      /\ saves[c][i].stage # "none" /\ ~saves[c][i].cancelled
      /\ \A j \in Slots : j # i => saves'[c][j] = saves[c][j]
      /\ \/ saves'[c][i].text = saves[c][i].text
         \/ saves'[c][i].text >= saves[c][i].text /\ saves'[c][i].text <= composer[c].text
  BY ContentReadyDoes, BuiltDoes DEF Others
<1>2. InOrder(c) /\ UpToDate(c) BY DEF OrderInv
<1>3. i = 1 BY <1>1, <1>2 DEF InOrder, Slots
<1>4. 1 \in Slots /\ 2 \in Slots BY DEF Slots
<1>5. saves'[c][2] = saves[c][2] BY <1>1, <1>3, <1>4
<1>6. /\ saves[c][1].text \in Int /\ saves[c][2].text \in Int /\ composer[c].text \in Int
      /\ \A f \in Files : disk[f] \in Int
  BY <1>4, Numbers
<1>7. saves'[c][1].text \in Int
  <2>1. saves'[c] \in Save \X Save BY DEF Types, TypeOK
  <2>2. saves'[c][1] \in Save BY <2>1
  <2>3. saves'[c][1].text \in 0 .. MaxText BY <2>2 DEF Save
  <2> QED BY <2>3, Constant
<1>8. saves[c][1].stage # "none" BY <1>1, <1>3
<1>9. saves'[c][1].text >= saves[c][1].text /\ saves'[c][1].text <= composer[c].text
  BY <1>1, <1>2, <1>3, <1>6, <1>8 DEF InOrder
<1>10. InOrder(c)'
  <2>1. composer[c].file # NoFile BY <1>2, <1>4, <1>8 DEF InOrder
  <2>2. saves[c][2].stage # "none" => saves[c][2].text <= saves'[c][1].text
    BY <1>2, <1>6, <1>7, <1>8, <1>9 DEF InOrder
  <2> QED BY <1>1, <1>2, <1>5, <1>9, <2>1, <2>2 DEF InOrder
<1>11. UpToDate(c)'
  <2> SUFFICES ASSUME composer[c].file \in Files \ shared
               PROVE  /\ disk[composer[c].file] <= composer[c].text
                      /\ disk[composer[c].file] <= saves'[c][1].text
    BY <1>1 DEF UpToDate
  <2>1. /\ disk[composer[c].file] <= composer[c].text
        /\ disk[composer[c].file] <= saves[c][1].text
    BY <1>2, <1>8 DEF UpToDate
  <2> QED BY <1>6, <1>7, <1>9, <2>1
<1>12. \A d \in Composers : d # c => InOrder(d)' /\ UpToDate(d)'
  BY <1>1 DEF OrderInv, InOrder, UpToDate
<1> QED BY <1>1, <1>10, <1>11, <1>12 DEF OrderInv, Kept

\* What the end of a save leaves in the file of one composer.
LEMMA EndsOrder ==
  ASSUME Types, Types', OwnInv, OrderInv, NEW c \in Composers, NEW i \in Slots,
         Written(c, i) \/ Fails(c, i) \/ WritingFails(c, i)
  PROVE  /\ OrderInv'
         /\ \A f \in Files \ shared :
              Kept(f) \/ disk'[f] >= disk[f] \/ WrittenLate(f) \/ WrittenInPart(f)
<1>1. 1 \in Slots /\ 2 \in Slots BY DEF Slots
<1>2. InOrder(c) /\ UpToDate(c) BY DEF OrderInv
<1>3. composer[c].text \in Int /\ composer[c].text >= 0 BY Numbers
<1>4. /\ saves[c][1].text \in Int /\ saves[c][1].text >= 0
      /\ saves[c][2].text \in Int /\ saves[c][2].text >= 0
  BY <1>1, Numbers
<1>5. \A f \in Files : disk[f] \in Int BY Numbers
<1>6. CASE Written(c, i)
  <2>1. PICK D : /\ SaveOver(c, i, D)
                 /\ \A f \in Files :
                      D[f] = IF f = composer[c].file THEN saves[c][i].text ELSE disk[f]
    BY <1>6, WrittenFills
  <2>2. saves[c][i].stage # "none" BY <2>1 DEF SaveOver
  <2>3. CASE i = 1
    <3>1. composer[c].file \in Files \ shared =>
            /\ D[composer[c].file] \in Int /\ D[composer[c].file] <= composer[c].text
            /\ saves[c][1].stage # "none" /\ i # 1 => D[composer[c].file] <= saves[c][1].text
      BY <1>2, <1>4, <2>1, <2>2, <2>3 DEF InOrder
    <3>2. \A f \in Files : f # composer[c].file => D[f] = disk[f] BY <2>1
    <3>3. OrderInv' /\ \A f \in Files : Kept(f) \/ (f = composer[c].file /\ disk'[f] = D[f])
      BY <2>1, <3>1, <3>2, SaveOverOrder
    <3>4. ASSUME NEW f \in Files \ shared PROVE Kept(f) \/ disk'[f] >= disk[f]
      <4>1. CASE f = composer[c].file /\ disk'[f] = D[f]
        <5>1. disk[f] <= saves[c][1].text BY <1>2, <2>2, <2>3, <4>1 DEF UpToDate
        <5>2. disk'[f] = saves[c][1].text BY <2>1, <2>3, <4>1
        <5> QED BY <1>4, <1>5, <5>1, <5>2
      <4> QED BY <3>3, <4>1
    <3> QED BY <3>3, <3>4
  <2>4. CASE i = 2
    <3>1. /\ saves[c][2].cancelled /\ saves[c][2].text <= composer[c].text
          /\ saves[c][1].stage # "none" => saves[c][2].text <= saves[c][1].text
      BY <1>2, <2>2, <2>4 DEF InOrder
    <3>2. composer[c].file \in Files \ shared =>
            /\ D[composer[c].file] \in Int /\ D[composer[c].file] <= composer[c].text
            /\ saves[c][1].stage # "none" /\ i # 1 => D[composer[c].file] <= saves[c][1].text
      BY <1>4, <2>1, <2>4, <3>1
    <3>3. \A f \in Files : f # composer[c].file => D[f] = disk[f] BY <2>1
    <3>4. OrderInv' /\ \A f \in Files : Kept(f) \/ (f = composer[c].file /\ disk'[f] = D[f])
      BY <2>1, <3>2, <3>3, SaveOverOrder
    <3>5. \A f \in Files : f = composer[c].file => WrittenLate(f)
      BY <1>6, <2>4, <3>1 DEF WrittenLate
    <3> QED BY <3>4, <3>5
  <2> QED BY <2>3, <2>4 DEF Slots
<1>7. CASE Fails(c, i)
  <2>1. SaveOver(c, i, disk) BY <1>7, FailsDoes
  <2>2. composer[c].file \in Files \ shared =>
          /\ disk[composer[c].file] \in Int /\ disk[composer[c].file] <= composer[c].text
          /\ saves[c][1].stage # "none" /\ i # 1 => disk[composer[c].file] <= saves[c][1].text
    BY <1>2, <1>5 DEF UpToDate
  <2>3. OrderInv' /\ \A f \in Files : Kept(f) \/ (f = composer[c].file /\ disk'[f] = disk[f])
    BY <2>1, <2>2, SaveOverOrder
  <2> QED BY <2>3 DEF Kept
<1>8. CASE WritingFails(c, i)
  <2>1. PICK D : /\ SaveOver(c, i, D)
                 /\ \A f \in Files :
                      D[f] = disk[f] \/ (f = composer[c].file /\ D[f] \in {Empty, Torn})
    BY <1>8, WritingFailsDoes
  <2>2. \A n \in Int : n >= 0 => Empty <= n /\ Torn <= n BY Constant
  <2>3. Empty \in Int /\ Torn \in Int BY Constant
  <2>4. composer[c].file \in Files \ shared =>
          /\ D[composer[c].file] \in Int /\ D[composer[c].file] <= composer[c].text
          /\ saves[c][1].stage # "none" /\ i # 1 => D[composer[c].file] <= saves[c][1].text
    <3> SUFFICES ASSUME NEW f \in Files \ shared, f = composer[c].file
                 PROVE  /\ D[f] \in Int /\ D[f] <= composer[c].text
                        /\ saves[c][1].stage # "none" => D[f] <= saves[c][1].text
      OBVIOUS
    <3>1. CASE D[f] = disk[f] BY <1>2, <1>5, <3>1 DEF UpToDate
    <3>2. CASE D[f] \in {Empty, Torn} BY <1>3, <1>4, <2>2, <2>3, <3>2
    <3> QED BY <2>1, <3>1, <3>2
  <2>5. \A f \in Files : f # composer[c].file => D[f] = disk[f] BY <2>1
  <2>6. OrderInv' /\ \A f \in Files : Kept(f) \/ (f = composer[c].file /\ disk'[f] = D[f])
    BY <2>1, <2>4, <2>5, SaveOverOrder
  <2>7. \A f \in Files : f = composer[c].file => WrittenInPart(f) BY <1>8 DEF WrittenInPart
  <2> QED BY <2>6, <2>7
<1> QED BY <1>6, <1>7, <1>8

LEMMA OrderStep ==
  ASSUME Types, OwnInv, OrderInv, [Next]_vars
  PROVE  /\ OrderInv'
         /\ \A f \in Files \ shared :
              Kept(f) \/ disk'[f] >= disk[f] \/ WrittenLate(f) \/ WrittenInPart(f)
<1>1. Types' BY TypesStep
<1>2. \A d \in Composers : composer[d].text >= composer[d].text BY Numbers
<1>3. \A d \in Composers : InOrder(d) /\ UpToDate(d) BY DEF OrderInv
<1>4. CASE UNCHANGED vars
  BY <1>4 DEF OrderInv, InOrder, UpToDate, Kept, vars
<1>5. CASE \E c \in Composers : NewComposer(c)
  <2>1. PICK c \in Composers : NewComposer(c) BY <1>5
  <2>2. /\ UNCHANGED <<disk, saves, shared>>
        /\ \A d \in Composers : d # c => composer'[d] = composer[d]
        /\ composer[c].life = "none" /\ composer'[c].file = NoFile
    BY <2>1, NewComposerDoes DEF Others
  <2>3. \A i \in Slots : saves'[c][i].stage = "none" BY <1>3, <2>2 DEF OwnInv, InOrder
  <2>4. InOrder(c)' /\ UpToDate(c)' BY <2>2, <2>3, NothingOrder
  <2>5. \A d \in Composers : d # c => InOrder(d)' /\ UpToDate(d)'
    BY <1>1, <1>2, <1>3, <2>2, StillOrder
  <2> QED BY <2>2, <2>4, <2>5 DEF OrderInv, Kept
<1>6. CASE \E c \in Composers : Edit(c) \/ SaveDraft(c) \/ Malfunction(c)
  <2>1. PICK c \in Composers : Edit(c) \/ SaveDraft(c) \/ Malfunction(c) BY <1>6
  <2>2. /\ UNCHANGED <<disk, saves, shared>>
        /\ \A d \in Composers : d # c => composer'[d] = composer[d]
        /\ composer'[c].file = composer[c].file
        /\ composer'[c].text >= composer[c].text
    BY <1>2, <2>1, EditDoes, SaveDraftDoes, MalfunctionDoes DEF Others
  <2>3. \A d \in Composers : InOrder(d)' /\ UpToDate(d)'
    BY <1>1, <1>2, <1>3, <2>2, StillOrder
  <2> QED BY <2>2, <2>3 DEF OrderInv, Kept
<1>7. CASE \E c \in Composers : TimerFires(c) BY <1>1, <1>7, TimerFiresOrder
<1>8. CASE \E c \in Composers, emits \in BOOLEAN : Close(c, emits)
  <2>1. PICK c \in Composers, emits \in BOOLEAN : Close(c, emits) BY <1>8
  <2>2. /\ UNCHANGED shared
        /\ \A d \in Composers : d # c => saves'[d] = saves[d]
        /\ \A i \in Slots : /\ saves'[c][i].stage = saves[c][i].stage
                            /\ saves'[c][i].text = saves[c][i].text
        /\ saves'[c][2] = saves[c][2]
        /\ UNCHANGED <<disk, composer>> \/ Gone(c, disk)
    BY <2>1, CloseDoes
  <2>3. CASE UNCHANGED <<disk, composer>>
    <3>1. \A d \in Composers : InOrder(d)' /\ UpToDate(d)'
      BY <1>1, <1>2, <1>3, <2>2, <2>3, StillOrder
    <3> QED BY <2>3, <3>1 DEF OrderInv, Kept
  <2>4. CASE Gone(c, disk) BY <1>1, <2>2, <2>4, GoneOrder
  <2> QED BY <2>2, <2>3, <2>4
<1>9. CASE \E c \in Composers, i \in Slots : ContentReady(c, i) \/ Built(c, i)
  BY <1>1, <1>9, BuildingOrder
<1>10. CASE \E c \in Composers, i \in Slots :
              Written(c, i) \/ Fails(c, i) \/ WritingFails(c, i)
  BY <1>1, <1>10, EndsOrder
<1>11. CASE \E w \in Windows : WindowAdded(w) \/ Mapped(w)
  <2>1. /\ UNCHANGED <<composer, saves>> /\ shared \subseteq shared'
        /\ \A f \in Files : disk'[f] \in {disk[f], Absent}
    BY <1>11, WindowAddedDoes, MappedDoes
  <2>2. \A d \in Composers : InOrder(d)' /\ UpToDate(d)'
    BY <1>1, <1>2, <1>3, <2>1, StillOrder
  <2> QED BY <2>1, <2>2 DEF OrderInv, Kept
<1>12. CASE \E recover \in BOOLEAN : Answer(recover)
  <2> DEFINE q == Last(dialogs)
  <2>1. PICK recover \in BOOLEAN : Answer(recover) BY <1>12
  <2>2. UNCHANGED saves /\ Answered(recover) /\ shared \subseteq shared'
    <3>1. UNCHANGED saves /\ Answered(recover) BY <2>1, AnswerDoes
    <3> QED BY <3>1 DEF Answered
  <2>3. CASE /\ UNCHANGED composer
             /\ UNCHANGED disk \/ disk' = Without(q.files)
    <3>1. \A f \in Files : disk'[f] \in {disk[f], Absent} BY <2>3, LoadsFacts
    <3>2. \A d \in Composers : InOrder(d)' /\ UpToDate(d)'
      BY <1>1, <1>2, <1>3, <2>2, <2>3, <3>1, StillOrder
    <3> QED BY <3>1, <3>2 DEF OrderInv, Kept
  <2>4. ASSUME q.who \in Composers, NEW D \in {disk, Without({composer[q.who].file})},
               Gone(q.who, D)
        PROVE  OrderInv' /\ \A f \in Files : Kept(f)
    <3>1. \A f \in Files : D[f] \in {disk[f], Absent} BY LoadsFacts
    <3> QED BY <1>1, <2>2, <2>4, <3>1, GoneOrder
  <2>5. \/ UNCHANGED composer /\ (UNCHANGED disk \/ disk' = Without(q.files))
        \/ /\ q.who \in Composers
           /\ Gone(q.who, disk) \/ Gone(q.who, Without({composer[q.who].file}))
    BY <2>2 DEF Answered
  <2> QED BY <2>3, <2>4, <2>5
<1>13. CASE \E f \in Files : Loaded(f) \/ LoadFails(f)
  <2>1. PICK f \in Files : Loaded(f) \/ LoadFails(f) BY <1>13
  <2>2. /\ UNCHANGED <<disk, saves, shared>>
        /\ \/ UNCHANGED composer
           \/ \E c \in Composers :
                /\ composer[c].life = "none"
                /\ \A d \in Composers : d # c => composer'[d] = composer[d]
                /\ composer'[c].file = f /\ composer'[c].text >= disk[f]
    BY <2>1, LoadedDoes, LoadFailsDoes
  <2>3. CASE UNCHANGED composer
    <3>1. \A d \in Composers : InOrder(d)' /\ UpToDate(d)'
      BY <1>1, <1>2, <1>3, <2>2, <2>3, StillOrder
    <3> QED BY <2>2, <3>1 DEF OrderInv, Kept
  <2>4. ASSUME NEW c \in Composers, composer[c].life = "none",
               \A d \in Composers : d # c => composer'[d] = composer[d],
               composer'[c].file = f, composer'[c].text >= disk[f]
        PROVE  OrderInv'
    <3>1. \A i \in Slots : saves'[c][i].stage = "none" BY <1>3, <2>2, <2>4 DEF OwnInv, InOrder
    <3>2. disk[f] <= composer'[c].text
      <4>1. composer'[c].text \in 0 .. MaxText BY <1>1 DEF Types, TypeOK, Composer
      <4> QED BY <2>4, <4>1, Numbers, Constant
    <3>3. InOrder(c)' /\ UpToDate(c)' BY <2>2, <2>4, <3>1, <3>2, Constant DEF InOrder, UpToDate, Slots
    <3>4. \A d \in Composers : d # c => InOrder(d)' /\ UpToDate(d)'
      BY <1>1, <1>2, <1>3, <2>2, <2>4, StillOrder
    <3> QED BY <3>3, <3>4 DEF OrderInv
  <2>5. \A g \in Files : Kept(g) BY <2>2 DEF Kept
  <2> QED BY <2>2, <2>3, <2>4, <2>5
<1>14. CASE Exit \/ Crash
  <2>1. /\ composer' = [k \in Composers |-> Unused] /\ saves' = [k \in Composers |-> Idle]
        /\ \A f \in Files : disk'[f] \in {disk[f], Absent}
    BY <1>14, NextSessionDoes
  <2>2. \A j \in Slots : Idle[j].stage = "none" BY DEF Slots, Idle, NoSave
  <2>3. \A d \in Composers : InOrder(d)' /\ UpToDate(d)' BY <2>1, <2>2, Constant, NothingOrder
  <2> QED BY <2>1, <2>3 DEF OrderInv, Kept
<1> QED
  BY <1>4, <1>5, <1>6, <1>7, <1>8, <1>9, <1>10, <1>11, <1>12, <1>13, <1>14, Zenon DEF Next

\* write_message_to_stream_thread(): in every session and across them, with slow
\* saves, several at a time, cancelled ones, broken editors and any number of
\* windows, what has been saved is replaced by something older only by a save
\* that is written late, after a newer one took its place, or in part.
THEOREM SavesStayInOrder == Spec => SavesInOrder
<1>1. Init => OrderInv
  <2>1. \A j \in Slots : Idle[j].stage = "none" BY DEF Slots, Idle, NoSave
  <2>2. Unused.file = NoFile /\ NoFile \notin Files BY Constant
  <2> QED BY <2>1, <2>2 DEF Init, Started, OrderInv, InOrder, UpToDate, Slots
<1>2. Types /\ OwnInv /\ OrderInv /\ [Next]_vars => (Types /\ OwnInv /\ OrderInv)'
  BY TypesStep, OwnStep, OrderStep
<1>3. Types /\ OwnInv /\ OrderInv /\ [Next]_vars
        => [\A f \in Files \ shared : Backwards(f) => WrittenLate(f) \/ WrittenInPart(f)]_vars
  <2> SUFFICES ASSUME Types, OwnInv, OrderInv, [Next]_vars, NEW f \in Files \ shared,
                      Backwards(f)
               PROVE  WrittenLate(f) \/ WrittenInPart(f)
    OBVIOUS
  <2>1. Kept(f) \/ disk'[f] >= disk[f] \/ WrittenLate(f) \/ WrittenInPart(f) BY OrderStep
  <2>2. disk[f] \in Int /\ disk'[f] \in Int
    <3>1. Types' BY TypesStep
    <3>2. disk'[f] \in -2 .. MaxText BY <3>1, Constant DEF Types, TypeOK
    <3> QED BY <3>2, Numbers, Constant
  <2>3. disk[f] # Absent /\ disk'[f] # Absent /\ disk'[f] < disk[f]
    BY <2>2, Constant DEF Backwards, Saved
  <2> QED BY <2>1, <2>2, <2>3 DEF Kept
<1> QED BY InitTypes, InitOwn, <1>1, <1>2, <1>3, PTL DEF Spec, SavesInOrder

=============================================================================
