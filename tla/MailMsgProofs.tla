---------------------------- MODULE MailMsgProofs ----------------------------
(***************************************************************************)
(* Proofs about MailMsg, for any number of messages, any routes and        *)
(* priorities and any size of the unordered pool.                          *)
(***************************************************************************)
EXTENDS MailMsg, SequenceTheorems, FiniteSetTheorems, TLAPS

-----------------------------------------------------------------------------
(* Facts about the sequence operators, for sequences over any set.         *)

\* A length is one, or two at least.
LEMMA LeastLen == \A n \in Nat : n >= 1 => n = 1 \/ n >= 2
OBVIOUS

\* An index is the last one or one of those before it.
LEMMA LastIndex ==
  \A n \in Nat : n >= 1 => /\ n \in 1 .. n
                          /\ ~ (n \in 1 .. n - 1)
                          /\ \A i \in 1 .. n : i \in 1 .. n - 1 \/ i = n
OBVIOUS

\* Front drops the last element and nothing else.
LEMMA FrontFacts ==
  ASSUME NEW S, NEW s \in Seq(S), s # <<>>
  PROVE  /\ Front(s) \in Seq(S)
         /\ Len(Front(s)) = Len(s) - 1
         /\ \A i \in 1 .. Len(s) - 1 : Front(s)[i] = s[i]
         /\ Len(s) \in Nat /\ Len(s) >= 1
         /\ Last(s) = s[Len(s)]
         /\ Last(s) \in S
<1>1. Len(s) \in Nat /\ Len(s) >= 1 /\ \A i \in 1 .. Len(s) : s[i] \in S
  BY EmptySeq, LenProperties, ElementOfSeq, SMT
<1>2. \A i \in 1 .. Len(s) - 1 : s[i] \in S
  BY <1>1
<1> DEFINE f == SubSeq(s, 1, Len(s) - 1)
<1>3. /\ f \in Seq(S)
      /\ Len(f) = IF 1 <= Len(s) - 1 THEN (Len(s) - 1) - 1 + 1 ELSE 0
      /\ \A i \in 1 .. (Len(s) - 1) - 1 + 1 : f[i] = s[1 + i - 1]
  <2>1. Len(s) - 1 \in Int /\ 1 \in Int BY <1>1
  <2> QED BY <1>2, <2>1, SubSeqProperties
<1>4. Front(s) = f BY DEF Front
<1> HIDE DEF f
<1>5. Len(f) = Len(s) - 1
  <2>1. CASE Len(s) = 1 BY <1>3, <2>1
  <2>2. CASE Len(s) >= 2
    <3>1. 1 <= Len(s) - 1 BY <1>1, <2>2
    <3>2. Len(f) = (Len(s) - 1) - 1 + 1 BY <1>3, <3>1
    <3> QED BY <1>1, <3>2
  <2>3. Len(s) \in Nat /\ Len(s) >= 1 BY <1>1
  <2>4. Len(s) = 1 \/ Len(s) >= 2 BY <2>3, LeastLen
  <2> QED BY <2>4, <2>1, <2>2
<1>6. \A i \in 1 .. Len(s) - 1 : f[i] = s[i] BY <1>1, <1>3
<1> QED BY <1>1, <1>3, <1>4, <1>5, <1>6 DEF Last

\* Front and Append replace the last element.
LEMMA ReplaceLast ==
  ASSUME NEW S, NEW s \in Seq(S), s # <<>>, NEW e \in S
  PROVE  /\ Append(Front(s), e) \in Seq(S)
         /\ Len(Append(Front(s), e)) = Len(s)
         /\ \A i \in 1 .. Len(s) - 1 : Append(Front(s), e)[i] = s[i]
         /\ Append(Front(s), e)[Len(s)] = e
BY FrontFacts, AppendProperties

\* RemoveAt drops one element and keeps the others in order.
LEMMA RemoveFacts ==
  ASSUME NEW S, NEW s \in Seq(S), NEW k \in DOMAIN s
  PROVE  /\ RemoveAt(s, k) \in Seq(S)
         /\ Len(RemoveAt(s, k)) = Len(s) - 1
         /\ \A i \in 1 .. Len(s) - 1 :
              RemoveAt(s, k)[i] = IF i < k THEN s[i] ELSE s[i + 1]
<1> DEFINE a == SubSeq(s, 1, k - 1)
           b == SubSeq(s, k + 1, Len(s))
<1>1. Len(s) \in Nat /\ k \in 1 .. Len(s) /\ \A i \in 1 .. Len(s) : s[i] \in S
  BY LenProperties, ElementOfSeq
<1>2. /\ a \in Seq(S)
      /\ Len(a) = IF 1 <= k - 1 THEN (k - 1) - 1 + 1 ELSE 0
      /\ \A i \in 1 .. (k - 1) - 1 + 1 : a[i] = s[1 + i - 1]
  <2>1. 1 \in Int /\ k - 1 \in Int /\ \A i \in 1 .. k - 1 : s[i] \in S BY <1>1
  <2> QED BY <2>1, SubSeqProperties
<1>3. /\ b \in Seq(S)
      /\ Len(b) = IF k + 1 <= Len(s) THEN Len(s) - (k + 1) + 1 ELSE 0
      /\ \A i \in 1 .. Len(s) - (k + 1) + 1 : b[i] = s[(k + 1) + i - 1]
  <2>1. k + 1 \in Int /\ Len(s) \in Int /\ \A i \in k + 1 .. Len(s) : s[i] \in S BY <1>1
  <2> QED BY <2>1, SubSeqProperties
<1>6. RemoveAt(s, k) = a \o b BY DEF RemoveAt
<1> HIDE DEF a, b
<1>4. Len(a) = k - 1 /\ Len(b) = Len(s) - k BY <1>1, <1>2, <1>3
<1>5. /\ a \o b \in Seq(S)
      /\ Len(a \o b) = Len(s) - 1
      /\ \A i \in 1 .. Len(s) - 1 : (a \o b)[i] = IF i <= k - 1 THEN a[i] ELSE b[i - (k - 1)]
  <2>1. Len(a) + Len(b) = Len(s) - 1 BY <1>1, <1>4
  <2>2. /\ a \o b \in Seq(S)
        /\ Len(a \o b) = Len(a) + Len(b)
        /\ \A i \in 1 .. Len(a) + Len(b) : (a \o b)[i] =
             IF i <= Len(a) THEN a[i] ELSE b[i - Len(a)]
    BY <1>2, <1>3, ConcatProperties
  <2> QED BY <1>4, <2>1, <2>2
<1>7. ASSUME NEW i \in 1 .. Len(s) - 1
      PROVE  (a \o b)[i] = IF i < k THEN s[i] ELSE s[i + 1]
  <2>1. CASE i < k
    <3>1. i \in 1 .. (k - 1) - 1 + 1 /\ 1 + i - 1 = i BY <1>1, <2>1
    <3> QED BY <1>1, <1>2, <1>5, <2>1, <3>1
  <2>2. CASE ~(i < k)
    <3>1. i - (k - 1) \in 1 .. Len(s) - (k + 1) + 1 /\ (k + 1) + (i - (k - 1)) - 1 = i + 1
      BY <1>1, <2>2
    <3>2. (a \o b)[i] = b[i - (k - 1)] BY <1>1, <1>5, <2>2
    <3>3. b[i - (k - 1)] = s[i + 1] BY <1>3, <3>1
    <3> QED BY <2>2, <3>2, <3>3
  <2> QED BY <2>1, <2>2
<1> QED BY <1>5, <1>6, <1>7
\* What a sequence holds, after an element was added or taken away.
LEMMA AppendSet ==
  ASSUME NEW S, NEW s \in Seq(S), NEW e \in S
  PROVE  ToSet(Append(s, e)) = ToSet(s) \cup {e}
<1>1. /\ DOMAIN s = 1 .. Len(s) /\ Len(s) \in Nat
      /\ DOMAIN Append(s, e) = 1 .. Len(s) + 1
      /\ \A i \in 1 .. Len(s) : Append(s, e)[i] = s[i]
      /\ Append(s, e)[Len(s) + 1] = e
  BY LenProperties, AppendProperties
<1> QED BY <1>1 DEF ToSet

LEMMA FrontSet ==
  ASSUME NEW S, NEW s \in Seq(S), s # <<>>
  PROVE  /\ ToSet(s) = ToSet(Front(s)) \cup {Last(s)}
         /\ \A x : x \in ToSet(Front(s)) <=> \E i \in 1 .. Len(s) - 1 : x = s[i]
<1>1. /\ DOMAIN s = 1 .. Len(s) /\ Len(s) \in Nat /\ Len(s) >= 1
      /\ DOMAIN Front(s) = 1 .. Len(s) - 1
      /\ \A i \in 1 .. Len(s) - 1 : Front(s)[i] = s[i]
      /\ Last(s) = s[Len(s)]
  BY LenProperties, FrontFacts
<1> QED BY <1>1 DEF ToSet

LEMMA RemoveSet ==
  ASSUME NEW S, NEW s \in Seq(S), NEW k \in DOMAIN s
  PROVE  ToSet(RemoveAt(s, k)) \subseteq ToSet(s)
<1>1. /\ DOMAIN s = 1 .. Len(s) /\ Len(s) \in Nat
      /\ DOMAIN RemoveAt(s, k) = 1 .. Len(s) - 1
      /\ \A i \in 1 .. Len(s) - 1 : RemoveAt(s, k)[i] = IF i < k THEN s[i] ELSE s[i + 1]
  BY LenProperties, RemoveFacts
<1> QED BY <1>1 DEF ToSet

\* Indices of a sequence that grows or shrinks at its end.
LEMMA NextIndex ==
  \A n \in Nat : /\ n + 1 - 1 = n
                 /\ \A i \in 1 .. n + 1 : i \in 1 .. n \/ i = n + 1
                 /\ \A i \in 1 .. n - 1 : i \in 1 .. n
                 /\ \A i \in 1 .. n - 1 - 1 : i \in 1 .. n - 1
OBVIOUS

-----------------------------------------------------------------------------
(* Types.  That a reference count never falls below zero takes the         *)
(* invariant about owners below; everything else is inductive by itself.   *)

Shape ==
  /\ stage \in [Msgs -> Stages]
  /\ refs \in [Msgs -> Int]
  /\ table \subseteq Msgs
  /\ ticket \in [Msgs -> Nat]
  /\ tickets \in Nat
  /\ replyQ \in Seq(Msgs)
  /\ arming \subseteq Msgs
  /\ idleId \in BOOLEAN
  /\ sources \in Seq(Sources)
  /\ stack \in Seq(Frames)
  /\ caller \in [Calls -> Callers]
  /\ host \in [Calls -> Async \cup {NoMsg}]
  /\ cancelled \subseteq Msgs
  /\ error \in [Msgs -> Errors]
  /\ outcome \in [Msgs -> Outcomes]

\* What is attached and what is put on the stack has the right type.
LEMMA MadeTypes ==
  /\ \A m \in Msgs \cup {NoMsg} : Submit(m) \in Sources /\ FreeIdle(m) \in Sources
  /\ IdleCb \in Sources
  /\ \A l \in Loops, a \in {"poll", "run", "drop", "retire"}, m \in Msgs \cup {NoMsg} :
       Frame(l, a, m) \in Frames
BY DEF Submit, FreeIdle, IdleCb, Sources, Frame, Frames

\* The frame on top of the stack.
LEMMA TopType ==
  ASSUME stack \in Seq(Frames), stack # <<>>
  PROVE  /\ Top \in Frames
         /\ Top.loop \in Loops /\ Top.at \in {"poll", "run", "drop", "retire"}
         /\ Top.msg \in Msgs \cup {NoMsg}
         /\ Top = stack[Len(stack)]
         /\ Front(stack) \in Seq(Frames)
<1>1. Top \in Frames /\ Top = stack[Len(stack)] /\ Front(stack) \in Seq(Frames)
  BY FrontFacts DEF Top
<1> QED BY <1>1 DEF Frames

\* SetTop keeps the stack a stack of frames.
LEMMA SetTopType ==
  ASSUME stack \in Seq(Frames), stack # <<>>, NEW f \in Frames, SetTop(f)
  PROVE  stack' \in Seq(Frames)
BY ReplaceLast DEF SetTop

\* Every step keeps the types.
LEMMA ShapeStep ==
  ASSUME Shape, [Next]_vars
  PROVE  Shape'
<1> USE DEF Shape, Msgs
<1>1. ASSUME NEW m \in Async, Push(m) PROVE Shape'
  BY <1>1 DEF Push, New, Enqueue, Stages
<1>2. ASSUME NEW m \in Async, WorkerStart(m) PROVE Shape'
  <2>1. sources' \in Seq(Sources) BY <1>2, MadeTypes, AppendProperties DEF WorkerStart
  <2> QED BY <1>2, <2>1 DEF WorkerStart, Stages
<1>3. ASSUME NEW m \in Async, WorkerReply(m) PROVE Shape'
  <2>1. replyQ' \in Seq(Msgs) BY <1>3, AppendProperties DEF WorkerReply
  <2> QED BY <1>3, <2>1 DEF WorkerReply, Stages
<1>4. ASSUME NEW m \in Msgs, Arm(m) PROVE Shape'
  <2>1. sources' \in Seq(Sources) BY <1>4, MadeTypes, AppendProperties DEF Arm, AttachIdle
  <2> QED BY <1>4, <2>1 DEF Arm
<1>5. ASSUME NEW m \in Msgs, Cancel(m) PROVE Shape'
  BY <1>5 DEF Cancel
<1>6. ASSUME NEW c \in Calls, NEW m \in Async, CallMain(c, m) PROVE Shape'
  BY <1>6 DEF CallMain, New, Enqueue, Stages, Callers
<1>7. ASSUME NEW c \in Calls, CallerResume(c) PROVE Shape'
  BY <1>7 DEF CallerResume, Callers
<1>8. ASSUME NEW c \in Calls, CallerRetire(c) PROVE Shape'
  <2>1. sources' \in Seq(Sources) BY <1>8, MadeTypes, AppendProperties DEF CallerRetire, Retire
  <2> QED BY <1>8, <2>1 DEF CallerRetire, Retire, Callers
<1>9. ASSUME NEW c \in Calls, CallDirect(c) PROVE Shape'
  <2>1. stack' \in Seq(Frames)
    BY <1>9, MadeTypes, AppendProperties DEF CallDirect, Loops
  <2> QED BY <1>9, <2>1 DEF CallDirect, New, Stages
<1>10. ASSUME CallDone PROVE Shape'
  <2>0. stack # <<>> BY <1>10 DEF CallDone, At
  <2>1. Frame(Top.loop, "drop", Top.msg) \in Frames BY <2>0, TopType, MadeTypes
  <2>2. stack' \in Seq(Frames) BY <1>10, <2>0, <2>1, SetTopType DEF CallDone
  <2>3. caller' \in [Calls -> Callers] BY <1>10 DEF CallDone, Wake, Callers
  <2>4. outcome' \in [Msgs -> Outcomes] BY <1>10 DEF CallDone, Settled, Outcomes
  <2> QED BY <1>10, <2>2, <2>3, <2>4 DEF CallDone, Stages
<1>11. ASSUME IdleReset PROVE Shape'
  <2>1. stack' \in Seq(Frames) BY <1>11, SetTopType, MadeTypes DEF IdleReset, At, Loops
  <2> QED BY <1>11, <2>1 DEF IdleReset, ClearIdleId
<1>12. ASSUME NEW c \in Calls, MainPop(c) PROVE Shape'
  <2>1. stack' \in Seq(Frames) BY <1>12, SetTopType, MadeTypes DEF MainPop, At, Loops
  <2>2. sources' \in Seq(Sources) BY <1>12, MadeTypes, AppendProperties DEF MainPop
  <2> QED BY <1>12, <2>1, <2>2 DEF MainPop, Stages
<1>13. ASSUME MainEmpty PROVE Shape'
  <2>1. stack' \in Seq(Frames) BY <1>13, SetTopType, MadeTypes DEF MainEmpty, At, Loops
  <2> QED BY <1>13, <2>1 DEF MainEmpty
<1>14. ASSUME ReplyPop PROVE Shape'
  <2>1. Head(replyQ) \in Msgs /\ replyQ' \in Seq(Msgs) BY <1>14, HeadTailProperties DEF ReplyPop
  <2>2. stack' \in Seq(Frames) BY <1>14, <2>1, SetTopType, MadeTypes DEF ReplyPop, At, Loops
  <2> QED BY <1>14, <2>1, <2>2 DEF ReplyPop, Stages
<1>15. ASSUME ReplyEmpty PROVE Shape'
  <2>1. stack' \in Seq(Frames) BY <1>15, TopType DEF ReplyEmpty, At
  <2> QED BY <1>15, <2>1 DEF ReplyEmpty
<1>16. ASSUME DoneReturn PROVE Shape'
  <2>0. stack # <<>> BY <1>16 DEF DoneReturn, At
  <2>1. Frame("reply", "drop", Top.msg) \in Frames BY <2>0, TopType, MadeTypes DEF Loops
  <2>2. stack' \in Seq(Frames) BY <1>16, <2>0, <2>1, SetTopType DEF DoneReturn
  <2>3. outcome' \in [Msgs -> Outcomes]
    <3>1. \A m \in Msgs : Reported(m) \in Outcomes BY DEF Reported, Errors, Outcomes
    <3> QED BY <1>16, <3>1 DEF DoneReturn
  <2> QED BY <1>16, <2>2, <2>3 DEF DoneReturn, Stages
<1>17. ASSUME stack # <<>>, Continue PROVE stack' \in Seq(Frames)
  <2>1. Frame(Top.loop, "poll", NoMsg) \in Frames BY <1>17, TopType, MadeTypes
  <2> QED BY <1>17, <2>1, TopType, SetTopType DEF Continue
<1>18. ASSUME MainUnref PROVE Shape'
  <2>1. Frame(Top.loop, "retire", Top.msg) \in Frames BY <1>18, TopType, MadeTypes DEF MainUnref
  <2>2. stack' \in Seq(Frames) BY <1>17, <1>18, <2>1, SetTopType DEF MainUnref
  <2>3. refs' \in [Msgs -> Int]
    <3>1. \A m \in Msgs : refs[m] - 1 \in Int OBVIOUS
    <3> QED BY <1>18, <3>1 DEF MainUnref
  <2> QED BY <1>18, <2>2, <2>3 DEF MainUnref
<1>19. ASSUME MainRetire PROVE Shape'
  <2>1. stack' \in Seq(Frames) BY <1>17, <1>19 DEF MainRetire
  <2>2. sources' \in Seq(Sources) BY <1>19, TopType, MadeTypes, AppendProperties DEF MainRetire, Retire
  <2> QED BY <1>19, <2>1, <2>2 DEF MainRetire, Retire
<1>20. ASSUME NEW i \in DOMAIN sources, Dispatch(i) PROVE Shape'
  <2>1. sources' \in Seq(Sources) BY <1>20, RemoveFacts DEF Dispatch
  <2>2. Frame("reset", "poll", NoMsg) \in Frames BY MadeTypes DEF Loops
  <2>3. stack' \in Seq(Frames) BY <1>20, <2>2, AppendProperties DEF Dispatch
  <2> QED BY <1>20, <2>1, <2>3 DEF Dispatch, Stages
<1>21. CASE UNCHANGED vars BY <1>21 DEF vars
<1> QED
  BY <1>1, <1>2, <1>3, <1>4, <1>5, <1>6, <1>7, <1>8, <1>9, <1>10, <1>11, <1>12,
     <1>13, <1>14, <1>15, <1>16, <1>18, <1>19, <1>20, <1>21 DEF Next, MainStep

-----------------------------------------------------------------------------
(* The wakeup of the main loop.                                            *)

IdleIdx    == {i \in DOMAIN sources : sources[i] = IdleCb}
LoopIdx(l) == {i \in DOMAIN stack : stack[i].loop = l}

\* IdleIdExact and NoLostWakeup, by the indices of the idle callback's source
\* and of its frames: an invariant that is inductive.
Wakeup ==
  /\ \A i, j \in IdleIdx : i = j
  /\ \A i, j \in LoopIdx("reset") : i = j
  /\ IF idleId THEN ~ (IdleIdx # {} <=> LoopIdx("reset") # {})
               ELSE IdleIdx = {} /\ LoopIdx("reset") = {}
  /\ Queued(Calls) # {} => \/ IdleIdx # {} \/ WillArm
                           \/ LoopIdx("reset") # {} \/ LoopIdx("main") # {}
  /\ replyQ # <<>> => \/ IdleIdx # {} \/ WillArm \/ LoopIdx("reset") # {}
                      \/ LoopIdx("main") # {} \/ LoopIdx("reply") # {}

\* It says what the two properties say.
LEMMA WakeupByIndex == Wakeup => IdleIdExact /\ NoLostWakeup
<1>1. IdleAttached <=> IdleIdx # {} BY DEF IdleAttached, IdleIdx
<1>2. IdleDispatched <=> LoopIdx("reset") # {} BY DEF IdleDispatched, LoopIdx
<1>3. DrainsMain <=> LoopIdx("reset") # {} \/ LoopIdx("main") # {}
  BY DEF DrainsMain, LoopIdx
<1>4. DrainsReply <=> \/ LoopIdx("reset") # {} \/ LoopIdx("main") # {}
                      \/ LoopIdx("reply") # {}
  BY DEF DrainsReply, LoopIdx
<1>5. /\ (\A i, j \in DOMAIN sources : sources[i] = IdleCb /\ sources[j] = IdleCb => i = j)
           <=> \A i, j \in IdleIdx : i = j
      /\ (\A i, j \in DOMAIN stack :
            stack[i].loop = "reset" /\ stack[j].loop = "reset" => i = j)
           <=> \A i, j \in LoopIdx("reset") : i = j
  BY DEF IdleIdx, LoopIdx
<1> QED BY <1>1, <1>2, <1>3, <1>4, <1>5 DEF IdleIdExact, NoLostWakeup, Wakeup

\* Attaching another source leaves the idle callback's where it is.
LEMMA AppendOther ==
  ASSUME sources \in Seq(Sources), NEW s \in Sources, s.kind # "idle",
         sources' = Append(sources, s)
  PROVE  IdleIdx' = IdleIdx
<1>1. s # IdleCb BY DEF IdleCb
<1>2. /\ DOMAIN sources = 1 .. Len(sources) /\ Len(sources) \in Nat
      /\ DOMAIN sources' = 1 .. Len(sources) + 1
      /\ \A i \in 1 .. Len(sources) : sources'[i] = sources[i]
      /\ sources'[Len(sources) + 1] = s
  BY LenProperties, AppendProperties
<1> QED BY <1>1, <1>2 DEF IdleIdx, IdleCb

\* Pushing a frame, popping one, changing the one on top.
LEMMA PushIdx ==
  ASSUME stack \in Seq(Frames), NEW f \in Frames, stack' = Append(stack, f)
  PROVE  /\ \A l \in Loops \ {f.loop} : LoopIdx(l)' = LoopIdx(l)
         /\ LoopIdx(f.loop)' = LoopIdx(f.loop) \cup {Len(stack) + 1}
<1>1. /\ DOMAIN stack = 1 .. Len(stack) /\ Len(stack) \in Nat
      /\ DOMAIN stack' = 1 .. Len(stack) + 1
      /\ \A i \in 1 .. Len(stack) : stack'[i] = stack[i]
      /\ stack'[Len(stack) + 1] = f
  BY LenProperties, AppendProperties
<1> QED BY <1>1 DEF LoopIdx

LEMMA PopIdx ==
  ASSUME stack \in Seq(Frames), stack # <<>>, stack' = Front(stack)
  PROVE  \A l \in Loops \ {Top.loop} : LoopIdx(l)' = LoopIdx(l)
<1>1. /\ DOMAIN stack = 1 .. Len(stack) /\ Len(stack) \in Nat /\ Len(stack) >= 1
      /\ DOMAIN stack' = 1 .. Len(stack) - 1
      /\ \A i \in 1 .. Len(stack) - 1 : stack'[i] = stack[i]
      /\ Top = stack[Len(stack)]
  BY LenProperties, FrontFacts DEF Top
<1> QED BY <1>1 DEF LoopIdx

LEMMA SetTopIdx ==
  ASSUME stack \in Seq(Frames), stack # <<>>, NEW f \in Frames, SetTop(f)
  PROVE  /\ f.loop = Top.loop => \A l \in Loops : LoopIdx(l)' = LoopIdx(l)
         /\ \A l \in Loops \ {f.loop, Top.loop} : LoopIdx(l)' = LoopIdx(l)
         /\ Len(stack) \in LoopIdx(f.loop)'
         /\ Len(stack) \in LoopIdx(Top.loop)
         /\ \A l \in Loops : f.loop # l /\ Top.loop = l =>
              LoopIdx(l)' = LoopIdx(l) \ {Len(stack)}
<1>1. /\ DOMAIN stack = 1 .. Len(stack) /\ Len(stack) \in Nat /\ Len(stack) >= 1
      /\ DOMAIN stack' = 1 .. Len(stack)
      /\ \A i \in 1 .. Len(stack) - 1 : stack'[i] = stack[i]
      /\ stack'[Len(stack)] = f
      /\ Top = stack[Len(stack)]
  BY LenProperties, FrontFacts, ReplaceLast DEF Top, SetTop
<1>2. /\ Len(stack) \in 1 .. Len(stack)
      /\ \A i \in 1 .. Len(stack) : i \in 1 .. Len(stack) - 1 \/ i = Len(stack)
      /\ ~ (Len(stack) \in 1 .. Len(stack) - 1)
  BY <1>1, LastIndex
<1>3. ASSUME NEW l \in Loops, l \notin {f.loop, Top.loop} PROVE LoopIdx(l)' = LoopIdx(l)
  BY <1>1, <1>2, <1>3 DEF LoopIdx
<1>4. ASSUME f.loop = Top.loop, NEW l \in Loops PROVE LoopIdx(l)' = LoopIdx(l)
  BY <1>1, <1>2, <1>4 DEF LoopIdx
<1>5. Len(stack) \in LoopIdx(f.loop)' /\ Len(stack) \in LoopIdx(Top.loop)
  BY <1>1, <1>2 DEF LoopIdx
<1>6. ASSUME NEW l \in Loops, f.loop # l, Top.loop = l
      PROVE  LoopIdx(l)' = LoopIdx(l) \ {Len(stack)}
  BY <1>1, <1>2, <1>6 DEF LoopIdx
<1> QED BY <1>3, <1>4, <1>5, <1>6

LEMMA ContinueIdx ==
  ASSUME stack \in Seq(Frames), stack # <<>>, Continue
  PROVE  \A l \in {"reset", "main", "reply"} : LoopIdx(l)' = LoopIdx(l)
<1>1. CASE Top.loop = "direct" BY <1>1, PopIdx DEF Continue, Loops
<1>2. CASE Top.loop # "direct"
  <2>1. Frame(Top.loop, "poll", NoMsg) \in Frames /\ SetTop(Frame(Top.loop, "poll", NoMsg))
    BY <1>2, TopType, MadeTypes DEF Continue
  <2>2. Frame(Top.loop, "poll", NoMsg).loop = Top.loop BY DEF Frame
  <2> QED BY <2>1, <2>2, SetTopIdx DEF Loops
<1> QED BY <1>1, <1>2

\* A step that neither touches the idle source nor adds to a queue.
LEMMA WakeupKept ==
  ASSUME Wakeup, idleId' = idleId, arming' = arming, IdleIdx' = IdleIdx,
         \A l \in {"reset", "main", "reply"} : LoopIdx(l)' = LoopIdx(l),
         Queued(Calls)' \subseteq Queued(Calls),
         replyQ' # <<>> => replyQ # <<>>
  PROVE  Wakeup'
<1>1. LoopIdx("reset")' = LoopIdx("reset") /\ LoopIdx("main")' = LoopIdx("main")
      /\ LoopIdx("reply")' = LoopIdx("reply")
  OBVIOUS
<1>2. WillArm' <=> WillArm BY DEF WillArm
<1> QED BY <1>1, <1>2 DEF Wakeup

\* Taking another source away leaves the idle callback's, which may move; taking
\* the only one of the idle callback leaves none.
LEMMA RemoveIdx ==
  ASSUME sources \in Seq(Sources), NEW k \in DOMAIN sources,
         sources' = RemoveAt(sources, k), \A i, j \in IdleIdx : i = j
  PROVE  /\ sources[k] # IdleCb => /\ IdleIdx' = {} <=> IdleIdx = {}
                                   /\ \A i, j \in IdleIdx' : i = j
         /\ sources[k] = IdleCb => IdleIdx' = {}
<1>1. /\ DOMAIN sources = 1 .. Len(sources) /\ Len(sources) \in Nat /\ k \in 1 .. Len(sources)
      /\ DOMAIN sources' = 1 .. Len(sources) - 1
      /\ \A i \in 1 .. Len(sources) - 1 :
           sources'[i] = IF i < k THEN sources[i] ELSE sources[i + 1]
  BY LenProperties, RemoveFacts
<1> DEFINE old(i) == IF i < k THEN i ELSE i + 1
<1>2. \A i \in 1 .. Len(sources) - 1 : old(i) \in 1 .. Len(sources) /\ old(i) # k
  BY <1>1
<1>3. \A i, j \in 1 .. Len(sources) - 1 : old(i) = old(j) => i = j
  BY <1>1
<1>4. \A i \in 1 .. Len(sources) - 1 : sources'[i] = sources[old(i)]
  BY <1>1
<1>5. \A n \in 1 .. Len(sources) : n # k => \E i \in 1 .. Len(sources) - 1 : old(i) = n
  <2> SUFFICES ASSUME NEW n \in 1 .. Len(sources), n # k
               PROVE  \E i \in 1 .. Len(sources) - 1 : old(i) = n
    OBVIOUS
  <2>1. CASE n < k BY <1>1, <2>1
  <2>2. CASE ~(n < k)
    <3>1. n - 1 \in 1 .. Len(sources) - 1 /\ ~(n - 1 < k) /\ n - 1 + 1 = n BY <1>1, <2>2
    <3> QED BY <3>1
  <2> QED BY <2>1, <2>2
<1> HIDE DEF old
<1>6. \A i \in IdleIdx' : i \in 1 .. Len(sources) - 1 /\ old(i) \in IdleIdx
  BY <1>1, <1>2, <1>4 DEF IdleIdx, IdleCb
<1>7. ASSUME sources[k] # IdleCb, IdleIdx # {} PROVE IdleIdx' # {}
  <2>1. PICK n \in 1 .. Len(sources) : sources[n] = IdleCb /\ n # k BY <1>1, <1>7 DEF IdleIdx
  <2>2. PICK i \in 1 .. Len(sources) - 1 : old(i) = n BY <1>5, <2>1
  <2> QED BY <1>1, <1>4, <2>1, <2>2 DEF IdleIdx, IdleCb
<1>8. \A i, j \in IdleIdx' : i = j BY <1>3, <1>6
<1>9. ASSUME sources[k] = IdleCb PROVE IdleIdx' = {}
  <2>1. k \in IdleIdx BY <1>1, <1>9 DEF IdleIdx
  <2> QED BY <1>2, <1>6, <2>1
<1> QED BY <1>6, <1>7, <1>8, <1>9

\* Where the message that moves was not queued, or leaves the queue.
LEMMA QueuedKept ==
  ASSUME NEW m, NEW st \in Stages \ {"queued"}, stage \in [Msgs -> Stages],
         stage' = [stage EXCEPT ![m] = st]
  PROVE  Queued(Calls)' \subseteq Queued(Calls)
BY DEF Queued, Msgs

\* Every step keeps the wakeup invariant.
LEMMA WakeupStep ==
  ASSUME Shape, Wakeup, [Next]_vars
  PROVE  Wakeup'
<1>0. /\ sources \in Seq(Sources) /\ stack \in Seq(Frames) /\ stage \in [Msgs -> Stages]
      /\ replyQ \in Seq(Msgs) /\ Calls \subseteq Msgs
  BY DEF Shape, Msgs
<1>s. ASSUME UNCHANGED sources PROVE IdleIdx' = IdleIdx
  BY <1>s DEF IdleIdx
<1>f. ASSUME UNCHANGED stack PROVE \A l \in {"reset", "main", "reply"} : LoopIdx(l)' = LoopIdx(l)
  BY <1>f DEF LoopIdx
<1>g. ASSUME UNCHANGED stage PROVE Queued(Calls)' \subseteq Queued(Calls)
  BY <1>g DEF Queued
<1>1. ASSUME NEW m \in Async, Push(m) PROVE Wakeup'
  <2>1. Queued(Calls)' \subseteq Queued(Calls)
    BY <1>0, <1>1, MailMsgAssumption DEF Push, Enqueue, Queued, Msgs
  <2> QED BY <1>1, <1>s, <1>f, <2>1, WakeupKept DEF Push
<1>2. ASSUME NEW m \in Async, WorkerStart(m) PROVE Wakeup'
  <2>1. Queued(Calls)' \subseteq Queued(Calls)
    BY <1>0, <1>2, QueuedKept DEF WorkerStart, Stages
  <2>2. IdleIdx' = IdleIdx
    BY <1>0, <1>2, AppendOther, MadeTypes DEF WorkerStart, Submit, Msgs
  <2> QED BY <1>2, <1>f, <2>1, <2>2, WakeupKept DEF WorkerStart
<1>3. ASSUME NEW m \in Async, WorkerReply(m) PROVE Wakeup'
  <2>1. Queued(Calls)' \subseteq Queued(Calls)
    BY <1>0, <1>3, QueuedKept DEF WorkerReply, Stages
  <2>2. LoopIdx("reset")' = LoopIdx("reset") /\ LoopIdx("main")' = LoopIdx("main")
        /\ IdleIdx' = IdleIdx /\ idleId' = idleId
    BY <1>3, <1>s, <1>f DEF WorkerReply
  <2>3. arming' # {} BY <1>3 DEF WorkerReply
  <2>4. WillArm' <=> ~ idleId BY <2>2, <2>3 DEF WillArm
  <2> QED BY <2>1, <2>2, <2>4 DEF Wakeup, WillArm
<1>5. ASSUME NEW m \in Msgs, Cancel(m) PROVE Wakeup'
  BY <1>5, <1>s, <1>f, <1>g, WakeupKept DEF Cancel
<1>6. ASSUME NEW c \in Calls, NEW m \in Async, CallMain(c, m) PROVE Wakeup'
  <2>2. LoopIdx("reset")' = LoopIdx("reset") /\ LoopIdx("main")' = LoopIdx("main")
        /\ LoopIdx("reply")' = LoopIdx("reply")
        /\ IdleIdx' = IdleIdx /\ idleId' = idleId /\ replyQ' = replyQ
    BY <1>6, <1>s, <1>f DEF CallMain
  <2>3. arming' # {} BY <1>6 DEF CallMain
  <2>4. WillArm' <=> ~ idleId BY <2>2, <2>3 DEF WillArm
  <2> QED BY <2>2, <2>4 DEF Wakeup, WillArm
<1>7. ASSUME NEW c \in Calls, CallerResume(c) PROVE Wakeup'
  BY <1>7, <1>s, <1>f, <1>g, WakeupKept DEF CallerResume
<1>8. ASSUME NEW c \in Calls, CallerRetire(c) PROVE Wakeup'
  <2>1. IdleIdx' = IdleIdx
    BY <1>0, <1>8, AppendOther, MadeTypes DEF CallerRetire, Retire, FreeIdle
  <2> QED BY <1>8, <1>f, <1>g, <2>1, WakeupKept DEF CallerRetire
<1>9. ASSUME NEW c \in Calls, CallDirect(c) PROVE Wakeup'
  <2>1. Queued(Calls)' \subseteq Queued(Calls)
    BY <1>0, <1>9, QueuedKept DEF CallDirect, Stages
  <2>2. Frame("direct", "run", c) \in Frames /\ Frame("direct", "run", c).loop = "direct"
    BY <1>0, MadeTypes DEF Loops, Frame
  <2>3. \A l \in {"reset", "main", "reply"} : LoopIdx(l)' = LoopIdx(l)
    BY <1>0, <1>9, <2>2, PushIdx DEF CallDirect, Loops
  <2> QED BY <1>9, <1>s, <2>1, <2>3, WakeupKept DEF CallDirect
<1>4. ASSUME NEW m \in Msgs, Arm(m) PROVE Wakeup'
  <2>1. /\ LoopIdx("reset")' = LoopIdx("reset") /\ LoopIdx("main")' = LoopIdx("main")
        /\ idleId' = TRUE
    BY <1>4, <1>f DEF Arm
  <2>2. CASE idleId
    <3>1. IdleIdx' = IdleIdx BY <1>4, <1>s, <2>2 DEF Arm, AttachIdle
    <3> QED BY <2>1, <2>2, <3>1 DEF Wakeup
  <2>3. CASE ~ idleId
    <3>1. /\ DOMAIN sources = 1 .. Len(sources) /\ Len(sources) \in Nat
          /\ DOMAIN sources' = 1 .. Len(sources) + 1
          /\ \A i \in 1 .. Len(sources) : sources'[i] = sources[i]
          /\ sources'[Len(sources) + 1] = IdleCb
      BY <1>0, <1>4, <2>3, MadeTypes, LenProperties, AppendProperties DEF Arm, AttachIdle
    <3>2. IdleIdx = {} /\ LoopIdx("reset") = {} BY <2>3 DEF Wakeup
    <3>3. IdleIdx' = {Len(sources) + 1} BY <3>1, <3>2 DEF IdleIdx, IdleCb
    <3> QED BY <2>1, <3>2, <3>3 DEF Wakeup
  <2> QED BY <2>2, <2>3
<1>k. ASSUME NEW f \in Frames, stack # <<>>, SetTop(f), f.loop = Top.loop
      PROVE  \A l \in {"reset", "main", "reply"} : LoopIdx(l)' = LoopIdx(l)
  BY <1>0, <1>k, SetTopIdx DEF Loops
<1>10. ASSUME CallDone PROVE Wakeup'
  <2>1. stack # <<>> BY <1>10 DEF CallDone, At
  <2>2. Frame(Top.loop, "drop", Top.msg) \in Frames
        /\ Frame(Top.loop, "drop", Top.msg).loop = Top.loop
    BY <1>0, <2>1, TopType, MadeTypes DEF Frame
  <2>3. \A l \in {"reset", "main", "reply"} : LoopIdx(l)' = LoopIdx(l)
    BY <1>10, <1>k, <2>1, <2>2 DEF CallDone
  <2>4. Queued(Calls)' \subseteq Queued(Calls)
    BY <1>0, <1>10, QueuedKept DEF CallDone, Stages
  <2> QED BY <1>10, <1>s, <2>3, <2>4, WakeupKept DEF CallDone
<1>11. ASSUME IdleReset PROVE Wakeup'
  <2>1. /\ stack # <<>> /\ Top.loop = "reset" /\ idleId' = FALSE
        /\ SetTop(Frame("main", "poll", NoMsg))
    BY <1>11 DEF IdleReset, At, ClearIdleId
  <2>2. Frame("main", "poll", NoMsg) \in Frames /\ Frame("main", "poll", NoMsg).loop = "main"
    BY MadeTypes DEF Loops, Frame
  <2>3. /\ LoopIdx("reset")' = LoopIdx("reset") \ {Len(stack)}
        /\ Len(stack) \in LoopIdx("reset") /\ Len(stack) \in LoopIdx("main")'
    BY <1>0, <2>1, <2>2, SetTopIdx DEF Loops
  <2>4. IdleIdx' = IdleIdx BY <1>11, <1>s DEF IdleReset
  <2>5. LoopIdx("reset")' = {} /\ IdleIdx = {} BY <2>3 DEF Wakeup
  <2> QED BY <2>1, <2>3, <2>4, <2>5 DEF Wakeup
<1>12. ASSUME NEW c \in Calls, MainPop(c) PROVE Wakeup'
  <2>1. stack # <<>> /\ Top.loop = "main" BY <1>12 DEF MainPop, At
  <2>2. Frame("main", "run", c) \in Frames /\ Frame("main", "run", c).loop = "main"
    BY <1>0, MadeTypes DEF Frame, Loops
  <2>3. \A l \in {"reset", "main", "reply"} : LoopIdx(l)' = LoopIdx(l)
    BY <1>12, <1>k, <2>1, <2>2 DEF MainPop
  <2>4. Queued(Calls)' \subseteq Queued(Calls)
    BY <1>0, <1>12, QueuedKept DEF MainPop, Stages
  <2>5. IdleIdx' = IdleIdx
    BY <1>0, <1>12, AppendOther, MadeTypes DEF MainPop, Submit, Msgs
  <2> QED BY <1>12, <2>3, <2>4, <2>5, WakeupKept DEF MainPop
<1>13. ASSUME MainEmpty PROVE Wakeup'
  <2>1. stack # <<>> /\ Top.loop = "main" /\ SetTop(Frame("reply", "poll", NoMsg))
    BY <1>13 DEF MainEmpty, At
  <2>2. Frame("reply", "poll", NoMsg) \in Frames /\ Frame("reply", "poll", NoMsg).loop = "reply"
    BY MadeTypes DEF Loops, Frame
  <2>3. LoopIdx("reset")' = LoopIdx("reset") /\ Len(stack) \in LoopIdx("reply")'
    BY <1>0, <2>1, <2>2, SetTopIdx DEF Loops
  <2>4. IdleIdx' = IdleIdx /\ idleId' = idleId BY <1>13, <1>s DEF MainEmpty
  <2>5. Queued(Calls)' = {} BY <1>13 DEF MainEmpty, Queued
  <2> QED BY <2>3, <2>4, <2>5 DEF Wakeup
<1>14. ASSUME ReplyPop PROVE Wakeup'
  <2>1. stack # <<>> /\ Top.loop = "reply" BY <1>14 DEF ReplyPop, At
  <2>2. Head(replyQ) \in Msgs BY <1>0, <1>14, HeadTailProperties DEF ReplyPop
  <2>3. Frame("reply", "run", Head(replyQ)) \in Frames
        /\ Frame("reply", "run", Head(replyQ)).loop = "reply"
    BY <2>2, MadeTypes DEF Frame, Loops
  <2>4. \A l \in {"reset", "main", "reply"} : LoopIdx(l)' = LoopIdx(l)
    BY <1>14, <1>k, <2>1, <2>3 DEF ReplyPop
  <2>5. Queued(Calls)' \subseteq Queued(Calls)
    BY <1>0, <1>14, QueuedKept DEF ReplyPop, Stages
  <2> QED BY <1>14, <1>s, <2>4, <2>5, WakeupKept DEF ReplyPop
<1>15. ASSUME ReplyEmpty PROVE Wakeup'
  <2>1. stack # <<>> /\ Top.loop = "reply" /\ stack' = Front(stack) BY <1>15 DEF ReplyEmpty, At
  <2>2. LoopIdx("reset")' = LoopIdx("reset") /\ LoopIdx("main")' = LoopIdx("main")
    BY <1>0, <2>1, PopIdx DEF Loops
  <2>3. IdleIdx' = IdleIdx /\ idleId' = idleId /\ Queued(Calls)' = Queued(Calls)
        /\ (WillArm' <=> WillArm) /\ replyQ' = <<>>
    BY <1>15, <1>s DEF ReplyEmpty, Queued, WillArm
  <2> QED BY <2>2, <2>3 DEF Wakeup
<1>16. ASSUME DoneReturn PROVE Wakeup'
  <2>1. stack # <<>> /\ Top.loop = "reply" BY <1>16 DEF DoneReturn, At
  <2>2. Frame("reply", "drop", Top.msg) \in Frames /\ Frame("reply", "drop", Top.msg).loop = "reply"
    BY <1>0, <2>1, TopType, MadeTypes DEF Frame, Loops
  <2>3. \A l \in {"reset", "main", "reply"} : LoopIdx(l)' = LoopIdx(l)
    BY <1>16, <1>k, <2>1, <2>2 DEF DoneReturn
  <2>4. Queued(Calls)' \subseteq Queued(Calls)
    BY <1>0, <1>16, QueuedKept DEF DoneReturn, Stages
  <2> QED BY <1>16, <1>s, <2>3, <2>4, WakeupKept DEF DoneReturn
<1>18. ASSUME MainUnref PROVE Wakeup'
  <2>1. stack # <<>> BY <1>18 DEF MainUnref
  <2>2. Frame(Top.loop, "retire", Top.msg) \in Frames
        /\ Frame(Top.loop, "retire", Top.msg).loop = Top.loop
    BY <1>0, <2>1, TopType, MadeTypes DEF Frame
  <2>3. \A l \in {"reset", "main", "reply"} : LoopIdx(l)' = LoopIdx(l)
    BY <1>0, <1>18, <1>k, <2>1, <2>2, ContinueIdx DEF MainUnref
  <2> QED BY <1>18, <1>s, <1>g, <2>3, WakeupKept DEF MainUnref
<1>19. ASSUME MainRetire PROVE Wakeup'
  <2>1. \A l \in {"reset", "main", "reply"} : LoopIdx(l)' = LoopIdx(l)
    BY <1>0, <1>19, ContinueIdx DEF MainRetire
  <2>2. IdleIdx' = IdleIdx
    BY <1>0, <1>19, TopType, AppendOther, MadeTypes DEF MainRetire, Retire, FreeIdle
  <2> QED BY <1>19, <1>g, <2>1, <2>2, WakeupKept DEF MainRetire
<1>20. ASSUME NEW i \in DOMAIN sources, Dispatch(i) PROVE Wakeup'
  <2>1. Queued(Calls)' \subseteq Queued(Calls)
    BY <1>0, <1>20, QueuedKept DEF Dispatch, Stages, Queued
  <2>2. /\ sources' = RemoveAt(sources, i) /\ idleId' = idleId
        /\ (WillArm' <=> WillArm) /\ replyQ' = replyQ
    BY <1>20 DEF Dispatch, WillArm
  <2>3. /\ sources[i] # IdleCb => /\ IdleIdx' = {} <=> IdleIdx = {}
                                  /\ \A k, j \in IdleIdx' : k = j
        /\ sources[i] = IdleCb => IdleIdx' = {}
    BY <1>0, <2>2, RemoveIdx DEF Wakeup
  <2>4. CASE sources[i].kind # "idle"
    <3>1. sources[i] # IdleCb BY <2>4 DEF IdleCb
    <3>2. stack' = stack BY <1>20, <2>4 DEF Dispatch
    <3>3. /\ LoopIdx("reset")' = LoopIdx("reset") /\ LoopIdx("main")' = LoopIdx("main")
          /\ LoopIdx("reply")' = LoopIdx("reply")
      BY <1>f, <3>2
    <3> QED BY <2>1, <2>2, <2>3, <3>1, <3>3 DEF Wakeup
  <2>5. CASE sources[i] = IdleCb
    <3>1. sources[i].kind = "idle" /\ IdleIdx # {} BY <2>5 DEF IdleCb, IdleIdx
    <3>2. stack' = Append(stack, Frame("reset", "poll", NoMsg)) BY <1>20, <3>1 DEF Dispatch
    <3>3. Frame("reset", "poll", NoMsg) \in Frames /\ Frame("reset", "poll", NoMsg).loop = "reset"
      BY MadeTypes DEF Loops, Frame
    <3>4. /\ LoopIdx("reset")' = LoopIdx("reset") \cup {Len(stack) + 1}
      BY <1>0, <3>2, <3>3, PushIdx
    <3>5. idleId /\ LoopIdx("reset") = {} BY <3>1 DEF Wakeup
    <3> QED BY <2>2, <2>3, <2>5, <3>4, <3>5 DEF Wakeup
  <2>6. sources[i] = IdleCb \/ sources[i].kind # "idle"
    <3>1. sources[i] \in Sources BY <1>0, ElementOfSeq, LenProperties
    <3> QED BY <3>1 DEF Sources, IdleCb
  <2> QED BY <2>4, <2>5, <2>6
<1>21. CASE UNCHANGED vars
  BY <1>21, <1>s, <1>f, <1>g, WakeupKept DEF vars
<1> QED
  BY <1>1, <1>2, <1>3, <1>4, <1>5, <1>6, <1>7, <1>8, <1>9, <1>10, <1>11, <1>12,
     <1>13, <1>14, <1>15, <1>16, <1>18, <1>19, <1>20, <1>21 DEF Next, MainStep

LEMMA InitShape == Init => Shape /\ Wakeup
<1> SUFFICES ASSUME Init PROVE Shape /\ Wakeup OBVIOUS
<1>1. sources = <<>> /\ stack = <<>> /\ replyQ = <<>> /\ idleId = FALSE
      /\ stage = [m \in Msgs |-> "new"]
  BY DEF Init
<1>2. IdleIdx = {} /\ \A l \in Loops : LoopIdx(l) = {}
  BY <1>1 DEF IdleIdx, LoopIdx
<1>3. Queued(Calls) = {} BY <1>1 DEF Queued, Msgs
<1>4. replyQ \in Seq(Msgs) /\ sources \in Seq(Sources) /\ stack \in Seq(Frames)
  BY <1>1, EmptySeq
<1>5. Shape
  <2>1. /\ stage \in [Msgs -> Stages] /\ table \subseteq Msgs
        /\ tickets \in Nat /\ arming \subseteq Msgs
        /\ idleId \in BOOLEAN /\ cancelled \subseteq Msgs
    BY DEF Init, Stages
  <2>3. ticket \in [Msgs -> Nat] BY DEF Init
  <2>4. refs \in [Msgs -> Int] BY DEF Init
  <2>2. /\ caller \in [Calls -> Callers] /\ host \in [Calls -> Async \cup {NoMsg}]
        /\ error \in [Msgs -> Errors] /\ outcome \in [Msgs -> Outcomes]
    BY DEF Init, Callers, Errors, Outcomes
  <2> QED BY <1>4, <2>1, <2>2, <2>3, <2>4 DEF Shape
<1> QED BY <1>1, <1>2, <1>3, <1>5 DEF Wakeup, Loops

\* No wakeup is lost, whatever the interleaving of workers, callers, idle
\* callbacks and nested main loops, and idle_source_id is exact.
THEOREM WakeupSafe == Spec => [](NoLostWakeup /\ IdleIdExact)
<1>1. Shape /\ Wakeup /\ [Next]_vars => (Shape /\ Wakeup)'
  BY ShapeStep, WakeupStep
<1>2. Shape /\ Wakeup => NoLostWakeup /\ IdleIdExact
  BY WakeupByIndex
<1> QED BY InitShape, <1>1, <1>2, PTL DEF Spec

\* The flag that says whether the main loop has a source is never wrong.
THEOREM IdleIdIsExact == Spec => []IdleIdExact
BY WakeupSafe, PTL

-----------------------------------------------------------------------------
(* The stack of the main thread, and who owns what.                        *)

\* The frames of the main thread, and those below the one on top.
OnStack == ToSet(stack)
Below   == ToSet(Front(stack))

\* A frame that polls has no message; a direct call is no loop; the messages
\* of the reply queue are the asynchronous ones.
FrameShape(f) ==
  /\ f.at = "poll" <=> f.msg = NoMsg
  /\ f.at = "poll" => f.loop # "direct"
  /\ f.at # "poll" => f.loop # "reset" /\ (f.loop = "reply" <=> f.msg \in Async)

\* Only a callback nests a main loop, and a message is in one frame at most.
StackOK ==
  /\ \A i \in DOMAIN stack : FrameShape(stack[i])
  /\ \A i \in 1 .. Len(stack) - 1 : stack[i].at = "run"
  /\ \A i, j \in DOMAIN stack :
       stack[i].msg = stack[j].msg /\ stack[i].msg # NoMsg => i = j

LEMMA BelowFacts ==
  ASSUME Shape, StackOK, stack # <<>>
  PROVE  /\ OnStack = Below \cup {Top}
         /\ FrameShape(Top)
         /\ \A f \in Below : f.at = "run" /\ f.msg # NoMsg /\ f.msg # Top.msg
<1>1. /\ stack \in Seq(Frames) /\ DOMAIN stack = 1 .. Len(stack)
      /\ Len(stack) \in Nat /\ Len(stack) >= 1 /\ Top = stack[Len(stack)]
  BY FrontFacts, LenProperties DEF Shape, Top
<1>2. OnStack = Below \cup {Top} BY <1>1, FrontSet DEF OnStack, Below, Top
<1>3. ASSUME NEW f \in Below
      PROVE  f.at = "run" /\ f.msg # NoMsg /\ f.msg # Top.msg
  <2>1. PICK i \in 1 .. Len(stack) - 1 : f = stack[i] BY <1>1, FrontSet DEF Below
  <2>2. i \in DOMAIN stack /\ Len(stack) \in DOMAIN stack /\ i # Len(stack)
    BY <1>1, NextIndex, LastIndex
  <2>3. f.at = "run" BY <2>1 DEF StackOK
  <2>4. f.msg # NoMsg BY <2>1, <2>2, <2>3 DEF StackOK, FrameShape
  <2> QED BY <1>1, <2>1, <2>2, <2>3, <2>4 DEF StackOK
<1>4. FrameShape(Top) BY <1>1 DEF StackOK
<1> QED BY <1>2, <1>3, <1>4

\* The three ways the stack changes.
LEMMA StackSetTop ==
  ASSUME Shape, StackOK, stack # <<>>, NEW f \in Frames, SetTop(f), FrameShape(f),
         \A g \in Below : g.msg # f.msg
  PROVE  StackOK' /\ OnStack' = Below \cup {f}
<1>0. stack \in Seq(Frames) /\ stack' = Append(Front(stack), f)
  BY DEF Shape, SetTop
<1>1. /\ stack \in Seq(Frames) /\ stack' \in Seq(Frames)
      /\ DOMAIN stack = 1 .. Len(stack) /\ DOMAIN stack' = 1 .. Len(stack)
      /\ Len(stack) \in Nat /\ Len(stack) >= 1 /\ Len(stack') = Len(stack)
      /\ \A i \in 1 .. Len(stack) - 1 : stack'[i] = stack[i]
      /\ stack'[Len(stack)] = f
  <2>1. Len(stack) \in Nat /\ Len(stack) >= 1 BY <1>0, FrontFacts
  <2>2. /\ stack' \in Seq(Frames) /\ Len(stack') = Len(stack)
        /\ \A i \in 1 .. Len(stack) - 1 : stack'[i] = stack[i]
        /\ stack'[Len(stack)] = f
    BY <1>0, ReplaceLast
  <2> QED BY <1>0, <2>1, <2>2, LenProperties
<1>2. OnStack' = Below \cup {f}
  <2>1. Front(stack) \in Seq(Frames) BY <1>0, FrontFacts
  <2> QED BY <1>0, <2>1, AppendSet DEF OnStack, Below
<1>3. \A i \in 1 .. Len(stack) - 1 : stack[i].msg # f.msg
  BY <1>1, FrontSet DEF Below
<1>4. \A i \in 1 .. Len(stack) : i \in 1 .. Len(stack) - 1 \/ i = Len(stack)
  BY <1>1, LastIndex
<1>5. \A i \in DOMAIN stack' : FrameShape(stack'[i]) BY <1>1, <1>4 DEF StackOK
<1>6. \A i \in 1 .. Len(stack') - 1 : stack'[i].at = "run" BY <1>1 DEF StackOK
<1>7. \A i, j \in DOMAIN stack' :
        stack'[i].msg = stack'[j].msg /\ stack'[i].msg # NoMsg => i = j
  <2> SUFFICES ASSUME NEW i \in 1 .. Len(stack), NEW j \in 1 .. Len(stack),
                      stack'[i].msg = stack'[j].msg, stack'[i].msg # NoMsg
               PROVE  i = j
    BY <1>1
  <2>1. CASE i \in 1 .. Len(stack) - 1 /\ j \in 1 .. Len(stack) - 1
    BY <1>1, <2>1 DEF StackOK
  <2>2. CASE i = Len(stack) \/ j = Len(stack) BY <1>1, <1>3, <1>4, <2>2
  <2> QED BY <1>4, <2>1, <2>2
<1> QED BY <1>2, <1>5, <1>6, <1>7 DEF StackOK

LEMMA StackPop ==
  ASSUME Shape, StackOK, stack # <<>>, stack' = Front(stack)
  PROVE  StackOK' /\ OnStack' = Below
<1>1. /\ stack \in Seq(Frames) /\ stack' \in Seq(Frames)
      /\ DOMAIN stack = 1 .. Len(stack) /\ DOMAIN stack' = 1 .. Len(stack) - 1
      /\ Len(stack) \in Nat /\ Len(stack) >= 1 /\ Len(stack') = Len(stack) - 1
      /\ \A i \in 1 .. Len(stack) - 1 : stack'[i] = stack[i]
  BY FrontFacts, LenProperties DEF Shape
<1>2. \A i \in DOMAIN stack' : i \in DOMAIN stack /\ i \in 1 .. Len(stack) - 1
  BY <1>1, NextIndex
<1>3. \A i \in 1 .. Len(stack') - 1 : i \in 1 .. Len(stack) - 1
  BY <1>1, NextIndex
<1>4. StackOK' BY <1>1, <1>2, <1>3 DEF StackOK
<1> QED BY <1>4 DEF OnStack, Below

LEMMA StackPush ==
  ASSUME Shape, StackOK, LoopRuns, NEW f \in Frames, stack' = Append(stack, f),
         FrameShape(f), f.msg = NoMsg \/ \A g \in OnStack : g.msg # f.msg
  PROVE  StackOK' /\ OnStack' = OnStack \cup {f}
<1>1. /\ stack \in Seq(Frames)
      /\ DOMAIN stack = 1 .. Len(stack) /\ DOMAIN stack' = 1 .. Len(stack) + 1
      /\ Len(stack) \in Nat /\ Len(stack') = Len(stack) + 1
      /\ \A i \in 1 .. Len(stack) : stack'[i] = stack[i]
      /\ stack'[Len(stack) + 1] = f
  BY AppendProperties, LenProperties DEF Shape
<1>2. OnStack' = OnStack \cup {f} BY <1>1, AppendSet DEF OnStack
<1>3. \A i \in 1 .. Len(stack) : stack[i].at = "run"
  <2>1. CASE stack = <<>> BY <1>1, <2>1, EmptySeq
  <2>2. CASE stack # <<>>
    <3>1. Len(stack) >= 1 /\ Top = stack[Len(stack)] BY <1>1, <2>2, FrontFacts DEF Top
    <3>2. stack[Len(stack)].at = "run" BY <2>2, <3>1 DEF LoopRuns
    <3>3. \A i \in 1 .. Len(stack) : i \in 1 .. Len(stack) - 1 \/ i = Len(stack)
      BY <1>1, <3>1, LastIndex
    <3> QED BY <3>2, <3>3 DEF StackOK
  <2> QED BY <2>1, <2>2
<1>4. \A i \in 1 .. Len(stack) : stack[i].msg # f.msg
  <2>1. \A i \in 1 .. Len(stack) : stack[i] \in OnStack BY <1>1 DEF OnStack, ToSet
  <2>2. \A i \in 1 .. Len(stack) : stack[i].msg # NoMsg
    BY <1>1, <1>3 DEF StackOK, FrameShape
  <2> QED BY <2>1, <2>2
<1>5. \A i \in 1 .. Len(stack) + 1 : i \in 1 .. Len(stack) \/ i = Len(stack) + 1
  BY <1>1, NextIndex
<1>6. Len(stack') - 1 = Len(stack) BY <1>1, NextIndex
<1>7. \A i \in DOMAIN stack' : FrameShape(stack'[i]) BY <1>1, <1>5 DEF StackOK
<1>8. \A i \in 1 .. Len(stack') - 1 : stack'[i].at = "run" BY <1>1, <1>3, <1>6
<1>9. \A i, j \in DOMAIN stack' :
        stack'[i].msg = stack'[j].msg /\ stack'[i].msg # NoMsg => i = j
  BY <1>1, <1>4, <1>5 DEF StackOK
<1> QED BY <1>2, <1>7, <1>8, <1>9 DEF StackOK

\* A callback that runs has its message handled, and a caller that waits is the
\* one of a callback of the first loop; what is dropped or retired is over.
FrameFits(f) ==
  /\ f.at = "run" => /\ stage[f.msg] = "handled"
                     /\ f.loop = "main" => caller[f.msg] = "waiting"
                     /\ f.loop = "direct" => caller[f.msg] = "none"
  /\ f.at \in {"drop", "retire"} => stage[f.msg] = "ended"
FramesFit == \A f \in OnStack : FrameFits(f)

\* Who has a reference on a message, and who is about to retire it.
Has(m, at)       == \E f \in OnStack : f.msg = m /\ f.at = at
LoopHolds(m)     == \/ stage[m] \in {"queued", "running", "answered", "handled"}
                    \/ Has(m, "drop")
CallerHolds(m)   == m \in Calls /\ caller[m] \in {"waiting", "signalled"}
CallerRetires(m) == m \in Calls /\ caller[m] = "retire"
Retires(m)       == Has(m, "retire") \/ CallerRetires(m)

\* The count counts the holders, the table lists the messages that have one or
\* are being retired, and one of the two that may retire a message does.
Counted(m) ==
  /\ refs[m] = (IF LoopHolds(m) THEN 1 ELSE 0) + (IF CallerHolds(m) THEN 1 ELSE 0)
  /\ m \in table <=> LoopHolds(m) \/ CallerHolds(m) \/ Retires(m)
  /\ Retires(m) => ~ LoopHolds(m) /\ ~ CallerHolds(m)
  /\ ~ (Has(m, "retire") /\ CallerRetires(m))

\* How far a call is, and what its caller does meanwhile.
CallFits(c) ==
  /\ stage[c] \notin {"running", "answered"}
  /\ stage[c] = "new" => caller[c] = "none"
  /\ stage[c] = "queued" => caller[c] = "waiting"
  /\ caller[c] = "waiting" => stage[c] \in {"queued", "handled"}
  /\ caller[c] \in {"signalled", "retire"} => stage[c] = "ended"

\* The sources that follow a pointer to the message, or free it.
SourcesFit(m) ==
  /\ FreeIdle(m) \in ToSet(sources) => m \notin table /\ stage[m] = "ended"
  /\ Submit(m) \in ToSet(sources) => stage[m] \notin {"new", "queued", "freed"}
  /\ stage[m] = "freed" => m \notin table

MsgOK(m) == Counted(m) /\ (m \in Calls => CallFits(m)) /\ SourcesFit(m)

\* A message is freed once, and after its activity was shown.
SourcesOrdered ==
  \A m \in Msgs : \A i, j \in DOMAIN sources :
    /\ sources[i] = Submit(m) /\ sources[j] = FreeIdle(m) => i < j
    /\ sources[i] = FreeIdle(m) /\ sources[j] = FreeIdle(m) => i = j

\* The queue of replies holds what was answered, once.
RepliesExact ==
  /\ \A m \in Msgs : m \in ToSet(replyQ) <=> stage[m] = "answered"
  /\ \A i, j \in DOMAIN replyQ : replyQ[i] = replyQ[j] => i = j

Owned == /\ StackOK /\ FramesFit /\ SourcesOrdered /\ RepliesExact
         /\ \A m \in Msgs : MsgOK(m)

LEMMA FrameFields ==
  \A l, a, m : Frame(l, a, m).loop = l /\ Frame(l, a, m).at = a /\ Frame(l, a, m).msg = m
BY DEF Frame

LEMMA SourceFields ==
  /\ \A m, n : /\ Submit(m) = Submit(n) => m = n
               /\ FreeIdle(m) = FreeIdle(n) => m = n
               /\ Submit(m) # FreeIdle(n)
  /\ \A m : Submit(m) # IdleCb /\ FreeIdle(m) # IdleCb
<1>1. \A m : /\ Submit(m).kind = "submit" /\ Submit(m).msg = m
             /\ FreeIdle(m).kind = "free" /\ FreeIdle(m).msg = m
  BY DEF Submit, FreeIdle
<1>2. IdleCb.kind = "idle" BY DEF IdleCb
<1> QED BY <1>1, <1>2

-----------------------------------------------------------------------------
(* How the sources change.                                                 *)

LEMMA AttachOrder ==
  ASSUME Shape, SourcesOrdered, NEW s \in Sources, sources' = Append(sources, s),
         \A m \in Msgs : s = Submit(m) \/ s = FreeIdle(m) => FreeIdle(m) \notin ToSet(sources)
  PROVE  SourcesOrdered' /\ ToSet(sources)' = ToSet(sources) \cup {s}
<1>1. /\ sources \in Seq(Sources)
      /\ DOMAIN sources = 1 .. Len(sources) /\ DOMAIN sources' = 1 .. Len(sources) + 1
      /\ Len(sources) \in Nat
      /\ \A i \in 1 .. Len(sources) : sources'[i] = sources[i]
      /\ sources'[Len(sources) + 1] = s
  BY AppendProperties, LenProperties DEF Shape
<1>2. ToSet(sources)' = ToSet(sources) \cup {s} BY <1>1, AppendSet
<1>3. \A i \in 1 .. Len(sources) + 1 : i \in 1 .. Len(sources) \/ i = Len(sources) + 1
  BY <1>1, NextIndex
<1> SUFFICES ASSUME NEW m \in Msgs, NEW i \in DOMAIN sources', NEW j \in DOMAIN sources',
                    sources'[j] = FreeIdle(m)
             PROVE  /\ sources'[i] = Submit(m) => i < j
                    /\ sources'[i] = FreeIdle(m) => i = j
  BY <1>2 DEF SourcesOrdered, Submit, FreeIdle
<1>4. CASE j \in 1 .. Len(sources)
  <2>1. sources[j] = FreeIdle(m) /\ FreeIdle(m) \in ToSet(sources)
    BY <1>1, <1>4 DEF ToSet
  <2>2. i \in 1 .. Len(sources) \/ (sources'[i] # Submit(m) /\ sources'[i] # FreeIdle(m))
    BY <1>1, <1>3, <2>1
  <2> QED BY <1>1, <1>4, <2>1, <2>2 DEF SourcesOrdered
<1>5. CASE j = Len(sources) + 1
  <2>1. FreeIdle(m) \notin ToSet(sources) BY <1>1, <1>5
  <2>2. \A k \in 1 .. Len(sources) : sources'[k] # FreeIdle(m) /\ k < Len(sources) + 1
    BY <1>1, <2>1 DEF ToSet
  <2>3. Submit(m) # FreeIdle(m) BY SourceFields
  <2> QED BY <1>1, <1>3, <1>5, <2>2, <2>3
<1> QED BY <1>1, <1>3, <1>4, <1>5

LEMMA DetachOrder ==
  ASSUME Shape, SourcesOrdered, NEW k \in DOMAIN sources, sources' = RemoveAt(sources, k)
  PROVE  /\ SourcesOrdered'
         /\ ToSet(sources)' \subseteq ToSet(sources)
         /\ \A m \in Msgs : sources[k] = FreeIdle(m) /\ Dispatchable(k)
              => FreeIdle(m) \notin ToSet(sources)' /\ Submit(m) \notin ToSet(sources)'
<1>1. /\ sources \in Seq(Sources) /\ sources' \in Seq(Sources)
      /\ DOMAIN sources = 1 .. Len(sources) /\ DOMAIN sources' = 1 .. Len(sources) - 1
      /\ Len(sources) \in Nat /\ k \in 1 .. Len(sources)
      /\ \A i \in 1 .. Len(sources) - 1 :
           sources'[i] = IF i < k THEN sources[i] ELSE sources[i + 1]
  BY RemoveFacts, LenProperties DEF Shape
<1>2. ToSet(sources)' \subseteq ToSet(sources) BY <1>1, RemoveSet
<1> DEFINE old(i) == IF i < k THEN i ELSE i + 1
<1>3. \A i \in 1 .. Len(sources) - 1 : old(i) \in 1 .. Len(sources) /\ old(i) # k
  BY <1>1
<1>4. \A i, j \in 1 .. Len(sources) - 1 : /\ old(i) < old(j) => i < j
                                          /\ old(i) = old(j) => i = j
  BY <1>1
<1>5. \A i \in 1 .. Len(sources) - 1 : sources'[i] = sources[old(i)]
  BY <1>1
<1> HIDE DEF old
<1>6. SourcesOrdered'
  <2> SUFFICES ASSUME NEW m \in Msgs, NEW i \in DOMAIN sources', NEW j \in DOMAIN sources',
                      sources'[j] = FreeIdle(m)
               PROVE  /\ sources'[i] = Submit(m) => i < j
                      /\ sources'[i] = FreeIdle(m) => i = j
    BY DEF SourcesOrdered, Submit, FreeIdle
  <2>1. old(i) \in DOMAIN sources /\ old(j) \in DOMAIN sources BY <1>1, <1>3
  <2>2. /\ sources[old(i)] = Submit(m) => old(i) < old(j)
        /\ sources[old(i)] = FreeIdle(m) => old(i) = old(j)
    BY <1>1, <1>5, <2>1 DEF SourcesOrdered
  <2> QED BY <1>1, <1>4, <1>5, <2>2
<1>7. ASSUME NEW m \in Msgs, sources[k] = FreeIdle(m), Dispatchable(k)
      PROVE  FreeIdle(m) \notin ToSet(sources)' /\ Submit(m) \notin ToSet(sources)'
  <2>1. \A i \in 1 .. Len(sources) - 1 : sources'[i] # FreeIdle(m)
    BY <1>1, <1>3, <1>5, <1>7 DEF SourcesOrdered
  <2>2. \A i \in 1 .. Len(sources) - 1 : sources'[i] # Submit(m)
    <3> SUFFICES ASSUME NEW i \in 1 .. Len(sources) - 1, sources'[i] = Submit(m)
                 PROVE  FALSE
      OBVIOUS
    <3>1. sources[old(i)] = Submit(m) /\ old(i) \in 1 .. Len(sources) BY <1>3, <1>5
    <3>2. old(i) < k BY <1>1, <1>7, <3>1 DEF SourcesOrdered
    <3>3. old(i) \in 1 .. k - 1 BY <1>1, <3>1, <3>2
    <3>4. Urgency(Submit(m)) = 0 /\ Urgency(FreeIdle(m)) = 100
      BY DEF Urgency, Submit, FreeIdle
    <3> QED BY <1>7, <3>1, <3>3, <3>4 DEF Dispatchable
  <2> QED BY <1>1, <2>1, <2>2 DEF ToSet
<1> QED BY <1>2, <1>6, <1>7

\* A message that a step leaves alone.
Alone(m) ==
  /\ stage'[m] = stage[m] /\ refs'[m] = refs[m] /\ (m \in table' <=> m \in table)
  /\ m \in Calls => caller'[m] = caller[m]
  /\ \A at \in {"drop", "retire"} : Has(m, at)' <=> Has(m, at)
  /\ FreeIdle(m) \in ToSet(sources)' => FreeIdle(m) \in ToSet(sources)
  /\ Submit(m) \in ToSet(sources)' => Submit(m) \in ToSet(sources)

LEMMA AloneKept ==
  ASSUME NEW m, MsgOK(m), Alone(m)
  PROVE  MsgOK(m)'
<1>1. (LoopHolds(m)' <=> LoopHolds(m)) /\ (CallerHolds(m)' <=> CallerHolds(m))
      /\ (Has(m, "retire")' <=> Has(m, "retire")) /\ (CallerRetires(m)' <=> CallerRetires(m))
  BY DEF Alone, LoopHolds, CallerHolds, CallerRetires
<1>2. Counted(m)' BY <1>1 DEF Alone, MsgOK, Counted, Retires
<1>3. m \in Calls => CallFits(m)' BY DEF Alone, MsgOK, CallFits
<1>4. SourcesFit(m)' BY DEF Alone, MsgOK, SourcesFit, Submit, FreeIdle
<1> QED BY <1>2, <1>3, <1>4 DEF MsgOK

\* Where a step acts on one message, x.
LEMMA OwnedBy ==
  ASSUME Owned, NEW x, StackOK', FramesFit', SourcesOrdered', RepliesExact',
         \A m \in Msgs \ {x} : Alone(m), x \in Msgs => MsgOK(x)'
  PROVE  Owned'
<1>1. ASSUME NEW m \in Msgs PROVE MsgOK(m)'
  <2>1. CASE m = x BY <2>1
  <2>2. CASE m # x
    <3>1. MsgOK(m) BY DEF Owned
    <3>2. Alone(m) BY <2>2
    <3> QED BY <3>1, <3>2, AloneKept
  <2> QED BY <2>1, <2>2
<1>2. Msgs' = Msgs BY DEF Msgs
<1> QED BY <1>1, <1>2 DEF Owned

\* Nothing is left on the stack of a message that is not in a callback.
LEMMA NoFrame ==
  ASSUME Shape, Owned, NEW m \in Msgs, stage[m] \notin {"handled", "ended"}
  PROVE  /\ \A f \in OnStack : f.msg # m
         /\ \A at : ~ Has(m, at)
<1>1. ASSUME NEW f \in OnStack, f.msg = m PROVE FALSE
  <2>1. PICK i \in DOMAIN stack : f = stack[i] BY DEF OnStack, ToSet
  <2>2. FrameShape(f) /\ FrameFits(f) BY <2>1 DEF Owned, StackOK, FramesFit
  <2>3. f \in Frames
    <3>1. stack \in Seq(Frames) BY DEF Shape
    <3> QED BY <2>1, <3>1, ElementOfSeq, LenProperties
  <2>4. f.at # "poll" BY <1>1, <2>2, MailMsgAssumption DEF FrameShape
  <2>5. f.at \in {"run", "drop", "retire"} BY <2>3, <2>4 DEF Frames
  <2> QED BY <1>1, <2>2, <2>5 DEF FrameFits
<1> QED BY <1>1 DEF Has

LEMMA SameStack ==
  ASSUME StackOK, UNCHANGED stack
  PROVE  StackOK' /\ OnStack' = OnStack /\ \A m, at : Has(m, at)' <=> Has(m, at)
<1>1. StackOK' BY DEF StackOK, FrameShape
<1>2. OnStack' = OnStack BY DEF OnStack
<1> QED BY <1>1, <1>2 DEF Has

LEMMA SameSources ==
  ASSUME SourcesOrdered, UNCHANGED sources
  PROVE  SourcesOrdered' /\ ToSet(sources)' = ToSet(sources)
<1>1. Msgs' = Msgs BY DEF Msgs
<1> QED BY <1>1 DEF SourcesOrdered, Submit, FreeIdle

LEMMA SameReplies ==
  ASSUME RepliesExact, UNCHANGED replyQ,
         \A m \in Msgs : stage'[m] = "answered" <=> stage[m] = "answered"
  PROVE  RepliesExact'
<1>1. Msgs' = Msgs BY DEF Msgs
<1> QED BY <1>1 DEF RepliesExact

\* A frame that stays, of a message that stays as it is.
LEMMA SameFrame ==
  ASSUME NEW f, FrameFits(f),
         f.at # "poll" => stage'[f.msg] = stage[f.msg] /\ caller'[f.msg] = caller[f.msg]
  PROVE  FrameFits(f)'
BY DEF FrameFits

-----------------------------------------------------------------------------
(* Messages and workers.                                                   *)

LEMMA OwnedPush ==
  ASSUME Shape, Owned, NEW x \in Async, Push(x)
  PROVE  Owned'
<1> USE DEF Msgs
<1>1. StackOK' /\ OnStack' = OnStack /\ \A m, at : Has(m, at)' <=> Has(m, at)
  BY SameStack DEF Push, Owned
<1>2. SourcesOrdered' /\ ToSet(sources)' = ToSet(sources)
  BY SameSources DEF Push, Owned
<1>3. stage[x] = "new" /\ x \notin Calls /\ stage' = [stage EXCEPT ![x] = "queued"]
      /\ refs' = [refs EXCEPT ![x] = 1] /\ table' = table \cup {x} /\ caller' = caller
  BY MailMsgAssumption DEF Push, New, Enqueue
<1>4. \A f \in OnStack : f.msg # x
  BY <1>3, NoFrame
<1>5. FramesFit'
  BY <1>1, <1>3, <1>4 DEF Owned, FramesFit, FrameFits, Shape
<1>6. RepliesExact'
  BY <1>3, SameReplies DEF Push, Owned, Shape
<1>7. \A m \in Msgs \ {x} : Alone(m)
  BY <1>1, <1>2, <1>3 DEF Alone, Shape
<1>8. MsgOK(x)'
  <2>1. MsgOK(x) BY DEF Owned
  <2>2. stage'[x] = "queued" /\ refs'[x] = 1 BY <1>3 DEF Shape
  <2>3. ~ Has(x, "drop") /\ ~ Has(x, "retire") BY <1>3, NoFrame
  <2>4. Counted(x)'
    BY <1>1, <1>3, <2>2, <2>3 DEF Counted, LoopHolds, CallerHolds, Retires, CallerRetires
  <2>5. SourcesFit(x)'
    BY <1>2, <1>3, <2>1, <2>2 DEF MsgOK, SourcesFit, Submit, FreeIdle
  <2> QED BY <1>3, <2>4, <2>5 DEF MsgOK
<1> QED BY <1>1, <1>2, <1>5, <1>6, <1>7, <1>8, OwnedBy

LEMMA OwnedWorkerStart ==
  ASSUME Shape, Owned, NEW x \in Async, WorkerStart(x)
  PROVE  Owned'
<1> USE DEF Msgs
<1>1. StackOK' /\ OnStack' = OnStack /\ \A m, at : Has(m, at)' <=> Has(m, at)
  BY SameStack DEF WorkerStart, Owned
<1>3. stage[x] = "queued" /\ x \notin Calls /\ stage' = [stage EXCEPT ![x] = "running"]
      /\ refs' = refs /\ table' = table /\ caller' = caller
  BY MailMsgAssumption DEF WorkerStart, IsFirst, Waiting, Queued
<1>0. MsgOK(x) BY DEF Owned
<1>2. SourcesOrdered' /\ ToSet(sources)' = ToSet(sources) \cup {Submit(x)}
  <2>1. FreeIdle(x) \notin ToSet(sources) BY <1>0, <1>3 DEF MsgOK, SourcesFit
  <2> QED BY <2>1, AttachOrder, MadeTypes, SourceFields DEF WorkerStart, Owned
<1>4. \A f \in OnStack : f.msg # x BY <1>3, NoFrame
<1>5. FramesFit'
  BY <1>1, <1>3, <1>4 DEF Owned, FramesFit, FrameFits, Shape
<1>6. RepliesExact'
  BY <1>3, SameReplies DEF WorkerStart, Owned, Shape
<1>7. \A m \in Msgs \ {x} : Alone(m)
  BY <1>1, <1>2, <1>3, SourceFields DEF Alone, Shape
<1>8. MsgOK(x)'
  <2>2. stage'[x] = "running" BY <1>3 DEF Shape
  <2>3. ~ Has(x, "drop") /\ ~ Has(x, "retire") BY <1>3, NoFrame
  <2>4. Counted(x)'
    BY <1>0, <1>1, <1>3, <2>2, <2>3
    DEF MsgOK, Counted, LoopHolds, CallerHolds, Retires, CallerRetires
  <2>5. SourcesFit(x)'
    BY <1>0, <1>2, <1>3, <2>2, SourceFields DEF MsgOK, SourcesFit, Submit, FreeIdle
  <2> QED BY <1>3, <2>4, <2>5 DEF MsgOK
<1> QED BY <1>1, <1>2, <1>5, <1>6, <1>7, <1>8, OwnedBy

LEMMA OwnedWorkerReply ==
  ASSUME Shape, Owned, NEW x \in Async, WorkerReply(x)
  PROVE  Owned'
<1> USE DEF Msgs
<1>1. StackOK' /\ OnStack' = OnStack /\ \A m, at : Has(m, at)' <=> Has(m, at)
  BY SameStack DEF WorkerReply, Owned
<1>2. SourcesOrdered' /\ ToSet(sources)' = ToSet(sources)
  BY SameSources DEF WorkerReply, Owned
<1>3. stage[x] = "running" /\ x \notin Calls /\ stage' = [stage EXCEPT ![x] = "answered"]
      /\ refs' = refs /\ table' = table /\ caller' = caller
      /\ replyQ' = Append(replyQ, x)
  BY MailMsgAssumption DEF WorkerReply
<1>0. MsgOK(x) BY DEF Owned
<1>4. \A f \in OnStack : f.msg # x BY <1>3, NoFrame
<1>5. FramesFit'
  BY <1>1, <1>3, <1>4 DEF Owned, FramesFit, FrameFits, Shape
<1>6. RepliesExact'
  <2>1. /\ replyQ \in Seq(Msgs)
        /\ DOMAIN replyQ = 1 .. Len(replyQ) /\ DOMAIN replyQ' = 1 .. Len(replyQ) + 1
        /\ Len(replyQ) \in Nat
        /\ \A i \in 1 .. Len(replyQ) : replyQ'[i] = replyQ[i]
        /\ replyQ'[Len(replyQ) + 1] = x
    BY <1>3, AppendProperties, LenProperties DEF Shape
  <2>2. ToSet(replyQ)' = ToSet(replyQ) \cup {x} BY <1>3, <2>1, AppendSet
  <2>3. x \notin ToSet(replyQ) BY <1>3 DEF Owned, RepliesExact
  <2>4. \A i \in 1 .. Len(replyQ) : replyQ[i] # x BY <2>1, <2>3 DEF ToSet
  <2>5. \A i, j \in DOMAIN replyQ' : replyQ'[i] = replyQ'[j] => i = j
    BY <2>1, <2>4, NextIndex DEF Owned, RepliesExact
  <2>6. \A m \in Msgs : m \in ToSet(replyQ)' <=> stage'[m] = "answered"
    BY <1>3, <2>2 DEF Owned, RepliesExact, Shape
  <2> QED BY <2>5, <2>6 DEF RepliesExact
<1>7. \A m \in Msgs \ {x} : Alone(m)
  BY <1>1, <1>2, <1>3 DEF Alone, Shape
<1>8. MsgOK(x)'
  <2>2. stage'[x] = "answered" BY <1>3 DEF Shape
  <2>3. ~ Has(x, "drop") /\ ~ Has(x, "retire") BY <1>3, NoFrame
  <2>4. Counted(x)'
    BY <1>0, <1>1, <1>3, <2>2, <2>3
    DEF MsgOK, Counted, LoopHolds, CallerHolds, Retires, CallerRetires
  <2>5. SourcesFit(x)'
    BY <1>0, <1>2, <1>3, <2>2 DEF MsgOK, SourcesFit, Submit, FreeIdle
  <2> QED BY <1>3, <2>4, <2>5 DEF MsgOK
<1> QED BY <1>1, <1>2, <1>5, <1>6, <1>7, <1>8, OwnedBy

-----------------------------------------------------------------------------
(* mail_call_main() in a worker and on the main thread.                    *)

LEMMA OwnedCallMain ==
  ASSUME Shape, Owned, NEW x \in Calls, NEW w \in Async, CallMain(x, w)
  PROVE  Owned'
<1> USE DEF Msgs
<1>1. StackOK' /\ OnStack' = OnStack /\ \A m, at : Has(m, at)' <=> Has(m, at)
  BY SameStack DEF CallMain, Owned
<1>2. SourcesOrdered' /\ ToSet(sources)' = ToSet(sources)
  BY SameSources DEF CallMain, Owned
<1>3. stage[x] = "new" /\ stage' = [stage EXCEPT ![x] = "queued"]
      /\ refs' = [refs EXCEPT ![x] = 2] /\ table' = table \cup {x}
      /\ caller' = [caller EXCEPT ![x] = "waiting"]
  BY DEF CallMain, New, Enqueue
<1>4. \A f \in OnStack : f.msg # x
  BY <1>3, NoFrame
<1>5. FramesFit'
  BY <1>1, <1>3, <1>4 DEF Owned, FramesFit, FrameFits, Shape
<1>6. RepliesExact'
  BY <1>3, SameReplies DEF CallMain, Owned, Shape
<1>7. \A m \in Msgs \ {x} : Alone(m)
  BY <1>1, <1>2, <1>3 DEF Alone, Shape
<1>8. MsgOK(x)'
  <2>1. MsgOK(x) BY DEF Owned
  <2>2. stage'[x] = "queued" /\ refs'[x] = 2 /\ caller'[x] = "waiting" BY <1>3 DEF Shape
  <2>3. ~ Has(x, "drop") /\ ~ Has(x, "retire") BY <1>3, NoFrame
  <2>4. Counted(x)'
    BY <1>1, <1>3, <2>2, <2>3 DEF Counted, LoopHolds, CallerHolds, Retires, CallerRetires
  <2>5. SourcesFit(x)'
    BY <1>2, <1>3, <2>1, <2>2 DEF MsgOK, SourcesFit, Submit, FreeIdle
  <2>6. CallFits(x)' BY <2>2 DEF CallFits
  <2> QED BY <2>4, <2>5, <2>6 DEF MsgOK
<1> QED BY <1>1, <1>2, <1>5, <1>6, <1>7, <1>8, OwnedBy

LEMMA OwnedCallerResume ==
  ASSUME Shape, Owned, NEW x \in Calls, CallerResume(x)
  PROVE  Owned'
<1> USE DEF Msgs
<1>1. StackOK' /\ OnStack' = OnStack /\ \A m, at : Has(m, at)' <=> Has(m, at)
  BY SameStack DEF CallerResume, Owned
<1>2. SourcesOrdered' /\ ToSet(sources)' = ToSet(sources)
  BY SameSources DEF CallerResume, Owned
<1>3. /\ caller[x] = "signalled" /\ stage' = stage /\ table' = table
      /\ refs' = [refs EXCEPT ![x] = refs[x] - 1]
      /\ caller' = [caller EXCEPT ![x] = IF refs[x] = 1 THEN "retire" ELSE "returned"]
  BY DEF CallerResume
<1>0. MsgOK(x) BY DEF Owned
<1>5. FramesFit'
  BY <1>0, <1>1, <1>3 DEF Owned, FramesFit, FrameFits, Shape, MsgOK, CallFits
<1>6. RepliesExact'
  BY <1>3, SameReplies DEF CallerResume, Owned
<1>7. \A m \in Msgs \ {x} : Alone(m)
  BY <1>1, <1>2, <1>3 DEF Alone, Shape
<1>8. MsgOK(x)'
  <2>2. /\ stage'[x] = "ended" /\ refs'[x] = refs[x] - 1 /\ refs[x] \in Int
        /\ caller'[x] = IF refs[x] = 1 THEN "retire" ELSE "returned"
    BY <1>0, <1>3 DEF Shape, MsgOK, CallFits
  <2>3. (LoopHolds(x)' <=> LoopHolds(x)) /\ CallerHolds(x) /\ ~ CallerHolds(x)'
    BY <1>1, <1>3, <2>2 DEF LoopHolds, CallerHolds
  <2>4. Counted(x)'
    BY <1>0, <1>1, <1>3, <2>2, <2>3 DEF MsgOK, Counted, Retires, CallerRetires
  <2>5. SourcesFit(x)'
    BY <1>0, <1>2, <1>3, <2>2 DEF MsgOK, SourcesFit, Submit, FreeIdle
  <2>6. CallFits(x)' BY <2>2 DEF CallFits
  <2> QED BY <2>4, <2>5, <2>6 DEF MsgOK
<1> QED BY <1>1, <1>2, <1>5, <1>6, <1>7, <1>8, OwnedBy

LEMMA OwnedCallerRetire ==
  ASSUME Shape, Owned, NEW x \in Calls, CallerRetire(x)
  PROVE  Owned'
<1> USE DEF Msgs
<1>1. StackOK' /\ OnStack' = OnStack /\ \A m, at : Has(m, at)' <=> Has(m, at)
  BY SameStack DEF CallerRetire, Owned
<1>3. /\ caller[x] = "retire" /\ stage' = stage /\ table' = table \ {x}
      /\ refs' = refs /\ caller' = [caller EXCEPT ![x] = "returned"]
      /\ sources' = Append(sources, FreeIdle(x))
  BY DEF CallerRetire, Retire
<1>0. MsgOK(x) BY DEF Owned
<1>2. SourcesOrdered' /\ ToSet(sources)' = ToSet(sources) \cup {FreeIdle(x)}
  <2>1. FreeIdle(x) \notin ToSet(sources)
    BY <1>0, <1>3 DEF MsgOK, SourcesFit, Counted, Retires, CallerRetires
  <2> QED BY <1>3, <2>1, AttachOrder, MadeTypes, SourceFields DEF Owned
<1>5. FramesFit'
  BY <1>0, <1>1, <1>3 DEF Owned, FramesFit, FrameFits, Shape, MsgOK, CallFits
<1>6. RepliesExact'
  BY <1>3, SameReplies DEF CallerRetire, Owned
<1>7. \A m \in Msgs \ {x} : Alone(m)
  BY <1>1, <1>2, <1>3, SourceFields DEF Alone, Shape
<1>8. MsgOK(x)'
  <2>2. stage'[x] = "ended" /\ caller'[x] = "returned"
    BY <1>0, <1>3 DEF Shape, MsgOK, CallFits
  <2>3. /\ LoopHolds(x)' <=> LoopHolds(x)
        /\ ~ CallerHolds(x) /\ ~ CallerHolds(x)' /\ CallerRetires(x)
    BY <1>1, <1>3, <2>2 DEF LoopHolds, CallerHolds, CallerRetires
  <2>4. Counted(x)'
    BY <1>0, <1>1, <1>3, <2>2, <2>3 DEF MsgOK, Counted, Retires, CallerRetires
  <2>5. SourcesFit(x)'
    BY <1>0, <1>2, <1>3, <2>2, SourceFields DEF MsgOK, SourcesFit, Submit, FreeIdle
  <2>6. CallFits(x)' BY <2>2 DEF CallFits
  <2> QED BY <2>4, <2>5, <2>6 DEF MsgOK
<1> QED BY <1>1, <1>2, <1>5, <1>6, <1>7, <1>8, OwnedBy

LEMMA OwnedCallDirect ==
  ASSUME Shape, Owned, NEW x \in Calls, CallDirect(x)
  PROVE  Owned'
<1> USE DEF Msgs
<1>3. stage[x] = "new" /\ stage' = [stage EXCEPT ![x] = "handled"]
      /\ refs' = [refs EXCEPT ![x] = 1] /\ table' = table \cup {x} /\ caller' = caller
      /\ stack' = Append(stack, Frame("direct", "run", x)) /\ LoopRuns
  BY DEF CallDirect, New
<1>0. MsgOK(x) /\ caller[x] = "none" BY <1>3 DEF Owned, MsgOK, CallFits
<1>4. \A f \in OnStack : f.msg # x BY <1>3, NoFrame
<1> DEFINE d == Frame("direct", "run", x)
<1>1. StackOK' /\ OnStack' = OnStack \cup {d}
  <2>1. FrameShape(d) BY FrameFields, MailMsgAssumption DEF FrameShape
  <2>2. d \in Frames BY MadeTypes DEF Loops
  <2>3. d.msg = x BY FrameFields
  <2> QED BY <1>3, <1>4, <2>1, <2>2, <2>3, StackPush DEF Owned
<1>d. d.msg = x /\ d.at = "run" /\ d.loop = "direct" BY FrameFields
<1> HIDE DEF d
<1>h. \A m : \A at \in {"drop", "retire"} : Has(m, at)' <=> Has(m, at)
  BY <1>1, <1>d DEF Has
<1>2. SourcesOrdered' /\ ToSet(sources)' = ToSet(sources)
  BY SameSources DEF CallDirect, Owned
<1>5. FramesFit'
  BY <1>0, <1>1, <1>3, <1>4, <1>d DEF Owned, FramesFit, FrameFits, Shape
<1>6. RepliesExact'
  BY <1>3, SameReplies DEF CallDirect, Owned, Shape
<1>7. \A m \in Msgs \ {x} : Alone(m)
  BY <1>h, <1>2, <1>3 DEF Alone, Shape
<1>8. MsgOK(x)'
  <2>2. stage'[x] = "handled" /\ refs'[x] = 1 BY <1>3 DEF Shape
  <2>3. ~ Has(x, "drop") /\ ~ Has(x, "retire") BY <1>3, NoFrame
  <2>4. Counted(x)'
    BY <1>0, <1>h, <1>3, <2>2, <2>3 DEF Counted, LoopHolds, CallerHolds, Retires, CallerRetires
  <2>5. SourcesFit(x)'
    BY <1>0, <1>2, <1>3, <2>2 DEF MsgOK, SourcesFit, Submit, FreeIdle
  <2>6. CallFits(x)' BY <1>0, <1>3, <2>2 DEF CallFits
  <2> QED BY <2>4, <2>5, <2>6 DEF MsgOK
<1> QED BY <1>1, <1>2, <1>5, <1>6, <1>7, <1>8, OwnedBy

-----------------------------------------------------------------------------
(* Steps that concern no message, and those of the idle callback.          *)

\* A step that leaves the messages, their callers and the stack alone, and may
\* attach the idle callback's source.
LEMMA OwnedApart ==
  ASSUME Shape, Owned, UNCHANGED <<stage, refs, table, caller, stack, replyQ>>,
         sources' = sources \/ sources' = Append(sources, IdleCb)
  PROVE  Owned'
<1>1. StackOK' /\ OnStack' = OnStack /\ \A m, at : Has(m, at)' <=> Has(m, at)
  BY SameStack DEF Owned
<1>2. /\ SourcesOrdered'
      /\ ToSet(sources)' = ToSet(sources) \/ ToSet(sources)' = ToSet(sources) \cup {IdleCb}
  <2>1. CASE sources' = sources BY <2>1, SameSources DEF Owned
  <2>2. CASE sources' = Append(sources, IdleCb)
    BY <2>2, MadeTypes, SourceFields, AttachOrder DEF Owned
  <2> QED BY <2>1, <2>2
<1>5. FramesFit' BY <1>1 DEF Owned, FramesFit, FrameFits
<1>6. RepliesExact' BY SameReplies DEF Owned
<1>7. \A m \in Msgs \ {NoMsg} : Alone(m) BY <1>1, <1>2, SourceFields DEF Alone
<1> QED BY <1>1, <1>2, <1>5, <1>6, <1>7, OwnedBy, MailMsgAssumption

LEMMA OwnedArm ==
  ASSUME Shape, Owned, NEW m \in Msgs, Arm(m)
  PROVE  Owned'
BY OwnedApart DEF Arm, AttachIdle

LEMMA OwnedCancel ==
  ASSUME Shape, Owned, NEW m \in Msgs, Cancel(m)
  PROVE  Owned'
BY OwnedApart DEF Cancel

\* A step of the idle callback between two messages: no message has the frame
\* on top, before or after.
LEMMA OwnedPoll ==
  ASSUME Shape, Owned, stack # <<>>, Top.at = "poll",
         UNCHANGED <<stage, refs, table, caller, replyQ, sources>>,
         \/ stack' = Front(stack)
         \/ \E l \in Loops \ {"direct"} : SetTop(Frame(l, "poll", NoMsg))
  PROVE  Owned'
<1>1. /\ OnStack = Below \cup {Top} /\ Top.msg = NoMsg
      /\ \A f \in Below : f.at = "run" /\ f.msg # NoMsg
  BY BelowFacts DEF Owned, FrameShape
<1>2. /\ StackOK'
      /\ OnStack' = Below \/ \E l \in Loops : OnStack' = Below \cup {Frame(l, "poll", NoMsg)}
  <2>1. CASE stack' = Front(stack) BY <2>1, StackPop DEF Owned
  <2>2. ASSUME NEW l \in Loops \ {"direct"}, SetTop(Frame(l, "poll", NoMsg))
        PROVE  StackOK' /\ OnStack' = Below \cup {Frame(l, "poll", NoMsg)}
    <3>1. FrameShape(Frame(l, "poll", NoMsg)) BY <2>2, FrameFields DEF FrameShape
    <3>2. Frame(l, "poll", NoMsg) \in Frames BY MadeTypes
    <3>3. \A g \in Below : g.msg # Frame(l, "poll", NoMsg).msg BY <1>1, FrameFields
    <3> QED BY <2>2, <3>1, <3>2, <3>3, StackSetTop DEF Owned
  <2> QED BY <2>1, <2>2
<1>3. \A f \in OnStack' : f \in Below \/ f.at = "poll" BY <1>2, FrameFields
<1>4. \A f \in OnStack : f \in Below \/ f.at = "poll" BY <1>1
<1>5. Below \subseteq OnStack /\ Below \subseteq OnStack' BY <1>1, <1>2
<1>6. \A m \in Msgs : \A at \in {"drop", "retire"} : Has(m, at)' <=> Has(m, at)
  BY <1>1, <1>3, <1>4, <1>5 DEF Has
<1>7. FramesFit' BY <1>3, <1>5 DEF Owned, FramesFit, FrameFits
<1>8. SourcesOrdered' /\ ToSet(sources)' = ToSet(sources) BY SameSources DEF Owned
<1>9. RepliesExact' BY SameReplies DEF Owned
<1>10. \A m \in Msgs \ {NoMsg} : Alone(m) BY <1>6, <1>8 DEF Alone
<1> QED BY <1>2, <1>7, <1>8, <1>9, <1>10, OwnedBy, MailMsgAssumption

LEMMA OwnedReset ==
  ASSUME Shape, Owned, IdleReset
  PROVE  Owned'
<1>1. stack # <<>> /\ Top.at = "poll" /\ SetTop(Frame("main", "poll", NoMsg))
  BY DEF IdleReset, At
<1> QED BY <1>1, OwnedPoll DEF IdleReset, Loops

LEMMA OwnedMainEmpty ==
  ASSUME Shape, Owned, MainEmpty
  PROVE  Owned'
<1>1. stack # <<>> /\ Top.at = "poll" /\ SetTop(Frame("reply", "poll", NoMsg))
  BY DEF MainEmpty, At
<1> QED BY <1>1, OwnedPoll DEF MainEmpty, Loops

LEMMA OwnedReplyEmpty ==
  ASSUME Shape, Owned, ReplyEmpty
  PROVE  Owned'
<1>1. stack # <<>> /\ Top.at = "poll" /\ stack' = Front(stack)
  BY DEF ReplyEmpty, At
<1> QED BY <1>1, OwnedPoll DEF ReplyEmpty

\* The frame on top takes a message, or goes on with its own.
LEMMA TopTo ==
  ASSUME Shape, Owned, stack # <<>>, NEW f \in Frames, SetTop(f), FrameShape(f),
         f.msg # NoMsg, \A g \in OnStack : g.msg = f.msg => g = Top
  PROVE  /\ StackOK' /\ OnStack' = Below \cup {f} /\ OnStack = Below \cup {Top}
         /\ \A g \in Below : g.at = "run" /\ g.msg # NoMsg /\ g.msg # f.msg
         /\ \A at : /\ Has(f.msg, at)' <=> f.at = at
                    /\ Has(f.msg, at) <=> Top.msg = f.msg /\ Top.at = at
         /\ \A m : m \notin {f.msg, Top.msg} => \A at : Has(m, at)' <=> Has(m, at)
<1>1. /\ OnStack = Below \cup {Top}
      /\ \A g \in Below : g.at = "run" /\ g.msg # NoMsg /\ g.msg # Top.msg
  BY BelowFacts DEF Owned
<1>2. \A g \in Below : g.msg # f.msg BY <1>1
<1>3. StackOK' /\ OnStack' = Below \cup {f} BY <1>2, StackSetTop DEF Owned
<1>4. \A at : /\ Has(f.msg, at)' <=> f.at = at
              /\ Has(f.msg, at) <=> Top.msg = f.msg /\ Top.at = at
  BY <1>1, <1>2, <1>3 DEF Has
<1>5. \A m : m \notin {f.msg, Top.msg} => \A at : Has(m, at)' <=> Has(m, at)
  BY <1>1, <1>3 DEF Has
<1> QED BY <1>1, <1>2, <1>3, <1>4, <1>5

\* The message on top is the one of its frame only.
LEMMA TopOnly ==
  ASSUME Shape, Owned, stack # <<>>, Top.at # "poll"
  PROVE  /\ Top \in OnStack /\ FrameShape(Top) /\ FrameFits(Top)
         /\ Top.msg \in Msgs /\ Top.msg # NoMsg
         /\ \A g \in OnStack : g.msg = Top.msg => g = Top
<1>1. /\ OnStack = Below \cup {Top} /\ FrameShape(Top)
      /\ \A g \in Below : g.msg # Top.msg
  BY BelowFacts DEF Owned
<1>2. FrameFits(Top) BY <1>1 DEF Owned, FramesFit
<1>3. Top.msg \in Msgs \cup {NoMsg} BY TopType DEF Shape
<1>4. Top.msg # NoMsg BY <1>1 DEF FrameShape
<1> QED BY <1>1, <1>2, <1>3, <1>4

\* A message the top frame leaves, and the loop goes on.
LEMMA TopLeaves ==
  ASSUME Shape, Owned, stack # <<>>, Top.at # "poll", Continue, NEW x, x = Top.msg
  PROVE  /\ StackOK' /\ Below \subseteq OnStack'
         /\ \A g \in Below : g.at = "run" /\ g.msg # x
         /\ \A f \in OnStack' : f \in Below \/ f.at = "poll"
         /\ ~ Has(x, "drop")' /\ ~ Has(x, "retire")'
         /\ \A m : m # x => \A at \in {"drop", "retire"} : Has(m, at)' <=> Has(m, at)
<1>1. /\ OnStack = Below \cup {Top}
      /\ \A g \in Below : g.at = "run" /\ g.msg # NoMsg /\ g.msg # Top.msg
  BY BelowFacts DEF Owned
<1>2. /\ StackOK' /\ Below \subseteq OnStack'
      /\ \A f \in OnStack' : f \in Below \/ f.at = "poll"
  <2>1. CASE Top.loop = "direct" BY <2>1, StackPop DEF Owned, Continue
  <2>2. CASE Top.loop # "direct"
    <3> DEFINE f == Frame(Top.loop, "poll", NoMsg)
    <3>1. f \in Frames BY TopType, MadeTypes DEF Shape
    <3>2. f.at = "poll" /\ f.msg = NoMsg /\ f.loop = Top.loop BY FrameFields
    <3>3. SetTop(f) BY <2>2 DEF Continue
    <3>4. FrameShape(f) BY <2>2, <3>2 DEF FrameShape
    <3> HIDE DEF f
    <3>5. StackOK' /\ OnStack' = Below \cup {f}
      BY <1>1, <3>1, <3>2, <3>3, <3>4, StackSetTop DEF Owned
    <3> QED BY <3>2, <3>5
  <2> QED BY <2>1, <2>2
<1>3. ~ Has(x, "drop")' /\ ~ Has(x, "retire")' BY <1>1, <1>2 DEF Has
<1>4. \A m : m # x => \A at \in {"drop", "retire"} : Has(m, at)' <=> Has(m, at)
  BY <1>1, <1>2 DEF Has
<1> QED BY <1>1, <1>2, <1>3, <1>4

-----------------------------------------------------------------------------

LEMMA OwnedMainPop ==
  ASSUME Shape, Owned, NEW x \in Calls, MainPop(x)
  PROVE  Owned'
<1> USE DEF Msgs
<1>3. /\ stack # <<>> /\ Top.at = "poll" /\ stage[x] = "queued"
      /\ stage' = [stage EXCEPT ![x] = "handled"] /\ sources' = Append(sources, Submit(x))
      /\ SetTop(Frame("main", "run", x))
      /\ refs' = refs /\ table' = table /\ caller' = caller /\ replyQ' = replyQ
  BY DEF MainPop, At, IsFirst, Queued
<1>0. MsgOK(x) /\ caller[x] = "waiting" BY <1>3 DEF Owned, MsgOK, CallFits
<1>4. \A f \in OnStack : f.msg # x BY <1>3, NoFrame
<1>n. Top.msg = NoMsg BY <1>3, BelowFacts DEF Owned, FrameShape
<1> DEFINE d == Frame("main", "run", x)
<1>d. d.msg = x /\ d.at = "run" /\ d.loop = "main" BY FrameFields
<1>s. FrameShape(d) /\ d \in Frames
  <2>1. x \notin Async /\ x # NoMsg BY MailMsgAssumption
  <2>2. d \in Frames BY MadeTypes DEF Loops
  <2> QED BY <1>d, <2>1, <2>2 DEF FrameShape
<1>t. SetTop(d) BY <1>3
<1> HIDE DEF d
<1>1. /\ StackOK' /\ OnStack' = Below \cup {d} /\ OnStack = Below \cup {Top}
      /\ \A g \in Below : g.at = "run" /\ g.msg # NoMsg /\ g.msg # x
      /\ \A at : Has(x, at)' <=> at = "run"
      /\ \A m : m \notin {x, Top.msg} => \A at : Has(m, at)' <=> Has(m, at)
  <2>1. d.msg # NoMsg BY <1>d, MailMsgAssumption
  <2>2. \A g \in OnStack : g.msg = d.msg => g = Top BY <1>4, <1>d
  <2> QED BY <1>3, <1>d, <1>s, <1>t, <2>1, <2>2, TopTo
<1>2. SourcesOrdered' /\ ToSet(sources)' = ToSet(sources) \cup {Submit(x)}
  <2>1. FreeIdle(x) \notin ToSet(sources) BY <1>0, <1>3 DEF MsgOK, SourcesFit
  <2> QED BY <1>3, <2>1, AttachOrder, MadeTypes, SourceFields DEF Owned
<1>5. FramesFit'
  <2>1. stage'[x] = "handled" BY <1>3 DEF Shape
  <2>2. FrameFits(d)' BY <1>0, <1>3, <1>d, <2>1 DEF FrameFits
  <2>3. \A g \in Below : FrameFits(g)' BY <1>1, <1>3 DEF Owned, FramesFit, FrameFits, Shape
  <2> QED BY <1>1, <2>2, <2>3 DEF FramesFit
<1>6. RepliesExact' BY <1>3, SameReplies DEF Owned, Shape
<1>7. \A m \in Msgs \ {x} : Alone(m)
  <2> SUFFICES ASSUME NEW m \in Msgs, m # x PROVE Alone(m) OBVIOUS
  <2>1. m # NoMsg BY MailMsgAssumption
  <2>2. \A at : Has(m, at)' <=> Has(m, at) BY <1>1, <1>n, <2>1
  <2> QED BY <2>2, <1>2, <1>3, SourceFields DEF Alone, Shape
<1>8. MsgOK(x)'
  <2>2. stage'[x] = "handled" BY <1>3 DEF Shape
  <2>3. ~ Has(x, "drop") /\ ~ Has(x, "retire") /\ ~ Has(x, "drop")' /\ ~ Has(x, "retire")'
    BY <1>1, <1>3, NoFrame
  <2>4. Counted(x)'
    BY <1>0, <1>3, <2>2, <2>3 DEF MsgOK, Counted, LoopHolds, CallerHolds, Retires, CallerRetires
  <2>5. SourcesFit(x)'
    BY <1>0, <1>2, <1>3, <2>2, SourceFields DEF MsgOK, SourcesFit, Submit, FreeIdle
  <2>6. CallFits(x)' BY <1>0, <1>3, <2>2 DEF CallFits
  <2> QED BY <2>4, <2>5, <2>6 DEF MsgOK
<1> QED BY <1>1, <1>2, <1>5, <1>6, <1>7, <1>8, OwnedBy

LEMMA OwnedReplyPop ==
  ASSUME Shape, Owned, ReplyPop
  PROVE  Owned'
<1> USE DEF Msgs
<1> SUFFICES ASSUME NEW x, x = Head(replyQ) PROVE Owned' OBVIOUS
<1>q. /\ x \in Msgs /\ x \in ToSet(replyQ) /\ x = replyQ[1]
      /\ replyQ' \in Seq(Msgs) /\ Len(replyQ') = Len(replyQ) - 1
      /\ DOMAIN replyQ = 1 .. Len(replyQ) /\ DOMAIN replyQ' = 1 .. Len(replyQ) - 1
      /\ \A i \in 1 .. Len(replyQ) - 1 : replyQ'[i] = replyQ[i + 1]
      /\ Len(replyQ) \in Nat /\ 1 \in 1 .. Len(replyQ)
  <2>1. replyQ # <<>> /\ replyQ' = Tail(replyQ) /\ replyQ \in Seq(Msgs) BY DEF ReplyPop, Shape
  <2>2. /\ x \in Msgs /\ replyQ' \in Seq(Msgs) /\ Len(replyQ') = Len(replyQ) - 1
        /\ \A i \in 1 .. Len(replyQ') : replyQ'[i] = replyQ[i + 1]
    BY <2>1, HeadTailProperties
  <2>3. Len(replyQ) \in Nat /\ Len(replyQ) >= 1 BY <2>1, FrontFacts
  <2>4. DOMAIN replyQ = 1 .. Len(replyQ) /\ DOMAIN replyQ' = 1 .. Len(replyQ')
    BY <2>1, <2>2, LenProperties
  <2>5. x = replyQ[1] BY <2>1
  <2>6. 1 \in 1 .. Len(replyQ) BY <2>3
  <2>7. x \in ToSet(replyQ) BY <2>4, <2>5, <2>6 DEF ToSet
  <2> QED BY <2>2, <2>3, <2>4, <2>5, <2>6, <2>7
<1>3. /\ stack # <<>> /\ Top.at = "poll"
      /\ stage' = [stage EXCEPT ![x] = "handled"]
      /\ SetTop(Frame("reply", "run", x))
      /\ refs' = refs /\ table' = table /\ caller' = caller /\ sources' = sources
  BY DEF ReplyPop, At
<1>0. MsgOK(x) /\ stage[x] = "answered" /\ x \notin Calls
  BY <1>q DEF Owned, RepliesExact, MsgOK, CallFits
<1>4. \A f \in OnStack : f.msg # x BY <1>0, <1>q, NoFrame
<1>n. Top.msg = NoMsg BY <1>3, BelowFacts DEF Owned, FrameShape
<1> DEFINE d == Frame("reply", "run", x)
<1>d. d.msg = x /\ d.at = "run" /\ d.loop = "reply" BY FrameFields
<1>s. FrameShape(d) /\ d \in Frames
  <2>1. x \in Async /\ x # NoMsg BY <1>0, <1>q, MailMsgAssumption
  <2>2. d \in Frames BY <1>q, MadeTypes DEF Loops
  <2> QED BY <1>d, <2>1, <2>2 DEF FrameShape
<1>t. SetTop(d) BY <1>3
<1> HIDE DEF d
<1>1. /\ StackOK' /\ OnStack' = Below \cup {d} /\ OnStack = Below \cup {Top}
      /\ \A g \in Below : g.at = "run" /\ g.msg # NoMsg /\ g.msg # x
      /\ \A at : Has(x, at)' <=> at = "run"
      /\ \A m : m \notin {x, Top.msg} => \A at : Has(m, at)' <=> Has(m, at)
  <2>1. d.msg # NoMsg BY <1>d, <1>q, MailMsgAssumption
  <2>2. \A g \in OnStack : g.msg = d.msg => g = Top BY <1>4, <1>d
  <2>3. stack # <<>> BY <1>3
  <2>4. /\ StackOK' /\ OnStack' = Below \cup {d} /\ OnStack = Below \cup {Top}
        /\ \A g \in Below : g.at = "run" /\ g.msg # NoMsg /\ g.msg # d.msg
        /\ \A at : Has(d.msg, at)' <=> d.at = at
        /\ \A m : m \notin {d.msg, Top.msg} => \A at : Has(m, at)' <=> Has(m, at)
    BY <1>s, <1>t, <2>1, <2>2, <2>3, TopTo
  <2> QED BY <1>d, <2>4
<1>2. SourcesOrdered' /\ ToSet(sources)' = ToSet(sources)
  BY <1>3, SameSources DEF Owned
<1>5. FramesFit'
  <2>1. stage'[x] = "handled" BY <1>3, <1>q DEF Shape
  <2>2. FrameFits(d)' BY <1>d, <2>1 DEF FrameFits
  <2>3. \A g \in Below : FrameFits(g)' BY <1>1, <1>3 DEF Owned, FramesFit, FrameFits, Shape
  <2> QED BY <1>1, <2>2, <2>3 DEF FramesFit
<1>6. RepliesExact'
  <2>1. \A i, j \in DOMAIN replyQ' : replyQ'[i] = replyQ'[j] => i = j
    <3> SUFFICES ASSUME NEW i \in 1 .. Len(replyQ) - 1, NEW j \in 1 .. Len(replyQ) - 1,
                        replyQ[i + 1] = replyQ[j + 1]
                 PROVE  i = j
      BY <1>q
    <3>1. i + 1 \in 1 .. Len(replyQ) /\ j + 1 \in 1 .. Len(replyQ) BY <1>q
    <3>2. i + 1 = j + 1 BY <1>q, <3>1 DEF Owned, RepliesExact
    <3> QED BY <3>2
  <2>2. \A i \in 1 .. Len(replyQ) - 1 : i + 1 \in 1 .. Len(replyQ) /\ i + 1 # 1 BY <1>q
  <2>3. x \notin ToSet(replyQ)'
    <3>1. \A i \in 1 .. Len(replyQ) - 1 : replyQ'[i] # x
      BY <1>q, <2>2 DEF Owned, RepliesExact
    <3> QED BY <1>q, <3>1 DEF ToSet
  <2>4. \A i \in 1 .. Len(replyQ) : i = 1 \/ (i - 1 \in 1 .. Len(replyQ) - 1 /\ i - 1 + 1 = i)
    BY <1>q
  <2>5. \A m : m # x => (m \in ToSet(replyQ)' <=> m \in ToSet(replyQ))
    <3>1. ASSUME NEW m, m # x, m \in ToSet(replyQ) PROVE m \in ToSet(replyQ)'
      <4>1. PICK i \in 1 .. Len(replyQ) : replyQ[i] = m BY <1>q, <3>1 DEF ToSet
      <4>2. i - 1 \in 1 .. Len(replyQ) - 1 /\ i - 1 + 1 = i BY <1>q, <2>4, <3>1, <4>1
      <4>3. replyQ'[i - 1] = m BY <1>q, <4>1, <4>2
      <4> QED BY <1>q, <4>2, <4>3 DEF ToSet
    <3>2. ASSUME NEW m, m \in ToSet(replyQ)' PROVE m \in ToSet(replyQ)
      BY <1>q, <2>2, <3>2 DEF ToSet
    <3> QED BY <3>1, <3>2
  <2>6. \A m \in Msgs : m \in ToSet(replyQ)' <=> stage'[m] = "answered"
    BY <1>3, <1>q, <2>3, <2>5 DEF Owned, RepliesExact, Shape
  <2> QED BY <2>1, <2>6 DEF RepliesExact
<1>7. \A m \in Msgs \ {x} : Alone(m)
  <2> SUFFICES ASSUME NEW m \in Msgs, m # x PROVE Alone(m) OBVIOUS
  <2>1. m # NoMsg BY MailMsgAssumption
  <2>2. \A at : Has(m, at)' <=> Has(m, at) BY <1>1, <1>n, <2>1
  <2> QED BY <2>2, <1>2, <1>3 DEF Alone, Shape
<1>8. MsgOK(x)'
  <2>2. stage'[x] = "handled" BY <1>3, <1>q DEF Shape
  <2>3. ~ Has(x, "drop") /\ ~ Has(x, "retire") /\ ~ Has(x, "drop")' /\ ~ Has(x, "retire")'
    BY <1>0, <1>1, <1>q, NoFrame
  <2>4. Counted(x)'
    BY <1>0, <1>3, <2>2, <2>3 DEF MsgOK, Counted, LoopHolds, CallerHolds, Retires, CallerRetires
  <2>5. SourcesFit(x)'
    BY <1>0, <1>2, <1>3, <2>2 DEF MsgOK, SourcesFit, Submit, FreeIdle
  <2> QED BY <1>0, <2>4, <2>5 DEF MsgOK
<1> QED BY <1>1, <1>2, <1>5, <1>6, <1>7, <1>8, OwnedBy

-----------------------------------------------------------------------------
(* The callbacks return, and their references are dropped.                 *)

\* A callback returns: its frame is about to drop the reference of the loop.
LEMMA OwnedReturn ==
  ASSUME Shape, Owned, NEW x, x = Top.msg, NEW l, l = Top.loop,
         stack # <<>>, Top.at = "run", SetTop(Frame(l, "drop", x)),
         stage' = [stage EXCEPT ![x] = "ended"],
         caller' = IF l = "main" THEN [caller EXCEPT ![x] = "signalled"] ELSE caller,
         UNCHANGED <<refs, table, replyQ, sources>>
  PROVE  Owned'
<1> USE DEF Msgs
<1>0. /\ Top \in OnStack /\ FrameShape(Top) /\ FrameFits(Top)
      /\ x \in Msgs /\ x # NoMsg /\ MsgOK(x)
      /\ \A g \in OnStack : g.msg = x => g = Top
  BY TopOnly DEF Owned
<1>3. stage[x] = "handled" /\ (l = "main" => x \in Calls /\ caller[x] = "waiting")
      /\ (l = "direct" => caller[x] = "none")
  BY <1>0, MailMsgAssumption DEF FrameFits, FrameShape
<1>4. l # "main" /\ x \in Calls => caller[x] = "none"
  <2>1. l \in Loops BY TopType DEF Shape
  <2>2. l # "reset" /\ (l = "reply" <=> x \in Async) BY <1>0 DEF FrameShape
  <2> QED BY <1>3, <2>1, <2>2, MailMsgAssumption DEF Loops
<1> DEFINE d == Frame(l, "drop", x)
<1>d. d.msg = x /\ d.at = "drop" /\ d.loop = l BY FrameFields
<1>s. FrameShape(d) /\ d \in Frames /\ SetTop(d)
  <2>1. d \in Frames BY <1>0, TopType, MadeTypes DEF Shape
  <2>2. FrameShape(d) BY <1>0, <1>d DEF FrameShape
  <2> QED BY <2>1, <2>2
<1> HIDE DEF d
<1>1. /\ StackOK' /\ OnStack' = Below \cup {d} /\ OnStack = Below \cup {Top}
      /\ \A g \in Below : g.at = "run" /\ g.msg # NoMsg /\ g.msg # x
      /\ Has(x, "drop")' /\ ~ Has(x, "retire")' /\ ~ Has(x, "drop") /\ ~ Has(x, "retire")
      /\ \A m : m # x => \A at : Has(m, at)' <=> Has(m, at)
  <2>1. d.msg # NoMsg BY <1>d, <1>0
  <2>2. \A g \in OnStack : g.msg = d.msg => g = Top BY <1>0, <1>d
  <2>4. /\ StackOK' /\ OnStack' = Below \cup {d} /\ OnStack = Below \cup {Top}
        /\ \A g \in Below : g.at = "run" /\ g.msg # NoMsg /\ g.msg # d.msg
        /\ \A at : /\ Has(d.msg, at)' <=> d.at = at
                   /\ Has(d.msg, at) <=> Top.msg = d.msg /\ Top.at = at
        /\ \A m : m \notin {d.msg, Top.msg} => \A at : Has(m, at)' <=> Has(m, at)
    BY <1>s, <2>1, <2>2, TopTo
  <2> QED BY <1>d, <2>4
<1>2. SourcesOrdered' /\ ToSet(sources)' = ToSet(sources)
  BY SameSources DEF Owned
<1>c. \A c \in Calls : c # x => caller'[c] = caller[c] BY DEF Shape
<1>5. FramesFit'
  <2>1. stage'[x] = "ended" BY <1>0 DEF Shape
  <2>2. FrameFits(d)' BY <1>d, <2>1 DEF FrameFits
  <2>3. ASSUME NEW g \in Below PROVE FrameFits(g)'
    <3>1. FrameFits(g) /\ g.at = "run" /\ g.msg # x BY <1>1 DEF Owned, FramesFit
    <3>2. stage'[g.msg] = stage[g.msg] /\ caller'[g.msg] = caller[g.msg]
      BY <3>1 DEF Shape
    <3> QED BY <3>1, <3>2 DEF FrameFits
  <2> QED BY <1>1, <2>2, <2>3 DEF FramesFit
<1>6. RepliesExact' BY <1>0, <1>3, SameReplies DEF Owned, Shape
<1>7. \A m \in Msgs \ {x} : Alone(m)
  BY <1>1, <1>2, <1>c DEF Alone, Shape
<1>8. MsgOK(x)'
  <2>2. stage'[x] = "ended" BY <1>0 DEF Shape
  <2>3. LoopHolds(x) /\ LoopHolds(x)' BY <1>1, <1>3 DEF LoopHolds
  <2>4. (CallerHolds(x)' <=> CallerHolds(x)) /\ (CallerRetires(x)' <=> CallerRetires(x))
        /\ (x \in Calls => CallFits(x)')
    <3>1. CASE l = "main"
      <4>1. x \in Calls /\ caller[x] = "waiting" /\ caller'[x] = "signalled"
        BY <1>3, <3>1 DEF Shape
      <4> QED BY <2>2, <4>1 DEF CallerHolds, CallerRetires, CallFits
    <3>2. CASE l # "main"
      <4>1. caller' = caller BY <3>2
      <4>2. x \in Calls => CallFits(x)' BY <1>4, <2>2, <3>2, <4>1 DEF CallFits
      <4> QED BY <4>1, <4>2 DEF CallerHolds, CallerRetires
    <3> QED BY <3>1, <3>2
  <2>5. Counted(x)' BY <1>0, <1>1, <2>3, <2>4 DEF MsgOK, Counted, Retires
  <2>6. SourcesFit(x)'
    BY <1>0, <1>2, <1>3, <2>2 DEF MsgOK, SourcesFit, Submit, FreeIdle
  <2> QED BY <2>4, <2>5, <2>6 DEF MsgOK
<1> QED BY <1>1, <1>2, <1>5, <1>6, <1>7, <1>8, OwnedBy

LEMMA OwnedCallDone ==
  ASSUME Shape, Owned, CallDone
  PROVE  Owned'
<1> SUFFICES ASSUME NEW x, x = Top.msg, NEW l, l = Top.loop PROVE Owned' OBVIOUS
<1>1. /\ stack # <<>> /\ Top.at = "run" /\ SetTop(Frame(l, "drop", x))
      /\ stage' = [stage EXCEPT ![x] = "ended"]
      /\ caller' = IF l = "main" THEN [caller EXCEPT ![x] = "signalled"] ELSE caller
      /\ UNCHANGED <<refs, table, replyQ, sources>>
  BY DEF CallDone, At, Wake
<1> QED BY <1>1, OwnedReturn

LEMMA OwnedDoneReturn ==
  ASSUME Shape, Owned, DoneReturn
  PROVE  Owned'
<1> SUFFICES ASSUME NEW x, x = Top.msg, NEW l, l = Top.loop PROVE Owned' OBVIOUS
<1>1. /\ stack # <<>> /\ Top.at = "run" /\ SetTop(Frame(l, "drop", x))
      /\ stage' = [stage EXCEPT ![x] = "ended"]
      /\ caller' = IF l = "main" THEN [caller EXCEPT ![x] = "signalled"] ELSE caller
      /\ UNCHANGED <<refs, table, replyQ, sources>>
  BY DEF DoneReturn, At
<1> QED BY <1>1, OwnedReturn

LEMMA OwnedMainUnref ==
  ASSUME Shape, Owned, MainUnref
  PROVE  Owned'
<1> USE DEF Msgs
<1> SUFFICES ASSUME NEW x, x = Top.msg PROVE Owned' OBVIOUS
<1>3. /\ stack # <<>> /\ Top.at = "drop" /\ refs' = [refs EXCEPT ![x] = refs[x] - 1]
      /\ IF refs[x] = 1 THEN SetTop(Frame(Top.loop, "retire", x)) ELSE Continue
      /\ UNCHANGED <<stage, table, replyQ, sources, caller>>
  BY DEF MainUnref
<1>0. /\ Top \in OnStack /\ FrameShape(Top) /\ FrameFits(Top)
      /\ x \in Msgs /\ x # NoMsg /\ MsgOK(x) /\ stage[x] = "ended"
      /\ \A g \in OnStack : g.msg = x => g = Top
  BY <1>3, TopOnly DEF Owned, FrameFits
<1>h. Has(x, "drop") /\ ~ Has(x, "retire") BY <1>0, <1>3 DEF Has
<1>1. /\ StackOK'
      /\ \A f \in OnStack' : f \in Below \/ f.at = "poll" \/ (f.at = "retire" /\ f.msg = x)
      /\ Below \subseteq OnStack
      /\ ~ Has(x, "drop")' /\ (Has(x, "retire")' <=> refs[x] = 1)
      /\ \A m : m # x => \A at \in {"drop", "retire"} : Has(m, at)' <=> Has(m, at)
  <2>0. Below \subseteq OnStack BY <1>3, BelowFacts DEF Owned
  <2>1. CASE refs[x] = 1
    <3> SUFFICES ASSUME NEW d, d = Frame(Top.loop, "retire", x)
                 PROVE /\ StackOK'
                       /\ \A f \in OnStack' : f \in Below \/ f.at = "poll" \/ (f.at = "retire" /\ f.msg = x)
                       /\ ~ Has(x, "drop")' /\ (Has(x, "retire")' <=> refs[x] = 1)
                       /\ \A m : m # x => \A at \in {"drop", "retire"} : Has(m, at)' <=> Has(m, at)
      BY <2>0
    <3>d. d.msg = x /\ d.at = "retire" /\ d.loop = Top.loop BY FrameFields
    <3>s. FrameShape(d) /\ d \in Frames /\ SetTop(d)
      <4>1. d \in Frames BY <1>0, <1>3, TopType, MadeTypes DEF Shape
      <4>2. FrameShape(d) BY <1>0, <1>3, <3>d DEF FrameShape
      <4> QED BY <1>3, <2>1, <4>1, <4>2
    <3>1. d.msg # NoMsg BY <3>d, <1>0
    <3>2. \A g \in OnStack : g.msg = d.msg => g = Top BY <1>0, <3>d
    <3>4. /\ StackOK' /\ OnStack' = Below \cup {d}
          /\ \A at : Has(d.msg, at)' <=> d.at = at
          /\ \A m : m \notin {d.msg, Top.msg} => \A at : Has(m, at)' <=> Has(m, at)
      BY <1>3, <3>s, <3>1, <3>2, TopTo
    <3> QED BY <2>1, <3>d, <3>4
  <2>2. CASE refs[x] # 1
    <3>1. Continue /\ Top.at # "poll" BY <1>3, <2>2
    <3>2. /\ StackOK'
          /\ \A f \in OnStack' : f \in Below \/ f.at = "poll"
          /\ ~ Has(x, "drop")' /\ ~ Has(x, "retire")'
          /\ \A m : m # x => \A at \in {"drop", "retire"} : Has(m, at)' <=> Has(m, at)
      BY <1>3, <3>1, TopLeaves
    <3> QED BY <2>0, <2>2, <3>2
  <2> QED BY <2>1, <2>2
<1>2. SourcesOrdered' /\ ToSet(sources)' = ToSet(sources)
  BY <1>3, SameSources DEF Owned
<1>5. FramesFit'
  <2>1. ASSUME NEW f \in OnStack' PROVE FrameFits(f)'
    <3>1. CASE f \in Below BY <1>1, <1>3, <3>1 DEF Owned, FramesFit, FrameFits
    <3>2. CASE f.at = "poll" BY <3>2 DEF FrameFits
    <3>3. CASE f.at = "retire" /\ f.msg = x BY <1>0, <1>3, <3>3 DEF FrameFits
    <3> QED BY <1>1, <2>1, <3>1, <3>2, <3>3
  <2> QED BY <2>1 DEF FramesFit
<1>6. RepliesExact' BY <1>3, SameReplies DEF Owned, Shape
<1>7. \A m \in Msgs \ {x} : Alone(m) BY <1>1, <1>2, <1>3 DEF Alone, Shape
<1>8. MsgOK(x)'
  <2>1. refs[x] \in Int /\ refs'[x] = refs[x] - 1 BY <1>0, <1>3 DEF Shape
  <2>2. LoopHolds(x) /\ ~ LoopHolds(x)' BY <1>0, <1>1, <1>3, <1>h DEF LoopHolds
  <2>3. (CallerHolds(x)' <=> CallerHolds(x)) /\ (CallerRetires(x)' <=> CallerRetires(x))
    BY <1>3 DEF CallerHolds, CallerRetires
  <2>4. refs[x] = 1 + IF CallerHolds(x) THEN 1 ELSE 0 BY <1>0, <2>2 DEF MsgOK, Counted
  <2>5. x \in table /\ ~ Retires(x) BY <1>0, <2>2 DEF MsgOK, Counted
  <2>6. Counted(x)'
    <3>1. (refs[x] = 1 <=> ~ CallerHolds(x)) /\ refs'[x] = IF CallerHolds(x) THEN 1 ELSE 0
      BY <2>1, <2>4
    <3>2. ~ CallerRetires(x) BY <2>5 DEF Retires
    <3>3. Has(x, "retire")' <=> ~ CallerHolds(x) BY <1>1, <3>1
    <3>4. refs'[x] = (IF LoopHolds(x)' THEN 1 ELSE 0) + (IF CallerHolds(x)' THEN 1 ELSE 0)
      BY <2>2, <2>3, <3>1
    <3> QED BY <1>3, <2>2, <2>3, <2>5, <3>2, <3>3, <3>4 DEF Counted, Retires
  <2>7. SourcesFit(x)' BY <1>0, <1>2, <1>3 DEF MsgOK, SourcesFit, Submit, FreeIdle
  <2>8. x \in Calls => CallFits(x)' BY <1>0, <1>3 DEF MsgOK, CallFits
  <2> QED BY <2>6, <2>7, <2>8 DEF MsgOK
<1> QED BY <1>1, <1>2, <1>5, <1>6, <1>7, <1>8, OwnedBy

LEMMA OwnedMainRetire ==
  ASSUME Shape, Owned, MainRetire
  PROVE  Owned'
<1> USE DEF Msgs
<1> SUFFICES ASSUME NEW x, x = Top.msg PROVE Owned' OBVIOUS
<1>3. /\ stack # <<>> /\ Top.at = "retire" /\ table' = table \ {x}
      /\ sources' = Append(sources, FreeIdle(x)) /\ Continue
      /\ UNCHANGED <<stage, refs, replyQ, caller>>
  BY DEF MainRetire, Retire
<1>0. /\ Top \in OnStack /\ FrameShape(Top) /\ FrameFits(Top)
      /\ x \in Msgs /\ x # NoMsg /\ MsgOK(x) /\ stage[x] = "ended"
      /\ \A g \in OnStack : g.msg = x => g = Top
  BY <1>3, TopOnly DEF Owned, FrameFits
<1>h. Has(x, "retire") /\ ~ Has(x, "drop") BY <1>0, <1>3 DEF Has
<1>1. /\ StackOK'
      /\ \A f \in OnStack' : f \in Below \/ f.at = "poll"
      /\ Below \subseteq OnStack
      /\ ~ Has(x, "drop")' /\ ~ Has(x, "retire")'
      /\ \A m : m # x => \A at \in {"drop", "retire"} : Has(m, at)' <=> Has(m, at)
  <2>1. Below \subseteq OnStack BY <1>3, BelowFacts DEF Owned
  <2>2. /\ StackOK'
        /\ \A f \in OnStack' : f \in Below \/ f.at = "poll"
        /\ ~ Has(x, "drop")' /\ ~ Has(x, "retire")'
        /\ \A m : m # x => \A at \in {"drop", "retire"} : Has(m, at)' <=> Has(m, at)
    BY <1>3, TopLeaves
  <2> QED BY <2>1, <2>2
<1>c. ~ LoopHolds(x) /\ ~ CallerHolds(x) /\ ~ CallerRetires(x) /\ x \in table
  BY <1>0, <1>h DEF MsgOK, Counted, Retires
<1>2. SourcesOrdered' /\ ToSet(sources)' = ToSet(sources) \cup {FreeIdle(x)}
  <2>1. FreeIdle(x) \notin ToSet(sources) BY <1>0, <1>c DEF MsgOK, SourcesFit
  <2> QED BY <1>0, <1>3, <2>1, AttachOrder, MadeTypes, SourceFields DEF Owned
<1>5. FramesFit'
  BY <1>1, <1>3 DEF Owned, FramesFit, FrameFits
<1>6. RepliesExact' BY <1>3, SameReplies DEF Owned, Shape
<1>7. \A m \in Msgs \ {x} : Alone(m) BY <1>1, <1>2, <1>3, SourceFields DEF Alone, Shape
<1>8. MsgOK(x)'
  <2>1. refs[x] = 0 /\ refs' = refs BY <1>0, <1>3, <1>c DEF MsgOK, Counted
  <2>2. ~ LoopHolds(x)' BY <1>0, <1>1, <1>3 DEF LoopHolds
  <2>3. ~ CallerHolds(x)' /\ ~ CallerRetires(x)'
    BY <1>3, <1>c DEF CallerHolds, CallerRetires
  <2>4. Counted(x)' BY <1>1, <1>3, <2>1, <2>2, <2>3 DEF Counted, Retires
  <2>7. SourcesFit(x)'
    BY <1>0, <1>2, <1>3, SourceFields DEF MsgOK, SourcesFit, Submit, FreeIdle
  <2>8. x \in Calls => CallFits(x)' BY <1>0, <1>3 DEF MsgOK, CallFits
  <2> QED BY <2>4, <2>7, <2>8 DEF MsgOK
<1> QED BY <1>1, <1>2, <1>5, <1>6, <1>7, <1>8, OwnedBy

-----------------------------------------------------------------------------
(* Sources, and the whole.                                                 *)

LEMMA OwnedDispatch ==
  ASSUME Shape, Owned, NEW k \in DOMAIN sources, Dispatch(k)
  PROVE  Owned'
<1> USE DEF Msgs
<1>s. sources[k] \in Sources
  BY ElementOfSeq, LenProperties DEF Shape
<1> SUFFICES ASSUME NEW s \in Sources, s = sources[k] PROVE Owned' BY <1>s
<1>3. /\ LoopRuns /\ Dispatchable(k) /\ sources' = RemoveAt(sources, k)
      /\ stack' = IF s.kind = "idle"
                  THEN Append(stack, Frame("reset", "poll", NoMsg)) ELSE stack
      /\ stage' = IF s.kind = "free" THEN [stage EXCEPT ![s.msg] = "freed"] ELSE stage
      /\ UNCHANGED <<refs, table, replyQ, caller>>
  BY DEF Dispatch
<1>d. /\ SourcesOrdered' /\ ToSet(sources)' \subseteq ToSet(sources)
      /\ \A m \in Msgs : s = FreeIdle(m)
           => FreeIdle(m) \notin ToSet(sources)' /\ Submit(m) \notin ToSet(sources)'
  BY <1>3, DetachOrder DEF Owned
<1>4. s \in ToSet(sources) BY DEF ToSet
<1>i. CASE s.kind = "idle"
  <2>1. stage' = stage BY <1>3, <1>i
  <2> DEFINE d == Frame("reset", "poll", NoMsg)
  <2>d. d.msg = NoMsg /\ d.at = "poll" /\ d.loop = "reset" BY FrameFields
  <2>2. StackOK' /\ OnStack' = OnStack \cup {d}
    <3>1. FrameShape(d) BY <2>d DEF FrameShape
    <3>2. d \in Frames BY MadeTypes DEF Loops
    <3>3. stack' = Append(stack, d) BY <1>3, <1>i
    <3> HIDE DEF d
    <3> QED BY <1>3, <2>d, <3>1, <3>2, <3>3, StackPush DEF Owned
  <2> HIDE DEF d
  <2>3. \A m : \A at \in {"drop", "retire"} : Has(m, at)' <=> Has(m, at) BY <2>d, <2>2 DEF Has
  <2>4. FramesFit' BY <1>3, <2>1, <2>2, <2>d DEF Owned, FramesFit, FrameFits
  <2>5. RepliesExact' BY <1>3, <2>1, SameReplies DEF Owned
  <2>6. \A m \in Msgs \ {NoMsg} : Alone(m) BY <1>3, <1>d, <2>1, <2>3 DEF Alone, Submit, FreeIdle
  <2> QED BY <1>d, <2>2, <2>4, <2>5, <2>6, OwnedBy, MailMsgAssumption
<1>n. CASE s.kind # "idle"
  <2>1. StackOK' /\ OnStack' = OnStack /\ \A m, at : Has(m, at)' <=> Has(m, at)
    BY <1>3, <1>n, SameStack DEF Owned
  <2>2. CASE s.kind = "submit"
    <3>1. stage' = stage BY <1>3, <2>2
    <3>4. FramesFit' BY <1>3, <2>1, <3>1 DEF Owned, FramesFit, FrameFits
    <3>5. RepliesExact' BY <1>3, <3>1, SameReplies DEF Owned
    <3>6. \A m \in Msgs \ {NoMsg} : Alone(m)
      BY <1>3, <1>d, <2>1, <3>1 DEF Alone, Submit, FreeIdle
    <3> QED BY <1>d, <2>1, <3>4, <3>5, <3>6, OwnedBy, MailMsgAssumption
  <2>3. CASE s.kind = "free" /\ s.msg \in Msgs
    <3> SUFFICES ASSUME NEW x \in Msgs, x = s.msg PROVE Owned' BY <2>3
    <3>0. s = FreeIdle(x)
      <4>1. s.kind \in {"submit", "free"} /\ s \in [kind : {"submit", "free"}, msg : Msgs \cup {NoMsg}]
        BY <1>n, <2>3 DEF Sources
      <4> QED BY <2>3, <4>1 DEF FreeIdle
    <3>1. /\ stage' = [stage EXCEPT ![x] = "freed"]
          /\ MsgOK(x) /\ x \notin table /\ stage[x] = "ended"
      BY <1>3, <1>4, <2>3, <3>0 DEF Owned, MsgOK, SourcesFit
    <3>2. ~ LoopHolds(x) /\ ~ CallerHolds(x) /\ ~ Has(x, "drop") /\ ~ Has(x, "retire")
          /\ ~ CallerRetires(x)
      BY <3>1 DEF MsgOK, Counted, Retires, LoopHolds
    <3>4. FramesFit'
      <4> SUFFICES ASSUME NEW f \in OnStack PROVE FrameFits(f)' BY <2>1 DEF FramesFit
      <4>1. FrameFits(f) BY DEF Owned, FramesFit
      <4>2. f.at \in {"poll", "run", "drop", "retire"}
        <5>1. f \in Frames BY ElementOfSeq, LenProperties DEF Shape, OnStack, ToSet
        <5> QED BY <5>1 DEF Frames
      <4>3. f.at # "poll" => f.msg # x BY <3>1, <3>2, <4>1, <4>2 DEF Has, FrameFits
      <4> QED BY <1>3, <3>1, <4>1, <4>3 DEF FrameFits, Shape
    <3>5. RepliesExact' BY <1>3, <3>1, SameReplies DEF Owned, Shape
    <3>6. \A m \in Msgs \ {x} : Alone(m)
      BY <1>3, <1>d, <2>1, <3>1 DEF Alone, Submit, FreeIdle, Shape
    <3>7. MsgOK(x)'
      <4>1. stage'[x] = "freed" BY <3>1 DEF Shape
      <4>2. Counted(x)'
        BY <1>3, <2>1, <3>1, <3>2, <4>1
        DEF MsgOK, Counted, LoopHolds, CallerHolds, Retires, CallerRetires
      <4>3. x \in Calls => CallFits(x)'
        BY <1>3, <3>1, <3>2, <4>1 DEF MsgOK, CallFits, CallerHolds, CallerRetires
      <4>4. SourcesFit(x)'
        BY <1>3, <1>d, <3>0, <3>1, <4>1 DEF SourcesFit, Submit, FreeIdle
      <4> QED BY <4>2, <4>3, <4>4 DEF MsgOK
    <3> QED BY <1>d, <2>1, <3>4, <3>5, <3>6, <3>7, OwnedBy
  <2>4. CASE s.kind = "free" /\ s.msg \notin Msgs
    <3>1. stage' = stage BY <1>3, <2>4 DEF Shape
    <3>4. FramesFit' BY <1>3, <2>1, <3>1 DEF Owned, FramesFit, FrameFits
    <3>5. RepliesExact' BY <1>3, <3>1, SameReplies DEF Owned
    <3>6. \A m \in Msgs \ {NoMsg} : Alone(m)
      BY <1>3, <1>d, <2>1, <3>1 DEF Alone, Submit, FreeIdle
    <3> QED BY <1>d, <2>1, <3>4, <3>5, <3>6, OwnedBy, MailMsgAssumption
  <2> QED BY <1>n, <2>2, <2>3, <2>4 DEF Sources
<1> QED BY <1>i, <1>n

LEMMA InitOwned == Init => Owned
<1> SUFFICES ASSUME Init PROVE Owned OBVIOUS
<1>0. stack = <<>> /\ sources = <<>> /\ replyQ = <<>> BY DEF Init
<1>1. DOMAIN stack = {} /\ OnStack = {} /\ Len(stack) = 0 BY <1>0 DEF OnStack, ToSet
<1>2. DOMAIN sources = {} /\ ToSet(sources) = {} BY <1>0 DEF ToSet
<1>3. DOMAIN replyQ = {} /\ ToSet(replyQ) = {} BY <1>0 DEF ToSet
<1>4. StackOK BY <1>0, <1>1 DEF StackOK
<1>5. FramesFit BY <1>1 DEF FramesFit
<1>6. SourcesOrdered BY <1>2 DEF SourcesOrdered
<1>7. RepliesExact BY <1>3 DEF Init, RepliesExact
<1>8. ASSUME NEW m \in Msgs PROVE MsgOK(m)
  <2>1. stage[m] = "new" /\ refs[m] = 0 /\ m \notin table /\ (m \in Calls => caller[m] = "none")
    BY DEF Init
  <2>2. Counted(m)
    BY <1>1, <2>1 DEF Counted, LoopHolds, CallerHolds, Retires, CallerRetires, Has
  <2>3. m \in Calls => CallFits(m) BY <2>1 DEF CallFits
  <2>4. SourcesFit(m) BY <1>2, <2>1 DEF SourcesFit
  <2> QED BY <2>2, <2>3, <2>4 DEF MsgOK
<1> QED BY <1>4, <1>5, <1>6, <1>7, <1>8 DEF Owned

LEMMA OwnedStep == Shape /\ Owned /\ [Next]_vars => Owned'
<1> SUFFICES ASSUME Shape, Owned, [Next]_vars PROVE Owned' OBVIOUS
<1>1. CASE UNCHANGED vars BY <1>1, OwnedApart DEF vars
<1>2. CASE \E m \in Async : Push(m) \/ WorkerStart(m) \/ WorkerReply(m)
  BY <1>2, OwnedPush, OwnedWorkerStart, OwnedWorkerReply
<1>3. CASE \E m \in Msgs : Arm(m) \/ Cancel(m)
  BY <1>3, OwnedArm, OwnedCancel
<1>4. CASE \E c \in Calls : \/ \E m \in Async : CallMain(c, m)
                            \/ CallerResume(c) \/ CallerRetire(c) \/ CallDirect(c)
  BY <1>4, OwnedCallMain, OwnedCallerResume, OwnedCallerRetire, OwnedCallDirect
<1>5. CASE MainStep
  BY <1>5, OwnedCallDone, OwnedReset, OwnedMainPop, OwnedMainEmpty, OwnedReplyPop,
     OwnedReplyEmpty, OwnedDoneReturn, OwnedMainUnref, OwnedMainRetire DEF MainStep
<1>6. CASE \E k \in DOMAIN sources : Dispatch(k)
  BY <1>6, OwnedDispatch
<1> QED BY <1>1, <1>2, <1>3, <1>4, <1>5, <1>6 DEF Next

LEMMA OwnedAlways == Spec => [](Shape /\ Owned)
<1>1. Shape /\ Owned /\ [Next]_vars => (Shape /\ Owned)' BY ShapeStep, OwnedStep
<1> QED BY InitShape, InitOwned, <1>1, PTL DEF Spec

\* Memory is freed once, after its last use.
LEMMA OwnedFreed ==
  ASSUME Shape, Owned
  PROVE  NoUseAfterFree
<1> USE DEF Msgs
<1> SUFFICES ASSUME NEW m \in Msgs, stage[m] = "freed"
             PROVE  /\ refs[m] = 0
                    /\ m \notin table
                    /\ m \notin ToSet(replyQ)
                    /\ {Submit(m), FreeIdle(m)} \cap ToSet(sources) = {}
                    /\ \A f \in ToSet(stack) : f.msg # m
                    /\ m \in Calls => caller[m] \in {"none", "returned"}
  BY DEF NoUseAfterFree
<1>1. MsgOK(m) BY DEF Owned
<1>2. m \notin table /\ {Submit(m), FreeIdle(m)} \cap ToSet(sources) = {}
  BY <1>1 DEF MsgOK, SourcesFit
<1>3. ~ LoopHolds(m) /\ ~ CallerHolds(m) /\ ~ CallerRetires(m) /\ refs[m] = 0
  BY <1>1, <1>2 DEF MsgOK, Counted, Retires
<1>4. m \notin ToSet(replyQ) BY DEF Owned, RepliesExact
<1>5. \A f \in ToSet(stack) : f.msg # m BY NoFrame DEF OnStack
<1>6. m \in Calls => caller[m] \in {"none", "returned"}
  BY <1>3 DEF CallerHolds, CallerRetires, Shape, Callers
<1> QED BY <1>2, <1>3, <1>4, <1>5, <1>6

\* What has a use for a message keeps it in the table.
LEMMA OwnedQuiet ==
  ASSUME Shape, Owned
  PROVE  InactiveMeansQuiet
<1> USE DEF Msgs
<1> SUFFICES ASSUME table = {}
             PROVE  /\ \A m \in Msgs : stage[m] \in {"new", "ended", "freed"}
                    /\ \A c \in Calls : caller[c] \in {"none", "returned"}
  BY DEF InactiveMeansQuiet
<1>1. \A m \in Msgs : ~ LoopHolds(m) /\ ~ CallerHolds(m) /\ ~ CallerRetires(m)
  BY DEF Owned, MsgOK, Counted, Retires
<1>2. \A m \in Msgs : stage[m] \in {"new", "ended", "freed"}
  BY <1>1 DEF LoopHolds, Shape, Stages
<1>3. \A c \in Calls : caller[c] \in {"none", "returned"}
  BY <1>1 DEF CallerHolds, CallerRetires, Shape, Callers
<1> QED BY <1>2, <1>3

\* A count of holders is a natural number.
LEMMA OwnedTypes ==
  ASSUME Shape, Owned
  PROVE  TypeOK
<1>1. \A m \in Msgs : refs[m] \in Nat BY DEF Owned, MsgOK, Counted
<1>2. refs \in [Msgs -> Nat] BY <1>1 DEF Shape
<1> QED BY <1>2 DEF Shape, TypeOK

\* Every variable has its type, and no reference count falls below zero.
THEOREM TypesHold == Spec => []TypeOK
BY OwnedAlways, OwnedTypes, PTL

\* mail_msg_free() comes once and last: no frame, queue, table entry, source or
\* caller has the message, however the last two users race.
THEOREM NothingUsedAfterFree == Spec => []NoUseAfterFree
BY OwnedAlways, OwnedFreed, PTL

\* When mail_msg_active() says no, nothing runs and nothing is to come.
THEOREM QuietWhenInactive == Spec => []InactiveMeansQuiet
BY OwnedAlways, OwnedQuiet, PTL

-----------------------------------------------------------------------------
(* The order of the pools with one thread.                                 *)

\* Two messages one such pool serves in the order of their pushes.
Alike(a, b) == Route[a] = Route[b] /\ Route[a] # "unordered" /\ Prio[a] = Prio[b]

\* No two pushes have the same place in the order.
TicketsFit ==
  /\ \A a \in Async : stage[a] # "new" => ticket[a] < tickets
  /\ \A a, b \in Async :
       stage[a] # "new" /\ stage[b] # "new" /\ ticket[a] = ticket[b] => a = b

\* One worker, from its start to its G_LOCK section; replies in its order.
OneWorker == \A p \in Pools \ {"unordered"} : \A a, b \in Workers(p) : a = b
RepliesOrdered ==
  \A i, j \in DOMAIN replyQ :
    i < j /\ Alike(replyQ[i], replyQ[j]) => ticket[replyQ[i]] < ticket[replyQ[j]]

Ordered == TicketsFit /\ OneWorker /\ RepliesOrdered /\ OrderedPools

\* The ranks of the stages.
LEMMA RankFacts ==
  ASSUME NEW m
  PROVE  /\ Rank(m) \in 0 .. 3
         /\ stage[m] \in {"new", "queued"} <=> Rank(m) = 0
         /\ stage[m] = "running" <=> Rank(m) = 1
         /\ stage[m] = "answered" <=> Rank(m) = 2
         /\ stage[m] \notin {"new", "queued", "running", "answered"} <=> Rank(m) = 3
<1>1. Rank(m) = IF stage[m] \in {"new", "queued"} THEN 0
                ELSE IF stage[m] = "running" THEN 1
                ELSE IF stage[m] = "answered" THEN 2 ELSE 3
  BY DEF Rank
<1> QED BY <1>1

\* A step that no asynchronous message gets further by.
LEMMA OrderedKept ==
  ASSUME Shape, Ordered, tickets' \in Nat, tickets' >= tickets, UNCHANGED replyQ,
         \A i \in DOMAIN replyQ : replyQ[i] \in Async,
         \A a \in Async : /\ ticket'[a] = ticket[a] /\ Rank(a)' = Rank(a)
                          /\ stage'[a] = "new" <=> stage[a] = "new"
                          /\ stage'[a] = "running" <=> stage[a] = "running"
                          /\ a \in arming' => a \in arming
  PROVE  Ordered'
<1>1. TicketsFit' BY DEF Ordered, TicketsFit, Shape, Msgs
<1>2. OneWorker' BY DEF Ordered, OneWorker, Workers
<1>3. RepliesOrdered' BY DEF Ordered, RepliesOrdered, Alike
<1>4. OrderedPools' BY DEF Ordered, OrderedPools
<1> QED BY <1>1, <1>2, <1>3, <1>4 DEF Ordered

\* The replies are those of workers.
LEMMA RepliesAsync ==
  ASSUME Shape, Owned
  PROVE  \A i \in DOMAIN replyQ : replyQ[i] \in Async /\ stage[replyQ[i]] = "answered"
<1> SUFFICES ASSUME NEW i \in DOMAIN replyQ
             PROVE  replyQ[i] \in Async /\ stage[replyQ[i]] = "answered"
  OBVIOUS
<1>1. replyQ[i] \in Msgs /\ replyQ[i] \in ToSet(replyQ)
  BY ElementOfSeq, LenProperties DEF Shape, ToSet
<1>2. stage[replyQ[i]] = "answered" BY <1>1 DEF Owned, RepliesExact
<1> QED BY <1>1, <1>2 DEF Owned, MsgOK, CallFits, Msgs

\* A step that moves one message x which no pool serves, or whose done() has
\* begun already.
LEMMA OrderedAside ==
  ASSUME Shape, Owned, Ordered, UNCHANGED <<ticket, tickets, replyQ, arming>>,
         NEW x \in Msgs, NEW s \in Stages, stage' = [stage EXCEPT ![x] = s],
         \/ x \in Calls
         \/ {stage[x], s} \subseteq {"handled", "ended", "freed"}
  PROVE  Ordered'
<1>1. ASSUME NEW a \in Async
      PROVE  Rank(a)' = Rank(a) /\ (stage'[a] = "new" <=> stage[a] = "new")
             /\ (stage'[a] = "running" <=> stage[a] = "running")
  <2>1. CASE a # x
    <3>1. stage'[a] = stage[a] BY <2>1 DEF Shape, Msgs
    <3> QED BY <3>1 DEF Rank
  <2>2. CASE a = x
    <3>1. a \notin Calls BY MailMsgAssumption
    <3>2. stage[a] \in {"handled", "ended", "freed"} /\ stage'[a] \in {"handled", "ended", "freed"}
      BY <2>2, <3>1 DEF Shape
    <3> QED BY <3>2 DEF Rank
  <2> QED BY <2>1, <2>2
<1>2. tickets' \in Nat /\ tickets' >= tickets BY DEF Shape
<1> QED BY <1>1, <1>2, RepliesAsync, OrderedKept

\* A step that moves no message.
LEMMA OrderedStill ==
  ASSUME Shape, Owned, Ordered, UNCHANGED <<stage, ticket, tickets, replyQ>>,
         arming' \subseteq arming
  PROVE  Ordered'
<1>1. \A a \in Async : Rank(a)' = Rank(a) BY DEF Rank
<1>2. tickets' \in Nat /\ tickets' >= tickets BY DEF Shape
<1> QED BY <1>1, <1>2, RepliesAsync, OrderedKept

LEMMA OrderedPush ==
  ASSUME Shape, Owned, Ordered, NEW x \in Async, Push(x)
  PROVE  Ordered'
<1> USE DEF Msgs
<1>1. /\ stage[x] = "new" /\ stage' = [stage EXCEPT ![x] = "queued"]
      /\ ticket' = [ticket EXCEPT ![x] = tickets] /\ tickets' = tickets + 1
      /\ replyQ' = replyQ /\ arming' = arming
  BY DEF Push, New, Enqueue
<1>2. /\ stage'[x] = "queued" /\ ticket'[x] = tickets
      /\ \A a \in Async : a # x => stage'[a] = stage[a] /\ ticket'[a] = ticket[a]
      /\ tickets \in Nat /\ \A a \in Async : ticket[a] \in Nat
  BY <1>1 DEF Shape
<1>3. TicketsFit' BY <1>1, <1>2 DEF Ordered, TicketsFit
<1>4. OneWorker' BY <1>1, <1>2 DEF Ordered, OneWorker, Workers
<1>5. RepliesOrdered'
  <2>1. \A i \in DOMAIN replyQ : replyQ[i] \in Async /\ replyQ[i] # x BY <1>1, RepliesAsync
  <2> QED BY <1>1, <1>2, <2>1 DEF Ordered, RepliesOrdered, Alike
<1>6. OrderedPools'
  <2> SUFFICES ASSUME NEW a \in Async, NEW b \in Async, Alike(a, b),
                      stage'[a] # "new", stage'[b] # "new", ticket'[a] < ticket'[b]
               PROVE  Rank(a)' >= Rank(b)' /\ (Rank(b)' > 0 => Rank(a)' > 1)
    BY DEF OrderedPools, Alike
  <2>1. CASE b = x
    <3>1. Rank(b)' = 0 BY <1>2, <2>1 DEF Rank
    <3>2. Rank(a)' \in 0 .. 3 BY <1>2, <2>1, <3>1 DEF Rank
    <3> QED BY <3>1, <3>2
  <2>2. CASE b # x /\ a = x
    BY <1>2, <2>2 DEF Ordered, TicketsFit
  <2>3. CASE b # x /\ a # x
    <3>1. Rank(a)' = Rank(a) /\ Rank(b)' = Rank(b) BY <1>2, <2>3 DEF Rank
    <3> QED BY <1>2, <2>3, <3>1 DEF Ordered, OrderedPools, Alike
  <2> QED BY <2>1, <2>2, <2>3
<1> QED BY <1>3, <1>4, <1>5, <1>6 DEF Ordered

LEMMA OrderedWorkerStart ==
  ASSUME Shape, Owned, Ordered, NEW x \in Async, WorkerStart(x)
  PROVE  Ordered'
<1> USE DEF Msgs
<1>1. PICK p \in Pools : IsFirst(x, Waiting(p)) /\ Cardinality(Workers(p)) < MaxThreads(p)
  BY DEF WorkerStart
<1>2. /\ stage[x] = "queued" /\ Route[x] = p /\ stage' = [stage EXCEPT ![x] = "running"]
      /\ UNCHANGED <<ticket, tickets, replyQ, arming>>
  BY <1>1 DEF WorkerStart, IsFirst, Waiting, Queued
<1>3. /\ stage'[x] = "running" /\ \A a \in Async : a # x => stage'[a] = stage[a]
      /\ \A a \in Async : ticket[a] \in Nat /\ Prio[a] \in Int
  BY <1>2, MailMsgAssumption DEF Shape
<1>4. p # "unordered" => Workers(p) = {}
  <2> SUFFICES ASSUME p # "unordered" PROVE Workers(p) = {} OBVIOUS
  <2>1. Cardinality(Workers(p)) < 1 BY <1>1 DEF MaxThreads
  <2>2. \A a, b \in Workers(p) : a = b BY DEF Ordered, OneWorker
  <2>3. ASSUME Workers(p) # {} PROVE FALSE
    <3>1. PICK a : Workers(p) = {a} BY <2>2, <2>3
    <3>2. Cardinality(Workers(p)) = 1 BY <3>1, FS_Singleton
    <3> QED BY <2>1, <3>2
  <2> QED BY <2>3
<1>5. TicketsFit' BY <1>2, <1>3 DEF Ordered, TicketsFit
<1>6. OneWorker'
  <2> SUFFICES ASSUME NEW q \in Pools \ {"unordered"}, NEW a \in Workers(q)', NEW b \in Workers(q)'
               PROVE  a = b
    BY DEF OneWorker
  <2>1. CASE q = p BY <1>2, <1>3, <1>4, <2>1 DEF Workers
  <2>2. CASE q # p BY <1>2, <1>3, <2>2 DEF Ordered, OneWorker, Workers
  <2> QED BY <2>1, <2>2
<1>7. RepliesOrdered' BY <1>2 DEF Ordered, RepliesOrdered, Alike
<1>8. OrderedPools'
  <2> SUFFICES ASSUME NEW a \in Async, NEW b \in Async, Alike(a, b),
                      stage'[a] # "new", stage'[b] # "new", ticket[a] < ticket[b]
               PROVE  Rank(a)' >= Rank(b)' /\ (Rank(b)' > 0 => Rank(a)' > 1)
    BY <1>2 DEF OrderedPools, Alike
  <2>0. stage[a] # "new" /\ stage[b] # "new" /\ a # b BY <1>2, <1>3
  <2>1. Rank(a) >= Rank(b) /\ (Rank(b) > 0 => Rank(a) > 1)
    BY <2>0 DEF Ordered, OrderedPools, Alike
  <2>2. /\ Rank(x) = 0 /\ Rank(x)' = 1
        /\ \A c \in Async : c # x => Rank(c)' = Rank(c)
    BY <1>2, <1>3 DEF Rank
  <2>3. Rank(a) \in 0 .. 3 /\ Rank(b) \in 0 .. 3 BY RankFacts
  <2>4. CASE b = x
    <3>1. Alike(a, x) /\ ticket[a] < ticket[x] /\ Route[a] = p /\ p # "unordered" /\ a # x
      BY <1>2, <2>0, <2>4 DEF Alike
    <3>2. stage[a] # "queued"
      <4>1. stage[a] = "queued" => Before(x, a)
        BY <1>1, <3>1 DEF IsFirst, Waiting, Queued
      <4>2. ~ Before(x, a) BY <1>3, <3>1 DEF Before, Alike
      <4> QED BY <4>1, <4>2
    <3>3. stage[a] # "running" BY <1>4, <3>1 DEF Workers
    <3>4. Rank(a) > 1 BY <2>0, <2>3, <3>2, <3>3, RankFacts
    <3>5. Rank(a)' = Rank(a) BY <2>2, <3>1
    <3> QED BY <2>2, <2>3, <2>4, <3>4, <3>5
  <2>5. CASE a = x BY <2>0, <2>1, <2>2, <2>3, <2>5
  <2>6. CASE a # x /\ b # x BY <2>1, <2>2, <2>6
  <2> QED BY <2>4, <2>5, <2>6
<1> QED BY <1>5, <1>6, <1>7, <1>8 DEF Ordered

LEMMA OrderedWorkerReply ==
  ASSUME Shape, Owned, Ordered, NEW x \in Async, WorkerReply(x)
  PROVE  Ordered'
<1> USE DEF Msgs
<1>1. /\ stage[x] = "running" /\ stage' = [stage EXCEPT ![x] = "answered"]
      /\ replyQ' = Append(replyQ, x) /\ arming' = arming \cup {x}
      /\ UNCHANGED <<ticket, tickets>>
  BY DEF WorkerReply
<1>2. /\ stage'[x] = "answered" /\ \A a \in Async : a # x => stage'[a] = stage[a]
      /\ \A a \in Async : ticket[a] \in Nat
  BY <1>1 DEF Shape
<1>r. /\ Rank(x) = 1 /\ Rank(x)' = 2
      /\ \A c \in Async : c # x => Rank(c)' = Rank(c)
  BY <1>1, <1>2 DEF Rank
<1>3. TicketsFit' BY <1>1, <1>2 DEF Ordered, TicketsFit
<1>4. OneWorker' BY <1>1, <1>2 DEF Ordered, OneWorker, Workers
<1>5. RepliesOrdered'
  <2>1. /\ DOMAIN replyQ = 1 .. Len(replyQ) /\ DOMAIN replyQ' = 1 .. Len(replyQ) + 1
        /\ Len(replyQ) \in Nat
        /\ \A i \in 1 .. Len(replyQ) : replyQ'[i] = replyQ[i]
        /\ replyQ'[Len(replyQ) + 1] = x
    BY <1>1, AppendProperties, LenProperties DEF Shape
  <2> SUFFICES ASSUME NEW i \in DOMAIN replyQ', NEW j \in DOMAIN replyQ', i < j,
                      Alike(replyQ'[i], replyQ'[j])
               PROVE  ticket[replyQ'[i]] < ticket[replyQ'[j]]
    BY <1>1 DEF RepliesOrdered, Alike
  <2>2. i \in 1 .. Len(replyQ) BY <2>1
  <2>3. CASE j \in 1 .. Len(replyQ) BY <2>1, <2>2, <2>3 DEF Ordered, RepliesOrdered
  <2>4. CASE j = Len(replyQ) + 1
    <3> SUFFICES ASSUME NEW y, y = replyQ[i] PROVE ticket[y] < ticket[x] BY <2>1, <2>2, <2>4
    <3>1. y \in Async /\ stage[y] = "answered" /\ Alike(y, x)
      BY <2>1, <2>2, <2>4, RepliesAsync
    <3>2. Rank(y) = 2 BY <3>1, RankFacts
    <3>3. ~ (ticket[x] < ticket[y])
      <4>1. Alike(x, y) /\ stage[x] # "new" /\ stage[y] # "new" BY <1>1, <3>1 DEF Alike
      <4> QED BY <1>r, <3>1, <3>2, <4>1 DEF Ordered, OrderedPools, Alike
    <3>4. ticket[x] # ticket[y] BY <1>1, <3>1 DEF Ordered, TicketsFit
    <3> QED BY <1>2, <3>1, <3>3, <3>4
  <2> QED BY <2>1, <2>3, <2>4, NextIndex
<1>6. OrderedPools'
  <2> SUFFICES ASSUME NEW a \in Async, NEW b \in Async, Alike(a, b),
                      stage'[a] # "new", stage'[b] # "new", ticket[a] < ticket[b]
               PROVE  Rank(a)' >= Rank(b)' /\ (Rank(b)' > 0 => Rank(a)' > 1)
    BY <1>1 DEF OrderedPools, Alike
  <2>0. stage[a] # "new" /\ stage[b] # "new" /\ a # b BY <1>1, <1>2
  <2>1. Rank(a) >= Rank(b) /\ (Rank(b) > 0 => Rank(a) > 1)
    BY <2>0 DEF Ordered, OrderedPools, Alike
  <2>3. Rank(a) \in 0 .. 3 /\ Rank(b) \in 0 .. 3 BY RankFacts
  <2>4. CASE b = x BY <1>r, <2>0, <2>1, <2>3, <2>4
  <2>5. CASE a = x BY <1>r, <2>0, <2>1, <2>3, <2>5
  <2>6. CASE a # x /\ b # x BY <1>r, <2>1, <2>6
  <2> QED BY <2>4, <2>5, <2>6
<1> QED BY <1>3, <1>4, <1>5, <1>6 DEF Ordered

LEMMA OrderedReplyPop ==
  ASSUME Shape, Owned, Ordered, ReplyPop
  PROVE  Ordered'
<1> USE DEF Msgs
<1> SUFFICES ASSUME NEW x, x = Head(replyQ) PROVE Ordered' OBVIOUS
<1>q. /\ x = replyQ[1] /\ 1 \in DOMAIN replyQ
      /\ DOMAIN replyQ = 1 .. Len(replyQ) /\ DOMAIN replyQ' = 1 .. Len(replyQ) - 1
      /\ \A i \in 1 .. Len(replyQ) - 1 : replyQ'[i] = replyQ[i + 1]
      /\ Len(replyQ) \in Nat
  <2>1. replyQ # <<>> /\ replyQ' = Tail(replyQ) /\ replyQ \in Seq(Msgs) BY DEF ReplyPop, Shape
  <2>2. /\ replyQ' \in Seq(Msgs) /\ Len(replyQ') = Len(replyQ) - 1
        /\ \A i \in 1 .. Len(replyQ') : replyQ'[i] = replyQ[i + 1]
    BY <2>1, HeadTailProperties
  <2>3. Len(replyQ) \in Nat /\ Len(replyQ) >= 1 BY <2>1, FrontFacts
  <2>4. DOMAIN replyQ = 1 .. Len(replyQ) /\ DOMAIN replyQ' = 1 .. Len(replyQ')
    BY <2>1, <2>2, LenProperties
  <2>5. x = replyQ[1] OBVIOUS
  <2>6. 1 \in DOMAIN replyQ BY <2>3, <2>4
  <2> QED BY <2>2, <2>3, <2>4, <2>5, <2>6
<1>1. /\ x \in Async /\ stage[x] = "answered"
      /\ stage' = [stage EXCEPT ![x] = "handled"]
      /\ UNCHANGED <<ticket, tickets, arming>>
  BY <1>q, RepliesAsync DEF ReplyPop
<1>2. /\ stage'[x] = "handled" /\ \A a \in Async : a # x => stage'[a] = stage[a]
      /\ \A a \in Async : ticket[a] \in Nat
  BY <1>1 DEF Shape
<1>r. /\ Rank(x) = 2 /\ Rank(x)' = 3
      /\ \A c \in Async : c # x => Rank(c)' = Rank(c)
  BY <1>1, <1>2 DEF Rank
<1>3. TicketsFit' BY <1>1, <1>2 DEF Ordered, TicketsFit
<1>4. OneWorker' BY <1>1, <1>2 DEF Ordered, OneWorker, Workers
<1>5. RepliesOrdered'
  <2>1. \A i \in 1 .. Len(replyQ) - 1 : i + 1 \in 1 .. Len(replyQ) BY <1>q
  <2> SUFFICES ASSUME NEW i \in DOMAIN replyQ', NEW j \in DOMAIN replyQ', i < j,
                      Alike(replyQ'[i], replyQ'[j])
               PROVE  ticket[replyQ'[i]] < ticket[replyQ'[j]]
    BY <1>1 DEF RepliesOrdered, Alike
  <2>2. i + 1 \in DOMAIN replyQ /\ j + 1 \in DOMAIN replyQ /\ i + 1 < j + 1
    BY <1>q, <2>1
  <2>3. replyQ'[i] = replyQ[i + 1] /\ replyQ'[j] = replyQ[j + 1] BY <1>q
  <2> QED BY <2>2, <2>3 DEF Ordered, RepliesOrdered
<1>6. OrderedPools'
  <2> SUFFICES ASSUME NEW a \in Async, NEW b \in Async, Alike(a, b),
                      stage'[a] # "new", stage'[b] # "new", ticket[a] < ticket[b]
               PROVE  Rank(a)' >= Rank(b)' /\ (Rank(b)' > 0 => Rank(a)' > 1)
    BY <1>1 DEF OrderedPools, Alike
  <2>0. stage[a] # "new" /\ stage[b] # "new" /\ a # b BY <1>1, <1>2
  <2>1. Rank(a) >= Rank(b) /\ (Rank(b) > 0 => Rank(a) > 1)
    BY <2>0 DEF Ordered, OrderedPools, Alike
  <2>3. Rank(a) \in 0 .. 3 /\ Rank(b) \in 0 .. 3 BY RankFacts
  <2>4. CASE b = x
    <3>1. stage[a] # "answered"
      <4> SUFFICES ASSUME stage[a] = "answered" PROVE FALSE OBVIOUS
      <4>1. a \in ToSet(replyQ) BY DEF Owned, RepliesExact
      <4>2. PICK i \in DOMAIN replyQ : replyQ[i] = a BY <4>1 DEF ToSet
      <4>3. 1 < i /\ Alike(replyQ[1], replyQ[i])
        <5>1. i # 1 BY <1>q, <2>0, <2>4, <4>2
        <5>2. Alike(x, a) BY <2>4 DEF Alike
        <5> QED BY <1>q, <4>2, <5>1, <5>2
      <4>4. ticket[x] < ticket[a] BY <1>q, <4>2, <4>3 DEF Ordered, RepliesOrdered
      <4> QED BY <1>2, <2>4, <4>4
    <3>2. Rank(a) # 2 BY <3>1, RankFacts
    <3> QED BY <1>r, <2>0, <2>1, <2>3, <2>4, <3>2
  <2>5. CASE a = x BY <1>r, <2>0, <2>1, <2>3, <2>5
  <2>6. CASE a # x /\ b # x BY <1>r, <2>1, <2>6
  <2> QED BY <2>4, <2>5, <2>6
<1> QED BY <1>3, <1>4, <1>5, <1>6 DEF Ordered

\* Every step keeps the order.
LEMMA OrderedStep == Shape /\ Owned /\ Ordered /\ [Next]_vars => Ordered'
<1> SUFFICES ASSUME Shape, Owned, Ordered, [Next]_vars PROVE Ordered' OBVIOUS
<1>1. CASE UNCHANGED vars BY <1>1, OrderedStill DEF vars
<1>2. CASE \E m \in Async : Push(m) \/ WorkerStart(m) \/ WorkerReply(m)
  BY <1>2, OrderedPush, OrderedWorkerStart, OrderedWorkerReply
<1>3. ASSUME NEW m \in Msgs, Arm(m) \/ Cancel(m) PROVE Ordered'
  BY <1>3, OrderedStill DEF Arm, Cancel
<1>4. ASSUME NEW c \in Calls, NEW m \in Async, CallMain(c, m) PROVE Ordered'
  <2>1. /\ tickets' = tickets + 1 /\ tickets \in Nat /\ replyQ' = replyQ
        /\ \A a \in Async : /\ a # c /\ stage'[a] = stage[a] /\ ticket'[a] = ticket[a]
                            /\ a \in arming' => a \in arming
    BY <1>4, MailMsgAssumption DEF CallMain, Enqueue, Shape, Msgs
  <2>2. ASSUME NEW a \in Async
        PROVE  /\ ticket'[a] = ticket[a] /\ Rank(a)' = Rank(a)
               /\ stage'[a] = "new" <=> stage[a] = "new"
               /\ stage'[a] = "running" <=> stage[a] = "running"
               /\ a \in arming' => a \in arming
    <3>1. stage'[a] = stage[a] /\ ticket'[a] = ticket[a] /\ (a \in arming' => a \in arming)
      BY <2>1
    <3>2. Rank(a)' = Rank(a) BY <3>1 DEF Rank
    <3> QED BY <3>1, <3>2
  <2>3. tickets' \in Nat /\ tickets' >= tickets BY <2>1
  <2>4. replyQ' = replyQ BY <2>1
  <2> QED BY <2>2, <2>3, <2>4, RepliesAsync, OrderedKept
<1>5. ASSUME NEW c \in Calls, CallerResume(c) \/ CallerRetire(c) PROVE Ordered'
  BY <1>5, OrderedStill DEF CallerResume, CallerRetire
<1>6. ASSUME NEW c \in Calls, CallDirect(c) PROVE Ordered'
  BY <1>6, OrderedAside DEF CallDirect, Msgs, Stages
<1>7. ASSUME NEW c \in Calls, MainPop(c) PROVE Ordered'
  BY <1>7, OrderedAside DEF MainPop, Msgs, Stages
<1>8. ASSUME CallDone \/ DoneReturn PROVE Ordered'
  <2>1. stack # <<>> /\ Top.at = "run" BY <1>8 DEF CallDone, DoneReturn, At
  <2>2. Top.msg \in Msgs /\ stage[Top.msg] = "handled" BY <2>1, TopOnly DEF FrameFits
  <2>3. stage' = [stage EXCEPT ![Top.msg] = "ended"]
        /\ UNCHANGED <<ticket, tickets, replyQ, arming>>
    BY <1>8 DEF CallDone, DoneReturn
  <2> QED BY <2>2, <2>3, OrderedAside DEF Stages
<1>9. CASE IdleReset \/ MainEmpty \/ ReplyEmpty \/ MainUnref \/ MainRetire
  BY <1>9, OrderedStill DEF IdleReset, MainEmpty, ReplyEmpty, MainUnref, MainRetire
<1>10. ASSUME NEW k \in DOMAIN sources, Dispatch(k) PROVE Ordered'
  <2>1. sources[k] \in Sources BY ElementOfSeq, LenProperties DEF Shape
  <2>2. CASE stage' = stage BY <1>10, <2>2, OrderedStill DEF Dispatch
  <2>3. CASE stage' # stage
    <3>1. sources[k].kind = "free" /\ stage' = [stage EXCEPT ![sources[k].msg] = "freed"]
      BY <1>10, <2>3 DEF Dispatch
    <3>2. sources[k].msg \in Msgs BY <2>3, <3>1 DEF Shape
    <3>3. sources[k] = FreeIdle(sources[k].msg)
      <4>1. sources[k] \in [kind : {"submit", "free"}, msg : Msgs \cup {NoMsg}]
        BY <2>1, <3>1 DEF Sources
      <4> QED BY <3>1, <4>1 DEF FreeIdle
    <3>4. sources[k] \in ToSet(sources) BY DEF ToSet
    <3>5. stage[sources[k].msg] = "ended"
      BY <3>2, <3>3, <3>4 DEF Owned, MsgOK, SourcesFit
    <3> QED BY <1>10, <3>1, <3>2, <3>5, OrderedAside DEF Dispatch, Stages
  <2> QED BY <2>2, <2>3
<1> QED
  BY <1>1, <1>2, <1>3, <1>4, <1>5, <1>6, <1>7, <1>8, <1>9, <1>10, OrderedReplyPop
  DEF Next, MainStep

LEMMA InitOrdered == Init => Ordered
<1> SUFFICES ASSUME Init PROVE Ordered OBVIOUS
<1>1. \A m \in Async : stage[m] = "new" /\ m \notin arming BY DEF Init, Msgs
<1>2. DOMAIN replyQ = {} BY DEF Init
<1>3. TicketsFit BY <1>1 DEF TicketsFit
<1>4. OneWorker BY <1>1 DEF OneWorker, Workers
<1>5. RepliesOrdered BY <1>2 DEF RepliesOrdered
<1>6. OrderedPools BY <1>1 DEF OrderedPools
<1> QED BY <1>3, <1>4, <1>5, <1>6 DEF Ordered

\* The pools with one thread keep the order of the pushes, for any number of
\* messages.
THEOREM PoolsServeInOrder == Spec => []OrderedPools
<1>1. Shape /\ Owned /\ Ordered /\ [Next]_vars => (Shape /\ Owned /\ Ordered)'
  BY ShapeStep, OwnedStep, OrderedStep
<1>2. Ordered => OrderedPools BY DEF Ordered
<1> QED BY InitShape, InitOwned, InitOrdered, <1>1, <1>2, PTL DEF Spec

-----------------------------------------------------------------------------
(* mail-mt.c takes the steps of MailJobs.                                  *)

LEMMA JobOf ==
  ASSUME NEW m
  PROVE  /\ stage[m] = "new" => StatusOf(m) = "idle"
         /\ stage[m] \in {"queued", "running"} => StatusOf(m) = "submitted"
         /\ stage[m] = "answered" => StatusOf(m) = "executed"
         /\ stage[m] = "handled" /\ m \in Async => StatusOf(m) = "executed"
         /\ stage[m] = "handled" /\ m \notin Async => StatusOf(m) = "submitted"
         /\ stage[m] = "ended" => StatusOf(m) = "finished"
         /\ stage[m] = "freed" => StatusOf(m) = "freed"
BY DEF StatusOf

\* A step of one message is a step of one job.
LEMMA JobMoves ==
  ASSUME Shape, NEW x \in Msgs, NEW s \in Stages, stage' = [stage EXCEPT ![x] = s]
  PROVE  /\ stage'[x] = s
         /\ Status[x] = StatusOf(x) /\ Status' = [Status EXCEPT ![x] = StatusOf(x)']
         /\ StatusOf(x)' = StatusOf(x) => Status' = Status
<1>1. \A m \in Msgs : m # x => StatusOf(m)' = StatusOf(m) BY DEF Shape, StatusOf
<1>2. stage'[x] = s BY DEF Shape
<1>3. Msgs' = Msgs BY DEF Msgs
<1> QED BY <1>1, <1>2, <1>3 DEF Status

LEMMA JobsStill ==
  UNCHANGED stage => Status' = Status
<1>1. Msgs' = Msgs BY DEF Msgs
<1> QED BY <1>1 DEF Status, StatusOf

LEMMA BlockedStill ==
  UNCHANGED caller => Blocked' = Blocked
BY DEF Blocked

LEMMA JobsPush ==
  ASSUME Shape, NEW x \in Async, Push(x)
  PROVE  Jobs!Submit(x)
<1>1. /\ stage[x] = "new" /\ stage' = [stage EXCEPT ![x] = "queued"]
      /\ table' = table \cup {x} /\ caller' = caller /\ x \in Msgs
  BY DEF Push, New, Enqueue, Msgs
<1>2. /\ stage'[x] = "queued" /\ Status[x] = StatusOf(x)
      /\ Status' = [Status EXCEPT ![x] = StatusOf(x)']
  BY <1>1, JobMoves DEF Stages
<1>3. StatusOf(x)' = "submitted" /\ StatusOf(x) = "idle"
  BY <1>1, <1>2 DEF StatusOf
<1> QED BY <1>1, <1>2, <1>3, BlockedStill DEF Jobs!Submit, Jobs!Move

LEMMA JobsWorkerReply ==
  ASSUME Shape, NEW x \in Async, WorkerReply(x)
  PROVE  Jobs!Execute(x)
<1>1. /\ stage[x] = "running" /\ stage' = [stage EXCEPT ![x] = "answered"]
      /\ table' = table /\ caller' = caller /\ x \in Msgs
  BY DEF WorkerReply, Msgs
<1>2. /\ stage'[x] = "answered" /\ Status[x] = StatusOf(x)
      /\ Status' = [Status EXCEPT ![x] = StatusOf(x)']
  BY <1>1, JobMoves DEF Stages
<1>3. StatusOf(x)' = "executed" /\ StatusOf(x) = "submitted"
  BY <1>1, <1>2 DEF StatusOf
<1> QED BY <1>1, <1>2, <1>3, BlockedStill DEF Jobs!Execute, Jobs!Move

\* Steps of a message that are none of its job.
LEMMA JobsWorkerStart ==
  ASSUME Shape, NEW x \in Async, WorkerStart(x)
  PROVE  UNCHANGED Jobs!vars
<1>1. /\ stage[x] = "queued" /\ stage' = [stage EXCEPT ![x] = "running"]
      /\ table' = table /\ caller' = caller /\ x \in Msgs
  BY DEF WorkerStart, IsFirst, Waiting, Queued, Msgs
<1>2. stage'[x] = "running" BY <1>1, JobMoves DEF Stages
<1>3. StatusOf(x)' = StatusOf(x) BY <1>1, <1>2 DEF StatusOf
<1>4. Status' = Status BY <1>1, <1>3, JobMoves DEF Stages
<1> QED BY <1>1, <1>4, BlockedStill DEF Jobs!vars

LEMMA JobsMainPop ==
  ASSUME Shape, NEW x \in Calls, MainPop(x)
  PROVE  UNCHANGED Jobs!vars
<1>1. /\ stage[x] = "queued" /\ stage' = [stage EXCEPT ![x] = "handled"]
      /\ table' = table /\ caller' = caller /\ x \in Msgs /\ x \notin Async
  BY MailMsgAssumption DEF MainPop, IsFirst, Queued, Msgs
<1>2. stage'[x] = "handled" BY <1>1, JobMoves DEF Stages
<1>3. StatusOf(x)' = StatusOf(x) BY <1>1, <1>2 DEF StatusOf
<1>4. Status' = Status BY <1>1, <1>3, JobMoves DEF Stages
<1> QED BY <1>1, <1>4, BlockedStill DEF Jobs!vars

LEMMA JobsReplyPop ==
  ASSUME Shape, Owned, ReplyPop
  PROVE  UNCHANGED Jobs!vars
<1> SUFFICES ASSUME NEW x, x = Head(replyQ) PROVE UNCHANGED Jobs!vars OBVIOUS
<1>0. x \in Async /\ stage[x] = "answered"
  <2>1. replyQ # <<>> /\ replyQ \in Seq(Msgs) BY DEF ReplyPop, Shape
  <2>2. x = replyQ[1] BY <2>1
  <2>3. Len(replyQ) \in Nat /\ Len(replyQ) >= 1 BY <2>1, FrontFacts
  <2>4. 1 \in DOMAIN replyQ BY <2>1, <2>3, LenProperties
  <2> QED BY <2>2, <2>4, RepliesAsync
<1>1. /\ stage' = [stage EXCEPT ![x] = "handled"]
      /\ table' = table /\ caller' = caller /\ x \in Msgs
  BY <1>0 DEF ReplyPop, Msgs
<1>2. stage'[x] = "handled" BY <1>1, JobMoves DEF Stages
<1>3. StatusOf(x)' = StatusOf(x) BY <1>0, <1>2 DEF StatusOf
<1>4. Status' = Status BY <1>1, <1>3, JobMoves DEF Stages
<1> QED BY <1>1, <1>4, BlockedStill DEF Jobs!vars

LEMMA JobsCallMain ==
  ASSUME Shape, NEW x \in Calls, NEW w \in Async, CallMain(x, w)
  PROVE  Jobs!Submit(x)
<1>1. /\ stage[x] = "new" /\ stage' = [stage EXCEPT ![x] = "queued"]
      /\ table' = table \cup {x} /\ caller' = [caller EXCEPT ![x] = "waiting"] /\ x \in Msgs
  BY DEF CallMain, New, Enqueue, Msgs
<1>2. /\ stage'[x] = "queued" /\ Status[x] = StatusOf(x)
      /\ Status' = [Status EXCEPT ![x] = StatusOf(x)']
  BY <1>1, JobMoves DEF Stages
<1>3. StatusOf(x)' = "submitted" /\ StatusOf(x) = "idle"
  BY <1>1, <1>2 DEF StatusOf
<1>4. Blocked' = Blocked \cup {x} BY <1>1 DEF Blocked, Shape
<1> QED BY <1>1, <1>2, <1>3, <1>4 DEF Jobs!Submit, Jobs!Move

LEMMA JobsCallDirect ==
  ASSUME Shape, NEW x \in Calls, CallDirect(x)
  PROVE  Jobs!Submit(x)
<1>1. /\ stage[x] = "new" /\ stage' = [stage EXCEPT ![x] = "handled"]
      /\ table' = table \cup {x} /\ caller' = caller /\ x \in Msgs /\ x \notin Async
  BY MailMsgAssumption DEF CallDirect, New, Msgs
<1>2. /\ stage'[x] = "handled" /\ Status[x] = StatusOf(x)
      /\ Status' = [Status EXCEPT ![x] = StatusOf(x)']
  BY <1>1, JobMoves DEF Stages
<1>3. StatusOf(x)' = "submitted" /\ StatusOf(x) = "idle"
  BY <1>1, <1>2 DEF StatusOf
<1> QED BY <1>1, <1>2, <1>3, BlockedStill DEF Jobs!Submit, Jobs!Move

LEMMA JobsCallerResume ==
  ASSUME Shape, Owned, NEW x \in Calls, CallerResume(x)
  PROVE  Jobs!Unblock(x)
<1>1. /\ caller[x] = "signalled" /\ stage' = stage /\ table' = table
      /\ caller' = [caller EXCEPT ![x] = IF refs[x] = 1 THEN "retire" ELSE "returned"]
      /\ x \in Msgs
  BY DEF CallerResume, Msgs
<1>2. stage[x] = "ended" BY <1>1 DEF Owned, MsgOK, CallFits
<1>3. Status[x] = "finished" BY <1>1, <1>2 DEF Status, StatusOf
<1>4. x \in Blocked /\ Blocked' = Blocked \ {x} BY <1>1 DEF Blocked, Shape
<1> QED BY <1>1, <1>3, <1>4, JobsStill DEF Jobs!Unblock

\* The last reference is gone: the message has ended and nobody waits for it.
LEMMA JobsRetire ==
  ASSUME Shape, Owned, NEW x \in Msgs, Retires(x), stage[x] = "ended",
         table' = table \ {x}, stage' = stage, Blocked' = Blocked
  PROVE  Jobs!Retire(x)
<1>1. x \in table /\ ~ CallerHolds(x) BY DEF Owned, MsgOK, Counted
<1>2. x \notin Blocked BY <1>1 DEF Blocked, CallerHolds
<1>3. Status[x] = "finished" BY DEF Status, StatusOf
<1> QED BY <1>1, <1>2, <1>3, JobsStill DEF Jobs!Retire

LEMMA JobsCallerRetire ==
  ASSUME Shape, Owned, NEW x \in Calls, CallerRetire(x)
  PROVE  Jobs!Retire(x)
<1>1. /\ caller[x] = "retire" /\ stage' = stage /\ table' = table \ {x}
      /\ caller' = [caller EXCEPT ![x] = "returned"] /\ x \in Msgs
  BY DEF CallerRetire, Retire, Msgs
<1>2. stage[x] = "ended" /\ Retires(x)
  BY <1>1 DEF Owned, MsgOK, CallFits, Retires, CallerRetires
<1>3. Blocked' = Blocked BY <1>1 DEF Blocked, Shape
<1> QED BY <1>1, <1>2, <1>3, JobsRetire

LEMMA JobsMainRetire ==
  ASSUME Shape, Owned, MainRetire
  PROVE  \E x \in Msgs : Jobs!Retire(x)
<1> SUFFICES ASSUME NEW x, x = Top.msg PROVE x \in Msgs /\ Jobs!Retire(x) OBVIOUS
<1>1. /\ stack # <<>> /\ Top.at = "retire" /\ table' = table \ {x}
      /\ stage' = stage /\ caller' = caller
  BY DEF MainRetire, Retire
<1>2. Top \in OnStack /\ FrameFits(Top) /\ x \in Msgs BY <1>1, TopOnly
<1>3. stage[x] = "ended" /\ Retires(x) BY <1>1, <1>2 DEF FrameFits, Retires, Has
<1> QED BY <1>1, <1>2, <1>3, BlockedStill, JobsRetire

LEMMA JobsReturn ==
  ASSUME Shape, Owned, CallDone \/ DoneReturn
  PROVE  \E x \in Msgs : Jobs!Finish(x)
<1> SUFFICES ASSUME NEW x, x = Top.msg PROVE x \in Msgs /\ Jobs!Finish(x) OBVIOUS
<1>1. /\ stack # <<>> /\ Top.at = "run" /\ stage' = [stage EXCEPT ![x] = "ended"]
      /\ table' = table
      /\ caller' = caller \/ (Top.loop = "main" /\ caller' = [caller EXCEPT ![x] = "signalled"])
  BY DEF CallDone, DoneReturn, At, Wake
<1>2. FrameFits(Top) /\ x \in Msgs BY <1>1, TopOnly
<1>3. stage[x] = "handled" BY <1>1, <1>2 DEF FrameFits
<1>4. Blocked' = Blocked
  <2>1. CASE caller' = caller BY <2>1, BlockedStill
  <2>2. CASE Top.loop = "main" /\ caller' = [caller EXCEPT ![x] = "signalled"]
    <3>1. caller[x] = "waiting" BY <1>1, <1>2, <2>2 DEF FrameFits
    <3> QED BY <2>2, <3>1 DEF Blocked, Shape
  <2> QED BY <1>1, <2>1, <2>2
<1>5. /\ stage'[x] = "ended" /\ Status[x] = StatusOf(x)
      /\ Status' = [Status EXCEPT ![x] = StatusOf(x)']
  BY <1>1, <1>2, JobMoves DEF Stages
<1>6. StatusOf(x)' = "finished" BY <1>5 DEF StatusOf
<1>7. StatusOf(x) = IF x \in Async THEN "executed" ELSE "submitted"
  BY <1>3 DEF StatusOf
<1> QED BY <1>1, <1>2, <1>4, <1>5, <1>6, <1>7 DEF Jobs!Finish, Jobs!Move

LEMMA JobsDispatch ==
  ASSUME Shape, Owned, NEW k \in DOMAIN sources, Dispatch(k)
  PROVE  (\E x \in Msgs : Jobs!Free(x)) \/ UNCHANGED Jobs!vars
<1>1. table' = table /\ Blocked' = Blocked BY BlockedStill DEF Dispatch
<1>2. CASE stage' = stage BY <1>1, <1>2, JobsStill DEF Jobs!vars
<1>3. CASE stage' # stage
  <2>0. sources[k] \in Sources BY ElementOfSeq, LenProperties DEF Shape
  <2> SUFFICES ASSUME NEW x, x = sources[k].msg PROVE x \in Msgs /\ Jobs!Free(x) OBVIOUS
  <2>1. sources[k].kind = "free" /\ stage' = [stage EXCEPT ![x] = "freed"]
    BY <1>3 DEF Dispatch
  <2>2. x \in Msgs BY <1>3, <2>1 DEF Shape
  <2>3. FreeIdle(x) \in ToSet(sources)
    <3>1. sources[k] \in [kind : {"submit", "free"}, msg : Msgs \cup {NoMsg}]
      BY <2>0, <2>1 DEF Sources
    <3>2. sources[k] = FreeIdle(x) BY <2>1, <3>1 DEF FreeIdle
    <3> QED BY <3>2 DEF ToSet
  <2>4. stage[x] = "ended" /\ x \notin table BY <2>2, <2>3 DEF Owned, MsgOK, SourcesFit
  <2>5. /\ stage'[x] = "freed" /\ Status[x] = StatusOf(x)
        /\ Status' = [Status EXCEPT ![x] = StatusOf(x)']
    BY <2>1, <2>2, JobMoves DEF Stages
  <2>6. StatusOf(x) = "finished" /\ StatusOf(x)' = "freed" BY <2>4, <2>5 DEF StatusOf
  <2> QED BY <1>1, <2>2, <2>4, <2>5, <2>6 DEF Jobs!Free, Jobs!Move
<1> QED BY <1>2, <1>3

LEMMA JobsStep == Shape /\ Owned /\ [Next]_vars => [Jobs!Next]_Jobs!vars
<1> SUFFICES ASSUME Shape, Owned, [Next]_vars PROVE Jobs!Next \/ UNCHANGED Jobs!vars
  OBVIOUS
<1>0. Jobs!Jobs = Msgs /\ Async \subseteq Msgs /\ Calls \subseteq Msgs
  BY DEF Jobs!Jobs, Msgs
<1>1. ASSUME UNCHANGED <<stage, table, caller>> PROVE UNCHANGED Jobs!vars
  BY <1>1, JobsStill, BlockedStill DEF Jobs!vars
<1>2. CASE UNCHANGED vars BY <1>1, <1>2 DEF vars
<1>3. ASSUME NEW m \in Async, Push(m) \/ WorkerStart(m) \/ WorkerReply(m)
      PROVE  Jobs!Next \/ UNCHANGED Jobs!vars
  BY <1>0, <1>3, JobsPush, JobsWorkerStart, JobsWorkerReply DEF Jobs!Next, Jobs!Progress
<1>4. ASSUME NEW m \in Msgs, Arm(m) \/ Cancel(m) PROVE UNCHANGED Jobs!vars
  BY <1>1, <1>4 DEF Arm, Cancel
<1>5. ASSUME NEW c \in Calls,
             \/ \E m \in Async : CallMain(c, m)
             \/ CallerResume(c) \/ CallerRetire(c) \/ CallDirect(c)
      PROVE  Jobs!Next
  BY <1>0, <1>5, JobsCallMain, JobsCallerResume, JobsCallerRetire, JobsCallDirect
  DEF Jobs!Next, Jobs!Progress
<1>6. ASSUME IdleReset \/ MainEmpty \/ ReplyEmpty \/ MainUnref PROVE UNCHANGED Jobs!vars
  BY <1>1, <1>6 DEF IdleReset, MainEmpty, ReplyEmpty, MainUnref
<1>7. ASSUME MainStep PROVE Jobs!Next \/ UNCHANGED Jobs!vars
  BY <1>0, <1>6, <1>7, JobsReturn, JobsMainPop, JobsReplyPop, JobsMainRetire
  DEF MainStep, Jobs!Next, Jobs!Progress
<1>8. ASSUME NEW k \in DOMAIN sources, Dispatch(k) PROVE Jobs!Next \/ UNCHANGED Jobs!vars
  BY <1>0, <1>8, JobsDispatch DEF Jobs!Next, Jobs!Progress
<1> QED BY <1>2, <1>3, <1>4, <1>5, <1>7, <1>8 DEF Next

LEMMA InitJobs == Init => Jobs!Init
<1> SUFFICES ASSUME Init PROVE Jobs!Init OBVIOUS
<1>1. \A m \in Msgs : StatusOf(m) = "idle" BY DEF Init, StatusOf
<1>2. Blocked = {} BY DEF Init, Blocked
<1>3. Status = [m \in Jobs!Jobs |-> "idle"] BY <1>1 DEF Status, Jobs!Jobs, Msgs
<1> QED BY <1>2, <1>3 DEF Init, Jobs!Init

\* mail-mt.c does what MailJobs says and nothing else: the safety half.
THEOREM TakesTheStepsOfJobs == Spec => Jobs!Init /\ [][Jobs!Next]_Jobs!vars
<1>1. Shape /\ Owned /\ [Next]_vars => [Jobs!Next]_Jobs!vars BY JobsStep
<1> QED BY OwnedAlways, InitJobs, <1>1, PTL DEF Spec
=============================================================================
