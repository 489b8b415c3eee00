---------------------------- MODULE ContentHash ----------------------------
(***************************************************************************)
(* The content an e-mail composer shares between the operations that build *)
(* a message from it, composer/e-msg-composer.c.                           *)
(*                                                                         *)
(* The text lives in another process (WebKit), so an operation first asks  *)
(* for it (e_msg_composer_prepare_content_hash), and keeps the answer in   *)
(* priv->content_hash with a count of its users, to be able to reuse it.   *)
(* An operation of the user (send, save, print) takes it twice: once for   *)
(* itself, so that the handlers of "presend" can look at the text, and     *)
(* once inside e_msg_composer_get_message*().  The autosave takes it once, *)
(* without an activity, so that nothing keeps the user from typing or from *)
(* starting an operation meanwhile.                                        *)
(*                                                                         *)
(* The text is a revision number.                                          *)
(***************************************************************************)
EXTENDS Integers, FiniteSets

CONSTANTS
  Sends,     \* e_msg_composer_send() and _save_to_outbox(): they ask "presend"
  Saves,     \* e_msg_composer_save_to_drafts() and _print()
  Snapshots, \* the messages the autosave asks for
  MaxRev     \* bound: how often the user edits

UserOps == Sends \cup Saves
Ops     == UserOps \cup Snapshots

ASSUME ContentHashAssumption ==
  /\ Sends \cap Saves = {} /\ UserOps \cap Snapshots = {}
  /\ MaxRev \in Nat

NoContent == -1
Revisions == 0 .. MaxRev

VARIABLES
  rev,     \* the revision in the editor
  hash,    \* priv->content_hash: the revision it was taken from, or NoContent
  count,   \* priv->content_hash_ref_count
  keys,    \* autocrypt_loading and _check_complete: the check of the sender's key
  at,      \* how far each operation is
  asked,   \* the revision in the editor when each operation last asked for it
  built,   \* the revision each operation's message was built from
  warned,  \* the g_warn_if_fail() and g_return_if_fail() that have failed
  since    \* history: the revision when the present operations began

vars == <<rev, hash, count, keys, at, asked, built, warned, since>>

Stages == {"idle", "fetching", "deferred", "asking", "refetching", "building",
           "answered", "failing", "done", "failed"}
Over   == {"done", "failed"}
Checks == {"none", "loading", "complete"}

TypeOK ==
  /\ rev \in Revisions
  /\ hash \in Revisions \cup {NoContent}
  /\ count \in Nat
  /\ keys \in Checks
  /\ at \in [Ops -> Stages]
  /\ asked \in [Ops -> Revisions]
  /\ built \in [Ops -> Revisions \cup {NoContent}]
  /\ warned \subseteq {"overwritten", "not counted"}
  /\ since \in Revisions

\* What e_msg_composer_check_autocrypt() leaves: a thread that looks for the key,
\* or, with S/MIME or when the key is not sent along, a check already complete.
Checked == {"loading", "complete"}

Init ==
  /\ keys \in Checked
  /\ rev = 0
  /\ hash = NoContent
  /\ count = 0
  /\ at = [o \in Ops |-> "idle"]
  /\ asked = [o \in Ops |-> 0]
  /\ built = [o \in Ops |-> NoContent]
  /\ warned = {}
  /\ since = 0

Active == {o \in Ops : at[o] \notin {"idle"} \cup Over}

\* priv->had_activities: an operation of the user has an activity in the
\* editor's bar, which makes the text not editable and the actions insensitive.
Busy == Active \cap UserOps # {}

-----------------------------------------------------------------------------
(* The shared content.                                                     *)

\* Mutant: the last user leaves the content behind.
UnrefKeeping ==
  IF count = 0 THEN warned' = warned \cup {"not counted"} /\ UNCHANGED <<hash, count>>
               ELSE count' = count - 1 /\ UNCHANGED <<hash, warned>>

\* e_msg_composer_unref_content_hash().
Unref ==
  IF count = 0
  THEN warned' = warned \cup {"not counted"} /\ UNCHANGED <<hash, count>>
  ELSE /\ count' = count - 1
       /\ hash' = IF count = 1 THEN NoContent ELSE hash
       /\ UNCHANGED warned

\* e_msg_composer_prepare_content_hash_ready_cb(): the answer r replaces what
\* is there, whoever uses it; the callback leaves it with n users.
Store(r, n) ==
  /\ hash' = r
  /\ count' = n
  /\ warned' = warned \cup {w \in {"overwritten"} : hash # NoContent \/ count # 0}

\* Mutant: the second use of the same operation is not counted.
UsesOnce(o) == 1

\* The test at the head of e_msg_composer_prepare_content_hash().
Cached == hash # NoContent

\* The references an operation takes as soon as it has the text: a save goes
\* straight to e_msg_composer_get_message_draft(), which takes its own.
Uses(o) == IF o \in Saves THEN 2 ELSE 1

\* msg_composer_defer_send_for_autocrypt(): a send asks "presend" when the check
\* is complete and waits for it otherwise.  A check that was given up is made
\* again, and the send waits for it even when it is complete at once.
DeferOrAsk(o) ==
  /\ at' = [at EXCEPT ![o] = IF keys = "complete" THEN "asking" ELSE "deferred"]
  /\ IF keys = "none" THEN keys' \in Checked ELSE UNCHANGED keys

\* What the callback of e_msg_composer_prepare_content_hash() does with
\* revision r: a save or a snapshot builds its message at once.
Proceed(o, r) ==
  IF o \in Sends
  THEN DeferOrAsk(o) /\ UNCHANGED built
  ELSE /\ at' = [at EXCEPT ![o] = "building"]
       /\ built' = [built EXCEPT ![o] = r]
       /\ UNCHANGED keys

-----------------------------------------------------------------------------
(* Operations.                                                             *)

\* The user types; the text is not editable while the composer is busy.
Edit ==
  /\ ~Busy /\ rev < MaxRev
  /\ rev' = rev + 1
  /\ UNCHANGED <<hash, count, keys, at, asked, built, warned, since>>

\* The user chooses another identity, insensitive while the composer is busy:
\* the check is made again.
Recheck ==
  /\ ~Busy
  /\ keys' \in Checked
  /\ UNCHANGED <<rev, hash, count, at, asked, built, warned, since>>

\* An action of the user, insensitive while the composer is busy, or the
\* autosave's timer, which leaves a busy composer alone: content that is there
\* is used again, otherwise the editor is asked for it.
Start(o) ==
  /\ at[o] = "idle" /\ ~Busy
  /\ since' = IF Active = {} THEN rev ELSE since
  /\ asked' = [asked EXCEPT ![o] = rev]
  /\ IF Cached
     THEN /\ count' = count + Uses(o)
          /\ Proceed(o, hash)
          /\ UNCHANGED <<hash, warned>>
     ELSE /\ at' = [at EXCEPT ![o] = "fetching"]
          /\ UNCHANGED <<hash, count, keys, built, warned>>
  /\ UNCHANGED rev

\* The editor answers with what it held at some moment since it was asked.
ContentReady(o) ==
  /\ at[o] = "fetching"
  /\ \E r \in asked[o] .. rev : Store(r, Uses(o)) /\ Proceed(o, r)
  /\ UNCHANGED <<rev, asked, since>>

\* The editor fails, or the request is cancelled.  What the user began claims
\* the error and owns nothing; composer_build_message_content_hash_ready_cb(),
\* called for the autosave, drops a reference it was not given.
ContentFails(o) ==
  /\ at[o] = "fetching"
  /\ at' = [at EXCEPT ![o] = "failed"]
  /\ IF o \in Snapshots THEN Unref ELSE UNCHANGED <<hash, count, warned>>
  /\ UNCHANGED <<rev, keys, asked, built, since>>

\* Mutant: a send goes on only as long as its content is still there.
ContinuesWithContent(o) == at[o] = "deferred" /\ hash # NoContent
Continues(o) == at[o] = "deferred"

\* msg_composer_autocrypt_ready_cb(): the thread that looks for the key is done
\* and the send that waits for it goes on.
KeyReady(o) ==
  /\ keys = "loading" /\ Continues(o)
  /\ keys' = "complete"
  /\ at' = [at EXCEPT ![o] = "asking"]
  /\ UNCHANGED <<rev, hash, count, asked, built, warned, since>>

\* The same when no send waits.
KeyKnown ==
  /\ keys = "loading" /\ \A o \in Ops : at[o] # "deferred"
  /\ keys' = "complete"
  /\ UNCHANGED <<rev, hash, count, at, asked, built, warned, since>>

\* Mutant: an operation that gives up keeps its reference.
DropNot == UNCHANGED <<hash, count, warned>>
\* The reference an operation that gives up, or is over, owns.
Drop == Unref

\* The send is cancelled while it waits for a key, and with it the check:
\* msg_composer_deferred_send_cancelled_cb().
Cancelled(o) ==
  /\ at[o] = "deferred"
  /\ at' = [at EXCEPT ![o] = "failed"]
  /\ keys' = IF keys = "loading" THEN "none" ELSE keys
  /\ Drop
  /\ UNCHANGED <<rev, asked, built, since>>

\* A handler of "presend", or the user in a dialog of one, refuses it.
Refused(o) ==
  /\ at[o] = "asking"
  /\ at' = [at EXCEPT ![o] = "failed"]
  /\ Drop
  /\ UNCHANGED <<rev, keys, asked, built, since>>

\* "presend" agrees: e_msg_composer_get_message() prepares the content again.
Agreed(o) ==
  /\ at[o] = "asking"
  /\ IF Cached
     THEN /\ count' = count + 1
          /\ at' = [at EXCEPT ![o] = "building"]
          /\ built' = [built EXCEPT ![o] = hash]
          /\ UNCHANGED asked
     ELSE /\ at' = [at EXCEPT ![o] = "refetching"]
          /\ asked' = [asked EXCEPT ![o] = rev]
          /\ UNCHANGED <<count, built>>
  /\ UNCHANGED <<rev, hash, keys, warned, since>>

ContentReadyAgain(o) ==
  /\ at[o] = "refetching"
  /\ \E r \in asked[o] .. rev : /\ Store(r, 1)
                                /\ built' = [built EXCEPT ![o] = r]
  /\ at' = [at EXCEPT ![o] = "building"]
  /\ UNCHANGED <<rev, keys, asked, since>>

ContentFailsAgain(o) ==
  /\ at[o] = "refetching"
  /\ at' = [at EXCEPT ![o] = "failing"]
  /\ Unref
  /\ UNCHANGED <<rev, keys, asked, built, since>>

\* composer_get_message_ready(): the message is built or not, signing and
\* encryption in a thread included.
Built(o) ==
  /\ at[o] = "building"
  /\ \E s \in (IF o \in Snapshots THEN Over ELSE {"answered", "failing"}) :
       at' = [at EXCEPT ![o] = s]
  /\ Unref
  /\ UNCHANGED <<rev, keys, asked, built, since>>

\* msg_composer_send_cb() and its like; on an error
\* e_msg_composer_claim_no_build_message_error().
Finish(o) ==
  /\ at[o] \in {"answered", "failing"}
  /\ at' = [at EXCEPT ![o] = IF at[o] = "answered" THEN "done" ELSE "failed"]
  /\ Drop
  /\ UNCHANGED <<rev, keys, asked, built, since>>

-----------------------------------------------------------------------------
Next ==
  \/ Edit \/ Recheck \/ KeyKnown
  \/ \E o \in Ops : \/ Start(o) \/ ContentReady(o) \/ ContentFails(o)
                    \/ KeyReady(o) \/ Cancelled(o) \/ Refused(o) \/ Agreed(o)
                    \/ ContentReadyAgain(o) \/ ContentFailsAgain(o)
                    \/ Built(o) \/ Finish(o)

Spec == Init /\ [][Next]_vars

(* The editor answers, threads end, the one that looks for a key included, *)
(* and so do the dialogs of "presend".  Nobody has to cancel a send that   *)
(* waits, and nobody continues one when no thread looks for a key.         *)
FairSpec ==
  /\ Spec
  /\ \A o \in Ops : /\ WF_vars(ContentReady(o) \/ ContentFails(o))
                    /\ WF_vars(ContentReadyAgain(o) \/ ContentFailsAgain(o))
                    /\ WF_vars(KeyReady(o)) /\ WF_vars(Refused(o) \/ Agreed(o))
                    /\ WF_vars(Built(o)) /\ WF_vars(Finish(o))

-----------------------------------------------------------------------------
(* Properties.                                                             *)

\* The references an operation o at stage s will still give up.
OwesAt(o, s) ==
  IF s \in {"idle", "fetching"} \cup Over THEN 0
  ELSE IF s = "building" /\ o \in UserOps THEN 2 ELSE 1
Owes(o) == OwesAt(o, at[o])

\* All of them, one by one.
Debts == {d \in Ops \X {1, 2} : d[2] <= Owes(d[1])}

\* Content is kept exactly while it is counted, and never longer than somebody
\* will give up what is counted: whatever operations overlap and fail, a
\* composer that is left alone keeps no old text for the next message.
KeptForUsers ==
  /\ hash = NoContent <=> count = 0
  /\ count <= Cardinality(Debts)

\* However operations overlap, no message is built from text older than the
\* moment since when there has always been an operation going on.
NotOlderThanOverlap == hash # NoContent => hash >= since

\* A send that waits for a check that is complete already, which nothing tells
\* it: msg_composer_defer_send_for_autocrypt() begins the check before it stores
\* the send, and does not look at what it left.
Stranded(o) == at[o] = "deferred" /\ keys = "complete"

\* Every operation ends, whatever overlaps, fails and is cancelled, unless it is
\* a send that waits for a check complete at once.
OpsEnd == \A o \in Ops : at[o] # "idle" ~> at[o] \in Over \/ Stranded(o)

\* Every send ends.  It does not hold: see Stranded.
SendsEnd == \A o \in Sends : at[o] # "idle" ~> at[o] \in Over

\* A message the user sends, saves or prints holds everything typed before:
\* e_msg_composer_get_message(), "Retrieve the message edited by the user".
\* It does not hold when a snapshot is under way.
NothingTypedIsMissing ==
  \A o \in UserOps : built[o] # NoContent => built[o] >= asked[o]

\* The autosave has not asked for a message yet.
Alone == \A s \in Snapshots : at[s] = "idle"

\* Until then nothing typed is missing, in whatever order the operations of the
\* user come, are deferred, refused and fail.
AloneNothingIsMissing == Alone => NothingTypedIsMissing

\* Until then an answer never finds content already there, and no reference is
\* dropped that was not taken: the assertions of
\* e_msg_composer_prepare_content_hash_ready_cb() and _unref_content_hash().
AloneNoWarning == Alone => warned = {}

=============================================================================
