----------------------------- MODULE ClientCache -----------------------------
(***************************************************************************)
(* EClientCache for one source and one extension name: the ClientData the  *)
(* hash table has for it, the EClient that is shared, the queue of the     *)
(* asynchronous requests that wait for one connection, the synchronous     *)
(* requests, which bypass the queue, and the signal handlers of a client,  *)
(* which hold references on the ClientData.  A ClientData is dropped when  *)
(* its source is removed or disabled, and another one is made for the next *)
(* request; the requests in progress go on with the one they have.         *)
(*                                                                         *)
(* The three handlers of a client are connected and disconnected together  *)
(* and count as one.  The EClientCache lives as long as the shell and is   *)
(* not disposed of.                                                        *)
(***************************************************************************)
EXTENDS Naturals, FiniteSets

CONSTANTS
  Reqs,      \* requests, each made once
  Clients,   \* EClient objects
  Datas,     \* ClientData objects
  None       \* no client, no data, no answer yet

ASSUME ClientCacheAssumption == None \notin Clients \cup Datas /\ "error" \notin Clients

VARIABLES
  entry,     \* the ClientData in the hash table
  data,      \* each ClientData
  at,        \* where the thread of each request is
  of,        \* the ClientData a request was given
  answer,    \* what a request was answered
  conns,     \* requests whose asynchronous connection is under way
  handlers,  \* pairs: a client, the ClientData its handlers were connected for
  life,      \* each client: not made yet, connected, its backend dead
  overlapped,\* history: ClientDatas with a connection that began during another
  warned     \* history: a ClientData was freed with a handler id set

vars == <<entry, data, at, of, answer, conns, handlers, life, overlapped, warned>>

Unused == [state |-> "unused", refs |-> 0, client |-> None, queue |-> {},
           dead |-> FALSE, hid |-> FALSE]

Init ==
  /\ entry = None
  /\ data = [d \in Datas |-> Unused]
  /\ at = [r \in Reqs |-> "new"]
  /\ of = [r \in Reqs |-> None]
  /\ answer = [r \in Reqs |-> None]
  /\ conns = {} /\ handlers = {}
  /\ life = [c \in Clients |-> "unmade"]
  /\ overlapped = {} /\ warned = FALSE

(***************************************************************************)
(* References                                                              *)
(***************************************************************************)
Freed(x) == [x EXCEPT !.refs = 0, !.state = "freed", !.client = None]

\* client_data_unref n times: the last one frees the ClientData.
\* Mutant: the last reference is not seen to be the last.
UnrefLate(x, n) == IF x.refs >= n THEN [x EXCEPT !.refs = @ - n] ELSE Freed(x)
Unref(x, n) == IF x.refs > n THEN [x EXCEPT !.refs = @ - n] ELSE Freed(x)

\* The ClientData d becomes x, with n references fewer; a handler id that is
\* still set when it is freed makes client_data_unref warn.
Released(d, x, n) ==
  /\ data' = [data EXCEPT ![d] = Unref(x, n)]
  /\ warned' = (warned \/ (x.refs <= n /\ x.hid))

(***************************************************************************)
(* Requests                                                                *)
(***************************************************************************)
\* client_ht_lookup: the entry, made when there is none, and a reference.
Lookup(r, stage) ==
  /\ at[r] = "new"
  /\ \E d \in IF entry # None THEN {entry}
              ELSE {x \in Datas : data[x].state = "unused"} :
       /\ entry' = d
       /\ data' = [data EXCEPT ![d].state = "live",
                               ![d].refs = IF entry = None THEN 2 ELSE @ + 1]
       /\ of' = [of EXCEPT ![r] = d]
  /\ at' = [at EXCEPT ![r] = stage]
  /\ UNCHANGED <<answer, conns, handlers, life, overlapped, warned>>

\* e_client_cache_get_client and e_client_cache_get_client_sync, up to the
\* lock of the ClientData.
GetClient(r)     == Lookup(r, "async")
GetClientSync(r) == Lookup(r, "sync")

\* A cached client is the answer.
Cached(r) ==
  /\ at[r] \in {"async", "sync"} /\ data[of[r]].client # None
  /\ answer' = [answer EXCEPT ![r] = data[of[r]].client]
  /\ at' = [at EXCEPT ![r] = "out"]
  /\ Released(of[r], data[of[r]], 1)
  /\ UNCHANGED <<entry, of, conns, handlers, life, overlapped>>

\* The requests that connect for d, or are about to.
Connecting(d) ==
  {r \in Reqs : of[r] = d /\ (at[r] \in {"connect", "opening"} \/ r \in conns)}

\* One more begins to.
Begins(d) ==
  overlapped' = IF Connecting(d) = {} THEN overlapped ELSE overlapped \cup {d}

\* Whether a connection is under way that will answer the queue.
\* Mutant: the mark of a dead backend is taken for one.
PiggybacksOnDead(x) == x.queue # {} \/ x.dead
Piggybacks(x) == x.queue # {}

\* No client: the request is queued, and the first of the queue connects.
Enqueue(r) ==
  LET x == data[of[r]]
      y == [x EXCEPT !.queue = @ \cup {r}]
  IN  /\ at[r] = "async" /\ x.client = None
      /\ at' = [at EXCEPT ![r] = IF Piggybacks(x) THEN "out" ELSE "connect"]
      /\ Released(of[r], y, IF Piggybacks(x) THEN 1 ELSE 0)
      /\ IF Piggybacks(x) THEN UNCHANGED overlapped ELSE Begins(of[r])
      /\ UNCHANGED <<entry, of, answer, conns, handlers, life>>

\* The connection is started; the thread's reference passes to it.
Connect(r) ==
  /\ at[r] = "connect"
  /\ at' = [at EXCEPT ![r] = "out"]
  /\ conns' = conns \cup {r}
  /\ UNCHANGED <<entry, data, of, answer, handlers, life, overlapped, warned>>

\* A synchronous request connects by itself, whatever is under way.
ConnectSync(r) ==
  /\ at[r] = "sync" /\ data[of[r]].client = None
  /\ at' = [at EXCEPT ![r] = "opening"]
  /\ Begins(of[r])
  /\ UNCHANGED <<entry, data, of, answer, conns, handlers, life, warned>>

(***************************************************************************)
(* Results                                                                 *)
(***************************************************************************)
\* Everybody in the queue, and those in also, get the answer.
Complete(d, also, a) ==
  answer' = [r \in Reqs |-> IF r \in data[d].queue \cup also THEN a ELSE answer[r]]

\* client_cache_process_results for a client that is connected; the
\* reference of the operation is dropped after the handlers took theirs.
Connected(d, c, also) ==
  /\ life[c] = "unmade"
  /\ life' = [life EXCEPT ![c] = "connected"]
  /\ handlers' = handlers \cup {<<c, d>>}
  /\ data' = [data EXCEPT ![d].client = c, ![d].queue = {}, ![d].dead = FALSE,
                          ![d].hid = TRUE]
  /\ Complete(d, also, c)
  /\ UNCHANGED <<entry, of, warned>>

\* client_cache_book_connect_cb and client_cache_cal_connect_cb.
ConnectDone(r) ==
  /\ r \in conns
  /\ conns' = conns \ {r}
  /\ UNCHANGED <<at, overlapped>>
  /\ \/ \E c \in Clients : Connected(of[r], c, {})
     \/ /\ Complete(of[r], {}, "error")
        /\ Released(of[r], [data[of[r]] EXCEPT !.queue = {}], 1)
        /\ UNCHANGED <<entry, of, handlers, life>>

\* The end of e_client_cache_get_client_sync; an error leaves the queue alone.
ConnectSyncDone(r) ==
  /\ at[r] = "opening"
  /\ at' = [at EXCEPT ![r] = "out"]
  /\ UNCHANGED <<conns, overlapped>>
  /\ \/ \E c \in Clients : Connected(of[r], c, {r})
     \/ /\ answer' = [answer EXCEPT ![r] = "error"]
        /\ Released(of[r], data[of[r]], 1)
        /\ UNCHANGED <<entry, of, handlers, life>>

(***************************************************************************)
(* The source, the backend and the users of a client                       *)
(***************************************************************************)
\* client_data_dispose disconnects the handlers of the client it has, and
\* drops the client.
Disposed(x) == IF x.client = None THEN x
               ELSE [x EXCEPT !.client = None, !.hid = FALSE, !.refs = @ - 1]

\* source-removed or source-disabled: the entry is dropped.
SourceGone ==
  /\ entry # None
  /\ entry' = None
  /\ handlers' = handlers \ {<<data[entry].client, entry>>}
  /\ Released(entry, Disposed(data[entry]), 1)
  /\ UNCHANGED <<at, of, answer, conns, life, overlapped>>

\* client_cache_backend_died_cb, once for each handler.
\* Mutant: the client is left to those who have it already.
Marked(x) == [x EXCEPT !.dead = TRUE]
Dead(x)   == [x EXCEPT !.dead = TRUE, !.client = None]

BackendDies(c) ==
  /\ life[c] = "connected"
  /\ life' = [life EXCEPT ![c] = "dead"]
  /\ data' = [d \in Datas |-> IF <<c, d>> \in handlers THEN Dead(data[d])
                              ELSE data[d]]
  /\ UNCHANGED <<entry, at, of, answer, conns, handlers, overlapped, warned>>

\* The last user of a client that is not cached lets it go: it is finalized,
\* its handlers with it, and each drops its reference.
Finalized(c, d) ==
  /\ <<c, d>> \in handlers /\ data[d].client # c
  /\ handlers' = handlers \ {<<c, d>>}
  /\ Released(d, data[d], 1)
  /\ life' = [life EXCEPT ![c] = "dead"]
  /\ UNCHANGED <<entry, at, of, answer, conns, overlapped>>

(***************************************************************************)
(* Specification                                                           *)
(***************************************************************************)
Steps(r) == \/ Cached(r) \/ Enqueue(r) \/ Connect(r) \/ ConnectSync(r)
            \/ ConnectDone(r) \/ ConnectSyncDone(r)

Next == \/ \E r \in Reqs : GetClient(r) \/ GetClientSync(r) \/ Steps(r)
        \/ SourceGone
        \/ \E c \in Clients : BackendDies(c) \/ \E d \in Datas : Finalized(c, d)

Spec == Init /\ [][Next]_vars

\* Threads run, and a connection ends, if only by its timeout.
FairSpec == Spec /\ \A r \in Reqs : WF_vars(Steps(r))

(***************************************************************************)
(* Properties                                                              *)
(***************************************************************************)
\* The references on a ClientData are those of the hash table, of the threads
\* and connections that work with it and of the handlers; it is freed with the
\* last of them, and no request waits in it then.
Holders(d) == {r \in Reqs : /\ of[r] = d
                            /\ at[r] \in {"async", "sync", "connect", "opening"}
                                 \/ r \in conns}

RefsExact ==
  \A d \in Datas :
    /\ data[d].refs = Cardinality(Holders(d)) + (IF entry = d THEN 1 ELSE 0)
                        + Cardinality({h \in handlers : h[2] = d})
    /\ data[d].state = "live" <=> data[d].refs > 0
    /\ data[d].state = "freed" => data[d].queue = {}

\* A cached client is one whose backend lives and whose handlers will tell of
\* its death.  There is no second one beside it, unless one connection began
\* while another was under way.
Shared ==
  \A d \in Datas :
    LET known == {c \in Clients : <<c, d>> \in handlers /\ life[c] = "connected"}
    IN  /\ data[d].client # None => data[d].client \in known
        /\ Cardinality(known) <= 1 \/ d \in overlapped

\* Every request is answered some time.
EveryRequestAnswered == \A r \in Reqs : (at[r] # "new") ~> (answer[r] # None)

(***************************************************************************)
(* e-client-cache.c:1094 says of e_client_cache_get_client_sync "If a      *)
(* request for the same @source and @extension_name is already in progress *)
(* when this function is called, this request will "piggyback" on the      *)
(* in-progress request such that they will both succeed or fail            *)
(* simultaneously".  It does not look at the queue.                        *)
(***************************************************************************)
\* A synchronous request does not connect while another one does.
SyncPiggybacks ==
  [][\A r \in Reqs : ConnectSync(r) => Connecting(of[r]) = {}]_vars

(***************************************************************************)
(* client_cache_backend_died_cb drops the client of the ClientData without *)
(* a look at whether it is the one that died.                              *)
(***************************************************************************)
\* The death of a backend leaves another client in the cache.
ReplacementStays ==
  [][\A c \in Clients, d \in Datas :
       BackendDies(c) /\ data[d].client # c => data'[d].client = data[d].client]_vars

(***************************************************************************)
(* The assertions of client_data_unref (e-client-cache.c:121): "we should  *)
(* not be here unless the signal handlers have already been disconnected". *)
(* client_cache_backend_died_cb drops the client, not the ids.             *)
(***************************************************************************)
\* No handler id is set when a ClientData is freed.
HandlersGone == ~warned
=============================================================================
