-------------------------- MODULE ClientCacheProofs --------------------------
(***************************************************************************)
(* Proofs about ClientCache, for any number of requests, clients and       *)
(* ClientDatas.                                                            *)
(***************************************************************************)
EXTENDS ClientCache, Integers, FiniteSetTheorems, TLAPS

DataRec == [state : {"unused", "live", "freed"}, refs : Nat, client : Clients \cup {None},
            queue : SUBSET Reqs, dead : BOOLEAN, hid : BOOLEAN]

Types ==
  /\ entry \in Datas \cup {None}
  /\ data \in [Datas -> DataRec]
  /\ at \in [Reqs -> {"new", "async", "sync", "connect", "opening", "out"}]
  /\ of \in [Reqs -> Datas \cup {None}]
  /\ conns \subseteq Reqs
  /\ handlers \subseteq Clients \X Datas
  /\ life \in [Clients -> {"unmade", "connected", "dead"}]

\* A connection under way has left its thread; a request begun has its record.
Stages == \A r \in Reqs : /\ r \in conns => at[r] = "out"
                          /\ at[r] # "new" => of[r] \in Datas

\* The handlers of a client that is made are connected for one record.
Made == \A c \in Clients, d \in Datas : <<c, d>> \in handlers =>
          /\ life[c] # "unmade"
          /\ \A b \in Datas : <<c, b>> \in handlers => b = d

\* The requests that will answer a queue, the handlers a record has connected,
\* and the living clients they watch.
Serving(d) == {r \in Reqs : of[r] = d /\ (at[r] = "connect" \/ r \in conns)}
HandlersOf(d) == {h \in handlers : h[2] = d}
Known(d)      == {c \in Clients : <<c, d>> \in handlers /\ life[c] = "connected"}

\* The number of references the record should have.
Due(d) == Cardinality(Holders(d)) + (IF entry = d THEN 1 ELSE 0)
            + Cardinality(HandlersOf(d))

\* What is known of one record: its count; a queue has a connection to come;
\* its client is watched; and, while no connection began during another one, it
\* watches no other client, and connects once and only without one.
Exact(d)  == /\ IsFiniteSet(Holders(d)) /\ IsFiniteSet(HandlersOf(d))
             /\ data[d].refs = Due(d)
             /\ data[d].state = "live" <=> data[d].refs > 0
Served(d) == data[d].queue # {} => Serving(d) # {}
Watched(d) == data[d].client # None => data[d].client \in Known(d)
Single(d) ==
  d \notin overlapped =>
    /\ Known(d) \subseteq {data[d].client}
    /\ Connecting(d) # {} => data[d].client = None
    /\ \A r, s \in Connecting(d) : r = s
DataOK(d) == Exact(d) /\ Served(d) /\ Watched(d) /\ Single(d)

CacheInv == Types /\ Stages /\ Made /\ \A d \in Datas : DataOK(d)

-----------------------------------------------------------------------------
(* The count, and the end of a record.                                     *)

\* A due is a natural number, and nobody is left when it is zero.
LEMMA DueFacts ==
  ASSUME NEW d, IsFiniteSet(Holders(d)), IsFiniteSet(HandlersOf(d))
  PROVE  /\ Due(d) \in Nat
         /\ Due(d) = 0 => Holders(d) = {} /\ HandlersOf(d) = {} /\ entry # d
<1>1. Cardinality(Holders(d)) \in Nat /\ Cardinality(HandlersOf(d)) \in Nat
  BY FS_CardinalityType
<1>2. /\ Cardinality(Holders(d)) = 0 => Holders(d) = {}
      /\ Cardinality(HandlersOf(d)) = 0 => HandlersOf(d) = {}
  BY FS_EmptySet
<1> QED BY <1>1, <1>2 DEF Due

\* What waits is held, and what is known has a handler.
LEMMA Parts ==
  ASSUME NEW d
  PROVE  /\ Serving(d) \subseteq Holders(d) /\ Connecting(d) \subseteq Holders(d)
         /\ HandlersOf(d) = {} => Known(d) = {}
<1>1. Serving(d) \subseteq Holders(d) /\ Connecting(d) \subseteq Holders(d)
  BY DEF Serving, Connecting, Holders
<1>2. ASSUME NEW c \in Known(d) PROVE <<c, d>> \in HandlersOf(d)
  BY <1>2 DEF Known, HandlersOf
<1> QED BY <1>1, <1>2

\* client_data_unref, by its effect on each field.
LEMMA UnrefFields ==
  ASSUME NEW x \in DataRec, NEW n \in Nat, x.refs >= n
  PROVE  /\ Unref(x, n) \in DataRec
         /\ Unref(x, n).refs = x.refs - n
         /\ Unref(x, n).queue = x.queue
         /\ Unref(x, n).state = IF x.refs > n THEN x.state ELSE "freed"
         /\ Unref(x, n).client = IF x.refs > n THEN x.client ELSE None
<1>1. x.refs \in Nat BY DEF DataRec
<1>2. CASE x.refs > n
  <2>1. Unref(x, n) = [x EXCEPT !.refs = x.refs - n] BY <1>2 DEF Unref
  <2>2. x.refs - n \in Nat BY <1>1, <1>2
  <2> QED BY <1>2, <2>1, <2>2 DEF DataRec
<1>3. CASE ~ (x.refs > n)
  <2>1. Unref(x, n) = Freed(x) BY <1>3 DEF Unref
  <2>2. x.refs - n = 0 BY <1>1, <1>3
  <2>3. /\ Freed(x) \in DataRec /\ Freed(x).refs = 0 /\ Freed(x).queue = x.queue
        /\ Freed(x).state = "freed" /\ Freed(x).client = None
    BY DEF DataRec, Freed
  <2> QED BY <1>3, <2>1, <2>2, <2>3
<1> QED BY <1>2, <1>3

\* A record that a step does not concern.
LEMMA Untouched ==
  ASSUME NEW d \in Datas, DataOK(d), data'[d] = data[d], Holders(d)' = Holders(d),
         Serving(d)' = Serving(d), Connecting(d)' = Connecting(d),
         HandlersOf(d)' = HandlersOf(d),
         Known(d)' = Known(d), entry' = d <=> entry = d, overlapped \subseteq overlapped'
  PROVE  DataOK(d)'
<1>1. Due(d)' = Due(d) BY DEF Due
<1>2. Exact(d)' BY <1>1 DEF DataOK, Exact
<1>3. Served(d)' BY DEF DataOK, Served
<1>4. Watched(d)' BY DEF DataOK, Watched
<1>5. Single(d)' BY DEF DataOK, Single
<1> QED BY <1>2, <1>3, <1>4, <1>5 DEF DataOK

\* The record becomes x, with n references fewer: whoever is last frees it,
\* and nobody waits in it then.
LEMMA ReleasedOK ==
  ASSUME Types, NEW d \in Datas, NEW x \in DataRec, NEW n \in Nat, Released(d, x, n),
         x.state = "live",
         IsFiniteSet(Holders(d))', IsFiniteSet(HandlersOf(d))', x.refs = Due(d)' + n,
         x.queue # {} => Serving(d)' # {},
         x.client # None => x.client \in Known(d)',
         d \notin overlapped' => /\ Known(d)' \subseteq {x.client}
                                 /\ Connecting(d)' # {} => x.client = None
                                 /\ \A r, s \in Connecting(d)' : r = s
  PROVE  DataOK(d)' /\ data' \in [Datas -> DataRec]
<1>1. /\ Due(d)' \in Nat
      /\ Due(d)' = 0 => Holders(d)' = {} /\ HandlersOf(d)' = {}
  <2>1. /\ Cardinality(Holders(d)') \in Nat /\ Cardinality(HandlersOf(d)') \in Nat
        /\ Cardinality(Holders(d)') = 0 => Holders(d)' = {}
        /\ Cardinality(HandlersOf(d)') = 0 => HandlersOf(d)' = {}
    BY FS_CardinalityType, FS_EmptySet
  <2> QED BY <2>1 DEF Due
<1>2. x.refs \in Nat BY DEF DataRec
<1>3. x.refs >= n /\ (x.refs > n <=> Due(d)' > 0) /\ x.refs - n = Due(d)'
  BY <1>1, <1>2
<1>4. /\ data' = [data EXCEPT ![d] = Unref(x, n)] /\ data'[d] = Unref(x, n)
  BY DEF Released, Types
<1>5. data' \in [Datas -> DataRec] BY <1>3, <1>4, UnrefFields DEF Types
<1>6. /\ data'[d].refs = Due(d)' /\ data'[d].queue = x.queue
      /\ data'[d].state = IF x.refs > n THEN "live" ELSE "freed"
      /\ data'[d].client = IF x.refs > n THEN x.client ELSE None
  BY <1>3, <1>4, UnrefFields
<1>7. /\ Connecting(d)' \subseteq Holders(d)'
      /\ HandlersOf(d)' = {} => Known(d)' = {}
  <2>1. (Connecting(d) \subseteq Holders(d))' BY DEF Connecting, Holders
  <2>2. ASSUME NEW c \in Known(d)' PROVE <<c, d>> \in HandlersOf(d)'
    BY <2>2 DEF Known, HandlersOf
  <2> QED BY <2>1, <2>2
<1>8. Exact(d)' BY <1>1, <1>3, <1>6 DEF Exact
<1>9. Served(d)' BY <1>6 DEF Served
<1>10. CASE x.refs > n
  <2>1. data'[d].client = x.client BY <1>6, <1>10
  <2>2. Watched(d)' BY <2>1 DEF Watched
  <2>3. Single(d)' BY <1>6, <2>1 DEF Single
  <2> QED BY <1>5, <1>8, <1>9, <2>2, <2>3 DEF DataOK
<1>11. CASE ~ (x.refs > n)
  <2>1. data'[d].client = None BY <1>6, <1>11
  <2>2. Known(d)' = {} /\ Connecting(d)' = {} BY <1>1, <1>3, <1>7, <1>11
  <2>3. Watched(d)' BY <2>1 DEF Watched
  <2>4. Single(d)' BY <2>2 DEF Single
  <2> QED BY <1>5, <1>8, <1>9, <2>3, <2>4 DEF DataOK
<1> QED BY <1>10, <1>11

\* A request that moves concerns its own record only.
LEMMA OthersHold ==
  ASSUME NEW r \in Reqs, of' = of,
         \A q \in Reqs \ {r} : at'[q] = at[q] /\ (q \in conns' <=> q \in conns)
  PROVE  \A d : d # of[r] => /\ Holders(d)' = Holders(d)
                             /\ Serving(d)' = Serving(d)
                             /\ Connecting(d)' = Connecting(d)
BY DEF Holders, Serving, Connecting

\* A holder has a record that is live.
LEMMA HeldIsLive ==
  ASSUME CacheInv, NEW r \in Reqs,
         at[r] \in {"async", "sync", "connect", "opening"} \/ r \in conns
  PROVE  /\ of[r] \in Datas /\ data[of[r]] \in DataRec
         /\ data[of[r]].state = "live" /\ r \in Holders(of[r])
         /\ DataOK(of[r])
<1>1. of[r] \in Datas BY DEF CacheInv, Stages
<1>2. r \in Holders(of[r]) BY DEF Holders
<1>3. DataOK(of[r]) /\ data[of[r]] \in DataRec BY <1>1 DEF CacheInv, Types
<1>4. Due(of[r]) # 0 /\ Due(of[r]) \in Nat
  BY <1>2, <1>3, DueFacts DEF DataOK, Exact
<1>5. data[of[r]].state = "live" BY <1>3, <1>4 DEF DataOK, Exact
<1> QED BY <1>1, <1>2, <1>3, <1>5


-----------------------------------------------------------------------------
(* Requests.                                                               *)

\* The count without one holder, or without one handler.
LEMMA DueLess ==
  ASSUME NEW d, IsFiniteSet(Holders(d)), IsFiniteSet(HandlersOf(d)), entry' = entry,
         NEW r, NEW h,
         \/ r \in Holders(d) /\ Holders(d)' = Holders(d) \ {r} /\ HandlersOf(d)' = HandlersOf(d)
         \/ h \in HandlersOf(d) /\ HandlersOf(d)' = HandlersOf(d) \ {h} /\ Holders(d)' = Holders(d)
  PROVE  /\ IsFiniteSet(Holders(d))' /\ IsFiniteSet(HandlersOf(d))'
         /\ Due(d) = Due(d)' + 1 /\ Due(d)' \in Nat
<1>1. /\ Cardinality(Holders(d)) \in Nat /\ Cardinality(HandlersOf(d)) \in Nat
      /\ Cardinality(Holders(d) \ {r}) \in Nat /\ Cardinality(HandlersOf(d) \ {h}) \in Nat
      /\ IsFiniteSet(Holders(d) \ {r}) /\ IsFiniteSet(HandlersOf(d) \ {h})
  BY FS_RemoveElement, FS_CardinalityType
<1>2. CASE r \in Holders(d) /\ Holders(d)' = Holders(d) \ {r} /\ HandlersOf(d)' = HandlersOf(d)
  <2>1. Cardinality(Holders(d)') = Cardinality(Holders(d)) - 1 BY <1>2, FS_RemoveElement
  <2> QED BY <1>1, <1>2, <2>1 DEF Due
<1>3. CASE h \in HandlersOf(d) /\ HandlersOf(d)' = HandlersOf(d) \ {h} /\ Holders(d)' = Holders(d)
  <2>1. Cardinality(HandlersOf(d)') = Cardinality(HandlersOf(d)) - 1 BY <1>3, FS_RemoveElement
  <2> QED BY <1>1, <1>3, <2>1 DEF Due
<1> QED BY <1>2, <1>3

\* A step of one request, all of whose effects are on its own record.
LEMMA OneRecord ==
  ASSUME CacheInv, NEW r \in Reqs, of' = of, entry' = entry, handlers' = handlers, life' = life,
         overlapped \subseteq overlapped',
         at' \in [Reqs -> {"new", "async", "sync", "connect", "opening", "out"}],
         data' \in [Datas -> DataRec], conns' \subseteq Reqs,
         \A q \in Reqs \ {r} : at'[q] = at[q] /\ (q \in conns' <=> q \in conns),
         r \in conns' => at'[r] = "out", of[r] \in Datas,
         \A d \in Datas : d # of[r] => data'[d] = data[d],
         NEW d0, d0 = of[r], DataOK(d0)'
  PROVE  CacheInv'
<1>1. Types' BY DEF CacheInv, Types
<1>2. Stages' BY DEF CacheInv, Stages
<1>3. Made' BY DEF CacheInv, Made
<1>4. ASSUME NEW d \in Datas PROVE DataOK(d)'
  <2>1. CASE d = d0 BY <2>1
  <2>2. CASE d # d0
    <3>1. /\ Holders(d)' = Holders(d)
          /\ Serving(d)' = Serving(d)
          /\ Connecting(d)' = Connecting(d)
      BY <2>2, OthersHold
    <3>2. HandlersOf(d)' = HandlersOf(d) /\ Known(d)' = Known(d) BY DEF HandlersOf, Known
    <3>3. DataOK(d) /\ data'[d] = data[d] BY <2>2 DEF CacheInv
    <3> QED BY <3>1, <3>2, <3>3, Untouched
  <2> QED BY <2>1, <2>2
<1> QED BY <1>1, <1>2, <1>3, <1>4 DEF CacheInv

LEMMA CacheLookup ==
  ASSUME CacheInv, NEW r \in Reqs, NEW s \in {"async", "sync"}, Lookup(r, s)
  PROVE  CacheInv'
<1>0. PICK d \in Datas :
        /\ IF entry # None THEN d = entry ELSE data[d].state = "unused"
        /\ entry' = d
        /\ data' = [data EXCEPT ![d].state = "live",
                                ![d].refs = IF entry = None THEN 2 ELSE @ + 1]
        /\ of' = [of EXCEPT ![r] = d]
  BY DEF Lookup, CacheInv, Types
<1>1. /\ at[r] = "new" /\ r \notin conns /\ at' = [at EXCEPT ![r] = s]
      /\ UNCHANGED <<conns, handlers, life, overlapped>>
  BY DEF Lookup, CacheInv, Stages
<1>2. /\ at'[r] = s /\ of'[r] = d
      /\ \A q \in Reqs : q # r => at'[q] = at[q] /\ of'[q] = of[q]
  BY <1>0, <1>1 DEF CacheInv, Types
<1>3. DataOK(d) /\ data[d] \in DataRec BY DEF CacheInv, Types
<1>4. /\ \A b \in Datas : b # d => data'[b] = data[b]
      /\ data'[d].state = "live" /\ data'[d].client = data[d].client
      /\ data'[d].queue = data[d].queue
      /\ data'[d].refs = IF entry = None THEN 2 ELSE data[d].refs + 1
      /\ data'[d] \in DataRec /\ data' \in [Datas -> DataRec]
  <2>1. data[d].refs \in Nat BY <1>3 DEF DataRec
  <2>2. DEFINE n == IF entry = None THEN 2 ELSE data[d].refs + 1
               y == [data[d] EXCEPT !.state = "live", !.refs = n]
  <2>3. n \in Nat BY <2>1
  <2> HIDE DEF n
  <2>4. /\ y \in DataRec /\ y.state = "live" /\ y.client = data[d].client
        /\ y.queue = data[d].queue /\ y.refs = n
    BY <1>3, <2>3 DEF DataRec
  <2>5. data' = [data EXCEPT ![d] = y] BY <1>0, <1>3 DEF n, CacheInv, Types
  <2> HIDE DEF y
  <2>6. data'[d] = y /\ data' \in [Datas -> DataRec] /\ \A b \in Datas : b # d => data'[b] = data[b]
    BY <2>4, <2>5 DEF CacheInv, Types
  <2> QED BY <2>4, <2>6 DEF n
<1>5. \A b \in Datas : /\ Serving(b)' = Serving(b)
                       /\ Connecting(b)' = Connecting(b)
                       /\ Known(b)' = Known(b)
                       /\ HandlersOf(b)' = HandlersOf(b)
  BY <1>1, <1>2 DEF Serving, Connecting, Known, HandlersOf
<1>6. /\ Holders(d)' = Holders(d) \cup {r} /\ r \notin Holders(d)
      /\ \A b \in Datas : b # d => Holders(b)' = Holders(b)
  BY <1>1, <1>2 DEF Holders
<1>7. d # None BY ClientCacheAssumption
<1>8. ASSUME NEW b \in Datas, b # d PROVE DataOK(b)'
  <2>1. entry' = b <=> entry = b BY <1>0, <1>8, ClientCacheAssumption
  <2> QED BY <1>1, <1>4, <1>5, <1>6, <1>8, <2>1, Untouched DEF CacheInv
<1>9. DataOK(d)'
  <2>1. /\ IsFiniteSet(Holders(d)') /\ Cardinality(Holders(d)') = Cardinality(Holders(d)) + 1
        /\ Cardinality(Holders(d)) \in Nat /\ Cardinality(HandlersOf(d)) \in Nat
    BY <1>3, <1>6, FS_AddElement, FS_CardinalityType DEF DataOK, Exact
  <2>2. data'[d].refs = Due(d)'
    <3>1. CASE entry # None
      <4>1. entry = d /\ entry' = d BY <1>0, <3>1
      <4> QED BY <1>3, <1>4, <1>5, <2>1, <3>1, <4>1 DEF DataOK, Exact, Due
    <3>2. CASE entry = None
      <4>1. data[d].refs = 0
        <5>1. data[d].refs \in Nat /\ data[d].state # "live" BY <1>0, <1>3, <3>2 DEF DataRec
        <5> QED BY <1>3, <5>1 DEF DataOK, Exact
      <4>2. Holders(d) = {} /\ HandlersOf(d) = {} BY <1>3, <4>1, DueFacts DEF DataOK, Exact
      <4>3. Cardinality(Holders(d)) = 0 /\ Cardinality(HandlersOf(d)) = 0
        BY <4>2, FS_EmptySet
      <4> QED BY <1>0, <1>4, <1>5, <2>1, <3>2, <4>3 DEF Due
    <3> QED BY <3>1, <3>2
  <2>3. Due(d)' > 0 BY <1>0, <1>5, <2>1 DEF Due
  <2>4. Exact(d)' BY <1>3, <1>4, <1>5, <2>1, <2>2, <2>3 DEF DataOK, Exact
  <2>5. Served(d)' BY <1>3, <1>4, <1>5 DEF DataOK, Served
  <2>6. Watched(d)' BY <1>3, <1>4, <1>5 DEF DataOK, Watched
  <2>7. Single(d)' BY <1>1, <1>3, <1>4, <1>5 DEF DataOK, Single
  <2> QED BY <2>4, <2>5, <2>6, <2>7 DEF DataOK
<1>10. Types' BY <1>0, <1>1, <1>4 DEF CacheInv, Types
<1>11. Stages' BY <1>1, <1>2 DEF CacheInv, Stages
<1>12. Made' BY <1>1 DEF CacheInv, Made
<1> QED BY <1>8, <1>9, <1>10, <1>11, <1>12 DEF CacheInv

LEMMA CacheCached ==
  ASSUME CacheInv, NEW r \in Reqs, Cached(r)
  PROVE  CacheInv'
<1> SUFFICES ASSUME NEW d, d = of[r] PROVE CacheInv' OBVIOUS
<1>1. /\ at[r] \in {"async", "sync"} /\ at' = [at EXCEPT ![r] = "out"]
      /\ Released(d, data[d], 1)
      /\ UNCHANGED <<entry, of, conns, handlers, life, overlapped>>
  BY DEF Cached
<1>2. /\ d \in Datas /\ data[d] \in DataRec /\ data[d].state = "live"
      /\ r \in Holders(d) /\ DataOK(d)
  BY <1>1, HeldIsLive
<1>3. at'[r] = "out" /\ r \notin conns /\ \A q \in Reqs : q # r => at'[q] = at[q]
  BY <1>1 DEF CacheInv, Types, Stages
<1>4. /\ Holders(d)' = Holders(d) \ {r}
      /\ Serving(d)' = Serving(d)
      /\ Connecting(d)' = Connecting(d)
      /\ HandlersOf(d)' = HandlersOf(d) /\ Known(d)' = Known(d)
  BY <1>1, <1>2, <1>3 DEF Holders, Serving, Connecting, HandlersOf, Known
<1>5. /\ IsFiniteSet(Holders(d))' /\ IsFiniteSet(HandlersOf(d))'
      /\ data[d].refs = Due(d)' + 1
  BY <1>1, <1>2, <1>4, DueLess DEF DataOK, Exact
<1>6. DataOK(d)' /\ data' \in [Datas -> DataRec]
  <2>1. Types /\ 1 \in Nat BY DEF CacheInv
  <2>2. data[d].queue # {} => Serving(d)' # {} BY <1>2, <1>4 DEF DataOK, Served
  <2>3. data[d].client # None => data[d].client \in Known(d)'
    BY <1>2, <1>4 DEF DataOK, Watched
  <2>4. d \notin overlapped' =>
          /\ Known(d)' \subseteq {data[d].client}
          /\ Connecting(d)' # {} => data[d].client = None
          /\ \A q, s \in Connecting(d)' : q = s
    BY <1>1, <1>2, <1>4 DEF DataOK, Single
  <2> QED BY <1>1, <1>2, <1>5, <2>1, <2>2, <2>3, <2>4, ReleasedOK
<1>7. \A b \in Datas : b # d => data'[b] = data[b]
  BY <1>1 DEF Released, CacheInv, Types
<1>8. at' \in [Reqs -> {"new", "async", "sync", "connect", "opening", "out"}]
  BY <1>1 DEF CacheInv, Types
<1>9. conns' \subseteq Reqs BY <1>1 DEF CacheInv, Types
<1> QED BY <1>1, <1>2, <1>3, <1>6, <1>7, <1>8, <1>9, OneRecord

LEMMA CacheEnqueue ==
  ASSUME CacheInv, NEW r \in Reqs, Enqueue(r)
  PROVE  CacheInv'
<1> SUFFICES ASSUME NEW d, d = of[r], NEW x, x = [data[d] EXCEPT !.queue = data[d].queue \cup {r}],
                    NEW n, n = IF Piggybacks(data[d]) THEN 1 ELSE 0
             PROVE  CacheInv'
  OBVIOUS
<1>1. /\ at[r] = "async" /\ data[d].client = None
      /\ at' = [at EXCEPT ![r] = IF Piggybacks(data[d]) THEN "out" ELSE "connect"]
      /\ Released(d, x, n)
      /\ IF Piggybacks(data[d]) THEN UNCHANGED overlapped ELSE Begins(d)
      /\ UNCHANGED <<entry, of, conns, handlers, life>>
  BY DEF Enqueue
<1>b. overlapped \subseteq overlapped'
  BY <1>1 DEF Begins
<1>2. /\ d \in Datas /\ data[d] \in DataRec /\ data[d].state = "live"
      /\ r \in Holders(d) /\ DataOK(d)
  BY <1>1, HeldIsLive
<1>x. /\ x \in DataRec /\ x.state = "live" /\ x.client = None /\ x.refs = data[d].refs
      /\ x.queue = data[d].queue \cup {r}
  BY <1>1, <1>2 DEF DataRec
<1>3. /\ at'[r] = IF Piggybacks(data[d]) THEN "out" ELSE "connect"
      /\ r \notin conns /\ \A q \in Reqs : q # r => at'[q] = at[q]
  BY <1>1 DEF CacheInv, Types, Stages
<1>4. HandlersOf(d)' = HandlersOf(d) /\ Known(d)' = Known(d)
  BY <1>1 DEF HandlersOf, Known
<1>5. ASSUME Piggybacks(data[d]) PROVE DataOK(d)' /\ data' \in [Datas -> DataRec]
  <2>1. /\ Holders(d)' = Holders(d) \ {r}
        /\ Serving(d)' = Serving(d)
        /\ Connecting(d)' = Connecting(d)
        /\ n = 1
    BY <1>1, <1>2, <1>3, <1>5 DEF Holders, Serving, Connecting
  <2>2. /\ IsFiniteSet(Holders(d))' /\ IsFiniteSet(HandlersOf(d))' /\ x.refs = Due(d)' + n
    BY <1>1, <1>2, <1>x, <1>4, <2>1, DueLess DEF DataOK, Exact
  <2>3. Serving(d)' # {} BY <1>2, <1>5, <2>1 DEF DataOK, Served, Piggybacks
  <2>4. d \notin overlapped' =>
          /\ Known(d)' \subseteq {x.client}
          /\ Connecting(d)' # {} => x.client = None
          /\ \A q, s \in Connecting(d)' : q = s
    BY <1>1, <1>2, <1>x, <1>4, <2>1 DEF DataOK, Single
  <2>5. Types /\ n \in Nat BY <2>1 DEF CacheInv
  <2>6. x.client # None => x.client \in Known(d)' BY <1>x
  <2>7. d \in Datas /\ x \in DataRec /\ x.state = "live" /\ Released(d, x, n)
    BY <1>1, <1>2, <1>x
  <2> QED BY <2>2, <2>3, <2>4, <2>5, <2>6, <2>7, ReleasedOK
<1>6. ASSUME ~ Piggybacks(data[d]) PROVE DataOK(d)' /\ data' \in [Datas -> DataRec]
  <2>1. /\ Holders(d)' = Holders(d)
        /\ Serving(d)' = Serving(d) \cup {r}
        /\ Connecting(d)' = Connecting(d) \cup {r}
        /\ n = 0
    BY <1>1, <1>2, <1>3, <1>6 DEF Holders, Serving, Connecting
  <2>2. /\ IsFiniteSet(Holders(d))' /\ IsFiniteSet(HandlersOf(d))'
        /\ Due(d)' = Due(d) /\ Due(d) \in Nat
    BY <1>1, <1>2, <1>4, <2>1, DueFacts DEF DataOK, Exact, Due
  <2>3. x.refs = Due(d)' + n BY <1>2, <1>x, <2>1, <2>2 DEF DataOK, Exact
  <2>4. data[d].queue = {} BY <1>6 DEF Piggybacks
  <2>5. d \notin overlapped' =>
          /\ Known(d)' \subseteq {x.client}
          /\ Connecting(d)' # {} => x.client = None
          /\ \A q, s \in Connecting(d)' : q = s
    <3> SUFFICES ASSUME d \notin overlapped'
                 PROVE  /\ Known(d)' \subseteq {x.client}
                        /\ Connecting(d)' # {} => x.client = None
                        /\ \A q, s \in Connecting(d)' : q = s
      BY <1>1
    <3>1. Connecting(d) = {} /\ d \notin overlapped BY <1>1, <1>6 DEF Begins
    <3> QED BY <1>1, <1>2, <1>x, <1>4, <2>1, <3>1 DEF DataOK, Single
  <2>6. Types /\ n \in Nat BY <2>1 DEF CacheInv
  <2>7. x.client # None => x.client \in Known(d)' BY <1>x
  <2>8. x.queue # {} => Serving(d)' # {} BY <2>1
  <2>9. d \in Datas /\ x \in DataRec /\ x.state = "live" /\ Released(d, x, n)
    BY <1>1, <1>2, <1>x
  <2> QED BY <2>2, <2>3, <2>5, <2>6, <2>7, <2>8, <2>9, ReleasedOK
<1>7. DataOK(d)' /\ data' \in [Datas -> DataRec] BY <1>5, <1>6
<1>8. \A b \in Datas : b # d => data'[b] = data[b]
  BY <1>1 DEF Released, CacheInv, Types
<1>9. at' \in [Reqs -> {"new", "async", "sync", "connect", "opening", "out"}]
  BY <1>1 DEF CacheInv, Types
<1>10. conns' \subseteq Reqs BY <1>1 DEF CacheInv, Types
<1> QED BY <1>1, <1>b, <1>2, <1>3, <1>7, <1>8, <1>9, <1>10, OneRecord

LEMMA CacheConnect ==
  ASSUME CacheInv, NEW r \in Reqs, Connect(r)
  PROVE  CacheInv'
<1> SUFFICES ASSUME NEW d, d = of[r] PROVE CacheInv' OBVIOUS
<1>1. /\ at[r] = "connect" /\ at' = [at EXCEPT ![r] = "out"] /\ conns' = conns \cup {r}
      /\ UNCHANGED <<entry, data, of, handlers, life, overlapped>>
  BY DEF Connect
<1>2. d \in Datas /\ DataOK(d) BY <1>1, HeldIsLive
<1>3. /\ \A q \in Reqs \ {r} : at'[q] = at[q] /\ (q \in conns' <=> q \in conns)
      /\ r \in conns' => at'[r] = "out"
      /\ at'[r] = "out" /\ r \in conns'
  BY <1>1 DEF CacheInv, Types, Stages
<1>4. /\ Holders(d)' = Holders(d) /\ Serving(d)' = Serving(d)
      /\ Connecting(d)' = Connecting(d)
  BY <1>1, <1>3 DEF Holders, Serving, Connecting
<1>5. HandlersOf(d)' = HandlersOf(d) /\ Known(d)' = Known(d)
  BY <1>1 DEF HandlersOf, Known
<1>6. DataOK(d)' BY <1>1, <1>2, <1>4, <1>5, Untouched
<1>7. at' \in [Reqs -> {"new", "async", "sync", "connect", "opening", "out"}]
  BY <1>1 DEF CacheInv, Types
<1>8. conns' \subseteq Reqs /\ data' \in [Datas -> DataRec]
  BY <1>1 DEF CacheInv, Types
<1> QED BY <1>1, <1>2, <1>3, <1>6, <1>7, <1>8, OneRecord

\* The history records a connection that begins during another one, and only
\* then is there a second one for the record.
LEMMA CacheConnectSync ==
  ASSUME CacheInv, NEW r \in Reqs, ConnectSync(r)
  PROVE  CacheInv'
<1> SUFFICES ASSUME NEW d, d = of[r] PROVE CacheInv' OBVIOUS
<1>1. /\ at[r] = "sync" /\ at' = [at EXCEPT ![r] = "opening"] /\ conns' = conns
      /\ data[d].client = None /\ Begins(d)
      /\ UNCHANGED <<entry, data, of, handlers, life>>
  BY DEF ConnectSync
<1>2. d \in Datas /\ DataOK(d) BY <1>1, HeldIsLive
<1>3. /\ \A q \in Reqs \ {r} : at'[q] = at[q] /\ (q \in conns' <=> q \in conns)
      /\ at'[r] = "opening" /\ r \notin conns'
  BY <1>1 DEF CacheInv, Types, Stages
<1>4. /\ Holders(d)' = Holders(d) /\ Serving(d)' = Serving(d)
      /\ Connecting(d)' = Connecting(d) \cup {r}
  BY <1>1, <1>3 DEF Holders, Serving, Connecting
<1>5. HandlersOf(d)' = HandlersOf(d) /\ Known(d)' = Known(d) /\ Due(d)' = Due(d)
  BY <1>1, <1>4 DEF HandlersOf, Known, Due
<1>6. DataOK(d)'
  <2>1. Exact(d)' /\ Served(d)' /\ Watched(d)'
    BY <1>1, <1>2, <1>4, <1>5 DEF DataOK, Exact, Served, Watched
  <2>2. Single(d)'
    <3> SUFFICES ASSUME d \notin overlapped' PROVE Single(d)' BY DEF Single
    <3>1. Connecting(d) = {} /\ d \notin overlapped BY <1>1 DEF Begins
    <3>2. Known(d) \subseteq {None} BY <1>1, <1>2, <3>1 DEF DataOK, Single
    <3> QED BY <1>1, <1>4, <1>5, <3>1, <3>2 DEF Single
  <2> QED BY <2>1, <2>2 DEF DataOK
<1>7. at' \in [Reqs -> {"new", "async", "sync", "connect", "opening", "out"}]
  BY <1>1 DEF CacheInv, Types
<1>8. conns' \subseteq Reqs /\ data' \in [Datas -> DataRec] /\ overlapped \subseteq overlapped'
  BY <1>1 DEF CacheInv, Types, Begins
<1> QED BY <1>1, <1>2, <1>3, <1>6, <1>7, <1>8, OneRecord


-----------------------------------------------------------------------------
(* Results.                                                                *)

\* A connection that succeeds: the operation's reference becomes the handler's.
LEMMA ConnectedOK ==
  ASSUME CacheInv, NEW r \in Reqs, NEW d, d = of[r], NEW c \in Clients, NEW also,
         Connected(d, c, also),
         at[r] = "opening" \/ r \in conns,
         at' \in [Reqs -> {"new", "async", "sync", "connect", "opening", "out"}],
         conns' \subseteq Reqs, at'[r] = "out", r \notin conns',
         \A q \in Reqs \ {r} : at'[q] = at[q] /\ (q \in conns' <=> q \in conns),
         overlapped' = overlapped
  PROVE  CacheInv'
<1>1. /\ life[c] = "unmade" /\ life' = [life EXCEPT ![c] = "connected"]
      /\ handlers' = handlers \cup {<<c, d>>} /\ entry' = entry /\ of' = of
      /\ data' = [data EXCEPT ![d].client = c, ![d].queue = {}, ![d].dead = FALSE,
                              ![d].hid = TRUE]
  BY DEF Connected
<1>2. /\ d \in Datas /\ data[d] \in DataRec /\ data[d].state = "live"
      /\ r \in Holders(d) /\ DataOK(d)
  BY HeldIsLive
<1>3. /\ data' \in [Datas -> DataRec] /\ data'[d] \in DataRec
      /\ data'[d].client = c /\ data'[d].queue = {} /\ data'[d].refs = data[d].refs
      /\ data'[d].state = "live"
      /\ \A b \in Datas : b # d => data'[b] = data[b]
  <2>1. DEFINE y == [data[d] EXCEPT !.client = c, !.queue = {}, !.dead = FALSE, !.hid = TRUE]
  <2>2. /\ y \in DataRec /\ y.client = c /\ y.queue = {} /\ y.refs = data[d].refs
        /\ y.state = "live"
    BY <1>2 DEF DataRec
  <2>3. data' = [data EXCEPT ![d] = y] BY <1>1, <1>2 DEF CacheInv, Types
  <2> HIDE DEF y
  <2>4. data'[d] = y /\ data' \in [Datas -> DataRec] /\ \A b \in Datas : b # d => data'[b] = data[b]
    BY <1>2, <2>2, <2>3 DEF CacheInv, Types
  <2> QED BY <2>2, <2>4
<1>4. \A b \in Datas : <<c, b>> \notin handlers BY <1>1 DEF CacheInv, Made
<1>5. /\ life' \in [Clients -> {"unmade", "connected", "dead"}]
      /\ life'[c] = "connected" /\ \A e \in Clients : e # c => life'[e] = life[e]
  BY <1>1 DEF CacheInv, Types
<1>6. /\ HandlersOf(d)' = HandlersOf(d) \cup {<<c, d>>} /\ <<c, d>> \notin HandlersOf(d)
      /\ \A b \in Datas : b # d => HandlersOf(b)' = HandlersOf(b)
  BY <1>1, <1>2, <1>4 DEF HandlersOf
<1>7. /\ Known(d)' = Known(d) \cup {c}
      /\ \A b \in Datas : b # d => Known(b)' = Known(b)
  <2>1. \A b \in Datas, e \in Clients : <<e, b>> \in handlers' <=> <<e, b>> \in handlers \/ (e = c /\ b = d)
    BY <1>1
  <2>2. \A b \in Datas, e \in Clients : <<e, b>> \in handlers => life'[e] = life[e]
    BY <1>4, <1>5
  <2> QED BY <1>2, <1>4, <1>5, <2>1, <2>2 DEF Known
<1>8. /\ Holders(d)' = Holders(d) \ {r}
      /\ Serving(d)' = Serving(d) \ {r}
      /\ Connecting(d)' = Connecting(d) \ {r}
  BY <1>1, <1>2 DEF Holders, Serving, Connecting
<1>9. /\ IsFiniteSet(Holders(d)') /\ IsFiniteSet(HandlersOf(d)')
      /\ Due(d)' = Due(d) /\ Due(d) \in Nat /\ Due(d) # 0
  <2>1. IsFiniteSet(Holders(d)) /\ IsFiniteSet(HandlersOf(d)) BY <1>2 DEF DataOK, Exact
  <2>2. /\ IsFiniteSet(Holders(d)') /\ Cardinality(Holders(d)') = Cardinality(Holders(d)) - 1
    BY <1>2, <1>8, <2>1, FS_RemoveElement
  <2>3. /\ IsFiniteSet(HandlersOf(d)') /\ Cardinality(HandlersOf(d)') = Cardinality(HandlersOf(d)) + 1
    <3> SUFFICES ASSUME NEW h, h = <<c, d>>
                 PROVE  /\ IsFiniteSet(HandlersOf(d)')
                        /\ Cardinality(HandlersOf(d)') = Cardinality(HandlersOf(d)) + 1
      OBVIOUS
    <3>1. h \notin HandlersOf(d) /\ HandlersOf(d)' = HandlersOf(d) \cup {h} BY <1>6
    <3>2. /\ IsFiniteSet(HandlersOf(d) \cup {h})
          /\ Cardinality(HandlersOf(d) \cup {h}) = Cardinality(HandlersOf(d)) + 1
      BY <2>1, <3>1, FS_AddElement
    <3> QED BY <3>1, <3>2
  <2>4. Cardinality(Holders(d)) \in Nat /\ Cardinality(HandlersOf(d)) \in Nat
    BY <2>1, FS_CardinalityType
  <2>5. Due(d) \in Nat /\ Due(d) # 0 BY <1>2, <2>1, DueFacts
  <2>6. entry' = entry BY <1>1
  <2>7. Due(d)' = Due(d) BY <2>2, <2>3, <2>4, <2>6 DEF Due
  <2> QED BY <2>2, <2>3, <2>5, <2>7
<1>10. DataOK(d)'
  <2>1. Exact(d)' BY <1>2, <1>3, <1>9 DEF DataOK, Exact
  <2>2. Served(d)' BY <1>3 DEF Served
  <2>3. Watched(d)' BY <1>3, <1>7 DEF Watched
  <2>4. Single(d)'
    <3> SUFFICES ASSUME d \notin overlapped' PROVE Single(d)' BY DEF Single
    <3>1. r \in Connecting(d) /\ d \notin overlapped BY DEF Connecting
    <3>2. /\ Known(d) \subseteq {None} /\ \A q, s \in Connecting(d) : q = s
      BY <1>2, <3>1 DEF DataOK, Single
    <3>3. Known(d) = {} BY <3>2, ClientCacheAssumption DEF Known
    <3>4. Known(d)' = {c} /\ Connecting(d)' = {} BY <1>7, <1>8, <3>1, <3>2, <3>3
    <3> QED BY <1>3, <3>4 DEF Single
  <2> QED BY <2>1, <2>2, <2>3, <2>4 DEF DataOK
<1>11. ASSUME NEW b \in Datas, b # d PROVE DataOK(b)'
  <2>1. /\ Holders(b)' = Holders(b)
        /\ Serving(b)' = Serving(b)
        /\ Connecting(b)' = Connecting(b)
    BY <1>1, <1>11, OthersHold
  <2> QED BY <1>1, <1>3, <1>6, <1>7, <1>11, <2>1, Untouched DEF CacheInv
<1>12. Types' BY <1>1, <1>2, <1>3, <1>5 DEF CacheInv, Types
<1>13. Stages' BY <1>1 DEF CacheInv, Stages
<1>14. Made'
  <2>1. \A e \in Clients, b \in Datas :
          <<e, b>> \in handlers' <=> <<e, b>> \in handlers \/ (e = c /\ b = d)
    BY <1>1
  <2> QED BY <1>4, <1>5, <2>1 DEF CacheInv, Made
<1> QED BY <1>10, <1>11, <1>12, <1>13, <1>14 DEF CacheInv

\* A connection that fails; x is the record, with or without its queue.
LEMMA FailedOK ==
  ASSUME CacheInv, NEW r \in Reqs, NEW d, d = of[r], NEW x,
         \/ x = data[d] /\ at[r] = "opening" /\ r \notin conns
         \/ x = [data[d] EXCEPT !.queue = {}] /\ r \in conns,
         Released(d, x, 1), UNCHANGED <<entry, of, handlers, life, overlapped>>,
         at' \in [Reqs -> {"new", "async", "sync", "connect", "opening", "out"}],
         conns' \subseteq Reqs, at'[r] = "out", r \notin conns',
         \A q \in Reqs \ {r} : at'[q] = at[q] /\ (q \in conns' <=> q \in conns)
  PROVE  CacheInv'
<1>2. /\ d \in Datas /\ data[d] \in DataRec /\ data[d].state = "live"
      /\ r \in Holders(d) /\ DataOK(d)
  BY HeldIsLive
<1>3. /\ x \in DataRec /\ x.state = "live" /\ x.client = data[d].client
      /\ x.refs = data[d].refs
      /\ x.queue = data[d].queue \/ x.queue = {}
  BY <1>2 DEF DataRec
<1>4. /\ Holders(d)' = Holders(d) \ {r}
      /\ Serving(d)' = Serving(d) \ {r}
      /\ Connecting(d)' = Connecting(d) \ {r}
      /\ HandlersOf(d)' = HandlersOf(d) /\ Known(d)' = Known(d)
  BY <1>2 DEF Holders, Serving, Connecting, HandlersOf, Known
<1>5. /\ IsFiniteSet(Holders(d))' /\ IsFiniteSet(HandlersOf(d))'
      /\ x.refs = Due(d)' + 1
  BY <1>2, <1>3, <1>4, DueLess DEF DataOK, Exact
<1>7. DataOK(d)' /\ data' \in [Datas -> DataRec]
  <2>1. Types /\ 1 \in Nat BY DEF CacheInv
  <2>2. x.queue # {} => Serving(d)' # {}
    <3>1. CASE x = data[d] /\ at[r] = "opening" /\ r \notin conns
      <4>1. r \notin Serving(d) BY <3>1 DEF Serving, Connecting
      <4> QED BY <1>2, <1>4, <3>1, <4>1 DEF DataOK, Served
    <3>2. CASE x = [data[d] EXCEPT !.queue = {}] /\ r \in conns
      <4>1. x.queue = {} BY <1>2, <3>2 DEF DataRec
      <4> QED BY <4>1
    <3> QED BY <3>1, <3>2
  <2>3. x.client # None => x.client \in Known(d)'
    BY <1>2, <1>3, <1>4 DEF DataOK, Watched
  <2>4. d \notin overlapped' =>
          /\ Known(d)' \subseteq {x.client}
          /\ Connecting(d)' # {} => x.client = None
          /\ \A q, s \in Connecting(d)' : q = s
    <3> SUFFICES ASSUME d \notin overlapped
                 PROVE  /\ Known(d)' \subseteq {x.client}
                        /\ Connecting(d)' # {} => x.client = None
                        /\ \A q, s \in Connecting(d)' : q = s
      OBVIOUS
    <3> QED BY <1>2, <1>3, <1>4 DEF DataOK, Single
  <2>5. x \in DataRec /\ x.state = "live" /\ Released(d, x, 1) BY <1>3
  <2> QED BY <1>2, <1>5, <2>1, <2>2, <2>3, <2>4, <2>5, ReleasedOK
<1>8. \A b \in Datas : b # d => data'[b] = data[b]
  BY DEF Released, CacheInv, Types
<1> QED BY <1>2, <1>7, <1>8, OneRecord

LEMMA CacheConnectDone ==
  ASSUME CacheInv, NEW r \in Reqs, ConnectDone(r)
  PROVE  CacheInv'
<1> SUFFICES ASSUME NEW d, d = of[r], NEW x, x = [data[d] EXCEPT !.queue = {}] PROVE CacheInv'
  OBVIOUS
<1>1. r \in conns /\ conns' = conns \ {r} /\ UNCHANGED <<at, overlapped>> BY DEF ConnectDone
<1>2. /\ at' \in [Reqs -> {"new", "async", "sync", "connect", "opening", "out"}]
      /\ conns' \subseteq Reqs /\ at'[r] = "out" /\ r \notin conns'
      /\ \A q \in Reqs \ {r} : at'[q] = at[q] /\ (q \in conns' <=> q \in conns)
  BY <1>1 DEF CacheInv, Types, Stages
<1>3. CASE \E c \in Clients : Connected(d, c, {})
  <2>1. PICK c \in Clients : Connected(d, c, {}) BY <1>3
  <2> QED BY <1>1, <1>2, <2>1, ConnectedOK
<1>4. CASE Released(d, x, 1) /\ UNCHANGED <<entry, of, handlers, life>>
  BY <1>1, <1>2, <1>4, FailedOK
<1> QED BY <1>3, <1>4 DEF ConnectDone

LEMMA CacheConnectSyncDone ==
  ASSUME CacheInv, NEW r \in Reqs, ConnectSyncDone(r)
  PROVE  CacheInv'
<1> SUFFICES ASSUME NEW d, d = of[r] PROVE CacheInv' OBVIOUS
<1>1. at[r] = "opening" /\ at' = [at EXCEPT ![r] = "out"] /\ conns' = conns
      /\ overlapped' = overlapped
  BY DEF ConnectSyncDone
<1>2. /\ at' \in [Reqs -> {"new", "async", "sync", "connect", "opening", "out"}]
      /\ conns' \subseteq Reqs /\ at'[r] = "out" /\ r \notin conns' /\ r \notin conns
      /\ \A q \in Reqs \ {r} : at'[q] = at[q] /\ (q \in conns' <=> q \in conns)
  BY <1>1 DEF CacheInv, Types, Stages
<1>3. CASE \E c \in Clients : Connected(d, c, {r})
  <2>1. PICK c \in Clients : Connected(d, c, {r}) BY <1>3
  <2> QED BY <1>1, <1>2, <1>3, <2>1, ConnectedOK
<1>4. CASE Released(d, data[d], 1) /\ UNCHANGED <<entry, of, handlers, life>>
  BY <1>1, <1>2, <1>4, FailedOK
<1> QED BY <1>3, <1>4 DEF ConnectSyncDone


-----------------------------------------------------------------------------
(* The source, the backend and the users of a client.                      *)

LEMMA CacheSourceGone ==
  ASSUME CacheInv, SourceGone
  PROVE  CacheInv'
<1> SUFFICES ASSUME NEW d, d = entry, NEW x, x = Disposed(data[d]), NEW c, c = data[d].client
             PROVE  CacheInv'
  OBVIOUS
<1>1. /\ d # None /\ entry' = None /\ handlers' = handlers \ {<<c, d>>}
      /\ Released(d, x, 1)
      /\ UNCHANGED <<at, of, conns, life, overlapped>>
  BY DEF SourceGone
<1>2. d \in Datas /\ data[d] \in DataRec /\ DataOK(d) BY <1>1 DEF CacheInv, Types
<1>3. /\ IsFiniteSet(Holders(d)) /\ IsFiniteSet(HandlersOf(d)) /\ data[d].refs = Due(d)
      /\ Cardinality(Holders(d)) \in Nat /\ Cardinality(HandlersOf(d)) \in Nat
  BY <1>2, FS_CardinalityType DEF DataOK, Exact
<1>4. data[d].state = "live"
  <2>1. Due(d) \in Nat /\ Due(d) # 0 BY <1>3, DueFacts
  <2> QED BY <1>2, <1>3, <2>1 DEF DataOK, Exact
<1>5. /\ Holders(d)' = Holders(d)
      /\ Serving(d)' = Serving(d)
      /\ Connecting(d)' = Connecting(d)
  BY <1>1 DEF Holders, Serving, Connecting
<1>6. CASE c = None
  <2>1. x = data[d] BY <1>6 DEF Disposed
  <2>2. handlers' = handlers BY <1>1, <1>6, ClientCacheAssumption DEF CacheInv, Types
  <2>3. HandlersOf(d)' = HandlersOf(d) /\ Known(d)' = Known(d)
    BY <1>1, <2>2 DEF HandlersOf, Known
  <2>4. /\ IsFiniteSet(Holders(d)') /\ IsFiniteSet(HandlersOf(d)') /\ x.refs = Due(d)' + 1
    BY <1>1, <1>3, <1>5, <2>1, <2>3 DEF Due
  <2>5. Types /\ 1 \in Nat BY DEF CacheInv
  <2>6. x.queue # {} => Serving(d)' # {} BY <1>2, <1>5, <2>1 DEF DataOK, Served
  <2>7. x.client # None => x.client \in Known(d)' BY <1>6, <2>1
  <2>8. d \notin overlapped' =>
          /\ Known(d)' \subseteq {x.client}
          /\ Connecting(d)' # {} => x.client = None
          /\ \A q, s \in Connecting(d)' : q = s
    BY <1>1, <1>2, <1>5, <2>1, <2>3 DEF DataOK, Single
  <2>9. DataOK(d)' /\ data' \in [Datas -> DataRec]
    BY <1>1, <1>2, <1>4, <2>1, <2>4, <2>5, <2>6, <2>7, <2>8, ReleasedOK
  <2>10. ASSUME NEW b \in Datas, b # d PROVE DataOK(b)'
    <3>1. /\ Holders(b)' = Holders(b)
          /\ Serving(b)' = Serving(b)
          /\ Connecting(b)' = Connecting(b)
          /\ HandlersOf(b)' = HandlersOf(b) /\ Known(b)' = Known(b)
      BY <1>1, <2>2 DEF Holders, Serving, Connecting, HandlersOf, Known
    <3>2. /\ data'[b] = data[b] /\ DataOK(b) /\ (entry' = b <=> entry = b)
      BY <1>1, <2>10, ClientCacheAssumption DEF CacheInv, Types, Released
    <3> QED BY <1>1, <3>1, <3>2, Untouched
  <2> QED BY <1>1, <2>2, <2>9, <2>10 DEF CacheInv, Types, Stages, Made
<1>7. CASE c # None
  <2>1. c \in Known(d) /\ c \in Clients BY <1>2, <1>7 DEF DataOK, Watched, Known
  <2>2. data[d].refs \in Nat /\ data[d].refs >= 2
    <3> SUFFICES ASSUME NEW h, h = <<c, d>> PROVE data[d].refs \in Nat /\ data[d].refs >= 2
      OBVIOUS
    <3>1. h \in HandlersOf(d) BY <2>1 DEF Known, HandlersOf
    <3>2. Cardinality(HandlersOf(d)) # 0 BY <1>3, <3>1, FS_EmptySet
    <3> QED BY <1>1, <1>3, <3>2 DEF Due
  <2>3. /\ x \in DataRec /\ x.state = "live" /\ x.client = None /\ x.queue = data[d].queue
        /\ x.refs = data[d].refs - 1
    <3>1. data[d].refs - 1 \in Nat BY <2>2
    <3>2. x = [data[d] EXCEPT !.client = None, !.hid = FALSE, !.refs = data[d].refs - 1]
      BY <1>2, <1>7 DEF Disposed, DataRec
    <3> QED BY <1>2, <1>4, <3>1, <3>2 DEF DataRec
  <2>4. IsFiniteSet(HandlersOf(d)') /\ Cardinality(HandlersOf(d)') = Cardinality(HandlersOf(d)) - 1
    <3> SUFFICES ASSUME NEW h, h = <<c, d>>
                 PROVE  /\ IsFiniteSet(HandlersOf(d)')
                        /\ Cardinality(HandlersOf(d)') = Cardinality(HandlersOf(d)) - 1
      OBVIOUS
    <3>1. h \in HandlersOf(d) BY <2>1 DEF Known, HandlersOf
    <3>2. HandlersOf(d)' = HandlersOf(d) \ {h} BY <1>1 DEF HandlersOf
    <3> QED BY <1>3, <3>1, <3>2, FS_RemoveElement
  <2>5. Known(d)' = Known(d) \ {c} BY <1>1, <2>1 DEF Known
  <2>6. x.refs = Due(d)' + 1
    <3>1. Due(d)' = Cardinality(Holders(d)) + 0 + (Cardinality(HandlersOf(d)) - 1)
      BY <1>1, <1>5, <2>4 DEF Due
    <3>2. Due(d) = Cardinality(Holders(d)) + 1 + Cardinality(HandlersOf(d)) BY DEF Due
    <3> QED BY <1>3, <2>3, <3>1, <3>2
  <2>7. Types /\ 1 \in Nat BY DEF CacheInv
  <2>8. x.queue # {} => Serving(d)' # {} BY <1>2, <1>5, <2>3 DEF DataOK, Served
  <2>9. x.client # None => x.client \in Known(d)' BY <2>3
  <2>10. d \notin overlapped' =>
          /\ Known(d)' \subseteq {x.client}
          /\ Connecting(d)' # {} => x.client = None
          /\ \A q, s \in Connecting(d)' : q = s
    <3> SUFFICES ASSUME d \notin overlapped
                 PROVE  /\ Known(d)' \subseteq {x.client}
                        /\ Connecting(d)' # {} => x.client = None
                        /\ \A q, s \in Connecting(d)' : q = s
      BY <1>1
    <3>1. Known(d) \subseteq {c} /\ Connecting(d) = {} BY <1>2, <1>7 DEF DataOK, Single
    <3> QED BY <1>5, <2>5, <3>1
  <2>11. IsFiniteSet(Holders(d)') BY <1>3, <1>5
  <2>12. Released(d, x, 1) /\ x \in DataRec /\ x.state = "live" BY <1>1, <2>3
  <2>13. DataOK(d)' /\ data' \in [Datas -> DataRec]
    BY <1>2, <2>4, <2>6, <2>7, <2>8, <2>9, <2>10, <2>11, <2>12, ReleasedOK
  <2>14. ASSUME NEW b \in Datas, b # d PROVE DataOK(b)'
    <3>1. /\ Holders(b)' = Holders(b)
          /\ Serving(b)' = Serving(b)
          /\ Connecting(b)' = Connecting(b)
          /\ HandlersOf(b)' = HandlersOf(b) /\ Known(b)' = Known(b)
      BY <1>1, <2>14 DEF Holders, Serving, Connecting, HandlersOf, Known
    <3>2. /\ data'[b] = data[b] /\ DataOK(b) /\ (entry' = b <=> entry = b)
      BY <1>1, <2>14, ClientCacheAssumption DEF CacheInv, Types, Released
    <3> QED BY <1>1, <3>1, <3>2, Untouched
  <2>15. handlers' \subseteq handlers BY <1>1
  <2>16. Types' BY <1>1, <2>13, <2>15 DEF CacheInv, Types
  <2>17. Stages' BY <1>1 DEF CacheInv, Stages
  <2>18. Made' BY <1>1, <2>15 DEF CacheInv, Made
  <2> QED BY <2>13, <2>14, <2>16, <2>17, <2>18 DEF CacheInv
<1> QED BY <1>6, <1>7

\* No record keeps a client whose backend has died.
LEMMA CacheBackendDies ==
  ASSUME CacheInv, NEW c \in Clients, BackendDies(c)
  PROVE  CacheInv'
<1>1. /\ life[c] = "connected" /\ life' = [life EXCEPT ![c] = "dead"]
      /\ data' = [d \in Datas |-> IF <<c, d>> \in handlers THEN Dead(data[d]) ELSE data[d]]
      /\ UNCHANGED <<entry, at, of, conns, handlers, overlapped>>
  BY DEF BackendDies
<1>2. /\ life' \in [Clients -> {"unmade", "connected", "dead"}]
      /\ \A e \in Clients : life'[e] = IF e = c THEN "dead" ELSE life[e]
  BY <1>1 DEF CacheInv, Types
<1>3. ASSUME NEW d \in Datas
      PROVE  /\ data'[d] \in DataRec /\ data'[d].refs = data[d].refs
             /\ data'[d].state = data[d].state /\ data'[d].queue = data[d].queue
             /\ data'[d].client = IF <<c, d>> \in handlers THEN None ELSE data[d].client
  <2>1. data[d] \in DataRec BY DEF CacheInv, Types
  <2>2. /\ Dead(data[d]) \in DataRec /\ Dead(data[d]).refs = data[d].refs
        /\ Dead(data[d]).state = data[d].state /\ Dead(data[d]).queue = data[d].queue
        /\ Dead(data[d]).client = None
    BY <2>1 DEF Dead, DataRec
  <2>3. data'[d] = IF <<c, d>> \in handlers THEN Dead(data[d]) ELSE data[d] BY <1>1
  <2> QED BY <2>1, <2>2, <2>3
<1>4. ASSUME NEW d \in Datas PROVE DataOK(d)'
  <2>1. /\ Holders(d)' = Holders(d)
        /\ Serving(d)' = Serving(d)
        /\ Connecting(d)' = Connecting(d)
        /\ HandlersOf(d)' = HandlersOf(d) /\ Due(d)' = Due(d)
    BY <1>1 DEF Holders, Serving, Connecting, HandlersOf, Due
  <2>2. Known(d)' = Known(d) \ {c} BY <1>1, <1>2 DEF Known
  <2>3. <<c, d>> \in handlers <=> c \in Known(d) BY <1>1 DEF Known
  <2>4. DataOK(d) BY DEF CacheInv
  <2>5. Exact(d)' BY <1>3, <2>1, <2>4 DEF DataOK, Exact
  <2>6. Served(d)' BY <1>3, <2>1, <2>4 DEF DataOK, Served
  <2>7. Watched(d)'
    <3>1. CASE c \in Known(d)
      <4>1. data'[d].client = None BY <1>3, <2>3, <3>1
      <4> QED BY <4>1 DEF Watched
    <3>2. CASE c \notin Known(d)
      <4>1. data'[d].client = data[d].client /\ Known(d)' = Known(d) BY <1>3, <2>2, <2>3, <3>2
      <4> QED BY <2>4, <4>1 DEF DataOK, Watched
    <3> QED BY <3>1, <3>2
  <2>8. Single(d)'
    <3> SUFFICES ASSUME d \notin overlapped PROVE Single(d)' BY <1>1 DEF Single
    <3>1. CASE c \in Known(d)
      <4>1. data[d].client = c /\ Known(d) \subseteq {c} BY <2>4, <3>1 DEF DataOK, Single
      <4>2. c # None BY ClientCacheAssumption
      <4>3. Connecting(d)' = {} BY <2>1, <2>4, <4>1, <4>2 DEF DataOK, Single
      <4>4. Known(d)' = {} BY <2>2, <4>1
      <4> QED BY <4>3, <4>4 DEF Single
    <3>2. CASE c \notin Known(d)
      <4>1. data'[d].client = data[d].client /\ Known(d)' = Known(d) BY <1>3, <2>2, <2>3, <3>2
      <4>2. data'[d].queue = data[d].queue BY <1>3
      <4> QED BY <2>1, <2>4, <4>1, <4>2 DEF DataOK, Single
    <3> QED BY <3>1, <3>2
  <2> QED BY <2>5, <2>6, <2>7, <2>8 DEF DataOK
<1>5. data' \in [Datas -> DataRec] BY <1>1, <1>3
<1>6. Types' BY <1>1, <1>2, <1>5 DEF CacheInv, Types
<1>7. Stages' BY <1>1 DEF CacheInv, Stages
<1>8. Made' BY <1>1, <1>2 DEF CacheInv, Made
<1> QED BY <1>4, <1>6, <1>7, <1>8 DEF CacheInv

\* The reference of the handlers goes with the client.
LEMMA CacheFinalized ==
  ASSUME CacheInv, NEW c \in Clients, NEW d \in Datas, Finalized(c, d)
  PROVE  CacheInv'
<1>1. /\ <<c, d>> \in handlers /\ data[d].client # c
      /\ handlers' = handlers \ {<<c, d>>} /\ Released(d, data[d], 1)
      /\ life' = [life EXCEPT ![c] = "dead"]
      /\ UNCHANGED <<entry, at, of, conns, overlapped>>
  BY DEF Finalized
<1>2. /\ life' \in [Clients -> {"unmade", "connected", "dead"}]
      /\ \A e \in Clients : life'[e] = IF e = c THEN "dead" ELSE life[e]
  BY <1>1 DEF CacheInv, Types
<1>3. DataOK(d) /\ data[d] \in DataRec BY DEF CacheInv, Types
<1>4. \A b \in Datas : b # d => <<c, b>> \notin handlers BY <1>1 DEF CacheInv, Made
<1>5. /\ Known(d)' = Known(d) \ {c}
      /\ \A b \in Datas : b # d => Known(b)' = Known(b)
  BY <1>1, <1>2, <1>4 DEF Known
<1>6. \A b \in Datas : /\ Holders(b)' = Holders(b)
                       /\ Serving(b)' = Serving(b)
                       /\ Connecting(b)' = Connecting(b)
  BY <1>1 DEF Holders, Serving, Connecting
<1>7. /\ IsFiniteSet(Holders(d))' /\ IsFiniteSet(HandlersOf(d))'
      /\ data[d].refs = Due(d)' + 1 /\ data[d].state = "live"
  <2> SUFFICES ASSUME NEW h, h = <<c, d>>
               PROVE  /\ IsFiniteSet(Holders(d))' /\ IsFiniteSet(HandlersOf(d))'
                      /\ data[d].refs = Due(d)' + 1 /\ data[d].state = "live"
    OBVIOUS
  <2>1. h \in HandlersOf(d) /\ HandlersOf(d)' = HandlersOf(d) \ {h} BY <1>1 DEF HandlersOf
  <2>2. Holders(d)' = Holders(d) /\ entry' = entry BY <1>1, <1>6
  <2>3. /\ IsFiniteSet(Holders(d)) /\ IsFiniteSet(HandlersOf(d)) /\ data[d].refs = Due(d)
    BY <1>3 DEF DataOK, Exact
  <2>4. /\ IsFiniteSet(Holders(d))' /\ IsFiniteSet(HandlersOf(d))'
        /\ Due(d) = Due(d)' + 1 /\ Due(d)' \in Nat
    BY <2>1, <2>2, <2>3, DueLess
  <2>5. data[d].refs > 0 BY <2>3, <2>4
  <2> QED BY <1>3, <2>3, <2>4, <2>5 DEF DataOK, Exact
<1>8. DataOK(d)' /\ data' \in [Datas -> DataRec]
  <2>1. Types /\ 1 \in Nat BY DEF CacheInv
  <2>2. data[d].queue # {} => Serving(d)' # {} BY <1>3, <1>6 DEF DataOK, Served
  <2>3. data[d].client # None => data[d].client \in Known(d)'
    BY <1>1, <1>3, <1>5 DEF DataOK, Watched
  <2>4. d \notin overlapped' =>
          /\ Known(d)' \subseteq {data[d].client}
          /\ Connecting(d)' # {} => data[d].client = None
          /\ \A q, s \in Connecting(d)' : q = s
    BY <1>1, <1>3, <1>5, <1>6 DEF DataOK, Single
  <2> QED BY <1>1, <1>3, <1>7, <2>1, <2>2, <2>3, <2>4, ReleasedOK
<1>9. ASSUME NEW b \in Datas, b # d PROVE DataOK(b)'
  <2>1. HandlersOf(b)' = HandlersOf(b) BY <1>1, <1>9 DEF HandlersOf
  <2>2. data'[b] = data[b] /\ DataOK(b) BY <1>1, <1>9 DEF Released, CacheInv, Types
  <2> QED BY <1>1, <1>5, <1>6, <1>9, <2>1, <2>2, Untouched
<1>10. Types' BY <1>1, <1>2, <1>8 DEF CacheInv, Types
<1>11. Stages' BY <1>1 DEF CacheInv, Stages
<1>12. Made' BY <1>1, <1>2 DEF CacheInv, Made
<1> QED BY <1>8, <1>9, <1>10, <1>11, <1>12 DEF CacheInv

-----------------------------------------------------------------------------
(* The invariant.                                                          *)

LEMMA InitCache == Init => CacheInv
<1> SUFFICES ASSUME Init PROVE CacheInv OBVIOUS
<1>1. Unused \in DataRec /\ Unused.refs = 0 /\ Unused.state = "unused"
      /\ Unused.queue = {} /\ Unused.client = None
  BY DEF Unused, DataRec
<1>2. \A d \in Datas : data[d] = Unused BY DEF Init
<1>3. ASSUME NEW d \in Datas PROVE DataOK(d)
  <2>1. Holders(d) = {} /\ HandlersOf(d) = {} /\ Known(d) = {} /\ Serving(d) = {}
        /\ Connecting(d) = {}
    BY DEF Init, Holders, HandlersOf, Known, Serving, Connecting
  <2>2. entry # d BY ClientCacheAssumption DEF Init
  <2>3. /\ IsFiniteSet(Holders(d)) /\ IsFiniteSet(HandlersOf(d)) /\ Due(d) = 0
    BY <2>1, <2>2, FS_EmptySet DEF Due
  <2>4. Exact(d) BY <1>1, <1>2, <2>3 DEF Exact
  <2>5. Served(d) /\ Watched(d) /\ Single(d)
    BY <1>1, <1>2, <2>1 DEF Served, Watched, Single
  <2> QED BY <2>4, <2>5 DEF DataOK
<1>4. Types BY <1>1 DEF Init, Types
<1>5. Stages BY DEF Init, Stages
<1>6. Made BY DEF Init, Made
<1> QED BY <1>3, <1>4, <1>5, <1>6 DEF CacheInv

LEMMA CacheStep ==
  ASSUME CacheInv, [Next]_vars
  PROVE  CacheInv'
<1>1. CASE UNCHANGED vars
  <2>1. UNCHANGED <<entry, data, at, of, conns, handlers, life, overlapped>> BY <1>1 DEF vars
  <2>2. ASSUME NEW d \in Datas PROVE DataOK(d)'
    <3>1. /\ Holders(d)' = Holders(d)
          /\ Serving(d)' = Serving(d)
          /\ Connecting(d)' = Connecting(d)
          /\ HandlersOf(d)' = HandlersOf(d) /\ Known(d)' = Known(d)
      BY <2>1 DEF Holders, Serving, Connecting, HandlersOf, Known
    <3> QED BY <2>1, <3>1, Untouched DEF CacheInv
  <2> QED BY <2>1, <2>2 DEF CacheInv, Types, Stages, Made
<1>2. ASSUME NEW r \in Reqs, GetClient(r) \/ GetClientSync(r) PROVE CacheInv'
  BY <1>2, CacheLookup DEF GetClient, GetClientSync
<1>3. ASSUME NEW r \in Reqs, Steps(r) PROVE CacheInv'
  BY <1>3, CacheCached, CacheEnqueue, CacheConnect, CacheConnectSync,
     CacheConnectDone, CacheConnectSyncDone
  DEF Steps
<1>4. CASE SourceGone BY <1>4, CacheSourceGone
<1>5. ASSUME NEW c \in Clients, BackendDies(c) PROVE CacheInv' BY <1>5, CacheBackendDies
<1>6. ASSUME NEW c \in Clients, NEW d \in Datas, Finalized(c, d) PROVE CacheInv'
  BY <1>6, CacheFinalized
<1> QED BY <1>1, <1>2, <1>3, <1>4, <1>5, <1>6 DEF Next

LEMMA CacheInvHolds == Spec => []CacheInv
<1>1. Init => CacheInv BY InitCache
<1>2. CacheInv /\ [Next]_vars => CacheInv' BY CacheStep
<1> QED BY <1>1, <1>2, PTL DEF Spec

\* client_data_unref, client_ht_lookup and the signal closures: the references
\* of a record are those of the hash table, of the threads and connections
\* that work with it and of the handlers, at every moment; it is freed with
\* the last of them, and leaves no request waiting.
THEOREM ReferencesExact == Spec => []RefsExact
<1>1. ASSUME CacheInv PROVE RefsExact
  <2> SUFFICES ASSUME NEW d \in Datas
               PROVE  /\ data[d].refs = Cardinality(Holders(d)) + (IF entry = d THEN 1 ELSE 0)
                                          + Cardinality({h \in handlers : h[2] = d})
                      /\ data[d].state = "live" <=> data[d].refs > 0
                      /\ data[d].state = "freed" => data[d].queue = {}
    BY DEF RefsExact
  <2>1. DataOK(d) /\ data[d] \in DataRec BY <1>1 DEF CacheInv, Types
  <2>2. data[d].refs = Due(d) /\ (data[d].state = "live" <=> data[d].refs > 0)
    BY <2>1 DEF DataOK, Exact
  <2>3. ASSUME data[d].state = "freed" PROVE data[d].queue = {}
    <3>1. data[d].refs \in Nat BY <2>1 DEF DataRec
    <3>2. Due(d) = 0 BY <2>2, <2>3, <3>1
    <3>3. Holders(d) = {} BY <2>1, <3>2, DueFacts DEF DataOK, Exact
    <3> QED BY <2>1, <3>3, Parts DEF DataOK, Served
  <2> QED BY <2>2, <2>3 DEF Due, HandlersOf
<1> QED BY <1>1, CacheInvHolds, PTL

\* client_cache_process_results and client_cache_backend_died_cb: a client
\* that is handed out of the cache lives and is watched; there is no second one
\* beside it, unless one connection began while another was under way.
THEOREM ClientIsShared == Spec => []Shared
<1>1. ASSUME CacheInv PROVE Shared
  <2> SUFFICES ASSUME NEW d \in Datas
               PROVE  /\ data[d].client # None => data[d].client \in Known(d)
                      /\ Cardinality(Known(d)) <= 1 \/ d \in overlapped
    BY DEF Shared, Known
  <2>1. DataOK(d) BY <1>1 DEF CacheInv
  <2>2. data[d].client # None => data[d].client \in Known(d) BY <2>1 DEF DataOK, Watched
  <2>3. ASSUME d \notin overlapped PROVE Cardinality(Known(d)) <= 1
    <3> SUFFICES ASSUME NEW c, c = data[d].client PROVE Cardinality(Known(d)) <= 1 OBVIOUS
    <3>1. Known(d) = {} \/ Known(d) = {c} BY <2>1, <2>3 DEF DataOK, Single
    <3>2. Cardinality({}) = 0 /\ Cardinality({c}) = 1 BY FS_EmptySet, FS_Singleton
    <3> QED BY <3>1, <3>2
  <2> QED BY <2>2, <2>3
<1> QED BY <1>1, CacheInvHolds, PTL
=============================================================================
