------------------------- MODULE PublicCache_proofs -------------------------
(***************************************************************************)
(* Proofs about the runtime caches, for every number of processes, maps,   *)
(* keys, readers and administrators, and any lifetimes and limits.         *)
(***************************************************************************)
EXTENDS PublicCache, FiniteSetTheorems, TLAPS

(* A reader about to store an answer the database no longer gives is one of *)
(* those that make its process suspect of the key.                          *)
ReadersOK ==
  \A r \in Readers :
    fetch[r].stage = "read" /\ fetch[r].value # db[fetch[r].key] =>
      <<HomeOf[r], fetch[r].key>> \in suspect

CacheInv == TypeOK /\ AgeKnown /\ ReadersOK /\ OwnChangeVisible /\ BoundedSize

-----------------------------------------------------------------------------
(* The parts of the state.                                                  *)

(* Every answer has a lifetime, and none is longer than both together.      *)
LEMMA Lifetimes ==
  ASSUME NEW k \in Keys, NEW v \in Values
  PROVE  TTL(k, v) \in 1..(FoundTTL + MissTTL)
  BY CacheAssumption DEF CacheAssumption, TTL

(* The ages that are told apart are numbers.                                *)
LEMMA HorizonIsNat == Horizon \in Nat
  BY CacheAssumption DEF CacheAssumption, Horizon

(* The fields of a request at each of its stages.                           *)
LEMMA FetchKinds ==
  ASSUME TypeOK, NEW r \in Readers
  PROVE  /\ HomeOf[r] \in Procs
         /\ fetch[r].stage = "missed" => fetch[r].key \in Keys
         /\ fetch[r].stage = "read" =>
              fetch[r].key \in Keys /\ fetch[r].value \in Values /\ fetch[r].age \in 0..MaxDelay
         /\ fetch[r].stage \in {"idle", "missed", "read"}
  BY CacheAssumption DEF CacheAssumption, TypeOK, Fetches, Idle

(* The fields of an entry.                                                  *)
LEMMA EntryParts ==
  ASSUME TypeOK, NEW p \in Procs, NEW k \in Keys, NEW x \in cache[p][k]
  PROVE  x \in Entry /\ x.value \in Values /\ x.left \in 0..(FoundTTL + MissTTL)
  BY DEF TypeOK, Entry

(* Time shortens what is left of an entry, and changes nothing else of it.  *)
LEMMA OlderEntry ==
  ASSUME NEW x \in Entry
  PROVE  /\ Older(x) \in Entry /\ Older(x).value = x.value
         /\ Older(x).left = IF x.left = 0 THEN 0 ELSE x.left - 1
  BY CacheAssumption DEF CacheAssumption, Entry, Older

(* What a put leaves in the caches of its process.                          *)
LEMMA PutEffect ==
  ASSUME TypeOK, NEW r \in Readers, Put(r)
  PROVE  LET p == HomeOf[r]  k == fetch[r].key  v == fetch[r].value IN
         /\ p \in Procs /\ k \in Keys /\ v \in Values /\ fetch[r].age \in 0..MaxDelay
         /\ cache'[p][k] = {NewEntry(k, v)} /\ NewEntry(k, v) \in Entry
         /\ NewEntry(k, v).value = v /\ NewEntry(k, v).left = TTL(k, v)
         /\ \A j \in Keys \ {k} : cache'[p][j] \subseteq cache[p][j]
         /\ \A q \in Procs \ {p} : cache'[q] = cache[q]
         /\ cache' = [cache EXCEPT ![p] = Inserted(p, k, v)]
         /\ fetch' = [fetch EXCEPT ![r] = Idle]
<1> DEFINE p == HomeOf[r]
           k == fetch[r].key
           v == fetch[r].value
<1>1. p \in Procs /\ k \in Keys /\ v \in Values /\ fetch[r].age \in 0..MaxDelay
  BY FetchKinds DEF Put
<1>2. cache' = [cache EXCEPT ![p] = Inserted(p, k, v)]
  BY DEF Put
<1>3. cache'[p] = Inserted(p, k, v) /\ \A q \in Procs \ {p} : cache'[q] = cache[q]
  BY <1>1, <1>2 DEF TypeOK
<1>4. NewEntry(k, v) \in Entry /\ NewEntry(k, v).value = v /\ NewEntry(k, v).left = TTL(k, v)
  BY <1>1, Lifetimes DEF NewEntry, Entry
<1>5. \A j \in Keys : Inserted(p, k, v)[j] =
        IF j = k THEN {NewEntry(k, v)}
        ELSE IF CacheOf[j] # CacheOf[k] THEN cache[p][j]
        ELSE IF Full(p, CacheOf[k]) THEN {} ELSE Servable(p, j)
  BY DEF Inserted
<1>6. \A j \in Keys \ {k} : cache'[p][j] \subseteq cache[p][j]
  BY <1>3, <1>5 DEF Servable
<1>7. QED
  BY <1>1, <1>2, <1>3, <1>4, <1>5, <1>6 DEF Put

(* What a tick leaves of an entry.                                          *)
LEMMA TickEffect ==
  ASSUME TypeOK, Tick, NEW p \in Procs, NEW k \in Keys
  PROVE  cache'[p][k] = {Older(x) : x \in cache[p][k]}
  BY DEF Tick

(* A lookup, a clear and a restart only take entries away.                  *)
EntriesFade == \A p \in Procs, k \in Keys : cache'[p][k] \subseteq cache[p][k]

(* A look-up stores nothing.                                                *)
LEMMA LookupFades ==
  ASSUME TypeOK, NEW r \in Readers, NEW k \in Keys, Lookup(r, k)
  PROVE  EntriesFade /\ cache' \in [Procs -> [Keys -> SUBSET Entry]]
<1>1. CASE UNCHANGED cache
  BY <1>1 DEF TypeOK, EntriesFade
<1>2. CASE cache' = [cache EXCEPT ![HomeOf[r]][k] = {}]
  BY <1>2, FetchKinds DEF TypeOK, EntriesFade
<1>3. QED
  BY <1>1, <1>2 DEF Lookup, Hit, Miss

(* Clearing empties one map of one process.                                 *)
LEMMA ClearFades ==
  ASSUME TypeOK, NEW a \in Admins, Clear(a)
  PROVE  /\ EntriesFade /\ cache' \in [Procs -> [Keys -> SUBSET Entry]]
         /\ \E c : /\ clearing' = [clearing EXCEPT ![a] = @ \ {c}]
                   /\ \A k \in Keys : CacheOf[k] = c => cache'[HomeOf[a]][k] = {}
                   /\ suspect' = suspect \ Trusted(HomeOf[a], KeysOf(c))
<1> DEFINE c == CHOOSE i \in clearing[a] : \A j \in clearing[a] : i <= j
           emptied == [k \in Keys |-> IF CacheOf[k] = c THEN {} ELSE cache[HomeOf[a]][k]]
<1>1. HomeOf[a] \in Procs
  BY CacheAssumption DEF CacheAssumption
<1>2. /\ clearing' = [clearing EXCEPT ![a] = @ \ {c}] /\ cache' = [cache EXCEPT ![HomeOf[a]] = emptied]
      /\ suspect' = suspect \ Trusted(HomeOf[a], KeysOf(c))
  BY DEF Clear
<1> HIDE DEF c
<1>3. cache'[HomeOf[a]] = emptied /\ \A p \in Procs \ {HomeOf[a]} : cache'[p] = cache[p]
  BY <1>1, <1>2 DEF TypeOK
<1>4. emptied \in [Keys -> SUBSET Entry]
  BY <1>1 DEF TypeOK
<1>5. EntriesFade /\ cache' \in [Procs -> [Keys -> SUBSET Entry]]
  BY <1>1, <1>2, <1>3, <1>4 DEF TypeOK, EntriesFade
<1>6. \A k \in Keys : CacheOf[k] = c => cache'[HomeOf[a]][k] = {}
  BY <1>3
<1>7. QED
  BY <1>2, <1>5, <1>6

(* A restart empties all maps of its process.                               *)
LEMMA RestartFades ==
  ASSUME TypeOK, NEW p \in Procs, Restart(p)
  PROVE  EntriesFade /\ cache' \in [Procs -> [Keys -> SUBSET Entry]]
  BY DEF TypeOK, EntriesFade, Restart

(* No step but a put and a tick leaves an entry that was not there.         *)
LEMMA OthersFade ==
  ASSUME TypeOK, Next, \A r \in Readers : ~Put(r), ~Tick
  PROVE  EntriesFade /\ cache' \in [Procs -> [Keys -> SUBSET Entry]]
<1>1. ASSUME NEW r \in Readers, Read(r) \/ GiveUp(r)
      PROVE  EntriesFade /\ cache' \in [Procs -> [Keys -> SUBSET Entry]]
  BY <1>1 DEF Read, GiveUp, TypeOK, EntriesFade
<1>2. ASSUME NEW a \in Admins, NEW k \in Keys, Change(a, k)
      PROVE  EntriesFade /\ cache' \in [Procs -> [Keys -> SUBSET Entry]]
  BY <1>2 DEF Change, TypeOK, EntriesFade
<1>3. ASSUME NEW a \in Admins, Unheard(a)
      PROVE  EntriesFade /\ cache' \in [Procs -> [Keys -> SUBSET Entry]]
  BY <1>3 DEF Unheard, TypeOK, EntriesFade
<1>4. QED
  BY <1>1, <1>2, <1>3, LookupFades, ClearFades, RestartFades DEF Next, Serve

-----------------------------------------------------------------------------
(* Types.                                                                   *)

(* The maps are empty at the start.                                         *)
LEMMA InitInv == Init => CacheInv
<1> SUFFICES ASSUME Init PROVE CacheInv
  OBVIOUS
<1>1. TypeOK
  <2>1. gone \in [Keys -> [Values -> 0..Horizon]]
    BY HorizonIsNat DEF Init
  <2>2. QED
    BY <2>1, CacheAssumption DEF CacheAssumption, Init, TypeOK, Fetches
<1>2. AgeKnown /\ ReadersOK /\ OwnChangeVisible
  BY DEF Init, AgeKnown, ReadersOK, OwnChangeVisible, Servable, Idle
<1>3. BoundedSize
  <2>1. ASSUME NEW p \in Procs, NEW c \in 1..NumCaches PROVE Stored(p, c) = {}
    BY DEF Init, Stored, KeysOf
  <2>2. QED
    BY <2>1, FS_EmptySet, CacheAssumption DEF CacheAssumption, BoundedSize
<1>4. QED
  BY <1>1, <1>2, <1>3 DEF CacheInv

(* The caches of one process hold at most one entry of a key, and only      *)
(* entries.                                                                 *)
LEMMA CacheTyped ==
  ASSUME TypeOK, Next
  PROVE  /\ cache' \in [Procs -> [Keys -> SUBSET Entry]]
         /\ \A p \in Procs, k \in Keys : \A x, y \in cache'[p][k] : x = y
<1>1. ASSUME NEW r \in Readers, Put(r)
      PROVE  /\ cache' \in [Procs -> [Keys -> SUBSET Entry]]
             /\ \A p \in Procs, k \in Keys : \A x, y \in cache'[p][k] : x = y
  <2> DEFINE p == HomeOf[r]
             k == fetch[r].key
             v == fetch[r].value
  <2>1. /\ p \in Procs /\ k \in Keys
        /\ cache'[p][k] = {NewEntry(k, v)} /\ NewEntry(k, v) \in Entry
        /\ \A j \in Keys \ {k} : cache'[p][j] \subseteq cache[p][j]
        /\ \A q \in Procs \ {p} : cache'[q] = cache[q]
        /\ cache' = [cache EXCEPT ![p] = Inserted(p, k, v)]
    BY <1>1, PutEffect
  <2>2. Inserted(p, k, v) = cache'[p]
    BY <2>1 DEF TypeOK
  <2>3. \A j \in Keys : cache'[p][j] \subseteq Entry
    BY <2>1 DEF TypeOK
  <2>4. Inserted(p, k, v) \in [Keys -> SUBSET Entry]
    <3>1. DOMAIN Inserted(p, k, v) = Keys /\ Inserted(p, k, v) = [j \in Keys |-> Inserted(p, k, v)[j]]
      BY DEF Inserted
    <3>2. QED
      BY <2>2, <2>3, <3>1
  <2>5. cache' \in [Procs -> [Keys -> SUBSET Entry]]
    BY <2>1, <2>4 DEF TypeOK
  <2>6. \A q \in Procs, j \in Keys : cache'[q][j] = {NewEntry(k, v)} \/ cache'[q][j] \subseteq cache[q][j]
    BY <2>1
  <2>7. QED
    BY <2>5, <2>6 DEF TypeOK
<1>2. CASE Tick
  <2>1. \A p \in Procs, k \in Keys : cache'[p][k] \subseteq Entry
    BY <1>2, TickEffect, EntryParts, OlderEntry
  <2>2. \A p \in Procs, k \in Keys : \A x, y \in cache'[p][k] : x = y
    BY <1>2, TickEffect DEF TypeOK
  <2>3. cache' \in [Procs -> [Keys -> SUBSET Entry]]
    BY <1>2, <2>1 DEF Tick
  <2>4. QED
    BY <2>2, <2>3
<1>3. CASE (\A r \in Readers : ~Put(r)) /\ ~Tick
  BY <1>3, OthersFade DEF TypeOK, EntriesFade
<1>4. QED
  BY <1>1, <1>2, <1>3

(* Each step keeps the types.                                               *)
LEMMA StepTypeOK ==
  ASSUME TypeOK, Next
  PROVE  TypeOK'
<1>1. ASSUME NEW r \in Readers, NEW k \in Keys, Lookup(r, k)
      PROVE  TypeOK'
  BY <1>1, CacheTyped DEF TypeOK, Lookup, Fetches
<1>2. ASSUME NEW r \in Readers, Read(r)
      PROVE  TypeOK'
  <2>1. fetch[r].key \in Keys /\ db[fetch[r].key] \in Values /\ 0 \in 0..MaxDelay
    BY <1>2, FetchKinds, CacheAssumption DEF Read, TypeOK, CacheAssumption
  <2>2. fetch' \in [Readers -> Fetches]
    BY <1>2, <2>1 DEF Read, TypeOK, Fetches
  <2>3. QED
    BY <1>2, <2>2, CacheTyped DEF TypeOK, Read
<1>3. ASSUME NEW r \in Readers, Put(r) \/ GiveUp(r)
      PROVE  TypeOK'
  BY <1>3, CacheTyped DEF TypeOK, Put, GiveUp, Fetches
<1>4. ASSUME NEW a \in Admins, Clear(a)
      PROVE  TypeOK'
  BY <1>4, CacheTyped DEF TypeOK, Clear
<1>5. ASSUME NEW a \in Admins, NEW k \in Keys, Change(a, k)
      PROVE  TypeOK'
  <2>1. PICK v \in Values : db' = [db EXCEPT ![k] = v] /\ gone' = [gone EXCEPT ![k][v] = 0]
    BY <1>5 DEF Change
  <2>2. db' \in [Keys -> Values] /\ gone' \in [Keys -> [Values -> 0..Horizon]]
    BY <2>1, HorizonIsNat DEF TypeOK
  <2>3. suspect' \in SUBSET (Procs \X Keys)
    BY <1>5 DEF Change, TypeOK, Unaware
  <2>4. changes' \in 0..MaxChanges /\ clearing' \in [Admins -> SUBSET (1..NumCaches)]
    BY <1>5, CacheAssumption DEF Change, TypeOK, CacheAssumption
  <2>5. QED
    BY <1>5, <2>2, <2>3, <2>4, CacheTyped DEF TypeOK, Change
<1>6. ASSUME NEW p \in Procs, Restart(p)
      PROVE  TypeOK'
  BY <1>6, CacheTyped DEF TypeOK, Restart, Fetches
<1>7. CASE Tick
  <2>1. ASSUME NEW r \in Readers
        PROVE  (IF fetch[r].stage = "read" THEN [fetch[r] EXCEPT !.age = @ + 1] ELSE fetch[r]) \in Fetches
    <3>1. CASE fetch[r].stage = "read"
      <4>1. fetch[r] \in [stage : {"read"}, key : Keys, value : Values, age : 0..MaxDelay]
        BY <3>1 DEF TypeOK, Fetches, Idle
      <4>2. fetch[r].age + 1 \in 0..MaxDelay
        BY <1>7, <3>1, <4>1, CacheAssumption DEF Tick, CacheAssumption
      <4>3. QED
        BY <3>1, <4>1, <4>2 DEF Fetches
    <3>2. CASE fetch[r].stage # "read"
      BY <3>2 DEF TypeOK
    <3>3. QED
      BY <3>1, <3>2
  <2>2. fetch' \in [Readers -> Fetches]
    BY <1>7, <2>1 DEF Tick
  <2>3. gone' \in [Keys -> [Values -> 0..Horizon]]
    <3>1. \A k \in Keys, v \in Values : gone[k][v] \in 0..Horizon
      BY DEF TypeOK
    <3>2. \A k \in Keys, v \in Values :
            (IF v = db[k] THEN 0 ELSE IF gone[k][v] = Horizon THEN Horizon ELSE gone[k][v] + 1) \in 0..Horizon
      BY <3>1, HorizonIsNat
    <3>3. QED
      BY <1>7, <3>2 DEF Tick
  <2>4. QED
    BY <1>7, <2>2, <2>3, CacheTyped DEF TypeOK, Tick
<1>8. ASSUME NEW a \in Admins, Unheard(a)
      PROVE  TypeOK'
  <2>1. HomeOf[a] \in Procs
    BY CacheAssumption DEF CacheAssumption
  <2>2. suspect' \in SUBSET (Procs \X Keys) /\ clearing' \in [Admins -> SUBSET (1..NumCaches)]
    BY <1>8, <2>1 DEF Unheard, TypeOK
  <2>3. QED
    BY <1>8, <2>2, CacheTyped DEF TypeOK, Unheard
<1>9. QED
  BY <1>1, <1>2, <1>3, <1>4, <1>5, <1>6, <1>7, <1>8 DEF Next, Serve

-----------------------------------------------------------------------------
(* The age of what is stored.                                               *)

(* A put stores an answer no older than its query, with a full lifetime; a  *)
(* tick takes from the lifetime what it adds to the age.                    *)
LEMMA StepAgeKnown ==
  ASSUME TypeOK, AgeKnown, Next
  PROVE  AgeKnown'
<1> DEFINE Aged(p, k, x) == gone[k][x.value] + x.left <= TTL(k, x.value) + MaxDelay \/ x.left = 0
<1>0. /\ \A p \in Procs, k \in Keys : \A x \in cache[p][k] : Aged(p, k, x)
      /\ \A r \in Readers : fetch[r].stage = "read" =>
           gone[fetch[r].key][fetch[r].value] <= fetch[r].age
      /\ \A k \in Keys : gone[k][db[k]] = 0
  BY DEF AgeKnown
<1>a. /\ \A k \in Keys, v \in Values : gone[k][v] \in Nat /\ TTL(k, v) \in Nat
      /\ \A k \in Keys : db[k] \in Values
  BY HorizonIsNat, Lifetimes, CacheAssumption DEF TypeOK, CacheAssumption
<1>b. MaxDelay \in Nat
  BY CacheAssumption DEF CacheAssumption
<1>1. ASSUME UNCHANGED <<gone, db>>, EntriesFade,
             \A r \in Readers : fetch'[r] = fetch[r] \/ fetch'[r].stage # "read"
      PROVE  AgeKnown'
  BY <1>1, <1>0 DEF AgeKnown, EntriesFade, TTL
<1>2. ASSUME NEW r \in Readers, NEW k \in Keys, Lookup(r, k)
      PROVE  AgeKnown'
  <2>1. \A q \in Readers : fetch'[q] = fetch[q] \/ fetch'[q].stage # "read"
    BY <1>2 DEF Lookup, TypeOK
  <2>2. QED
    BY <1>1, <1>2, <2>1, LookupFades DEF Lookup
<1>3. ASSUME NEW r \in Readers, Read(r)
      PROVE  AgeKnown'
  <2>1. /\ fetch'[r].key \in Keys /\ fetch'[r].value = db[fetch'[r].key] /\ fetch'[r].age = 0
        /\ \A q \in Readers \ {r} : fetch'[q] = fetch[q]
    BY <1>3, FetchKinds DEF Read, TypeOK
  <2>2. \A q \in Readers : fetch'[q].stage = "read" =>
           gone[fetch'[q].key][fetch'[q].value] <= fetch'[q].age
    BY <1>0, <2>1
  <2>3. QED
    BY <1>3, <1>0, <2>2 DEF AgeKnown, Read, TTL
<1>4. ASSUME NEW r \in Readers, Put(r)
      PROVE  AgeKnown'
  <2> DEFINE p == HomeOf[r]
             k == fetch[r].key
             v == fetch[r].value
  <2>1. /\ p \in Procs /\ k \in Keys /\ v \in Values /\ fetch[r].age \in 0..MaxDelay
        /\ cache'[p][k] = {NewEntry(k, v)}
        /\ NewEntry(k, v).value = v /\ NewEntry(k, v).left = TTL(k, v)
        /\ \A j \in Keys \ {k} : cache'[p][j] \subseteq cache[p][j]
        /\ \A q \in Procs \ {p} : cache'[q] = cache[q]
    BY <1>4, PutEffect
  <2>2. gone[k][v] <= MaxDelay
    BY <1>4, <1>0, <1>a, <1>b, <2>1 DEF Put
  <2>3. Aged(p, k, NewEntry(k, v))
    BY <1>a, <1>b, <2>1, <2>2
  <2>4. \A q \in Procs, j \in Keys : \A x \in cache'[q][j] : Aged(q, j, x)
    BY <1>0, <2>1, <2>3
  <2>5. \A q \in Readers : fetch'[q] = fetch[q] \/ fetch'[q].stage # "read"
    BY <1>4 DEF Put, TypeOK, Idle
  <2>6. QED
    BY <1>4, <1>0, <2>4, <2>5 DEF AgeKnown, Put, TTL
<1>5. ASSUME NEW r \in Readers, GiveUp(r)
      PROVE  AgeKnown'
  <2>1. \A q \in Readers : fetch'[q] = fetch[q] \/ fetch'[q].stage # "read"
    BY <1>5 DEF GiveUp, TypeOK, Idle
  <2>2. QED
    BY <1>1, <1>5, <2>1 DEF GiveUp, EntriesFade
<1>6. ASSUME NEW a \in Admins, Clear(a)
      PROVE  AgeKnown'
  BY <1>1, <1>6, ClearFades DEF Clear
<1>7. ASSUME NEW a \in Admins, NEW k \in Keys, Change(a, k)
      PROVE  AgeKnown'
  <2>1. PICK v \in Values : db' = [db EXCEPT ![k] = v] /\ gone' = [gone EXCEPT ![k][v] = 0]
    BY <1>7 DEF Change
  <2>2. \A j \in Keys, w \in Values : gone'[j][w] = gone[j][w] \/ gone'[j][w] = 0
    BY <2>1 DEF TypeOK
  <2>3. \A j \in Keys : gone'[j][db'[j]] = 0
    <3>1. db'[k] = v /\ \A j \in Keys \ {k} : db'[j] = db[j] /\ gone'[j] = gone[j]
      BY <2>1 DEF TypeOK
    <3>2. gone'[k][v] = 0
      BY <2>1 DEF TypeOK
    <3>3. QED
      BY <3>1, <3>2, <1>0
  <2>4. ASSUME NEW p \in Procs, NEW j \in Keys, NEW x \in cache[p][j]
        PROVE  gone'[j][x.value] + x.left <= TTL(j, x.value) + MaxDelay \/ x.left = 0
    <3>1. x.value \in Values /\ x.left \in 0..(FoundTTL + MissTTL)
      BY EntryParts
    <3>2. gone'[j][x.value] = gone[j][x.value] \/ gone'[j][x.value] = 0
      BY <2>2, <3>1
    <3>3. x.left \in Nat /\ gone[j][x.value] \in Nat /\ TTL(j, x.value) \in Nat /\ Aged(p, j, x)
      BY <1>0, <1>a, <3>1, CacheAssumption DEF CacheAssumption
    <3>4. QED
      BY <1>b, <3>2, <3>3
  <2>5. ASSUME NEW r \in Readers, fetch[r].stage = "read"
        PROVE  gone'[fetch[r].key][fetch[r].value] <= fetch[r].age
    <3>1. fetch[r].key \in Keys /\ fetch[r].value \in Values /\ fetch[r].age \in 0..MaxDelay
      BY <2>5, FetchKinds
    <3>2. QED
      BY <1>0, <1>b, <2>2, <2>5, <3>1
  <2>6. QED
    BY <1>7, <2>3, <2>4, <2>5 DEF AgeKnown, Change, TTL
<1>8. ASSUME NEW p \in Procs, Restart(p)
      PROVE  AgeKnown'
  <2>1. \A q \in Readers : fetch'[q] = fetch[q] \/ fetch'[q].stage # "read"
    BY <1>8 DEF Restart, Idle
  <2>2. QED
    BY <1>1, <1>8, <2>1, RestartFades DEF Restart
<1>9. CASE Tick
  <2>1. \A k \in Keys, v \in Values :
          /\ gone'[k][v] <= gone[k][v] + 1
          /\ v = db[k] => gone'[k][v] = 0
          /\ gone'[k][v] \in Nat
    <3>1. \A k \in Keys, v \in Values : gone'[k][v] =
            IF v = db[k] THEN 0 ELSE IF gone[k][v] = Horizon THEN Horizon ELSE gone[k][v] + 1
      BY <1>9 DEF Tick
    <3>2. QED
      BY <3>1, <1>a, HorizonIsNat
  <2>2. ASSUME NEW p \in Procs, NEW k \in Keys, NEW y \in cache'[p][k]
        PROVE  gone'[k][y.value] + y.left <= TTL(k, y.value) + MaxDelay \/ y.left = 0
    <3>1. PICK x \in cache[p][k] : y = Older(x)
      BY <1>9, <2>2, TickEffect
    <3>2. x \in Entry /\ x.value \in Values /\ x.left \in 0..(FoundTTL + MissTTL)
      BY EntryParts
    <3>3. y.value = x.value /\ y.left = IF x.left = 0 THEN 0 ELSE x.left - 1
      BY <3>1, <3>2, OlderEntry
    <3>4. x.left \in Nat /\ gone[k][x.value] \in Nat /\ TTL(k, x.value) \in Nat /\ Aged(p, k, x)
      BY <1>0, <1>a, <3>2, CacheAssumption DEF CacheAssumption
    <3>5. gone'[k][x.value] <= gone[k][x.value] + 1 /\ gone'[k][x.value] \in Nat
      BY <2>1, <3>2
    <3>6. QED
      BY <1>b, <3>3, <3>4, <3>5
  <2>3. ASSUME NEW r \in Readers, fetch'[r].stage = "read"
        PROVE  gone'[fetch'[r].key][fetch'[r].value] <= fetch'[r].age
    <3>1. fetch[r].stage = "read"
      BY <1>9, <2>3 DEF Tick
    <3>2. fetch[r].key \in Keys /\ fetch[r].value \in Values /\ fetch[r].age \in 0..MaxDelay
      BY <3>1, FetchKinds
    <3>3. fetch[r] \in [stage : {"read"}, key : Keys, value : Values, age : 0..MaxDelay]
      BY <3>1 DEF TypeOK, Fetches, Idle
    <3>4. fetch'[r] = [fetch[r] EXCEPT !.age = fetch[r].age + 1]
      BY <1>9, <3>1 DEF Tick
    <3>5. fetch'[r].key = fetch[r].key /\ fetch'[r].value = fetch[r].value /\ fetch'[r].age = fetch[r].age + 1
      BY <3>3, <3>4
    <3>6. gone[fetch[r].key][fetch[r].value] <= fetch[r].age /\ gone[fetch[r].key][fetch[r].value] \in Nat
      BY <1>0, <1>a, <3>1, <3>2
    <3>7. gone'[fetch[r].key][fetch[r].value] <= gone[fetch[r].key][fetch[r].value] + 1
          /\ gone'[fetch[r].key][fetch[r].value] \in Nat
      BY <2>1, <3>2
    <3>8. QED
      BY <1>b, <3>2, <3>5, <3>6, <3>7
  <2>4. QED
    BY <1>9, <1>a, <2>1, <2>2, <2>3 DEF AgeKnown, Tick, TTL
<1>10. ASSUME NEW a \in Admins, Unheard(a)
       PROVE  AgeKnown'
  BY <1>1, <1>10 DEF Unheard, EntriesFade
<1>11. QED
  BY <1>2, <1>3, <1>4, <1>5, <1>6, <1>7, <1>8, <1>9, <1>10 DEF Next, Serve

-----------------------------------------------------------------------------
(* Own changes.                                                             *)

(* A change makes a process suspect while one of its readers is about to    *)
(* store the old answer, and a put lifts the suspicion only when it was the *)
(* last of them.                                                            *)
LEMMA StepReadersOK ==
  ASSUME TypeOK, ReadersOK, Next
  PROVE  ReadersOK'
<1>1. ASSUME UNCHANGED db, suspect \subseteq suspect',
             \A r \in Readers : fetch'[r] = fetch[r] \/ fetch'[r].stage # "read"
      PROVE  ReadersOK'
  BY <1>1 DEF ReadersOK
<1>2. ASSUME NEW r \in Readers, NEW k \in Keys, Lookup(r, k)
      PROVE  ReadersOK'
  <2>1. \A q \in Readers : fetch'[q] = fetch[q] \/ fetch'[q].stage # "read"
    BY <1>2 DEF Lookup, TypeOK
  <2>2. QED
    BY <1>1, <1>2, <2>1 DEF Lookup
<1>3. ASSUME NEW r \in Readers, Read(r)
      PROVE  ReadersOK'
  <2>1. /\ fetch'[r].value = db[fetch'[r].key]
        /\ \A q \in Readers \ {r} : fetch'[q] = fetch[q]
    BY <1>3, FetchKinds DEF Read, TypeOK
  <2>2. QED
    BY <1>3, <2>1 DEF Read, ReadersOK
<1>4. ASSUME NEW r \in Readers, Put(r)
      PROVE  ReadersOK'
  <2>1. fetch'[r].stage # "read" /\ \A q \in Readers \ {r} : fetch'[q] = fetch[q]
    BY <1>4 DEF Put, TypeOK, Idle
  <2>2. ASSUME NEW q \in Readers, fetch'[q].stage = "read", fetch'[q].value # db[fetch'[q].key]
        PROVE  <<HomeOf[q], fetch'[q].key>> \in suspect'
    <3>1. q # r /\ fetch'[q] = fetch[q]
      BY <2>1, <2>2
    <3>2. <<HomeOf[q], fetch[q].key>> \in suspect
      BY <2>2, <3>1 DEF ReadersOK
    <3>3. CASE HomeOf[q] = HomeOf[r] /\ fetch[q].key = fetch[r].key
      <4>1. Outdated(q, HomeOf[r], fetch[r].key)
        BY <2>2, <3>1, <3>3 DEF Outdated
      <4>2. suspect' = suspect
        BY <1>4, <3>1, <4>1 DEF Put
      <4>3. QED
        BY <3>1, <3>2, <4>2
    <3>4. CASE ~(HomeOf[q] = HomeOf[r] /\ fetch[q].key = fetch[r].key)
      <4>1. suspect \ {<<HomeOf[r], fetch[r].key>>} \subseteq suspect'
        BY <1>4 DEF Put
      <4>2. QED
        BY <3>1, <3>2, <3>4, <4>1
    <3>5. QED
      BY <3>3, <3>4
  <2>3. QED
    BY <1>4, <2>2 DEF ReadersOK, Put
<1>5. ASSUME NEW r \in Readers, GiveUp(r)
      PROVE  ReadersOK'
  <2>1. \A q \in Readers : fetch'[q] = fetch[q] \/ fetch'[q].stage # "read"
    BY <1>5 DEF GiveUp, TypeOK, Idle
  <2>2. QED
    BY <1>1, <1>5, <2>1 DEF GiveUp
<1>6. ASSUME NEW a \in Admins, Clear(a)
      PROVE  ReadersOK'
  <2>1. PICK c : UNCHANGED <<db, fetch>> /\ suspect' = suspect \ Trusted(HomeOf[a], KeysOf(c))
    BY <1>6 DEF Clear
  <2>2. ASSUME NEW r \in Readers, fetch[r].stage = "read", fetch[r].value # db[fetch[r].key]
        PROVE  <<HomeOf[r], fetch[r].key>> \notin Trusted(HomeOf[a], KeysOf(c))
    BY <2>2 DEF Trusted, Outdated
  <2>3. QED
    BY <2>1, <2>2 DEF ReadersOK
<1>7. ASSUME NEW a \in Admins, NEW k \in Keys, Change(a, k)
      PROVE  ReadersOK'
  <2>1. \A j \in Keys \ {k} : db'[j] = db[j]
    BY <1>7 DEF Change, TypeOK
  <2>2. fetch' = fetch /\ suspect' = suspect \cup (Unaware(a, k) \X {k})
    BY <1>7 DEF Change
  <2>3. ASSUME NEW r \in Readers, fetch[r].stage = "read", fetch[r].value # db'[fetch[r].key]
        PROVE  <<HomeOf[r], fetch[r].key>> \in suspect'
    <3>1. fetch[r].key \in Keys /\ HomeOf[r] \in Procs
      BY <2>3, FetchKinds
    <3>2. CASE fetch[r].key = k
      <4>1. HomeOf[r] \in Unaware(a, k)
        BY <2>3, <3>1, <3>2 DEF Unaware
      <4>2. QED
        BY <2>2, <3>2, <4>1
    <3>3. CASE fetch[r].key # k
      BY <2>1, <2>2, <2>3, <3>1, <3>3 DEF ReadersOK
    <3>4. QED
      BY <3>2, <3>3
  <2>4. QED
    BY <2>2, <2>3 DEF ReadersOK
<1>8. ASSUME NEW p \in Procs, Restart(p)
      PROVE  ReadersOK'
  <2>1. \A q \in Readers : fetch'[q].stage = "read" => fetch'[q] = fetch[q] /\ HomeOf[q] # p
    BY <1>8 DEF Restart, Idle
  <2>2. db' = db /\ suspect' = suspect \ ({p} \X Keys)
    BY <1>8 DEF Restart
  <2>3. QED
    BY <2>1, <2>2 DEF ReadersOK
<1>9. CASE Tick
  <2>1. ASSUME NEW r \in Readers
        PROVE  /\ fetch'[r].stage = "read" => fetch[r].stage = "read"
               /\ fetch[r].stage = "read" =>
                    fetch'[r].key = fetch[r].key /\ fetch'[r].value = fetch[r].value
    <3>1. CASE fetch[r].stage = "read"
      <4>1. fetch[r] \in [stage : {"read"}, key : Keys, value : Values, age : 0..MaxDelay]
        BY <3>1 DEF TypeOK, Fetches, Idle
      <4>2. fetch'[r] = [fetch[r] EXCEPT !.age = fetch[r].age + 1]
        BY <1>9, <3>1 DEF Tick
      <4>3. QED
        BY <3>1, <4>1, <4>2
    <3>2. CASE fetch[r].stage # "read"
      BY <1>9, <3>2 DEF Tick
    <3>3. QED
      BY <3>1, <3>2
  <2>2. ASSUME NEW r \in Readers, fetch'[r].stage = "read", fetch'[r].value # db'[fetch'[r].key]
        PROVE  <<HomeOf[r], fetch'[r].key>> \in suspect'
    <3>1. fetch[r].stage = "read" /\ fetch'[r].key = fetch[r].key /\ fetch'[r].value = fetch[r].value
      BY <2>1, <2>2
    <3>2. db' = db /\ suspect' = suspect
      BY <1>9 DEF Tick
    <3>3. fetch[r].value # db[fetch[r].key]
      BY <2>2, <3>1, <3>2
    <3>4. <<HomeOf[r], fetch[r].key>> \in suspect
      BY <3>1, <3>3 DEF ReadersOK
    <3>5. QED
      BY <3>1, <3>2, <3>4
  <2>3. QED
    BY <2>2 DEF ReadersOK
<1>10. ASSUME NEW a \in Admins, Unheard(a)
       PROVE  ReadersOK'
  BY <1>1, <1>10 DEF Unheard
<1>11. QED
  BY <1>2, <1>3, <1>4, <1>5, <1>6, <1>7, <1>8, <1>9, <1>10 DEF Next, Serve

(* An entry the process has changed since is emptied by the clear that      *)
(* follows, or suspect if none follows; one a late reader brings back is    *)
(* suspect.                                                                 *)
LEMMA StepOwnChange ==
  ASSUME TypeOK, ReadersOK, OwnChangeVisible, Next
  PROVE  OwnChangeVisible'
<1> DEFINE Excused(p, k, x) ==
      \/ x.value = db[k] \/ <<p, k>> \in suspect
      \/ \E a \in Admins : HomeOf[a] = p /\ CacheOf[k] \in clearing[a]
<1>0. \A p \in Procs, k \in Keys : \A x \in cache[p][k] : x.left > 0 => Excused(p, k, x)
  BY DEF OwnChangeVisible, Servable
<1>1. ASSUME UNCHANGED <<db, suspect, clearing>>, EntriesFade
      PROVE  OwnChangeVisible'
  BY <1>1, <1>0 DEF EntriesFade, OwnChangeVisible, Servable
<1>2. ASSUME NEW r \in Readers, NEW k \in Keys, Lookup(r, k)
      PROVE  OwnChangeVisible'
  BY <1>1, <1>2, LookupFades DEF Lookup
<1>3. ASSUME NEW r \in Readers, Read(r) \/ GiveUp(r)
      PROVE  OwnChangeVisible'
  BY <1>1, <1>3 DEF Read, GiveUp, EntriesFade
<1>4. ASSUME NEW r \in Readers, Put(r)
      PROVE  OwnChangeVisible'
  <2> DEFINE p == HomeOf[r]
             k == fetch[r].key
             v == fetch[r].value
  <2>1. /\ p \in Procs /\ k \in Keys
        /\ cache'[p][k] = {NewEntry(k, v)} /\ NewEntry(k, v).value = v
        /\ \A j \in Keys \ {k} : cache'[p][j] \subseteq cache[p][j]
        /\ \A q \in Procs \ {p} : cache'[q] = cache[q]
    BY <1>4, PutEffect
  <2>2. /\ UNCHANGED <<db, clearing>>
        /\ suspect' = suspect \/ (v = db[k] /\ suspect' = suspect \ {<<p, k>>})
    BY <1>4 DEF Put
  <2>3. v = db[k] \/ <<p, k>> \in suspect'
    BY <1>4, <2>2 DEF Put, ReadersOK
  <2>4. ASSUME NEW q \in Procs, NEW j \in Keys, NEW x \in cache'[q][j], x.left > 0
        PROVE  Excused(q, j, x)'
    <3>1. CASE q = p /\ j = k
      BY <2>1, <2>2, <2>3, <2>4, <3>1
    <3>2. CASE ~(q = p /\ j = k)
      <4>1. x \in cache[q][j] /\ <<q, j>> # <<p, k>>
        BY <2>1, <2>4, <3>2
      <4>2. Excused(q, j, x)
        BY <1>0, <2>4, <4>1
      <4>3. QED
        BY <2>2, <4>1, <4>2
    <3>3. QED
      BY <3>1, <3>2
  <2>5. QED
    BY <2>4 DEF OwnChangeVisible, Servable
<1>5. ASSUME NEW a \in Admins, Clear(a)
      PROVE  OwnChangeVisible'
  <2>1. PICK c : /\ clearing' = [clearing EXCEPT ![a] = @ \ {c}]
                 /\ \A k \in Keys : CacheOf[k] = c => cache'[HomeOf[a]][k] = {}
                 /\ suspect' = suspect \ Trusted(HomeOf[a], KeysOf(c))
    BY <1>5, ClearFades
  <2>2. ASSUME NEW q \in Procs, NEW j \in Keys, NEW x \in cache'[q][j], x.left > 0
        PROVE  Excused(q, j, x)'
    <3>1. x \in cache[q][j] /\ UNCHANGED db
      BY <1>5, <2>2, ClearFades DEF EntriesFade, Clear
    <3>2. Excused(q, j, x)
      BY <1>0, <2>2, <3>1
    <3>3. ~(q = HomeOf[a] /\ CacheOf[j] = c)
      BY <2>1, <2>2
    <3>4. ASSUME NEW b \in Admins, HomeOf[b] = q, CacheOf[j] \in clearing[b]
          PROVE  CacheOf[j] \in clearing'[b]
      BY <2>1, <2>2, <3>3, <3>4 DEF TypeOK
    <3>5. <<q, j>> \notin Trusted(HomeOf[a], KeysOf(c))
      BY <3>3 DEF Trusted, KeysOf
    <3>6. QED
      BY <2>1, <3>1, <3>2, <3>4, <3>5
  <2>3. QED
    BY <2>2 DEF OwnChangeVisible, Servable
<1>6. ASSUME NEW a \in Admins, NEW k \in Keys, Change(a, k)
      PROVE  OwnChangeVisible'
  <2>1. /\ cache' = cache /\ \A j \in Keys \ {k} : db'[j] = db[j]
        /\ suspect' = suspect \cup (Unaware(a, k) \X {k})
        /\ clearing[a] = {} /\ clearing'[a] = 1..NumCaches
        /\ \A b \in Admins \ {a} : clearing'[b] = clearing[b]
    BY <1>6 DEF Change, TypeOK
  <2>2. ASSUME NEW q \in Procs, NEW j \in Keys, NEW x \in cache[q][j], x.left > 0
        PROVE  Excused(q, j, x)'
    <3>1. CASE j = k /\ q = HomeOf[a]
      <4>1. CacheOf[j] \in 1..NumCaches
        BY CacheAssumption DEF CacheAssumption
      <4>2. QED
        BY <2>1, <3>1, <4>1
    <3>2. CASE j = k /\ q # HomeOf[a]
      <4>1. q \in Unaware(a, k)
        BY <3>2 DEF Unaware
      <4>2. QED
        BY <2>1, <3>2, <4>1
    <3>3. CASE j # k
      <4>1. Excused(q, j, x)
        BY <1>0, <2>2
      <4>2. QED
        BY <2>1, <3>3, <4>1
    <3>4. QED
      BY <3>1, <3>2, <3>3
  <2>3. QED
    BY <2>1, <2>2 DEF OwnChangeVisible, Servable
<1>7. ASSUME NEW p \in Procs, Restart(p)
      PROVE  OwnChangeVisible'
  <2>1. /\ \A k \in Keys : cache'[p][k] = {}
        /\ \A q \in Procs \ {p} : cache'[q] = cache[q]
        /\ \A b \in Admins : HomeOf[b] # p => clearing'[b] = clearing[b]
        /\ db' = db /\ suspect' = suspect \ ({p} \X Keys)
    BY <1>7 DEF Restart, TypeOK
  <2>2. ASSUME NEW q \in Procs, NEW j \in Keys, NEW x \in cache'[q][j], x.left > 0
        PROVE  Excused(q, j, x)'
    <3>1. q # p /\ x \in cache[q][j]
      BY <2>1, <2>2
    <3>2. Excused(q, j, x)
      BY <1>0, <2>2, <3>1
    <3>3. QED
      BY <2>1, <3>1, <3>2
  <2>3. QED
    BY <2>2 DEF OwnChangeVisible, Servable
<1>8. CASE Tick
  <2>1. ASSUME NEW q \in Procs, NEW j \in Keys, NEW y \in cache'[q][j], y.left > 0
        PROVE  Excused(q, j, y)'
    <3>1. PICK x \in cache[q][j] : y = Older(x)
      BY <1>8, <2>1, TickEffect
    <3>2. y.value = x.value /\ x.left > 0
      BY <2>1, <3>1, EntryParts, OlderEntry, CacheAssumption DEF CacheAssumption
    <3>3. Excused(q, j, x)
      BY <1>0, <3>2
    <3>4. QED
      BY <1>8, <3>2, <3>3 DEF Tick
  <2>2. QED
    BY <2>1 DEF OwnChangeVisible, Servable
<1>9. ASSUME NEW a \in Admins, Unheard(a)
      PROVE  OwnChangeVisible'
  <2>1. /\ UNCHANGED <<db, cache>> /\ clearing' = [clearing EXCEPT ![a] = {}]
        /\ suspect' = suspect \cup
             ({HomeOf[a]} \X {k \in Keys : \E x \in Servable(HomeOf[a], k) : x.value # db[k]})
    BY <1>9 DEF Unheard
  <2>2. ASSUME NEW q \in Procs, NEW j \in Keys, NEW x \in cache[q][j], x.left > 0
        PROVE  Excused(q, j, x)'
    <3>1. CASE q = HomeOf[a]
      BY <2>1, <2>2, <3>1 DEF Servable
    <3>2. CASE q # HomeOf[a]
      BY <1>0, <2>1, <2>2, <3>2 DEF TypeOK
    <3>3. QED
      BY <3>1, <3>2
  <2>3. QED
    BY <2>1, <2>2 DEF OwnChangeVisible, Servable
<1>10. QED
  BY <1>2, <1>3, <1>4, <1>5, <1>6, <1>7, <1>8, <1>9 DEF Next, Serve

-----------------------------------------------------------------------------
(* The size of the maps.                                                    *)

(* The keys that a map holds can be counted.                                *)
LEMMA KeysAreFinite ==
  ASSUME NEW S \in SUBSET Keys
  PROVE  IsFiniteSet(S) /\ Cardinality(S) \in Nat
  BY CacheAssumption, FS_Subset, FS_CardinalityType DEF CacheAssumption

(* A map from which entries went has no more keys than before.              *)
LEMMA FewerKeys ==
  ASSUME NEW S \in SUBSET Keys, NEW T \in SUBSET S
  PROVE  Cardinality(T) <= Cardinality(S)
  BY KeysAreFinite, FS_Subset

(* A map into which one entry went has one key more at most.                *)
LEMMA OneMoreKey ==
  ASSUME NEW S \in SUBSET Keys, NEW k \in Keys
  PROVE  Cardinality(S \cup {k}) <= Cardinality(S) + 1
<1>1. IsFiniteSet(S) /\ Cardinality(S) \in Nat
  BY KeysAreFinite
<1>2. Cardinality(S \cup {k}) = IF k \in S THEN Cardinality(S) ELSE Cardinality(S) + 1
  BY <1>1, FS_AddElement
<1>3. QED
  BY <1>1, <1>2

(* A put makes room before it adds a key.                                   *)
LEMMA StepBoundedSize ==
  ASSUME TypeOK, BoundedSize, Next
  PROVE  BoundedSize'
<1>0. MaxItems \in Nat \ {0}
  BY CacheAssumption DEF CacheAssumption
<1>1. ASSUME NEW p \in Procs, NEW c \in 1..NumCaches, Stored(p, c)' \subseteq Stored(p, c)
      PROVE  Cardinality(Stored(p, c)') <= MaxItems
  <2>1. Stored(p, c) \in SUBSET Keys
    BY DEF Stored, KeysOf
  <2>2. /\ Cardinality(Stored(p, c)') <= Cardinality(Stored(p, c))
        /\ Cardinality(Stored(p, c)) \in Nat /\ Cardinality(Stored(p, c)') \in Nat
    BY <1>1, <2>1, FewerKeys, KeysAreFinite
  <2>3. QED
    BY <1>0, <2>2 DEF BoundedSize
<1>2. ASSUME NEW r \in Readers, Put(r)
      PROVE  BoundedSize'
  <2>1. PICK p \in Procs, k \in Keys, v \in Values :
          /\ cache'[p][k] = {NewEntry(k, v)}
          /\ \A q \in Procs \ {p} : cache'[q] = cache[q]
          /\ cache' = [cache EXCEPT ![p] = Inserted(p, k, v)]
    BY <1>2, PutEffect
  <2> DEFINE alive == {j \in KeysOf(CacheOf[k]) : Servable(p, j) # {}}
  <2>2. \A j \in Keys \ {k} : cache'[p][j] =
          IF CacheOf[j] # CacheOf[k] THEN cache[p][j]
          ELSE IF Full(p, CacheOf[k]) THEN {} ELSE Servable(p, j)
    BY <2>1 DEF TypeOK, Inserted
  <2>3. ASSUME NEW q \in Procs, NEW c \in 1..NumCaches, q # p \/ c # CacheOf[k]
        PROVE  Stored(q, c)' \subseteq Stored(q, c)
    BY <2>1, <2>2, <2>3 DEF Stored, KeysOf
  <2>4. CASE Full(p, CacheOf[k])
    <3>1. Stored(p, CacheOf[k])' \subseteq {k}
      BY <2>2, <2>4 DEF Stored, KeysOf
    <3>2. Cardinality(Stored(p, CacheOf[k])') <= Cardinality({k})
      BY <2>1, <3>1, FewerKeys
    <3>3. Cardinality({k}) = 1
      BY FS_Singleton
    <3>4. Cardinality(Stored(p, CacheOf[k])') \in Nat
      BY <2>1, <3>1, KeysAreFinite
    <3>5. Cardinality(Stored(p, CacheOf[k])') <= MaxItems
      BY <1>0, <3>2, <3>3, <3>4
    <3>6. QED
      BY <1>1, <2>3, <3>5 DEF BoundedSize
  <2>5. CASE ~Full(p, CacheOf[k])
    <3>1. alive \in SUBSET Keys
      BY DEF KeysOf
    <3>2. IsFiniteSet(alive) /\ Cardinality(alive) \in Nat
      BY <3>1, KeysAreFinite
    <3>3. Cardinality(alive) + 1 <= MaxItems
      BY <1>0, <2>5, <3>2 DEF Full
    <3>4. Stored(p, CacheOf[k])' \subseteq alive \cup {k}
      BY <2>2, <2>5 DEF Stored, KeysOf
    <3>5. Cardinality(alive \cup {k}) <= Cardinality(alive) + 1
      BY <2>1, <3>1, OneMoreKey
    <3>6. alive \cup {k} \in SUBSET Keys
      BY <2>1, <3>1
    <3>7. Cardinality(Stored(p, CacheOf[k])') <= Cardinality(alive \cup {k})
      BY <3>4, <3>6, FewerKeys
    <3>8. Cardinality(Stored(p, CacheOf[k])') \in Nat /\ Cardinality(alive \cup {k}) \in Nat
      BY <3>4, <3>6, KeysAreFinite
    <3>9. Cardinality(Stored(p, CacheOf[k])') <= MaxItems
      BY <1>0, <3>2, <3>3, <3>5, <3>7, <3>8
    <3>10. QED
      BY <1>1, <2>3, <3>9 DEF BoundedSize
  <2>6. QED
    BY <2>4, <2>5
<1>3. CASE Tick
  <2>1. \A p \in Procs, k \in Keys : cache'[p][k] # {} => cache[p][k] # {}
    BY <1>3, TickEffect
  <2>2. \A p \in Procs, c \in 1..NumCaches : Stored(p, c)' \subseteq Stored(p, c)
    BY <2>1 DEF Stored, KeysOf
  <2>3. QED
    BY <1>1, <2>2 DEF BoundedSize
<1>4. CASE (\A r \in Readers : ~Put(r)) /\ ~Tick
  <2>1. EntriesFade
    BY <1>4, OthersFade
  <2>2. \A p \in Procs, c \in 1..NumCaches : Stored(p, c)' \subseteq Stored(p, c)
    BY <2>1 DEF EntriesFade, Stored, KeysOf
  <2>3. QED
    BY <1>1, <2>2 DEF BoundedSize
<1>5. QED
  BY <1>2, <1>3, <1>4

-----------------------------------------------------------------------------
(* The invariant and what follows from it.                                  *)

(* The invariant is inductive.                                              *)
LEMMA NextInv == CacheInv /\ [Next]_vars => CacheInv'
<1> SUFFICES ASSUME CacheInv, [Next]_vars PROVE CacheInv'
  OBVIOUS
<1>1. CASE Next
  BY <1>1, StepTypeOK, StepAgeKnown, StepReadersOK, StepOwnChange, StepBoundedSize DEF CacheInv
<1>2. CASE UNCHANGED vars
  <2>1. TypeOK' /\ AgeKnown' /\ ReadersOK'
    BY <1>2 DEF CacheInv, vars, TypeOK, AgeKnown, TTL, ReadersOK
  <2>2. OwnChangeVisible' /\ BoundedSize'
    <3>1. /\ \A p \in Procs, k \in Keys : Servable(p, k)' = Servable(p, k)
          /\ \A p \in Procs, c \in 1..NumCaches : Stored(p, c)' = Stored(p, c)
      BY <1>2 DEF vars, Servable, Stored, KeysOf
    <3>2. QED
      BY <1>2, <3>1 DEF CacheInv, vars, OwnChangeVisible, BoundedSize
  <2>3. QED
    BY <2>1, <2>2 DEF CacheInv
<1>3. QED
  BY <1>1, <1>2

(* In every behaviour the age of each stored answer is known, a reader      *)
(* holding an old answer is known to be suspect, and the maps keep to their *)
(* size.                                                                    *)
THEOREM CacheInvariant == Spec => []CacheInv
<1>1. QED
  BY InitInv, NextInv, PTL DEF Spec

(* The caches hold entries with the lifetimes of public_config_ttl, at most *)
(* one for a key of a map, and requests are at the steps of a look-up.      *)
THEOREM CacheTypeCorrect == Spec => []TypeOK
<1>1. CacheInv => TypeOK
  BY DEF CacheInv
<1>2. QED
  BY <1>1, CacheInvariant, PTL

(* Whatever the processes, readers and clears, an answer cache_get still    *)
(* gives has been wrong for less than its lifetime and one query.           *)
THEOREM StalenessIsBounded == Spec => []BoundedStaleness
<1>1. CacheInv => BoundedStaleness
  <2> SUFFICES ASSUME CacheInv, NEW p \in Procs, NEW k \in Keys, NEW x \in Servable(p, k)
               PROVE  gone[k][x.value] < TTL(k, x.value) + MaxDelay
    BY DEF BoundedStaleness
  <2>1. x \in cache[p][k] /\ x.left > 0 /\ TypeOK
    BY DEF Servable, CacheInv
  <2>2. x.value \in Values /\ x.left \in 0..(FoundTTL + MissTTL)
    BY <2>1, EntryParts
  <2>3. gone[k][x.value] \in Nat /\ TTL(k, x.value) \in Nat /\ MaxDelay \in Nat
        /\ FoundTTL + MissTTL \in Nat
    BY <2>1, <2>2, HorizonIsNat, Lifetimes, CacheAssumption DEF TypeOK, CacheAssumption
  <2>4. gone[k][x.value] + x.left <= TTL(k, x.value) + MaxDelay \/ x.left = 0
    BY <2>1 DEF CacheInv, AgeKnown
  <2>5. QED
    BY <2>1, <2>2, <2>3, <2>4
<1>2. QED
  BY <1>1, CacheInvariant, PTL

(* Once clear_public_config_cache has gone through the maps, the process    *)
(* answers with every change made before, unless a reader that had queried  *)
(* the database before brings the old answer back.  A change whose request  *)
(* ended before it heard of it waits for the next clear, a restart or the   *)
(* lifetime of the answer.                                                  *)
THEOREM OwnChangesShow == Spec => []OwnChangeVisible
<1>1. CacheInv => OwnChangeVisible
  BY DEF CacheInv
<1>2. QED
  BY <1>1, CacheInvariant, PTL

(* No map exceeds PUBLIC_CONFIG_CACHE_MAX_ITEMS, however many requests store*)
(* into it at once.                                                         *)
THEOREM MapsStaySmall == Spec => []BoundedSize
<1>1. CacheInv => BoundedSize
  BY DEF CacheInv
<1>2. QED
  BY <1>1, CacheInvariant, PTL

=============================================================================
