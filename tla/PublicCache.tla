---------------------------- MODULE PublicCache ----------------------------
(***************************************************************************)
(* The runtime caches of the public pages (crates/app/src/state.rs,        *)
(* crates/services/src/cloak.rs and meta.rs): every process keeps answers  *)
(* of the database for public routes, for domains Caddy may serve, for     *)
(* promotion codes and for the cloak and Meta configuration of routes, and *)
(* an administrator's change clears them, one map after the other, in the  *)
(* process that made it, if the handler lives to hear that it was made.    *)
(*                                                                         *)
(* Time is counted in ticks.  An entry carries the ticks it has left, so   *)
(* the clock itself need not be modelled.  A lookup that misses reads the  *)
(* database and stores what it read later, without looking at the cache or *)
(* at the database again.                                                  *)
(***************************************************************************)
EXTENDS Naturals, FiniteSets

CONSTANTS
  Procs,      (* the processes, each with its own caches                    *)
  Keys,       (* what is looked up: hosts, and codes of a route             *)
  NumCaches,  (* how many maps clear_public_config_cache empties: five       *)
  CacheOf,    (* the map of each key, counted in the order of clearing      *)
  Readers,    (* requests in progress                                       *)
  Admins,     (* administrators' requests in progress                       *)
  HomeOf,     (* the process that serves each reader and administrator      *)
  Values,     (* what the database can say of a key                         *)
  None,       (* "there is no such thing", also a value                     *)
  FoundTTL,   (* PUBLIC_ROUTE_CACHE_TTL: ten minutes                        *)
  MissTTL,    (* PUBLIC_NOT_FOUND_CACHE_TTL: one minute                     *)
  ShortMiss,  (* the maps that use it: the three of PublicRuntimeCache, not *)
              (* those of the cloak and the Meta service                    *)
  MaxItems,   (* PUBLIC_CONFIG_CACHE_MAX_ITEMS, per map                     *)
  MaxDelay,   (* bound on the ticks between a reader's query and its put    *)
  MaxChanges  (* bound on the administrators' changes                       *)

ASSUME CacheAssumption ==
  /\ NumCaches \in Nat \ {0} /\ CacheOf \in [Keys -> 1..NumCaches]
  /\ HomeOf \in [Readers \cup Admins -> Procs]
  /\ None \in Values /\ ShortMiss \in SUBSET (1..NumCaches)
  /\ FoundTTL \in Nat \ {0} /\ MissTTL \in Nat \ {0}
  /\ MaxItems \in Nat \ {0} /\ MaxDelay \in Nat /\ MaxChanges \in Nat
  /\ IsFiniteSet(Keys)

VARIABLES
  db,       (* what the database says of each key now                      *)
  cache,    (* cache[p][k]: the set of p's entries for k, at most one      *)
  fetch,    (* what each reader is doing                                   *)
  clearing, (* the maps each administrator's request still has to clear    *)
  gone,     (* gone[k][v]: ticks since the database last said v of k, up to*)
            (* Horizon                                                     *)
  suspect,  (* history: <<p, k>> whose entry p had no way to know is old,  *)
            (* until p has cleared the map or stored what is true          *)
  changes   (* changes so far                                              *)

vars == <<db, cache, fetch, clearing, gone, suspect, changes>>

(* public_config_ttl; the cloak and the Meta service know one lifetime only.*)
TTL(k, v) == IF v = None /\ CacheOf[k] \in ShortMiss THEN MissTTL ELSE FoundTTL

Horizon == (IF FoundTTL > MissTTL THEN FoundTTL ELSE MissTTL) + MaxDelay
Entry == [value : Values, left : 0..(FoundTTL + MissTTL)]
Idle == [stage |-> "idle"]
Fetches ==
  {Idle} \cup [stage : {"missed"}, key : Keys]
         \cup [stage : {"read"}, key : Keys, value : Values, age : 0..MaxDelay]

KeysOf(c) == {k \in Keys : CacheOf[k] = c}
Stored(p, c) == {k \in KeysOf(c) : cache[p][k] # {}}
Servable(p, k) == {x \in cache[p][k] : x.left > 0}

TypeOK ==
  /\ db \in [Keys -> Values]
  /\ cache \in [Procs -> [Keys -> SUBSET Entry]]
  /\ \A p \in Procs, k \in Keys : \A x, y \in cache[p][k] : x = y
  /\ fetch \in [Readers -> Fetches]
  /\ clearing \in [Admins -> SUBSET (1..NumCaches)]
  /\ gone \in [Keys -> [Values -> 0..Horizon]]
  /\ suspect \in SUBSET (Procs \X Keys)
  /\ changes \in 0..MaxChanges

Init ==
  /\ db \in [Keys -> Values]
  /\ cache = [p \in Procs |-> [k \in Keys |-> {}]]
  /\ fetch = [r \in Readers |-> Idle]
  /\ clearing = [a \in Admins |-> {}]
  /\ gone = [k \in Keys |-> [v \in Values |-> IF v = db[k] THEN 0 ELSE Horizon]]
  /\ suspect = {}
  /\ changes = 0

-----------------------------------------------------------------------------
(* Readers: find_public_route_cached, domain_allowed_cached and             *)
(* find_enabled_promo_cached.                                               *)

(* Variant: a hit starts the entry's life anew.                             *)
HitSliding(p, k) ==
  /\ Servable(p, k) # {}
  /\ cache' = [cache EXCEPT ![p][k] = {[x EXCEPT !.left = TTL(k, x.value)] : x \in @}]

(* cache_get of an entry that is alive changes nothing.                     *)
Hit(p, k) ==
  /\ Servable(p, k) # {}
  /\ UNCHANGED cache

(* cache_get otherwise: an expired entry is removed.                        *)
Miss(p, k) ==
  /\ Servable(p, k) = {}
  /\ cache' = [cache EXCEPT ![p][k] = {}]

Lookup(r, k) ==
  /\ fetch[r] = Idle
  /\ \/ Hit(HomeOf[r], k) /\ UNCHANGED fetch
     \/ Miss(HomeOf[r], k) /\ fetch' = [fetch EXCEPT ![r] = [stage |-> "missed", key |-> k]]
  /\ UNCHANGED <<db, clearing, gone, suspect, changes>>

(* The query is carried out.                                                *)
Read(r) ==
  /\ fetch[r].stage = "missed"
  /\ fetch' = [fetch EXCEPT ![r] = [stage |-> "read", key |-> @.key, value |-> db[@.key], age |-> 0]]
  /\ UNCHANGED <<db, cache, clearing, gone, suspect, changes>>

(* The query fails, or the client is gone: nothing is stored.               *)
GiveUp(r) ==
  /\ fetch[r] # Idle
  /\ fetch' = [fetch EXCEPT ![r] = Idle]
  /\ UNCHANGED <<db, cache, clearing, gone, suspect, changes>>

(* Variant: the two lifetimes are mixed up.                                 *)
NewEntrySwapped(k, v) ==
  [value |-> v, left |-> IF v # None /\ CacheOf[k] \in ShortMiss THEN MissTTL ELSE FoundTTL]

NewEntry(k, v) == [value |-> v, left |-> TTL(k, v)]

(* Variant: the map is emptied one entry too late.                          *)
FullLate(p, c) == Cardinality({j \in KeysOf(c) : Servable(p, j) # {}}) > MaxItems

Full(p, c) == Cardinality({j \in KeysOf(c) : Servable(p, j) # {}}) >= MaxItems

(* cache_put: the expired entries of the map go, all of them if it is full. *)
Inserted(p, k, v) ==
  [j \in Keys |->
     IF j = k THEN {NewEntry(k, v)}
     ELSE IF CacheOf[j] # CacheOf[k] THEN cache[p][j]
     ELSE IF Full(p, CacheOf[k]) THEN {} ELSE Servable(p, j)]

(* A reader in p that is about to store an old answer for k.                *)
Outdated(r, p, k) ==
  /\ HomeOf[r] = p /\ fetch[r].stage = "read" /\ fetch[r].key = k
  /\ fetch[r].value # db[k]

Put(r) ==
  /\ fetch[r].stage = "read"
  /\ LET p == HomeOf[r]
         k == fetch[r].key
         v == fetch[r].value
     IN  /\ cache' = [cache EXCEPT ![p] = Inserted(p, k, v)]
         /\ suspect' = IF v = db[k] /\ ~ \E q \in Readers \ {r} : Outdated(q, p, k)
                      THEN suspect \ {<<p, k>>} ELSE suspect
  /\ fetch' = [fetch EXCEPT ![r] = Idle]
  /\ UNCHANGED <<db, clearing, gone, changes>>

-----------------------------------------------------------------------------
(* Administrators.                                                          *)

(* The processes that cannot know of a's change of k: the others, and a's   *)
(* own while one of its readers is between its query and its put.           *)
Unaware(a, k) ==
  {p \in Procs :
     \/ p # HomeOf[a]
     \/ \E r \in Readers : HomeOf[r] = p /\ fetch[r].stage = "read" /\ fetch[r].key = k}

(* Variant: the handler does not clear the caches.                          *)
ChangeUncleared(a, k) ==
  /\ clearing[a] = {}
  /\ changes < MaxChanges
  /\ changes' = changes + 1
  /\ \E v \in Values \ {db[k]} :
       /\ db' = [db EXCEPT ![k] = v]
       /\ gone' = [gone EXCEPT ![k][v] = 0]
  /\ suspect' = suspect \cup (Unaware(a, k) \X {k})
  /\ UNCHANGED <<cache, fetch, clearing>>

(* The handler's transaction commits; the handler has not heard of it yet.  *)
Change(a, k) ==
  /\ clearing[a] = {}
  /\ changes < MaxChanges
  /\ changes' = changes + 1
  /\ \E v \in Values \ {db[k]} :
       /\ db' = [db EXCEPT ![k] = v]
       /\ gone' = [gone EXCEPT ![k][v] = 0]
  /\ clearing' = [clearing EXCEPT ![a] = 1..NumCaches]
  /\ suspect' = suspect \cup (Unaware(a, k) \X {k})
  /\ UNCHANGED <<cache, fetch>>

(* The maps are cleared only after the service has answered Ok.  The handler*)
(* is dropped while it waits for that, the answer to the commit is lost, or *)
(* a later statement of the same operation fails: the change is made, and   *)
(* its process goes on with what it has stored.                             *)
Unheard(a) ==
  /\ clearing[a] = 1..NumCaches
  /\ clearing' = [clearing EXCEPT ![a] = {}]
  /\ suspect' = suspect \cup
       ({HomeOf[a]} \X {k \in Keys : \E x \in Servable(HomeOf[a], k) : x.value # db[k]})
  /\ UNCHANGED <<db, cache, fetch, gone, changes>>

(* What p can answer for again once it has no entry for the keys in K: all  *)
(* but those a reader of it is about to store an old answer for.            *)
Trusted(p, K) == {p} \X {k \in K : ~ \E r \in Readers : Outdated(r, p, k)}

(* clear_public_config_cache takes the locks one after the other.           *)
Clear(a) ==
  /\ clearing[a] # {}
  /\ LET c == CHOOSE i \in clearing[a] : \A j \in clearing[a] : i <= j
     IN  /\ clearing' = [clearing EXCEPT ![a] = @ \ {c}]
         /\ cache' = [cache EXCEPT ![HomeOf[a]] =
                        [k \in Keys |-> IF CacheOf[k] = c THEN {} ELSE @[k]]]
         /\ suspect' = suspect \ Trusted(HomeOf[a], KeysOf(c))
  /\ UNCHANGED <<db, fetch, gone, changes>>

(* A process starts anew: its caches are empty and its requests gone.  The  *)
(* change of an administrator whose request dies with it is in the database.*)
Restart(p) ==
  /\ cache' = [cache EXCEPT ![p] = [k \in Keys |-> {}]]
  /\ fetch' = [r \in Readers |-> IF HomeOf[r] = p THEN Idle ELSE fetch[r]]
  /\ clearing' = [a \in Admins |-> IF HomeOf[a] = p THEN {} ELSE clearing[a]]
  /\ suspect' = suspect \ ({p} \X Keys)
  /\ UNCHANGED <<db, gone, changes>>

-----------------------------------------------------------------------------
(* A tick of the clock: entries grow older, and so do the values the        *)
(* database no longer has.  A reader puts what it read within MaxDelay.     *)
Older(x) == [x EXCEPT !.left = IF @ = 0 THEN 0 ELSE @ - 1]
Tick ==
  /\ \A r \in Readers : fetch[r].stage = "read" => fetch[r].age < MaxDelay
  /\ cache' = [p \in Procs |-> [k \in Keys |-> {Older(x) : x \in cache[p][k]}]]
  /\ fetch' = [r \in Readers |->
                 IF fetch[r].stage = "read" THEN [fetch[r] EXCEPT !.age = @ + 1] ELSE fetch[r]]
  /\ gone' = [k \in Keys |-> [v \in Values |->
                IF v = db[k] THEN 0 ELSE IF gone[k][v] = Horizon THEN Horizon ELSE gone[k][v] + 1]]
  /\ UNCHANGED <<db, clearing, suspect, changes>>

Serve(r) == (\E k \in Keys : Lookup(r, k)) \/ Read(r) \/ Put(r) \/ GiveUp(r)

Next ==
  \/ \E r \in Readers : Serve(r)
  \/ \E a \in Admins : Clear(a) \/ Unheard(a) \/ \E k \in Keys : Change(a, k)
  \/ \E p \in Procs : Restart(p)
  \/ Tick

Spec == Init /\ [][Next]_vars

(* Time passes and a query that was sent is answered.                       *)
Fairness ==
  /\ WF_vars(Tick)
  /\ \A r \in Readers : WF_vars(Read(r) \/ Put(r))

FairSpec == Spec /\ Fairness

-----------------------------------------------------------------------------
(* What the invariants rest on: how old the value of an entry, and the value*)
(* a reader holds, can be.                                                  *)
AgeKnown ==
  /\ \A p \in Procs, k \in Keys : \A x \in cache[p][k] :
       gone[k][x.value] + x.left <= TTL(k, x.value) + MaxDelay \/ x.left = 0
  /\ \A r \in Readers : fetch[r].stage = "read" =>
       gone[fetch[r].key][fetch[r].value] <= fetch[r].age
  /\ \A k \in Keys : gone[k][db[k]] = 0

-----------------------------------------------------------------------------
(* Properties.                                                              *)

(* Whatever the interleaving of readers, changes and clears in whatever     *)
(* processes, a page is not served an answer that has been wrong for longer *)
(* than the lifetime of such an answer and one query.                       *)
BoundedStaleness ==
  \A p \in Procs, k \in Keys : \A x \in Servable(p, k) :
    gone[k][x.value] < TTL(k, x.value) + MaxDelay

(* An answer that is no longer true is served only while the clears of a    *)
(* change in that process are under way, or where that process was not told:*)
(* the change was made in another one, or by a request that ended before it *)
(* cleared anything, or a reader that had queried before brought the old    *)
(* answer back.  A clear of the map, or a restart, ends the last three.     *)
OwnChangeVisible ==
  \A p \in Procs, k \in Keys : \A x \in Servable(p, k) :
    \/ x.value = db[k] \/ <<p, k>> \in suspect
    \/ \E a \in Admins : HomeOf[a] = p /\ CacheOf[k] \in clearing[a]

(* No map of any process grows beyond the limit.                            *)
BoundedSize ==
  \A p \in Procs, c \in 1..NumCaches : Cardinality(Stored(p, c)) <= MaxItems

(* When the administrators stop, all processes come to agree with the       *)
(* database, whether the pages are visited in the meantime or not.          *)
Agree == \A p \in Procs, k \in Keys : \A x \in Servable(p, k) : x.value = db[k]
EventuallyAgree == <>[]Agree

=============================================================================
