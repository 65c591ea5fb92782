------------------------ MODULE AuthSessions_proofs ------------------------
(***************************************************************************)
(* Proofs about the administrator's sessions and the login limiter, for    *)
(* every number of processes, keys, requests and tokens, and any limit and *)
(* any times.                                                              *)
(***************************************************************************)
EXTENDS AuthSessions, FiniteSetTheorems, TLAPS

(* What an operation in progress can count on, whatever happened since its  *)
(* first statement: the password it verified or set is one that was stored, *)
(* its token is a session's, and that session's client knows the password   *)
(* the operation has set.                                                   *)
RequestsOK ==
  \A q \in Requests :
    /\ req[q].stage \in {"insert", "purge"} => req[q].shown <= password
    /\ req[q].stage \in {"welcome", "read", "update", "purge"} => req[q].token \in spent
    /\ req[q].stage = "purge" => req[q].shown <= era[req[q].token]

(* The attempts at a key that are let in and not yet counted.               *)
Pending(p, k) ==
  {q \in Requests : req[q].stage \in {"select", "refuse"} /\ req[q].proc = p /\ req[q].key = k}

(* The failures counted and those that may still come never exceed what the *)
(* last attempt before the lock leaves.                                     *)
GuessesOK ==
  \A p \in Procs, k \in Keys :
    LET f == failures[p][k] IN
    /\ f.locked <=> f.count >= Limit
    /\ f.count + Cardinality(Pending(p, k)) <= Limit + Cardinality(Requests) - 1

AuthInv == TypeOK /\ RequestsOK /\ GuessesOK /\ OldPasswordGone

-----------------------------------------------------------------------------
(* The parts of the state.                                                  *)

(* The fields of a request at each of its stages.                           *)
LEMMA JobKinds ==
  ASSUME TypeOK, NEW q \in Requests
  PROVE  /\ req[q].stage \in {"select", "insert", "refuse"} =>
              req[q] \in [stage : {"select", "insert", "refuse"}, proc : Procs, key : Keys, shown : Versions]
         /\ req[q].stage = "welcome" =>
              req[q] \in [stage : {"welcome"}, proc : Procs, key : Keys, token : Tokens]
         /\ req[q].stage \in {"read", "update", "purge"} =>
              req[q] \in [stage : {"read", "update", "purge"}, proc : Procs, token : Tokens, shown : Versions]
         /\ req[q].stage = "revoke" =>
              req[q] \in [stage : {"revoke"}, proc : Procs, token : Tokens, target : Tokens]
  BY DEF TypeOK, Jobs, Idle

(* How many requests a set of them holds.                                   *)
LEMMA RequestsAreFinite ==
  ASSUME NEW S \in SUBSET Requests
  PROVE  /\ IsFiniteSet(S) /\ Cardinality(S) \in Nat /\ Cardinality(Requests) \in Nat
         /\ Cardinality(S) <= Cardinality(Requests)
         /\ \A T \in SUBSET S : Cardinality(T) <= Cardinality(S)
  BY AuthAssumption, FS_Subset, FS_CardinalityType DEF AuthAssumption

(* A request that leaves a set of requests makes it smaller by one.         *)
LEMMA OneRequestLess ==
  ASSUME NEW S \in SUBSET Requests, NEW q \in S
  PROVE  Cardinality(S \ {q}) = Cardinality(S) - 1
  BY RequestsAreFinite, FS_RemoveElement

(* A new entry of the limiter has counted nothing and locks nothing.        *)
LEMMA FreshIsEmpty ==
  /\ Fresh \in Failures /\ Fresh.count = 0 /\ Fresh.locked = FALSE
<1>1. Cardinality(Requests) \in Nat
  BY RequestsAreFinite
<1>2. QED
  BY <1>1, AuthAssumption DEF AuthAssumption, Fresh, Failures

(* cleanup_login_failures keeps an entry or drops it.                       *)
LEMMA CleanedEntries ==
  ASSUME TypeOK, NEW p \in Procs
  PROVE  /\ Cleaned(failures[p]) \in [Keys -> Failures]
         /\ \A k \in Keys : Cleaned(failures[p])[k] \in {failures[p][k], Fresh}
  BY FreshIsEmpty DEF TypeOK, Cleaned

(* record_login_failure adds one at most, and locks at the limit.           *)
LEMMA CountedEntry ==
  ASSUME NEW f \in Failures, f.count < Limit + Cardinality(Requests),
         f.locked <=> f.count >= Limit
  PROVE  /\ Counted(f) \in Failures /\ Counted(f).count <= f.count + 1
         /\ Counted(f).locked <=> Counted(f).count >= Limit
<1> DEFINE g == IF f.age > Window THEN Fresh ELSE f
<1>1. /\ Cardinality(Requests) \in Nat /\ Limit \in Nat \ {0} /\ Lockout \in Nat \ {0}
      /\ Window \in Nat
  BY RequestsAreFinite, AuthAssumption DEF AuthAssumption
<1>2. g \in Failures /\ g.count <= f.count /\ (g.locked <=> g.count >= Limit)
  BY <1>1, FreshIsEmpty DEF Failures
<1>3. g.count \in Nat /\ f.count \in Nat
  BY <1>1, <1>2 DEF Failures
<1>4. Counted(f) = IF g.count + 1 >= Limit
                     THEN [g EXCEPT !.count = @ + 1, !.locked = TRUE, !.left = Lockout]
                     ELSE [g EXCEPT !.count = @ + 1]
  BY DEF Counted
<1> HIDE DEF g
<1>5. CASE g.count + 1 >= Limit
  <2>1. /\ Counted(f).count = g.count + 1 /\ Counted(f).locked = TRUE
        /\ Counted(f) = [g EXCEPT !.count = g.count + 1, !.locked = TRUE, !.left = Lockout]
    BY <1>2, <1>4, <1>5 DEF Failures
  <2>2. g.count + 1 \in 0..(Limit + Cardinality(Requests)) /\ Lockout \in 0..Lockout
    BY <1>1, <1>2, <1>3
  <2>3. Counted(f) \in Failures
    BY <1>2, <2>1, <2>2 DEF Failures
  <2>4. QED
    BY <1>1, <1>2, <1>3, <1>5, <2>1, <2>3
<1>6. CASE ~(g.count + 1 >= Limit)
  <2>1. /\ Counted(f).count = g.count + 1 /\ Counted(f).locked = g.locked
        /\ Counted(f) = [g EXCEPT !.count = g.count + 1]
    BY <1>2, <1>4, <1>6 DEF Failures
  <2>2. g.count + 1 \in 0..(Limit + Cardinality(Requests)) /\ ~(g.count >= Limit)
    BY <1>1, <1>2, <1>3, <1>6
  <2>3. Counted(f) \in Failures /\ g.locked = FALSE
    BY <1>2, <2>1, <2>2 DEF Failures
  <2>4. QED
    BY <1>1, <1>2, <1>3, <1>6, <2>1, <2>3
<1>7. QED
  BY <1>5, <1>6

(* Time takes nothing off an entry's count and does not unlock it before it *)
(* runs out.                                                                *)
LEMMA OlderEntry ==
  ASSUME NEW f \in Failures
  PROVE  Older(f) \in Failures /\ Older(f).count = f.count /\ Older(f).locked = f.locked
<1>1. CASE f = Fresh
  BY <1>1 DEF Older
<1>2. CASE f # Fresh
  <2>1. Lockout \in Nat /\ Window \in Nat
    BY AuthAssumption DEF AuthAssumption
  <2>2. /\ (IF f.age <= Window THEN f.age + 1 ELSE f.age) \in 0..(Window + 1)
        /\ (IF f.left > 0 THEN f.left - 1 ELSE 0) \in 0..Lockout
    BY <2>1 DEF Failures
  <2>3. Older(f) = [f EXCEPT !.age = IF f.age <= Window THEN f.age + 1 ELSE f.age,
                             !.left = IF f.left > 0 THEN f.left - 1 ELSE 0]
    BY <1>2 DEF Older, Failures
  <2>4. QED
    BY <2>2, <2>3 DEF Failures
<1>3. QED
  BY <1>1, <1>2

(* A step after which no attempt is pending that was not.                   *)
LEMMA NoneAdmitted ==
  ASSUME NEW p \in Procs, NEW k \in Keys,
         \A q \in Requests :
           \/ req'[q] = req[q]
           \/ req'[q].stage \notin {"select", "refuse"}
           \/ /\ req[q].stage = "select"
              /\ req'[q].proc = req[q].proc /\ req'[q].key = req[q].key
  PROVE  Pending(p, k)' \subseteq Pending(p, k)
  BY DEF Pending

(* A step that only forgets failures, and lets no attempt in.               *)
LEMMA Calmer ==
  ASSUME TypeOK, GuessesOK,
         \A p \in Procs, k \in Keys :
           \/ failures'[p][k] = Fresh
           \/ /\ failures'[p][k].count = failures[p][k].count
              /\ failures'[p][k].locked = failures[p][k].locked,
         \A p \in Procs, k \in Keys : Pending(p, k)' \subseteq Pending(p, k)
  PROVE  GuessesOK'
<1> SUFFICES ASSUME NEW p \in Procs, NEW k \in Keys
             PROVE  LET f == failures'[p][k] IN
                    /\ f.locked <=> f.count >= Limit
                    /\ f.count + Cardinality(Pending(p, k)') <= Limit + Cardinality(Requests) - 1
  BY DEF GuessesOK
<1>1. Pending(p, k) \in SUBSET Requests /\ Pending(p, k)' \in SUBSET Pending(p, k)
  BY DEF Pending
<1>2. /\ Cardinality(Pending(p, k)') <= Cardinality(Pending(p, k))
      /\ Cardinality(Pending(p, k)') \in Nat /\ Cardinality(Pending(p, k)) \in Nat
      /\ Cardinality(Pending(p, k)') <= Cardinality(Requests) /\ Cardinality(Requests) \in Nat
  <2>1. Pending(p, k)' \in SUBSET Requests
    BY <1>1
  <2>2. QED
    BY <1>1, <2>1, RequestsAreFinite
<1>3. Limit \in Nat \ {0} /\ failures[p][k].count \in Nat
  BY <1>2, AuthAssumption DEF AuthAssumption, TypeOK, Failures
<1>4. CASE failures'[p][k] = Fresh
  BY <1>2, <1>3, <1>4, FreshIsEmpty
<1>5. CASE failures'[p][k].count = failures[p][k].count /\ failures'[p][k].locked = failures[p][k].locked
  BY <1>2, <1>3, <1>5 DEF GuessesOK
<1>6. QED
  BY <1>4, <1>5

-----------------------------------------------------------------------------
(* The first state.                                                         *)

(* At the start nobody has tried and one password is known.                 *)
LEMMA InitInv == Init => AuthInv
<1> SUFFICES ASSUME Init PROVE AuthInv
  OBVIOUS
<1>0. MaxChanges \in Nat /\ Limit \in Nat \ {0} /\ Cardinality(Requests) \in Nat
  BY RequestsAreFinite, AuthAssumption DEF AuthAssumption
<1>1. TypeOK
  BY <1>0, FreshIsEmpty DEF Init, TypeOK, Versions
<1>2. RequestsOK /\ OldPasswordGone
  BY DEF Init, RequestsOK, OldPasswordGone, Idle
<1>3. GuessesOK
  <2> SUFFICES ASSUME NEW p \in Procs, NEW k \in Keys
               PROVE  /\ Fresh.locked <=> Fresh.count >= Limit
                      /\ Fresh.count + Cardinality(Pending(p, k)) <= Limit + Cardinality(Requests) - 1
    BY DEF Init, GuessesOK
  <2>1. Pending(p, k) = {}
    BY DEF Init, Pending, Idle
  <2>2. Cardinality(Pending(p, k)) = 0
    BY <2>1, FS_EmptySet
  <2>3. QED
    BY <1>0, <2>2, FreshIsEmpty
<1>4. QED
  BY <1>1, <1>2, <1>3 DEF AuthInv

-----------------------------------------------------------------------------
(* The limiter.                                                             *)

(* The failures of a process after the clean-up are failures.               *)
LEMMA CleanUp ==
  ASSUME TypeOK, NEW p \in Procs, failures' = [failures EXCEPT ![p] = Cleaned(@)]
  PROVE  /\ failures' \in [Procs -> [Keys -> Failures]]
         /\ \A o \in Procs, k \in Keys : failures'[o][k] = Fresh \/ failures'[o][k] = failures[o][k]
<1>1. Cleaned(failures[p]) \in [Keys -> Failures]
  BY CleanedEntries
<1>2. failures'[p] = Cleaned(failures[p]) /\ \A o \in Procs \ {p} : failures'[o] = failures[o]
  BY DEF TypeOK
<1>3. failures' \in [Procs -> [Keys -> Failures]]
  BY <1>1 DEF TypeOK
<1>4. QED
  BY <1>2, <1>3, CleanedEntries

(* A refused login: one failure more, one pending attempt less.             *)
LEMMA RefuseCounts ==
  ASSUME TypeOK, GuessesOK, NEW q \in Requests, Refuse(q)
  PROVE  failures' \in [Procs -> [Keys -> Failures]] /\ GuessesOK'
<1>1. PICK p \in Procs, k \in Keys : p = req[q].proc /\ k = req[q].key
  BY JobKinds DEF Refuse
<1> DEFINE fs == Cleaned(failures[p])
           n == Cardinality(Pending(p, k))
<1>2. q \in Pending(p, k) /\ Pending(p, k) \in SUBSET Requests
  BY <1>1 DEF Refuse, Pending
<1>3. /\ n \in Nat /\ n >= 1 /\ Cardinality(Requests) \in Nat
      /\ Cardinality(Pending(p, k) \ {q}) = n - 1
      /\ Cardinality(Pending(p, k) \ {q}) \in Nat
  <2>1. Pending(p, k) \ {q} \in SUBSET Requests
    BY <1>2
  <2>2. n \in Nat /\ Cardinality(Requests) \in Nat /\ Cardinality(Pending(p, k) \ {q}) \in Nat
    BY <1>2, <2>1, RequestsAreFinite
  <2>3. Cardinality(Pending(p, k) \ {q}) = n - 1
    BY <1>2, OneRequestLess
  <2>4. QED
    BY <2>2, <2>3
<1>4. /\ Limit \in Nat \ {0} /\ failures[p][k] \in Failures
      /\ failures[p][k].count + n <= Limit + Cardinality(Requests) - 1
      /\ failures[p][k].locked <=> failures[p][k].count >= Limit
      /\ failures[p][k].count \in Nat
  BY <1>3, AuthAssumption DEF AuthAssumption, TypeOK, Failures, GuessesOK
<1>5. /\ fs \in [Keys -> Failures] /\ fs[k] \in {failures[p][k], Fresh}
  BY CleanedEntries
<1>6. /\ fs[k] \in Failures /\ fs[k].count <= failures[p][k].count /\ fs[k].count \in Nat
      /\ fs[k].locked <=> fs[k].count >= Limit
  BY <1>4, <1>5, FreshIsEmpty
<1>7. /\ Counted(fs[k]) \in Failures /\ Counted(fs[k]).count <= fs[k].count + 1
      /\ Counted(fs[k]).locked <=> Counted(fs[k]).count >= Limit
      /\ Counted(fs[k]).count \in Nat
  <2>1. fs[k].count < Limit + Cardinality(Requests)
    BY <1>3, <1>4, <1>6
  <2>2. /\ Counted(fs[k]) \in Failures /\ Counted(fs[k]).count <= fs[k].count + 1
        /\ Counted(fs[k]).locked <=> Counted(fs[k]).count >= Limit
    BY <1>6, <2>1, CountedEntry
  <2>3. QED
    BY <2>2, <1>3, <1>4 DEF Failures
<1> HIDE DEF fs
<1>8. failures' = [failures EXCEPT ![p] = [fs EXCEPT ![k] = Counted(fs[k])]]
  BY <1>1 DEF Refuse, RecordFailure, fs
<1>9. failures' \in [Procs -> [Keys -> Failures]]
  BY <1>5, <1>7, <1>8 DEF TypeOK
<1>10. /\ failures'[p][k] = Counted(fs[k])
       /\ \A j \in Keys \ {k} : failures'[p][j] = fs[j]
       /\ \A o \in Procs \ {p} : failures'[o] = failures[o]
  BY <1>5, <1>8 DEF TypeOK
<1>11. \A j \in Requests : req'[j] = IF j = q THEN Idle ELSE req[j]
  BY DEF Refuse, End, TypeOK
<1>12. Pending(p, k)' = Pending(p, k) \ {q}
  BY <1>11 DEF Pending, Idle
<1>13. ASSUME NEW o \in Procs, NEW j \in Keys
       PROVE  /\ failures'[o][j].locked <=> failures'[o][j].count >= Limit
              /\ failures'[o][j].count + Cardinality(Pending(o, j)') <= Limit + Cardinality(Requests) - 1
  <2>1. CASE o = p /\ j = k
    <3>1. Cardinality(Pending(p, k)') = n - 1
      BY <1>3, <1>12
    <3>2. failures'[o][j].count <= failures[p][k].count + 1 /\ failures'[o][j].count \in Nat
      BY <1>4, <1>6, <1>7, <1>10, <2>1
    <3>3. failures'[o][j].count + (n - 1) <= Limit + Cardinality(Requests) - 1
      BY <1>3, <1>4, <3>2
    <3>4. QED
      BY <1>7, <1>10, <2>1, <3>1, <3>3
  <2>2. CASE ~(o = p /\ j = k)
    <3>1. failures'[o][j] \in {failures[o][j], Fresh}
      BY <1>10, <2>2, CleanedEntries DEF fs
    <3>2. /\ Pending(o, j)' \in SUBSET Pending(o, j) /\ Pending(o, j) \in SUBSET Requests
          /\ Pending(o, j)' \in SUBSET Requests
      BY <1>11 DEF Pending, Idle
    <3>3. /\ Cardinality(Pending(o, j)') <= Cardinality(Pending(o, j))
          /\ Cardinality(Pending(o, j)') \in Nat /\ Cardinality(Pending(o, j)) \in Nat
          /\ Cardinality(Pending(o, j)') <= Cardinality(Requests)
      BY <3>2, RequestsAreFinite
    <3>4. failures[o][j].count \in Nat
      BY <1>3, <1>4 DEF TypeOK, Failures
    <3>5. QED
      BY <1>3, <1>4, <3>1, <3>3, <3>4, FreshIsEmpty DEF GuessesOK
  <2>3. QED
    BY <2>1, <2>2
<1>14. QED
  BY <1>9, <1>13 DEF GuessesOK

(* A key that is not blocked has failures to spare.                         *)
LEMMA AdmitCounts ==
  ASSUME TypeOK, GuessesOK, NEW q \in Requests, NEW p \in Procs, NEW k \in Keys,
         NEW shown \in Versions, Admit(q, p, k, shown)
  PROVE  failures' \in [Procs -> [Keys -> Failures]] /\ GuessesOK'
<1>1. /\ failures' \in [Procs -> [Keys -> Failures]]
      /\ \A o \in Procs, j \in Keys : failures'[o][j] = Fresh \/ failures'[o][j] = failures[o][j]
  BY CleanUp DEF Admit
<1>2. failures'[p][k].locked = FALSE
  <2>1. failures'[p] = Cleaned(failures[p])
    BY DEF Admit, TypeOK
  <2>2. failures'[p][k].locked \in BOOLEAN
    BY <1>1 DEF Failures
  <2>3. QED
    BY <2>1, <2>2 DEF Admit, Blocked
<1>3. \A j \in Requests \ {q} : req'[j] = req[j]
  BY DEF Admit, Start
<1>4. req'[q].proc = p /\ req'[q].key = k
  BY DEF Admit, Start, TypeOK
<1>5. Limit \in Nat \ {0} /\ Cardinality(Requests) \in Nat
  BY RequestsAreFinite, AuthAssumption DEF AuthAssumption
<1>6. ASSUME NEW o \in Procs, NEW j \in Keys
      PROVE  /\ failures'[o][j].locked <=> failures'[o][j].count >= Limit
             /\ failures'[o][j].count + Cardinality(Pending(o, j)') <= Limit + Cardinality(Requests) - 1
  <2>1. /\ Pending(o, j)' \in SUBSET Requests /\ Pending(o, j) \in SUBSET Requests
        /\ Cardinality(Pending(o, j)') \in Nat /\ Cardinality(Pending(o, j)) \in Nat
        /\ Cardinality(Pending(o, j)') <= Cardinality(Requests)
    <3>1. Pending(o, j)' \in SUBSET Requests /\ Pending(o, j) \in SUBSET Requests
      BY DEF Pending
    <3>2. QED
      BY <3>1, RequestsAreFinite
  <2>2. failures'[o][j].count \in Nat /\ failures[o][j].count \in Nat
    BY <1>1, <1>5 DEF TypeOK, Failures
  <2>3. failures'[o][j].locked <=> failures'[o][j].count >= Limit
    BY <1>1, <1>5, FreshIsEmpty DEF GuessesOK
  <2>4. CASE o = p /\ j = k
    <3>1. ~(failures'[o][j].count >= Limit)
      BY <1>2, <2>3, <2>4
    <3>2. QED
      BY <1>5, <2>1, <2>2, <2>3, <3>1
  <2>5. CASE ~(o = p /\ j = k)
    <3>1. Pending(o, j)' \in SUBSET Pending(o, j)
      BY <1>3, <1>4, <2>5 DEF Pending
    <3>2. Cardinality(Pending(o, j)') <= Cardinality(Pending(o, j))
      BY <2>1, <3>1, RequestsAreFinite
    <3>3. QED
      BY <1>1, <1>5, <2>1, <2>2, <2>3, <3>2, FreshIsEmpty DEF GuessesOK
  <2>6. QED
    BY <2>4, <2>5
<1>7. QED
  BY <1>1, <1>6 DEF GuessesOK

(* No step exceeds what the limiter allows.                                 *)
LEMMA StepGuesses ==
  ASSUME TypeOK, GuessesOK, Next
  PROVE  failures' \in [Procs -> [Keys -> Failures]] /\ GuessesOK'
<1> DEFINE Goal == failures' \in [Procs -> [Keys -> Failures]] /\ GuessesOK'
           Quiet == \A p \in Procs, k \in Keys : Pending(p, k)' \subseteq Pending(p, k)
<1>1. ASSUME UNCHANGED failures, Quiet
      PROVE  Goal
  <2>1. failures' \in [Procs -> [Keys -> Failures]]
    BY <1>1 DEF TypeOK
  <2>2. QED
    BY <1>1, <2>1, Calmer
<1>2. ASSUME NEW q \in Requests, NEW p \in Procs, NEW k \in Keys, TurnAway(q, p, k)
      PROVE  Goal
  <2>1. Quiet
    BY <1>2 DEF TurnAway, Pending
  <2>2. /\ failures' \in [Procs -> [Keys -> Failures]]
        /\ \A o \in Procs, j \in Keys : failures'[o][j] = Fresh \/ failures'[o][j] = failures[o][j]
    BY <1>2, CleanUp DEF TurnAway
  <2>3. QED
    BY <2>1, <2>2, Calmer
<1>3. ASSUME NEW q \in Requests, NEW p \in Procs, Manage(q, p)
      PROVE  Goal
  <2>1. /\ UNCHANGED failures /\ \A j \in Requests \ {q} : req'[j] = req[j]
        /\ req'[q].stage \notin {"select", "refuse"}
    BY <1>3 DEF Manage, StartChange, StartRevoke, Start, TypeOK
  <2>2. QED
    BY <1>1, <2>1, NoneAdmitted
<1>4. ASSUME NEW q \in Requests, SelectUser(q)
      PROVE  Goal
  <2>1. /\ UNCHANGED failures /\ \A j \in Requests \ {q} : req'[j] = req[j]
    BY <1>4 DEF SelectUser, Go
  <2>2. req'[q].proc = req[q].proc /\ req'[q].key = req[q].key /\ req[q].stage = "select"
    BY <1>4, JobKinds DEF SelectUser, Go, TypeOK
  <2>3. QED
    BY <1>1, <2>1, <2>2, NoneAdmitted
<1>5. ASSUME NEW q \in Requests, Insert(q)
      PROVE  Goal
  <2>1. /\ UNCHANGED failures /\ \A j \in Requests \ {q} : req'[j] = req[j]
        /\ req'[q].stage \notin {"select", "refuse"}
    BY <1>5 DEF Insert, TypeOK
  <2>2. QED
    BY <1>1, <2>1, NoneAdmitted
<1>6. ASSUME NEW q \in Requests, Welcome(q)
      PROVE  Goal
  <2>1. /\ \A j \in Requests \ {q} : req'[j] = req[j]
        /\ req'[q].stage \notin {"select", "refuse"}
    BY <1>6 DEF Welcome, End, TypeOK, Idle
  <2>2. /\ failures' \in [Procs -> [Keys -> Failures]]
        /\ \A o \in Procs, j \in Keys : failures'[o][j] = Fresh \/ failures'[o][j] = failures[o][j]
    BY <1>6, FreshIsEmpty DEF Welcome, TypeOK
  <2>3. Quiet
    BY <2>1, NoneAdmitted
  <2>4. QED
    BY <2>2, <2>3, Calmer
<1>7. ASSUME NEW q \in Requests, VerifyOld(q) \/ UpdatePassword(q)
      PROVE  Goal
  <2>1. /\ UNCHANGED failures /\ \A j \in Requests \ {q} : req'[j] = req[j]
        /\ req'[q].stage \notin {"select", "refuse"}
    BY <1>7, JobKinds DEF VerifyOld, UpdatePassword, Go, End, TypeOK, Idle
  <2>2. QED
    BY <1>1, <2>1, NoneAdmitted
<1>8. ASSUME NEW q \in Requests, Purge(q) \/ Revoke(q) \/ Fail(q)
      PROVE  Goal
  <2>1. /\ UNCHANGED failures /\ \A j \in Requests \ {q} : req'[j] = req[j]
        /\ req'[q].stage \notin {"select", "refuse"}
    BY <1>8 DEF Purge, Revoke, Fail, End, TypeOK, Idle
  <2>2. QED
    BY <1>1, <2>1, NoneAdmitted
<1>9. ASSUME NEW t \in Tokens, SessionEnds(t)
      PROVE  Goal
  BY <1>1, <1>9, NoneAdmitted DEF SessionEnds
<1>10. ASSUME NEW p \in Procs, Restart(p)
       PROVE  Goal
  <2>1. Quiet
    BY <1>10, NoneAdmitted DEF Restart, Idle
  <2>2. /\ failures' \in [Procs -> [Keys -> Failures]]
        /\ \A o \in Procs, j \in Keys : failures'[o][j] = Fresh \/ failures'[o][j] = failures[o][j]
    BY <1>10, FreshIsEmpty DEF Restart, TypeOK
  <2>3. QED
    BY <2>1, <2>2, Calmer
<1>11. CASE Tick
  <2>1. \A p \in Procs, k \in Keys : failures'[p][k] = Older(failures[p][k])
    BY <1>11 DEF Tick
  <2>2. \A p \in Procs, k \in Keys :
          /\ Older(failures[p][k]) \in Failures
          /\ Older(failures[p][k]).count = failures[p][k].count
          /\ Older(failures[p][k]).locked = failures[p][k].locked
    BY OlderEntry DEF TypeOK
  <2>3. Quiet
    BY <1>11, NoneAdmitted DEF Tick
  <2>4. failures' \in [Procs -> [Keys -> Failures]]
    BY <1>11, <2>2 DEF Tick
  <2>5. GuessesOK'
    BY <2>1, <2>2, <2>3, Calmer
  <2>6. QED
    BY <2>4, <2>5
<1>12. QED
  BY <1>2, <1>3, <1>4, <1>5, <1>6, <1>7, <1>8, <1>9, <1>10, <1>11, AdmitCounts, RefuseCounts
     DEF Next, Login, Proceed

-----------------------------------------------------------------------------
(* Types.                                                                   *)

(* Every operation goes on as an operation.                                 *)
LEMMA StepReq ==
  ASSUME TypeOK, Next
  PROVE  req' \in [Requests -> {Idle} \cup Jobs]
<1> DEFINE Goal == req' \in [Requests -> {Idle} \cup Jobs]
<1>1. ASSUME NEW q \in Requests, NEW job \in {Idle} \cup Jobs, req' = [req EXCEPT ![q] = job]
      PROVE  Goal
  BY <1>1 DEF TypeOK
<1>2. ASSUME UNCHANGED req
      PROVE  Goal
  BY <1>2 DEF TypeOK
<1>3. ASSUME NEW q \in Requests, NEW p \in Procs, NEW k \in Keys, NEW shown \in Versions,
             Admit(q, p, k, shown)
      PROVE  Goal
  BY <1>1, <1>3 DEF Admit, Start, Jobs
<1>4. ASSUME NEW q \in Requests, NEW p \in Procs, Manage(q, p)
      PROVE  Goal
  <2>1. ASSUME NEW t \in Tokens, NEW shown \in Versions, StartChange(q, p, t, shown)
        PROVE  Goal
    BY <1>1, <2>1 DEF StartChange, Start, Jobs
  <2>2. ASSUME NEW t \in Tokens, NEW target \in Tokens, StartRevoke(q, p, t, target)
        PROVE  Goal
    BY <1>1, <2>2 DEF StartRevoke, Start, Jobs
  <2>3. QED
    BY <1>4, <2>1, <2>2 DEF Manage
<1>5. ASSUME NEW q \in Requests, NEW stage, Go(q, stage), [req[q] EXCEPT !.stage = stage] \in Jobs
      PROVE  Goal
  BY <1>5 DEF Go, TypeOK
<1>6. ASSUME NEW q \in Requests, SelectUser(q)
      PROVE  Goal
  <2>1. [req[q] EXCEPT !.stage = "insert"] \in Jobs /\ [req[q] EXCEPT !.stage = "refuse"] \in Jobs
    BY <1>6, JobKinds DEF SelectUser, Jobs
  <2>2. QED
    BY <1>5, <1>6, <2>1 DEF SelectUser
<1>7. ASSUME NEW q \in Requests, Insert(q)
      PROVE  Goal
  BY <1>1, <1>7, JobKinds DEF Insert, Jobs
<1>8. ASSUME NEW q \in Requests, End(q)
      PROVE  Goal
  BY <1>1, <1>8 DEF End
<1>9. ASSUME NEW q \in Requests, VerifyOld(q)
      PROVE  Goal
  <2>1. [req[q] EXCEPT !.stage = "update"] \in Jobs
    BY <1>9, JobKinds DEF VerifyOld, Jobs
  <2>2. QED
    BY <1>5, <1>8, <1>9, <2>1 DEF VerifyOld
<1>10. ASSUME NEW q \in Requests, UpdatePassword(q)
       PROVE  Goal
  <2>1. req[q] \in [stage : {"read", "update", "purge"}, proc : Procs, token : Tokens, shown : Versions]
    BY <1>10, JobKinds DEF UpdatePassword
  <2>2. password + 1 \in Versions
    BY <1>10, AuthAssumption DEF UpdatePassword, TypeOK, Versions, AuthAssumption
  <2>3. [req[q] EXCEPT !.stage = "purge", !.shown = password + 1] \in Jobs
    BY <2>1, <2>2 DEF Jobs
  <2>4. QED
    BY <1>1, <1>10, <2>3 DEF UpdatePassword
<1>11. ASSUME NEW p \in Procs, Restart(p)
       PROVE  Goal
  BY <1>11 DEF Restart, TypeOK
<1>12. QED
  BY <1>2, <1>3, <1>4, <1>6, <1>7, <1>8, <1>9, <1>10, <1>11
     DEF Next, Login, TurnAway, Proceed, Refuse, Welcome, Purge, Revoke, Fail, SessionEnds, Tick

(* Each step keeps the types; a session is inserted only under a password   *)
(* that was stored.                                                         *)
LEMMA StepTypeOK ==
  ASSUME TypeOK, RequestsOK, GuessesOK, Next
  PROVE  TypeOK'
<1>0. req' \in [Requests -> {Idle} \cup Jobs] /\ failures' \in [Procs -> [Keys -> Failures]]
  BY StepReq, StepGuesses
<1>1. ASSUME UNCHANGED <<store, held>>
      PROVE  TypeOK'
  BY <1>0, <1>1 DEF TypeOK, store
<1>2. ASSUME NEW q \in Requests, Insert(q)
      PROVE  TypeOK'
  <2>1. req[q].shown \in 0..password
    <3>1. req[q].shown \in 0..MaxChanges /\ req[q].shown <= password /\ password \in 0..MaxChanges
      BY <1>2, JobKinds DEF Insert, RequestsOK, Versions, TypeOK
    <3>2. QED
      BY <3>1, AuthAssumption DEF AuthAssumption
  <2>2. PICK t \in Tokens \ spent :
          /\ sessions' = sessions \cup {t} /\ spent' = spent \cup {t}
          /\ era' = [era EXCEPT ![t] = req[q].shown]
          /\ late' = IF req[q].shown = password THEN late ELSE late \cup {t}
    BY <1>2 DEF Insert
  <2>3. era' \in [Tokens -> 0..password]
    BY <2>1, <2>2 DEF TypeOK
  <2>4. QED
    BY <1>0, <1>2, <2>2, <2>3 DEF Insert, TypeOK
<1>3. ASSUME NEW q \in Requests, Welcome(q)
      PROVE  TypeOK'
  <2>1. req[q].token \in spent
    BY <1>3 DEF Welcome, RequestsOK
  <2>2. QED
    BY <1>0, <1>3, <2>1 DEF Welcome, TypeOK, store
<1>4. ASSUME NEW q \in Requests, UpdatePassword(q)
      PROVE  TypeOK'
  <2>1. password \in Nat /\ password + 1 \in Versions /\ purged \in 0..(password + 1)
    BY <1>4, AuthAssumption DEF UpdatePassword, TypeOK, Versions, AuthAssumption
  <2>2. era' \in [Tokens -> 0..(password + 1)]
    <3>1. era \in [Tokens -> 0..(password + 1)] /\ password + 1 \in 0..(password + 1)
      BY <2>1 DEF TypeOK
    <3>2. QED
      BY <1>4, <3>1 DEF UpdatePassword
  <2>3. QED
    BY <1>0, <1>4, <2>1, <2>2 DEF UpdatePassword, TypeOK
<1>5. ASSUME NEW q \in Requests, Purge(q)
      PROVE  TypeOK'
  <2>1. req[q].shown \in 0..MaxChanges /\ req[q].shown <= password /\ password \in 0..MaxChanges
    BY <1>5, JobKinds DEF Purge, RequestsOK, Versions, TypeOK
  <2>2. purged' \in 0..password
    BY <1>5, <2>1, AuthAssumption DEF Purge, TypeOK, AuthAssumption
  <2>3. QED
    BY <1>0, <1>5, <2>2 DEF Purge, TypeOK
<1>6. ASSUME NEW q \in Requests, Revoke(q)
      PROVE  TypeOK'
  BY <1>0, <1>6 DEF Revoke, TypeOK
<1>7. ASSUME NEW t \in Tokens, SessionEnds(t)
      PROVE  TypeOK'
  BY <1>0, <1>7 DEF SessionEnds, TypeOK
<1>8. QED
  BY <1>1, <1>2, <1>3, <1>4, <1>5, <1>6, <1>7
     DEF Next, Login, TurnAway, Admit, Manage, StartChange, StartRevoke, Proceed, SelectUser,
         Refuse, VerifyOld, Fail, Restart, Tick

-----------------------------------------------------------------------------
(* Sessions and passwords.                                                  *)

(* The password and the tokens used only grow, and so does what the client  *)
(* of a session knows.                                                      *)
LEMMA NothingForgotten ==
  ASSUME TypeOK, RequestsOK, Next
  PROVE  /\ password <= password' /\ spent \subseteq spent'
         /\ \A t \in spent : era[t] <= era'[t]
<1>0. password \in Nat /\ \A t \in Tokens : era[t] \in 0..password
  BY AuthAssumption DEF TypeOK, Versions, AuthAssumption
<1>1. ASSUME UNCHANGED <<password, spent, era>>
      PROVE  /\ password <= password' /\ spent \subseteq spent'
             /\ \A t \in spent : era[t] <= era'[t]
  BY <1>0, <1>1 DEF TypeOK
<1>2. ASSUME NEW q \in Requests, Insert(q)
      PROVE  /\ password <= password' /\ spent \subseteq spent'
             /\ \A t \in spent : era[t] <= era'[t]
  BY <1>0, <1>2 DEF Insert, TypeOK
<1>3. ASSUME NEW q \in Requests, UpdatePassword(q)
      PROVE  /\ password <= password' /\ spent \subseteq spent'
             /\ \A t \in spent : era[t] <= era'[t]
  BY <1>0, <1>3 DEF UpdatePassword, TypeOK
<1>4. QED
  BY <1>1, <1>2, <1>3
     DEF Next, Login, TurnAway, Admit, Manage, StartChange, StartRevoke, Proceed, SelectUser,
         Refuse, Welcome, VerifyOld, Purge, Revoke, SessionEnds, Fail, Restart, Tick, store

(* What a request can count on survives every step, its own and others'.    *)
LEMMA StepRequestsOK ==
  ASSUME TypeOK, RequestsOK, Next
  PROVE  RequestsOK'
<1> DEFINE Fine(q, job) ==
      /\ job.stage \in {"insert", "purge"} => job.shown <= password'
      /\ job.stage \in {"welcome", "read", "update", "purge"} => job.token \in spent'
      /\ job.stage = "purge" => job.shown <= era'[job.token]
<1>0. /\ password \in Nat /\ password' \in Nat
      /\ \A t \in Tokens : era[t] \in 0..password
      /\ \A t \in spent : era'[t] \in Nat
  <2>1. password \in Nat /\ \A t \in Tokens : era[t] \in 0..password
    BY AuthAssumption DEF TypeOK, Versions, AuthAssumption
  <2>2. CASE UNCHANGED <<password, era>>
    BY <2>1, <2>2 DEF TypeOK
  <2>3. ASSUME NEW q \in Requests, Insert(q)
        PROVE  password' \in Nat /\ \A t \in spent : era'[t] \in Nat
    BY <2>1, <2>3 DEF Insert, TypeOK
  <2>4. ASSUME NEW q \in Requests, UpdatePassword(q)
        PROVE  password' \in Nat /\ \A t \in spent : era'[t] \in Nat
    BY <2>1, <2>4 DEF UpdatePassword, TypeOK
  <2>5. QED
    BY <2>1, <2>2, <2>3, <2>4
       DEF Next, Login, TurnAway, Admit, Manage, StartChange, StartRevoke, Proceed, SelectUser,
           Refuse, Welcome, VerifyOld, Purge, Revoke, SessionEnds, Fail, Restart, Tick, store
<1>1. ASSUME NEW q \in Requests
      PROVE  Fine(q, req[q])
  <2>1. /\ password <= password' /\ spent \subseteq spent' /\ \A t \in spent : era[t] <= era'[t]
    BY NothingForgotten
  <2>2. CASE req[q].stage = "insert"
    <3>1. req[q].shown \in 0..MaxChanges /\ req[q].shown <= password
      BY <2>2, JobKinds DEF RequestsOK, Versions
    <3>2. QED
      BY <1>0, <2>1, <2>2, <3>1
  <2>3. CASE req[q].stage = "purge"
    <3>1. req[q].shown \in 0..MaxChanges /\ req[q].shown <= password
          /\ req[q].token \in spent /\ req[q].shown <= era[req[q].token]
      BY <2>3, JobKinds DEF RequestsOK, Versions
    <3>2. req[q].token \in Tokens /\ era[req[q].token] \in Nat
      BY <1>0, <3>1 DEF TypeOK
    <3>3. QED
      BY <1>0, <2>1, <2>3, <3>1, <3>2
  <2>4. CASE req[q].stage \notin {"insert", "purge"}
    BY <2>1, <2>4 DEF RequestsOK
  <2>5. QED
    BY <2>2, <2>3, <2>4
<1>2. ASSUME NEW q \in Requests, \A j \in Requests \ {q} : req'[j] = req[j], Fine(q, req'[q])
      PROVE  RequestsOK'
  BY <1>1, <1>2 DEF RequestsOK
<1>3. ASSUME \A q \in Requests : req'[q] = req[q] \/ req'[q] = Idle
      PROVE  RequestsOK'
  BY <1>1, <1>3 DEF RequestsOK, Idle
<1>4. ASSUME NEW q \in Requests, NEW p \in Procs, NEW k \in Keys, NEW shown \in Versions,
             Admit(q, p, k, shown)
      PROVE  RequestsOK'
  BY <1>2, <1>4 DEF Admit, Start, TypeOK
<1>5. ASSUME NEW q \in Requests, NEW p \in Procs, Manage(q, p)
      PROVE  RequestsOK'
  BY <1>2, <1>5 DEF Manage, StartChange, StartRevoke, Start, TypeOK, store
<1>6. ASSUME NEW q \in Requests, SelectUser(q)
      PROVE  RequestsOK'
  <2>1. /\ \A j \in Requests \ {q} : req'[j] = req[j]
        /\ req'[q].shown = req[q].shown /\ password' = password
        /\ req'[q].stage = IF req[q].shown = password THEN "insert" ELSE "refuse"
    BY <1>6, JobKinds DEF SelectUser, Go, TypeOK, store
  <2>2. Fine(q, req'[q])
    BY <1>0, <2>1
  <2>3. QED
    BY <1>2, <2>1, <2>2
<1>7. ASSUME NEW q \in Requests, Insert(q)
      PROVE  RequestsOK'
  BY <1>2, <1>7 DEF Insert, TypeOK
<1>8. ASSUME NEW q \in Requests, End(q)
      PROVE  RequestsOK'
  BY <1>3, <1>8 DEF End, TypeOK
<1>9. ASSUME NEW q \in Requests, VerifyOld(q)
      PROVE  RequestsOK'
  <2>1. CASE Go(q, "update")
    <3>1. /\ \A j \in Requests \ {q} : req'[j] = req[j]
          /\ req'[q].stage = "update" /\ req'[q].token = req[q].token /\ req[q].stage = "read"
      BY <1>9, <2>1, JobKinds DEF VerifyOld, Go, TypeOK
    <3>2. req[q].token \in spent'
      BY <1>1, <3>1
    <3>3. QED
      BY <1>2, <3>1, <3>2
  <2>2. QED
    BY <1>8, <1>9, <2>1 DEF VerifyOld
<1>10. ASSUME NEW q \in Requests, UpdatePassword(q)
       PROVE  RequestsOK'
  <2>1. /\ \A j \in Requests \ {q} : req'[j] = req[j]
        /\ req'[q].stage = "purge" /\ req'[q].shown = password + 1
        /\ req'[q].token = req[q].token /\ password' = password + 1
    BY <1>10, JobKinds DEF UpdatePassword, TypeOK
  <2>2. req[q].token \in spent /\ spent' = spent
    BY <1>10 DEF UpdatePassword, RequestsOK
  <2>3. era'[req[q].token] = password + 1
    BY <1>10, <2>2 DEF UpdatePassword, TypeOK
  <2>4. QED
    BY <1>0, <1>2, <2>1, <2>2, <2>3
<1>11. ASSUME NEW p \in Procs, Restart(p)
       PROVE  RequestsOK'
  BY <1>3, <1>11 DEF Restart
<1>12. QED
  BY <1>3, <1>4, <1>5, <1>6, <1>7, <1>8, <1>9, <1>10, <1>11
     DEF Next, Login, TurnAway, Proceed, Refuse, Welcome, Purge, Revoke, Fail, SessionEnds, Tick

(* Ending the other sessions leaves one whose client knows the password that*)
(* was set; a login inserted since shows the password or counts as late.    *)
LEMMA StepOldPassword ==
  ASSUME TypeOK, RequestsOK, OldPasswordGone, Next
  PROVE  OldPasswordGone'
<1>0. /\ password \in Nat /\ purged \in 0..password
      /\ \A t \in Tokens : era[t] \in 0..password
      /\ \A t \in sessions : t \in Tokens /\ (era[t] < purged => t \in late)
  BY AuthAssumption DEF TypeOK, Versions, AuthAssumption, OldPasswordGone
<1>1. ASSUME sessions' \subseteq sessions, UNCHANGED <<era, late, purged>>
      PROVE  OldPasswordGone'
  BY <1>1 DEF OldPasswordGone
<1>2. ASSUME NEW q \in Requests, Insert(q)
      PROVE  OldPasswordGone'
  <2>1. PICK t \in Tokens \ spent :
          /\ sessions' = sessions \cup {t} /\ purged' = purged
          /\ era' = [era EXCEPT ![t] = req[q].shown]
          /\ late' = IF req[q].shown = password THEN late ELSE late \cup {t}
    BY <1>2 DEF Insert
  <2>2. t \notin sessions /\ era'[t] = req[q].shown /\ \A s \in sessions : era'[s] = era[s]
    BY <1>0, <2>1 DEF TypeOK
  <2>3. era'[t] < purged => t \in late'
    BY <1>0, <2>1, <2>2
  <2>4. QED
    BY <1>0, <2>1, <2>2, <2>3 DEF OldPasswordGone
<1>3. ASSUME NEW q \in Requests, UpdatePassword(q)
      PROVE  OldPasswordGone'
  <2>1. /\ UNCHANGED <<sessions, late, purged>>
        /\ \A t \in Tokens : era'[t] = era[t] \/ era'[t] = password + 1
    BY <1>3 DEF UpdatePassword, TypeOK
  <2>2. QED
    BY <1>0, <2>1 DEF OldPasswordGone
<1>4. ASSUME NEW q \in Requests, Purge(q)
      PROVE  OldPasswordGone'
  <2>1. /\ sessions' \subseteq sessions \cap {req[q].token} /\ UNCHANGED <<era, late>>
        /\ purged' = IF req[q].shown > purged THEN req[q].shown ELSE purged
    BY <1>4 DEF Purge, EndedByChange
  <2>2. req[q].shown <= era[req[q].token]
    BY <1>4 DEF Purge, RequestsOK
  <2>3. req[q].shown \in Nat
    BY <1>4, JobKinds DEF Purge, Versions
  <2>4. QED
    BY <1>0, <2>1, <2>2, <2>3 DEF OldPasswordGone
<1>5. QED
  BY <1>1, <1>2, <1>3, <1>4
     DEF Next, Login, TurnAway, Admit, Manage, StartChange, StartRevoke, Proceed, SelectUser,
         Refuse, Welcome, VerifyOld, Revoke, SessionEnds, Fail, Restart, Tick, store

-----------------------------------------------------------------------------
(* The invariant and what follows from it.                                  *)

(* The invariant is inductive.                                              *)
LEMMA NextInv == AuthInv /\ [Next]_vars => AuthInv'
<1> SUFFICES ASSUME AuthInv, [Next]_vars PROVE AuthInv'
  OBVIOUS
<1>1. CASE Next
  BY <1>1, StepTypeOK, StepRequestsOK, StepGuesses, StepOldPassword DEF AuthInv
<1>2. CASE UNCHANGED vars
  <2>1. TypeOK' /\ RequestsOK' /\ OldPasswordGone'
    BY <1>2 DEF AuthInv, vars, store, TypeOK, RequestsOK, OldPasswordGone
  <2>2. \A p \in Procs, k \in Keys : Pending(p, k)' = Pending(p, k)
    BY <1>2 DEF vars, Pending
  <2>3. GuessesOK'
    BY <1>2, <2>2 DEF AuthInv, vars, GuessesOK
  <2>4. QED
    BY <2>1, <2>3 DEF AuthInv
<1>3. QED
  BY <1>1, <1>2

(* In every behaviour, what login and change_password found still holds     *)
(* when they write, failures and attempts under way stay within the         *)
(* limiter's reach, and no session is older than its client's password.     *)
THEOREM AuthInvariant == Spec => []AuthInv
<1>1. QED
  BY InitInv, NextInv, PTL DEF Spec

(* The rows and entries are what the code says: sessions are tokens inserted*)
(* once, counters and times stay within their ranges, requests are at the   *)
(* steps of their handlers.                                                 *)
THEOREM AuthTypeCorrect == Spec => []TypeOK
<1>1. AuthInv => TypeOK
  BY DEF AuthInv
<1>2. QED
  BY <1>1, AuthInvariant, PTL

(* When change_password has run to its end, whoever still holds a session   *)
(* knows a password at least as new, unless its login was verified before   *)
(* the change and inserted after it.                                        *)
THEOREM OldPasswordsGo == Spec => []OldPasswordGone
<1>1. AuthInv => OldPasswordGone
  BY DEF AuthInv
<1>2. QED
  BY <1>1, AuthInvariant, PTL

(* login_blocked turns away exactly the keys with LOGIN_FAILURE_LIMIT       *)
(* failures, and attempts let in together overshoot it by no more than their*)
(* number less one.                                                         *)
THEOREM GuessesAreBounded == Spec => []BoundedGuesses
<1>1. AuthInv => BoundedGuesses
  <2> SUFFICES ASSUME AuthInv, NEW p \in Procs, NEW k \in Keys
               PROVE  /\ failures[p][k].locked <=> failures[p][k].count >= Limit
                      /\ failures[p][k].count <= Limit + Cardinality(Requests) - 1
    BY DEF BoundedGuesses
  <2>1. Pending(p, k) \in SUBSET Requests
    BY DEF Pending
  <2>2. Cardinality(Pending(p, k)) \in Nat /\ Cardinality(Requests) \in Nat
    BY <2>1, RequestsAreFinite
  <2>3. Limit \in Nat /\ failures[p][k].count \in Nat
    BY <2>2, AuthAssumption DEF AuthAssumption, AuthInv, TypeOK, Failures
  <2>4. QED
    BY <2>2, <2>3 DEF AuthInv, GuessesOK
<1>2. QED
  BY <1>1, AuthInvariant, PTL

=============================================================================
