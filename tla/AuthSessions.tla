---------------------------- MODULE AuthSessions ----------------------------
(***************************************************************************)
(* The administrator's login, sessions and password                        *)
(* (crates/services/src/auth.rs, the login limiter of                      *)
(* crates/app/src/state.rs, and the handlers of crates/app/src/web.rs).    *)
(*                                                                         *)
(* One user, whose password is known by its number: every change sets a    *)
(* new one.  The statements of an operation are not a transaction, so each *)
(* is a step.  The limiter's map is a process's own; its clock is counted  *)
(* in ticks, as the time an entry has existed and the time a lock has left.*)
(***************************************************************************)
EXTENDS Integers, FiniteSets

CONSTANTS
  Procs,      (* the processes                                              *)
  Keys,       (* login_failure_key: an address and a name                   *)
  Requests,   (* places for requests in progress                            *)
  Tokens,     (* session tokens                                             *)
  Limit,      (* LOGIN_FAILURE_LIMIT                                        *)
  Window,     (* LOGIN_FAILURE_WINDOW, in ticks                             *)
  Lockout,    (* LOGIN_LOCKOUT, in ticks                                    *)
  MaxChanges  (* bound on the changes of password                           *)

ASSUME AuthAssumption ==
  /\ IsFiniteSet(Requests)
  /\ Limit \in Nat \ {0} /\ Window \in Nat /\ Lockout \in Nat \ {0}
  /\ MaxChanges \in Nat

VARIABLES
  password,  (* the number of the stored password                           *)
  sessions,  (* tokens with a row of sessions that has not expired          *)
  spent,     (* tokens used up: inserted once                               *)
  held,      (* tokens a client was given                                   *)
  failures,  (* login_failures of each process                              *)
  req,       (* what each request is doing                                  *)
  era,       (* history: the last password each session's client has shown  *)
             (* or set                                                      *)
  late,      (* history: sessions inserted after the password they were     *)
             (* opened with had been replaced                               *)
  purged     (* history: the last password whose change also ended sessions *)

store == <<password, sessions, spent, era, late, purged>>
vars == <<store, held, failures, req>>

Versions == 0..MaxChanges
Fresh == [count |-> 0, age |-> 0, locked |-> FALSE, left |-> 0]
Failures == [count : 0..(Limit + Cardinality(Requests)), age : 0..(Window + 1),
             locked : BOOLEAN, left : 0..Lockout]
Idle == [stage |-> "idle"]

(* Logins in progress, and operations of a session: a change of password    *)
(* and a revocation.                                                        *)
Jobs ==
  [stage : {"select", "insert", "refuse"}, proc : Procs, key : Keys, shown : Versions]
  \cup [stage : {"welcome"}, proc : Procs, key : Keys, token : Tokens]
  \cup [stage : {"read", "update", "purge"}, proc : Procs, token : Tokens, shown : Versions]
  \cup [stage : {"revoke"}, proc : Procs, token : Tokens, target : Tokens]

TypeOK ==
  /\ password \in Versions /\ purged \in 0..password
  /\ sessions \in SUBSET spent /\ held \in SUBSET spent /\ late \in SUBSET spent
  /\ spent \in SUBSET Tokens
  /\ era \in [Tokens -> 0..password]
  /\ failures \in [Procs -> [Keys -> Failures]]
  /\ req \in [Requests -> {Idle} \cup Jobs]

Init ==
  /\ password = 0 /\ purged = 0
  /\ sessions = {} /\ spent = {} /\ held = {} /\ late = {}
  /\ era = [t \in Tokens |-> 0]
  /\ failures = [p \in Procs |-> [k \in Keys |-> Fresh]]
  /\ req = [q \in Requests |-> Idle]

Start(q, job) == req[q] = Idle /\ req' = [req EXCEPT ![q] = job]
Go(q, stage) == req' = [req EXCEPT ![q].stage = stage]
End(q) == req' = [req EXCEPT ![q] = Idle]

-----------------------------------------------------------------------------
(* The limiter.                                                             *)

(* cleanup_login_failures keeps locks that last and, of the others, entries *)
(* of the last Window.                                                      *)
Kept(f) == IF f.locked THEN f.left > 0 ELSE f.age <= Window
Cleaned(fs) == [k \in Keys |-> IF Kept(fs[k]) THEN fs[k] ELSE Fresh]

(* Variant: the lock is never looked at.                                    *)
BlockedNever(p, k) == FALSE

(* login_blocked, after its cleanup.                                        *)
Blocked(p, k) == Cleaned(failures[p])[k].locked

(* record_login_failure of one entry: an old one starts anew.               *)
Counted(f) ==
  LET g == IF f.age > Window THEN Fresh ELSE f IN
  IF g.count + 1 >= Limit
    THEN [g EXCEPT !.count = @ + 1, !.locked = TRUE, !.left = Lockout]
    ELSE [g EXCEPT !.count = @ + 1]

RecordFailure(p, k) ==
  LET fs == Cleaned(failures[p]) IN
  failures' = [failures EXCEPT ![p] = [fs EXCEPT ![k] = Counted(@)]]

-----------------------------------------------------------------------------
(* login_submit and login.  Whoever logs in shows some password, which may  *)
(* be an old one, or one that is not a password yet, that is, a wrong one.  *)

(* Variant: an attempt while the key is locked renews the lock.             *)
TurnAwayRenewing(q, p, k) ==
  /\ req[q] = Idle /\ Blocked(p, k)
  /\ failures' = [failures EXCEPT ![p] = [Cleaned(@) EXCEPT ![k].left = Lockout]]
  /\ UNCHANGED <<store, held, req>>

(* A locked key is turned away.                                             *)
TurnAway(q, p, k) ==
  /\ req[q] = Idle /\ Blocked(p, k)
  /\ failures' = [failures EXCEPT ![p] = Cleaned(@)]
  /\ UNCHANGED <<store, held, req>>

Admit(q, p, k, shown) ==
  /\ ~Blocked(p, k)
  /\ Start(q, [stage |-> "select", proc |-> p, key |-> k, shown |-> shown])
  /\ failures' = [failures EXCEPT ![p] = Cleaned(@)]
  /\ UNCHANGED <<store, held>>

(* SELECT of the user, and verify_password.                                 *)
SelectUser(q) ==
  /\ req[q].stage = "select"
  /\ Go(q, IF req[q].shown = password THEN "insert" ELSE "refuse")
  /\ UNCHANGED <<store, held, failures>>

(* A refused login: its audit row, then the count.                          *)
Refuse(q) ==
  /\ req[q].stage = "refuse"
  /\ RecordFailure(req[q].proc, req[q].key)
  /\ End(q)
  /\ UNCHANGED <<store, held>>

(* INSERT INTO sessions.                                                    *)
Insert(q) ==
  /\ req[q].stage = "insert"
  /\ \E t \in Tokens \ spent :
       /\ sessions' = sessions \cup {t} /\ spent' = spent \cup {t}
       /\ era' = [era EXCEPT ![t] = req[q].shown]
       /\ late' = IF req[q].shown = password THEN late ELSE late \cup {t}
       /\ req' = [req EXCEPT ![q] =
            [stage |-> "welcome", proc |-> req[q].proc, key |-> req[q].key, token |-> t]]
  /\ UNCHANGED <<password, purged, held, failures>>

(* Its audit row is written, failures are forgotten, the client gets the    *)
(* token.                                                                   *)
Welcome(q) ==
  /\ req[q].stage = "welcome"
  /\ failures' = [failures EXCEPT ![req[q].proc][req[q].key] = Fresh]
  /\ held' = held \cup {req[q].token}
  /\ End(q)
  /\ UNCHANGED store

-----------------------------------------------------------------------------
(* Operations of a session.                                                 *)

(* admin_change_password: session_valid and current_session.                *)
StartChange(q, p, t, shown) ==
  /\ t \in held \cap sessions
  /\ Start(q, [stage |-> "read", proc |-> p, token |-> t, shown |-> shown])
  /\ UNCHANGED <<store, held, failures>>

(* change_password: SELECT of the user, and verify_password.                *)
VerifyOld(q) ==
  /\ req[q].stage = "read"
  /\ IF req[q].shown = password THEN Go(q, "update") ELSE End(q)
  /\ UNCHANGED <<store, held, failures>>

(* UPDATE users SET password_hash.                                          *)
UpdatePassword(q) ==
  /\ req[q].stage = "update"
  /\ password < MaxChanges
  /\ password' = password + 1
  /\ era' = [era EXCEPT ![req[q].token] = password + 1]
  /\ req' = [req EXCEPT ![q].stage = "purge", ![q].shown = password + 1]
  /\ UNCHANGED <<sessions, spent, late, purged, held, failures>>

(* Variant: the session that changes the password is ended, not the others. *)
EndedByChangeOwn(t) == sessions \cap {t}

(* DELETE FROM sessions WHERE user_id = $1 AND token_hash <> $2             *)
EndedByChange(t) == sessions \ {t}

Purge(q) ==
  /\ req[q].stage = "purge"
  /\ sessions' = sessions \ EndedByChange(req[q].token)
  /\ purged' = IF req[q].shown > purged THEN req[q].shown ELSE purged
  /\ End(q)
  /\ UNCHANGED <<password, spent, era, late, held, failures>>

(* admin_revoke_session: session_valid and current_session.                 *)
StartRevoke(q, p, t, target) ==
  /\ t \in held \cap sessions /\ target \in sessions \ {t}
  /\ Start(q, [stage |-> "revoke", proc |-> p, token |-> t, target |-> target])
  /\ UNCHANGED <<store, held, failures>>

(* revoke_session: the DELETE.                                              *)
Revoke(q) ==
  /\ req[q].stage = "revoke"
  /\ sessions' = sessions \ {req[q].target}
  /\ End(q)
  /\ UNCHANGED <<password, spent, era, late, purged, held, failures>>

(* logout, whatever current_session says; expiry after seven days, which    *)
(* cleanup_expired only makes visible in the table.                         *)
SessionEnds(t) ==
  /\ t \in sessions
  /\ sessions' = sessions \ {t}
  /\ UNCHANGED <<password, spent, era, late, purged, held, failures, req>>

-----------------------------------------------------------------------------
(* A statement fails, its audit row fails, or the client goes away: the     *)
(* rest of the operation does not happen.                                   *)
Fail(q) ==
  /\ req[q] # Idle
  /\ End(q)
  /\ UNCHANGED <<store, held, failures>>

(* A process restarts: its requests end and its limiter forgets.            *)
Restart(p) ==
  /\ failures' = [failures EXCEPT ![p] = [k \in Keys |-> Fresh]]
  /\ req' = [q \in Requests |-> IF req[q] # Idle /\ req[q].proc = p THEN Idle ELSE req[q]]
  /\ UNCHANGED <<store, held>>

Older(f) ==
  IF f = Fresh THEN f
  ELSE [f EXCEPT !.age = IF @ <= Window THEN @ + 1 ELSE @,
                 !.left = IF @ > 0 THEN @ - 1 ELSE 0]

Tick ==
  /\ failures' = [p \in Procs |-> [k \in Keys |-> Older(failures[p][k])]]
  /\ UNCHANGED <<store, held, req>>

Login(q, p) ==
  \E k \in Keys : TurnAway(q, p, k) \/ \E shown \in Versions : Admit(q, p, k, shown)

Manage(q, p) ==
  \E t \in Tokens :
    \/ \E shown \in Versions : StartChange(q, p, t, shown)
    \/ \E target \in Tokens : StartRevoke(q, p, t, target)

Proceed(q) ==
  \/ SelectUser(q) \/ Refuse(q) \/ Insert(q) \/ Welcome(q)
  \/ VerifyOld(q) \/ UpdatePassword(q) \/ Purge(q) \/ Revoke(q)

Next ==
  \/ \E q \in Requests, p \in Procs : Login(q, p) \/ Manage(q, p)
  \/ \E q \in Requests : Proceed(q) \/ Fail(q)
  \/ \E t \in Tokens : SessionEnds(t)
  \/ \E p \in Procs : Restart(p)
  \/ Tick

Spec == Init /\ [][Next]_vars

(* Time passes; nothing is asked of requests.                               *)
FairSpec == Spec /\ WF_vars(Tick)

-----------------------------------------------------------------------------
(* When a change of password has run to its end, the sessions left show or  *)
(* set a password at least as new, but for those of logins that had been    *)
(* verified before and were inserted after it: the message "the other       *)
(* sessions are offline" holds up to such logins.                           *)
OldPasswordGone == \A t \in sessions : era[t] < purged => t \in late

(* A key is locked exactly when it has had Limit failures, and has had no   *)
(* more than the requests let in before the last of them can add.           *)
BoundedGuesses ==
  \A p \in Procs, k \in Keys :
    LET f == failures[p][k] IN
    /\ f.locked <=> f.count >= Limit
    /\ f.count <= Limit + Cardinality(Requests) - 1

(* A lock ends, however often the client tries while it lasts.              *)
LockEnds ==
  \A p \in Procs, k \in Keys : Blocked(p, k) ~> ~Blocked(p, k)
=============================================================================
