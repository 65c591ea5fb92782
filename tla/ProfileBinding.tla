--------------------------- MODULE ProfileBinding ---------------------------
(***************************************************************************)
(* Routes and the profiles they are bound to (crates/services/src/         *)
(* resources.rs and routes.rs): a landing profile, a cloak policy and a    *)
(* Meta profile.  A route refers to its profiles and also keeps a copy of  *)
(* what they say.  Public pages ask the profile and take the copy where    *)
(* there is none; changes of a profile are carried over to the copies.     *)
(*                                                                         *)
(* Of a landing profile the module keeps the picture, a column that may be *)
(* NULL.  Cloak policies and Meta profiles are one kind, "policy": they    *)
(* are bound, copied, switched and deleted alike, but only a Meta profile  *)
(* has the token that an empty field of the form leaves as it is.          *)
(*                                                                         *)
(* An operation is cut between its queries and its transaction, and the    *)
(* saving of a route also between its reads of the landing profile, its    *)
(* writes and its commit.  READ COMMITTED: another transaction sees only   *)
(* what was committed; foreign keys lock the row they refer to.            *)
(* Domains, and whether a route is enabled, are left to DomainRegistry.    *)
(***************************************************************************)
EXTENDS Naturals

CONSTANTS
  Profiles,  (* ids of landing profiles                                     *)
  Policies,  (* ids of cloak policies and Meta profiles                     *)
  Routes,
  Pictures,  (* what a landing profile may show                             *)
  Tokens,    (* stored tokens                                               *)
  NoToken,   (* the empty token                                             *)
  None,      (* no row yet; no profile; NULL                                *)
  Gone,      (* a row that was deleted: its id does not come back           *)
  Ops        (* places for operations in progress                           *)

ASSUME BindingAssumption ==
  /\ None \notin Profiles \cup Policies \cup Pictures
  /\ NoToken \notin Tokens /\ None # Gone

VARIABLES
  landing,   (* landing_profiles                                            *)
  policy,    (* cloak_policies, meta_profiles                               *)
  route,     (* routes with route_landing_configs and the others            *)
  op,        (* what each operation is doing                                *)
  stale,     (* history: copies written by an operation that a change of    *)
             (* the profile overlapped, or written past the profile         *)
  crossed    (* history: landing profiles switched off, or bound, by an     *)
             (* operation that another one of theirs overlapped             *)

tables == <<landing, policy, route>>
history == <<stale, crossed>>
vars == <<tables, op, history>>

Shown == Pictures \cup {None}
Stored == Tokens \cup {NoToken}
Landings == [on : BOOLEAN, picture : Shown]
Settings == [on : BOOLEAN, token : Stored]
Rows == [landing : Profiles \cup {None}, picture : Shown,
         policy : Policies \cup {None}, set : Settings]
Off == [on |-> FALSE, token |-> NoToken]

(* A row is not one of the marks for its absence.                           *)
ASSUME MarksAreNoRows == {None, Gone} \cap (Landings \cup Settings \cup Rows) = {}

Exists(row) == row \notin {None, Gone}

Idle == [stage |-> "idle"]
(* The saving of a route; operations on a landing profile; the deletion of  *)
(* a policy; the settings of a route saved past its policy.  "met" tells    *)
(* what changed meanwhile: the use of the landing profile (its switch, its  *)
(* routes), its picture, or the settings of the policy.                     *)
Jobs ==
  [stage : {"resolved", "copied"}, id : Routes, update : BOOLEAN, new : Rows,
   met : SUBSET {"use", "picture", "policy"}]
  \cup [stage : {"save"}, id : Profiles, new : Landings, met : SUBSET {"use", "picture"}]
  \cup [stage : {"toggle", "delete"}, id : Profiles, met : SUBSET {"use", "picture"}]
  \cup [stage : {"drop"}, id : Policies, met : {{}}]
  \cup [stage : {"own"}, id : Routes, new : Settings, met : {{}}]

TypeOK ==
  /\ landing \in [Profiles -> {None, Gone} \cup Landings]
  /\ policy \in [Policies -> {None, Gone} \cup Settings]
  /\ route \in [Routes -> {None, Gone} \cup Rows]
  /\ \A r \in Routes : Exists(route[r]) =>
       /\ route[r].landing # None => Exists(landing[route[r].landing])
       /\ route[r].policy # None => Exists(policy[route[r].policy])
  /\ op \in [Ops -> {Idle} \cup Jobs]
  /\ stale \in SUBSET (Routes \X {"picture", "policy"})
  /\ crossed \in SUBSET Profiles

Init ==
  /\ landing = [l \in Profiles |-> None]
  /\ policy = [p \in Policies |-> None]
  /\ route = [r \in Routes |-> None]
  /\ op = [o \in Ops |-> Idle]
  /\ stale = {} /\ crossed = {}

Start(o, job) ==
  /\ op[o] = Idle
  /\ op' = [op EXCEPT ![o] = job]
  /\ UNCHANGED <<tables, history>>

OnLanding(x, l) ==
  \/ x.stage \in {"resolved", "copied"} /\ x.new.landing = l /\ l # None
  \/ x.stage \in {"save", "toggle", "delete"} /\ x.id = l

(* The operation o ends, and those in progress on l have met it.            *)
EndOnLanding(o, l, change) ==
  op' = [x \in Ops |->
           IF x = o THEN Idle
           ELSE IF OnLanding(op[x], l) THEN [op[x] EXCEPT !.met = @ \cup change]
           ELSE op[x]]

End(o) == op' = [op EXCEPT ![o] = Idle]

-----------------------------------------------------------------------------
(* Routes.                                                                  *)

BoundTo(l) == {r \in Routes : Exists(route[r]) /\ route[r].landing = l}
Screened(p) == {r \in Routes : Exists(route[r]) /\ route[r].policy = p}

(* Rows of a route that a transaction has written and not committed.        *)
Locked(r) == \E o \in Ops : op[o].stage = "copied" /\ op[o].id = r

(* create and update, up to resolve_route_resources: a landing profile must *)
(* be enabled, and its picture is read; without one the form has its own.   *)
StartSave(o, r, l, pic, p) ==
  /\ route[r] # Gone
  /\ l # None => Exists(landing[l]) /\ landing[l].on /\ pic = landing[l].picture
  /\ Start(o, [stage |-> "resolved", id |-> r, update |-> Exists(route[r]), met |-> {},
               new |-> [landing |-> l, picture |-> pic, policy |-> p, set |-> Off]])

(* upsert_route_children: the foreign key needs the landing profile, the    *)
(* INSERT ... SELECT the policies, whose settings it reads.                 *)
Copy(o) ==
  LET x == op[o]  l == x.new.landing  p == x.new.policy IN
  /\ x.stage = "resolved"
  /\ ~Locked(x.id)
  /\ route[x.id] # Gone /\ (x.update <=> Exists(route[x.id]))
  /\ l # None => Exists(landing[l])
  /\ p # None => Exists(policy[p])
  /\ op' = [op EXCEPT ![o].stage = "copied",
                      ![o].new.set = IF p = None THEN Off ELSE policy[p]]
  /\ UNCHANGED <<tables, history>>

Commit(o) ==
  LET x == op[o]  l == x.new.landing IN
  /\ x.stage = "copied"
  /\ route' = [route EXCEPT ![x.id] = x.new]
  /\ stale' = (stale \ ({x.id} \X {"picture", "policy"})) \cup ({x.id} \X (x.met \ {"use"}))
  /\ crossed' = IF "use" \in x.met THEN crossed \cup {l} ELSE crossed
  /\ EndOnLanding(o, l, {"use"})
  /\ UNCHANGED <<landing, policy>>

DeleteRoute(r) ==
  /\ Exists(route[r]) /\ ~Locked(r)
  /\ route' = [route EXCEPT ![r] = Gone]
  /\ UNCHANGED <<landing, policy, op, history>>

-----------------------------------------------------------------------------
(* Landing profiles.                                                        *)

InsertLanding(l, new) ==
  /\ landing[l] = None
  /\ landing' = [landing EXCEPT ![l] = new]
  /\ UNCHANGED <<policy, route, op, history>>

(* landing_profile_is_used                                                  *)
Used(l) == BoundTo(l) # {}

(* Variant: the routes are not asked.                                       *)
MayDisableAlways(l) == TRUE

(* What disabling a landing profile asks for.                               *)
MayDisable(l) == ~Used(l)

(* save_landing_profile of an existing one: the check.                      *)
StartSaveLanding(o, l, new) ==
  /\ new.on \/ MayDisable(l)
  /\ Start(o, [stage |-> "save", id |-> l, new |-> new, met |-> {}])

(* Variant: the copies are left to the routes' next saving.                 *)
CarriedNot(l, pic) == route

(* UPDATE route_landing_configs ... WHERE landing_profile_id = $7           *)
Carried(l, pic) ==
  [r \in Routes |-> IF r \in BoundTo(l) THEN [route[r] EXCEPT !.picture = pic] ELSE route[r]]

(* What a landing profile becomes, and whether others got in between.       *)
Becomes(o, l, new) ==
  /\ landing' = [landing EXCEPT ![l] = new]
  /\ crossed' = IF new.on THEN crossed \ {l}
                ELSE IF "use" \in op[o].met THEN crossed \cup {l} ELSE crossed
  /\ UNCHANGED policy

SaveLanding(o) ==
  LET l == op[o].id  new == op[o].new IN
  /\ op[o].stage = "save" /\ Exists(landing[l])
  /\ Becomes(o, l, new)
  /\ route' = Carried(l, new.picture)
  /\ stale' = stale \ (BoundTo(l) \X {"picture"})
  /\ EndOnLanding(o, l, {"use", "picture"})

(* toggle_landing_profile: the two queries, and the UPDATE, which turns     *)
(* round what it finds.                                                     *)
StartToggleLanding(o, l) ==
  /\ Exists(landing[l])
  /\ landing[l].on => MayDisable(l)
  /\ Start(o, [stage |-> "toggle", id |-> l, met |-> {}])

ToggleLanding(o) ==
  LET l == op[o].id IN
  /\ op[o].stage = "toggle" /\ Exists(landing[l])
  /\ Becomes(o, l, [landing[l] EXCEPT !.on = ~@])
  /\ EndOnLanding(o, l, {"use"})
  /\ UNCHANGED <<route, stale>>

(* delete_landing_profile: the count, and the DELETE, which waits for a     *)
(* transaction that refers to the row; ON DELETE SET NULL.                  *)
StartDeleteLanding(o, l) ==
  /\ Exists(landing[l]) /\ ~Used(l)
  /\ Start(o, [stage |-> "delete", id |-> l, met |-> {}])

(* Variant: the routes keep the id of the deleted profile.                  *)
WithoutLandingKept(l) == route

WithoutLanding(l) ==
  [r \in Routes |-> IF r \in BoundTo(l) THEN [route[r] EXCEPT !.landing = None] ELSE route[r]]

DeleteLanding(o) ==
  LET l == op[o].id IN
  /\ op[o].stage = "delete" /\ Exists(landing[l])
  /\ \A x \in Ops : op[x].stage = "copied" => op[x].new.landing # l
  /\ landing' = [landing EXCEPT ![l] = Gone]
  /\ route' = WithoutLanding(l)
  /\ End(o)
  /\ UNCHANGED <<policy, history>>

-----------------------------------------------------------------------------
(* Policies: cloak policies and Meta profiles.                              *)

InsertPolicy(p, new) ==
  /\ policy[p] = None
  /\ policy' = [policy EXCEPT ![p] = new]
  /\ UNCHANGED <<landing, route, op, history>>

(* A policy changes in one transaction with its copies; routes about to     *)
(* commit what they read of it have met the change.  "set" is the copies'   *)
(* new settings by their old ones.                                          *)
ChangePolicy(p, new, set) ==
  /\ Exists(policy[p])
  /\ policy' = [policy EXCEPT ![p] = new]
  /\ route' = [r \in Routes |->
                 IF r \in Screened(p) THEN [route[r] EXCEPT !.set = set[@]] ELSE route[r]]
  /\ op' = [o \in Ops |->
              IF op[o].stage = "copied" /\ op[o].new.policy = p
                THEN [op[o] EXCEPT !.met = @ \cup {"policy"}] ELSE op[o]]
  /\ UNCHANGED <<landing, crossed>>

(* save_cloak_policy, save_meta_profile with a token.                       *)
SavePolicy(p, new) ==
  /\ ChangePolicy(p, new, [old \in Settings |-> new])
  /\ stale' = stale \ (Screened(p) \X {"policy"})

(* save_meta_profile without one: policy and copies keep theirs.            *)
SaveKeepingToken(p, on) ==
  /\ ChangePolicy(p, [policy[p] EXCEPT !.on = on], [old \in Settings |-> [old EXCEPT !.on = on]])
  /\ UNCHANGED stale

(* Variant: the switch of the policy alone.                                 *)
SwitchedAlone(old, on) == old

(* UPDATE route_meta_configs SET enabled = $1 WHERE meta_profile_id = $2    *)
Switched(old, on) == [old EXCEPT !.on = on]

(* toggle_cloak_policy, toggle_meta_profile                                 *)
TogglePolicy(p) ==
  /\ ChangePolicy(p, [policy[p] EXCEPT !.on = ~@], [old \in Settings |-> Switched(old, ~policy[p].on)])
  /\ UNCHANGED stale

(* delete_cloak_policy, delete_meta_profile                                 *)
StartDeletePolicy(o, p) ==
  /\ Exists(policy[p]) /\ Screened(p) = {}
  /\ Start(o, [stage |-> "drop", id |-> p, met |-> {}])

DeletePolicy(o) ==
  LET p == op[o].id IN
  /\ op[o].stage = "drop" /\ Exists(policy[p])
  /\ \A x \in Ops : op[x].stage = "copied" => op[x].new.policy # p
  /\ policy' = [policy EXCEPT ![p] = Gone]
  /\ route' = [r \in Routes |->
                 IF r \in Screened(p) THEN [route[r] EXCEPT !.policy = None] ELSE route[r]]
  /\ End(o)
  /\ UNCHANGED <<landing, history>>

(* save_route_config of meta.rs: without a token in the form the stored one *)
(* is read first.  (That of cloak.rs has no token and one statement.)       *)
StartOwn(o, r, new) ==
  /\ Exists(route[r])
  /\ Start(o, [stage |-> "own", id |-> r, met |-> {},
               new |-> IF new.token = NoToken
                         THEN [new EXCEPT !.token = route[r].set.token] ELSE new])

SaveOwn(o) ==
  LET r == op[o].id IN
  /\ op[o].stage = "own" /\ Exists(route[r]) /\ ~Locked(r)
  /\ route' = [route EXCEPT ![r].set = op[o].new]
  /\ stale' = stale \cup {<<r, "policy">>}
  /\ End(o)
  /\ UNCHANGED <<landing, policy, crossed>>

-----------------------------------------------------------------------------
(* A check refuses, a statement fails, the process dies: a transaction      *)
(* under way is rolled back.                                                *)
Fail(o) ==
  /\ op[o] # Idle
  /\ End(o)
  /\ UNCHANGED <<tables, history>>

Begin(o) ==
  \/ \E r \in Routes, l \in Profiles \cup {None}, pic \in Shown, p \in Policies \cup {None} :
        StartSave(o, r, l, pic, p)
  \/ \E l \in Profiles :
        \/ \E new \in Landings : StartSaveLanding(o, l, new)
        \/ StartToggleLanding(o, l) \/ StartDeleteLanding(o, l)
  \/ \E p \in Policies : StartDeletePolicy(o, p)
  \/ \E r \in Routes, new \in Settings : StartOwn(o, r, new)

Continue(o) ==
  \/ Copy(o) \/ Commit(o)
  \/ SaveLanding(o) \/ ToggleLanding(o) \/ DeleteLanding(o)
  \/ DeletePolicy(o) \/ SaveOwn(o) \/ Fail(o)

(* Operations of one step.                                                  *)
AtOnce ==
  \/ \E r \in Routes : DeleteRoute(r)
  \/ \E l \in Profiles, new \in Landings : InsertLanding(l, new)
  \/ \E p \in Policies :
        \/ \E new \in Settings : InsertPolicy(p, new) \/ SavePolicy(p, new)
        \/ \E on \in BOOLEAN : SaveKeepingToken(p, on)
        \/ TogglePolicy(p)

Next ==
  \/ \E o \in Ops : Begin(o) \/ Continue(o)
  \/ AtOnce

Spec == Init /\ [][Next]_vars

-----------------------------------------------------------------------------
(* What the public pages use: COALESCE(profile, copy) in                    *)
(* find_public_by_host, runtime_config and config.                          *)
Picture(r) ==
  LET l == route[r].landing IN
  IF l # None /\ landing[l].picture # None THEN landing[l].picture ELSE route[r].picture

Screening(r) ==
  LET p == route[r].policy IN IF p # None THEN policy[p] ELSE route[r].set

(* A route is bound to an enabled landing profile, without which its pages  *)
(* are not found: the check before a profile is disabled and the check      *)
(* before a route is bound see to that, unless the two overlap.             *)
BoundIsEnabled ==
  \A r \in Routes :
    Exists(route[r]) /\ route[r].landing \notin {None} \cup crossed =>
      landing[route[r].landing].on

(* A copy says what its profile says, token included, unless the saving of  *)
(* the route overlapped a change of the profile or the route's settings     *)
(* were saved past the policy.  Pages need it where a profile has NULL for  *)
(* a picture: COALESCE then shows the copy's.                               *)
CopiesFollow ==
  \A r \in Routes : Exists(route[r]) =>
    /\ route[r].landing # None /\ <<r, "picture">> \notin stale =>
         route[r].picture = landing[route[r].landing].picture
    /\ route[r].policy # None /\ <<r, "policy">> \notin stale =>
         route[r].set = policy[route[r].policy]

(* A deletion that a binding overtook leaves the route with what it showed, *)
(* for the copies take over.                                                *)
DeletionKeepsPage ==
  [][\A r \in Routes :
       Exists(route[r]) /\ Exists(route'[r]) =>
         /\ \A l \in Profiles :
              route[r].landing = l /\ landing'[l] = Gone /\ <<r, "picture">> \notin stale =>
                Picture(r)' = Picture(r)
         /\ \A p \in Policies :
              route[r].policy = p /\ policy'[p] = Gone /\ <<r, "policy">> \notin stale =>
                Screening(r)' = Screening(r)]_vars
=============================================================================
