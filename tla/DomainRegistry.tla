--------------------------- MODULE DomainRegistry ---------------------------
(***************************************************************************)
(* The domain catalog (table domains), the routes with their entry and exit*)
(* domains (tables routes and route_targets) and the allowlist from which  *)
(* Caddy learns what certificates to ask for (table domain_allowlist):     *)
(* crates/services/src/routes.rs and resources.rs.                         *)
(*                                                                         *)
(* An operation is two steps: its queries and checks (Start...), and its   *)
(* writes up to the commit (Apply...), because READ COMMITTED transactions *)
(* and plain statements hold nothing between the two.  The queries of one  *)
(* operation are taken together, and so are its writes.  An operation that *)
(* its checks refuse changes nothing and is left out.                      *)
(*                                                                         *)
(* Nothing keeps two administrators apart.  A request is overtaken when    *)
(* another writes what its checks looked at; if it goes on to write, the   *)
(* names it is about are in doubt from then on, and the properties speak of*)
(* all the others.                                                         *)
(***************************************************************************)
EXTENDS Naturals, FiniteSets, Functions

CONSTANTS
  Names,     (* domain names                                              *)
  Ids,       (* ids of catalog rows                                       *)
  RouteIds,  (* ids of routes                                             *)
  Admins,    (* administrators' requests in progress at the same time     *)
  External,  (* "the target is an external URL", in place of an exit name *)
  NoId       (* NULL in exit_domain_id                                    *)

ASSUME RegistryAssumption == External \notin Names /\ NoId \notin Ids

VARIABLES
  domains,  (* the catalog: id -> row                                     *)
  routes,   (* the routes: id -> row                                      *)
  allow,    (* the allowlist: "none" (no row), "on" or "off"              *)
  job,      (* what each administrator's request is about to write        *)
  torn,     (* history: names whose toggle stopped between its statements *)
  overtaken,(* history: requests whose checks looked at what another wrote*)
            (* since                                                      *)
  doubt     (* history: names written about by a request that was overtaken*)

history == <<overtaken, doubt>>
vars == <<domains, routes, allow, job, torn, overtaken, doubt>>

Role == {"entry", "exit"}
Domain == [name : Names, role : Role, enabled : BOOLEAN]
Target == {<<External, NoId>>} \cup (Names \X (Ids \cup {NoId}))
Route == [entry : Names, target : Target, enabled : BOOLEAN]
Form == [entry : Names, target : (Names \cup {External}) \X (Ids \cup {NoId}), enabled : BOOLEAN]
Exit(row) == row.target[1]
ExitId(row) == row.target[2]

Idle == [op |-> "idle"]
Job ==
  {Idle}
  \cup [op : {"createRoute"}, row : Route]
  \cup [op : {"updateRoute"}, id : RouteIds, row : Route, before : SUBSET Names]
  \cup [op : {"toggleRoute"}, id : RouteIds, before : SUBSET Names]
  \cup [op : {"insertDomain"}, row : Domain]
  \cup [op : {"updateDomain"}, id : Ids, row : Domain, old : Names]
  \cup [op : {"toggleDomain", "syncAllow", "deleteDomain"}, id : Ids, old : Names]

IsTable(f, ids, rows) == DOMAIN f \subseteq ids /\ \A i \in DOMAIN f : f[i] \in rows
TypeOK ==
  /\ IsTable(domains, Ids, Domain)
  /\ IsTable(routes, RouteIds, Route)
  /\ allow \in [Names -> {"none", "on", "off"}]
  /\ job \in [Admins -> Job]
  /\ torn \in SUBSET Names
  /\ overtaken \in SUBSET Admins
  /\ doubt \in SUBSET Names

Init ==
  /\ domains = <<>>
  /\ routes = <<>>
  /\ allow = [n \in Names |-> "none"]
  /\ job = [a \in Admins |-> Idle]
  /\ torn = {}
  /\ overtaken = {}
  /\ doubt = {}

With(table, i, row) == [j \in DOMAIN table \cup {i} |-> IF j = i THEN row ELSE table[j]]
Without(table, i) == Restrict(table, DOMAIN table \ {i})

-----------------------------------------------------------------------------
(* The queries.                                                             *)

Catalogued(n) == {d \in DOMAIN domains : domains[d].name = n}

UsedAsEntry(n, rs) == \E r \in rs : routes[r].entry = n

(* An exit is compared by its name and by the id it was chosen by.          *)
UsedAsExit(n, rs) == \E r \in rs : Exit(routes[r]) = n \/ ExitId(routes[r]) \in Catalogued(n)

(* domain_is_used.                                                          *)
Used(d) == UsedAsEntry(domains[d].name, DOMAIN routes) \/ UsedAsExit(domains[d].name, DOMAIN routes)

(* route_domains: the names of a route that go to the allowlist.            *)
NamesOf(row) == {row.entry} \cup ({Exit(row)} \ {External})

(* Variant: the entry is not compared with the exits of other routes.       *)
NoConflictAmongEntries(row, others) ==
  /\ row.entry # Exit(row)
  /\ ~ UsedAsEntry(row.entry, others)
  /\ Exit(row) # External => ~ UsedAsEntry(Exit(row), others) /\ ~ UsedAsExit(Exit(row), others)

(* validate_route_domain_conflicts.                                         *)
NoConflict(row, others) ==
  /\ row.entry # Exit(row)
  /\ \A n \in NamesOf(row) : ~ UsedAsEntry(n, others) /\ ~ UsedAsExit(n, others)

(* validate_route_domain_catalog.                                           *)
CatalogAllows(n, role, requireEnabled) ==
  /\ requireEnabled => Catalogued(n) # {}
  /\ \A d \in Catalogued(n) : domains[d].role = role /\ (requireEnabled => domains[d].enabled)

(* The checks that create, update and enabling have in common.              *)
Acceptable(row, others) ==
  /\ NoConflict(row, others)
  /\ CatalogAllows(row.entry, "entry", row.enabled)
  /\ Exit(row) # External => CatalogAllows(Exit(row), "exit", row.enabled)

(* resolve_route_resources: an exit chosen by id must be an enabled exit.   *)
Choosable(form) ==
  Exit(form) # External /\ ExitId(form) # NoId =>
    /\ ExitId(form) \in DOMAIN domains
    /\ domains[ExitId(form)].role = "exit" /\ domains[ExitId(form)].enabled

(* Then the route takes its name, whatever was typed; an external target    *)
(* has neither.                                                             *)
Resolved(form) ==
  IF Exit(form) = External THEN [form EXCEPT !.target = <<External, NoId>>]
  ELSE IF ExitId(form) = NoId THEN form
  ELSE [form EXCEPT !.target[1] = domains[ExitId(form)].name]

(* Variant: a domain may take any role.                                     *)
RoleFitsAlways(n, role) == TRUE

(* validate_domain_resource_role.                                           *)
RoleFits(n, role) ==
  IF role = "entry" THEN ~ UsedAsExit(n, DOMAIN routes) ELSE ~ UsedAsEntry(n, DOMAIN routes)

(* validate_domain_rename_target.                                           *)
RenameFits(n, role) ==
  IF role = "entry" THEN ~ UsedAsEntry(n, DOMAIN routes) ELSE ~ UsedAsExit(n, DOMAIN routes)

-----------------------------------------------------------------------------
(* The allowlist.                                                           *)

(* enable_allowlist_domains.                                                *)
AllowOn(names) == allow' = [n \in Names |-> IF n \in names THEN "on" ELSE allow[n]]

(* Variant: the catalog is not asked.                                       *)
DisableUncatalogued(names, table) ==
  LET kept == UNION {NamesOf(table[r]) : r \in {r \in DOMAIN table : table[r].enabled}}
  IN  [n \in Names |-> IF n \in names \ kept /\ allow[n] = "on" THEN "off" ELSE allow[n]]

(* disable_unused_allowlist_domains, when the routes are table: a name that *)
(* no enabled route has and that is not enabled in the catalog goes off.    *)
DisableUnused(names, table) ==
  LET enabled == {r \in DOMAIN table : table[r].enabled}
      kept == {n \in Names :
                 \/ \E r \in enabled : n \in NamesOf(table[r]) \/ ExitId(table[r]) \in Catalogued(n)
                 \/ \E d \in Catalogued(n) : domains[d].enabled}
  IN  [n \in Names |-> IF n \in names \ kept /\ allow[n] = "on" THEN "off" ELSE allow[n]]

Switch(enabled) == IF enabled THEN "on" ELSE "off"

-----------------------------------------------------------------------------
(* Requests that overtake each other.                                       *)

(* The names that a request's checks are about.  The allowlist statement of *)
(* a toggle has no check.                                                   *)
Concerns(a) ==
  LET j == job[a] IN
  (IF j.op \in {"createRoute", "updateRoute"} THEN NamesOf(j.row) ELSE {})
  \cup (IF j.op \in {"updateRoute", "toggleRoute"} THEN j.before ELSE {})
  \cup (IF j.op \in {"insertDomain", "updateDomain"} THEN {j.row.name} ELSE {})
  \cup (IF j.op \in {"updateDomain", "toggleDomain", "deleteDomain"} THEN {j.old} ELSE {})

Users(n) == {r \in DOMAIN routes : n \in NamesOf(routes[r]) \/ ExitId(routes[r]) \in Catalogued(n)}

(* The step leaves the rows of a name and of the routes that use it alone.  *)
Untouched(n) ==
  /\ Catalogued(n)' = Catalogued(n) /\ \A d \in Catalogued(n) : domains'[d] = domains[d]
  /\ Users(n)' = Users(n) /\ \A r \in Users(n) : routes'[r] = routes[r]
Touched == {n \in Names : ~ Untouched(n)}

(* The write of a overtakes the requests whose checks saw what it changes.  *)
Overtake(a) ==
  overtaken' = {b \in Admins \ {a} : b \in overtaken \/ \E n \in Concerns(b) : ~ Untouched(n)}

(* The names in doubt once a has written.                                   *)
Doubted(a) == IF a \in overtaken THEN Concerns(a) \cup Touched ELSE {}

-----------------------------------------------------------------------------
(* Routes.                                                                  *)

(* The row lock that the UPDATE of a toggle holds until its commit.         *)
Locked(r) == \E a \in Admins : job[a].op = "toggleRoute" /\ job[a].id = r

(* UNIQUE (entry_domain), UNIQUE (exit_domain) and the foreign key.         *)
Storable(row, others) ==
  /\ \A r \in others :
       /\ routes[r].entry # row.entry
       /\ Exit(routes[r]) = Exit(row) => Exit(row) = External
  /\ ExitId(row) \in DOMAIN domains \cup {NoId}

StartCreateRoute(a) ==
  /\ job[a] = Idle
  /\ \E form \in Form :
       /\ Choosable(form) /\ Acceptable(Resolved(form), DOMAIN routes)
       /\ job' = [job EXCEPT ![a] = [op |-> "createRoute", row |-> Resolved(form)]]
  /\ UNCHANGED <<domains, routes, allow, torn, history>>

ApplyCreateRoute(a) ==
  /\ job[a].op = "createRoute"
  /\ LET row == job[a].row IN
       /\ Storable(row, DOMAIN routes)
       /\ \E r \in RouteIds \ DOMAIN routes : routes' = With(routes, r, row)
       /\ IF row.enabled THEN AllowOn(NamesOf(row)) ELSE UNCHANGED allow
       /\ torn' = IF row.enabled THEN torn \ NamesOf(row) ELSE torn
  /\ job' = [job EXCEPT ![a] = Idle]
  /\ UNCHANGED domains
  /\ Overtake(a) /\ doubt' = doubt \cup Doubted(a)

StartUpdateRoute(a, r) ==
  /\ job[a] = Idle /\ r \in DOMAIN routes
  /\ \E form \in Form :
       /\ Choosable(form) /\ Acceptable(Resolved(form), DOMAIN routes \ {r})
       /\ job' = [job EXCEPT ![a] = [op |-> "updateRoute", id |-> r, row |-> Resolved(form),
                                    before |-> NamesOf(routes[r])]]
  /\ UNCHANGED <<domains, routes, allow, torn, history>>

(* Of the names of an enabled route none is switched off again, so the two  *)
(* allowlist statements are one.                                            *)
ApplyUpdateRoute(a) ==
  /\ job[a].op = "updateRoute"
  /\ LET r == job[a].id
         row == job[a].row
         on == IF row.enabled THEN NamesOf(row) ELSE {}
         table == [routes EXCEPT ![r] = row]
         off == DisableUnused(job[a].before \cup NamesOf(row), table)
     IN  /\ r \in DOMAIN routes /\ ~ Locked(r)
         /\ Storable(row, DOMAIN routes \ {r})
         /\ routes' = table
         /\ allow' = [n \in Names |-> IF n \in on THEN "on" ELSE off[n]]
         /\ torn' = torn \ on
  /\ job' = [job EXCEPT ![a] = Idle]
  /\ UNCHANGED domains
  /\ Overtake(a) /\ doubt' = doubt \cup Doubted(a)

(* RouteService::toggle: the flipped row is checked before the commit, and  *)
(* nobody else sees it until then.                                          *)
StartToggleRoute(a, r) ==
  /\ job[a] = Idle /\ r \in DOMAIN routes /\ ~ Locked(r)
  /\ routes[r].enabled \/ Acceptable([routes[r] EXCEPT !.enabled = TRUE], DOMAIN routes \ {r})
  /\ job' = [job EXCEPT ![a] = [op |-> "toggleRoute", id |-> r, before |-> NamesOf(routes[r])]]
  /\ UNCHANGED <<domains, routes, allow, torn, history>>

ApplyToggleRoute(a) ==
  /\ job[a].op = "toggleRoute"
  /\ LET r == job[a].id
         names == job[a].before
         table == [routes EXCEPT ![r].enabled = ~ @]
     IN  /\ routes' = table
         /\ IF routes[r].enabled
              THEN allow' = DisableUnused(names, table) /\ UNCHANGED torn
              ELSE AllowOn(names) /\ torn' = torn \ names
  /\ job' = [job EXCEPT ![a] = Idle]
  /\ UNCHANGED domains
  /\ Overtake(a) /\ doubt' = doubt \cup Doubted(a)

(* RouteService::delete checks nothing and is one step.                     *)
DeleteRoute(a, r) ==
  /\ job[a] = Idle /\ r \in DOMAIN routes /\ ~ Locked(r)
  /\ routes' = Without(routes, r)
  /\ allow' = DisableUnused(NamesOf(routes[r]), routes')
  /\ UNCHANGED <<domains, job, torn, doubt>>
  /\ Overtake(a)

-----------------------------------------------------------------------------
(* The catalog.                                                             *)

(* upsert_domain of a name that is not in the catalog; of one that is there,*)
(* the code goes on as update_domain.                                       *)
StartInsertDomain(a) ==
  /\ job[a] = Idle
  /\ \E row \in Domain :
       /\ Catalogued(row.name) = {} /\ RoleFits(row.name, row.role)
       /\ job' = [job EXCEPT ![a] = [op |-> "insertDomain", row |-> row]]
  /\ UNCHANGED <<domains, routes, allow, torn, history>>

(* Whoever inserted the name meanwhile is overwritten.                      *)
ApplyInsertDomain(a) ==
  /\ job[a].op = "insertDomain"
  /\ LET row == job[a].row IN
       /\ \E d \in Ids :
            /\ IF Catalogued(row.name) = {} THEN d \notin DOMAIN domains ELSE d \in Catalogued(row.name)
            /\ domains' = With(domains, d, row)
       /\ allow' = [allow EXCEPT ![row.name] = Switch(row.enabled)]
       /\ torn' = torn \ {row.name}
  /\ job' = [job EXCEPT ![a] = Idle]
  /\ UNCHANGED routes
  /\ Overtake(a) /\ doubt' = doubt \cup Doubted(a)

StartUpdateDomain(a, d) ==
  /\ job[a] = Idle /\ d \in DOMAIN domains
  /\ \E row \in Domain :
       /\ Catalogued(row.name) \subseteq {d}
       /\ Used(d) => /\ row.role = domains[d].role
                     /\ row.enabled
                     /\ row.name = domains[d].name \/ RenameFits(row.name, row.role)
       /\ RoleFits(row.name, row.role)
       /\ job' = [job EXCEPT ![a] =
                    [op |-> "updateDomain", id |-> d, row |-> row, old |-> domains[d].name]]
  /\ UNCHANGED <<domains, routes, allow, torn, history>>

(* Variant: the routes that have the name as their entry are forgotten.     *)
RenamedExits(d, row, old) ==
  [r \in DOMAIN routes |->
     IF row.role = "exit" /\ (ExitId(routes[r]) = d \/ Exit(routes[r]) = old)
       THEN [routes[r] EXCEPT !.target[1] = row.name]
     ELSE routes[r]]

(* The routes follow the new name of an entry, or of an exit.               *)
Renamed(d, row, old) ==
  [r \in DOMAIN routes |->
     IF row.role = "entry" /\ routes[r].entry = old THEN [routes[r] EXCEPT !.entry = row.name]
     ELSE IF row.role = "exit" /\ (ExitId(routes[r]) = d \/ Exit(routes[r]) = old)
            THEN [routes[r] EXCEPT !.target[1] = row.name]
     ELSE routes[r]]

(* An UPDATE of a row that was deleted meanwhile finds nothing, and the     *)
(* statements after it are carried out all the same.  What was in doubt     *)
(* under the old name is so under the new one.                              *)
ApplyUpdateDomain(a) ==
  /\ job[a].op = "updateDomain"
  /\ LET d == job[a].id
         row == job[a].row
         old == job[a].old
         table == Renamed(d, row, old)
     IN  /\ Catalogued(row.name) \subseteq {d}
         /\ \A r \in DOMAIN routes : table[r].entry # routes[r].entry => ~ Locked(r)
         /\ \A r, s \in DOMAIN table : r # s =>
              /\ table[r].entry # table[s].entry
              /\ Exit(table[r]) = Exit(table[s]) => Exit(table[r]) = External
         /\ domains' = IF d \in DOMAIN domains THEN [domains EXCEPT ![d] = row] ELSE domains
         /\ routes' = table
         /\ allow' = [n \in Names |->
                        IF n = row.name THEN Switch(row.enabled)
                        ELSE IF n = old /\ allow[n] # "none" THEN "off" ELSE allow[n]]
         /\ torn' = torn \ {row.name, old}
         /\ doubt' = doubt \cup Doubted(a) \cup (IF old \in doubt THEN {row.name} ELSE {})
  /\ job' = [job EXCEPT ![a] = Idle]
  /\ Overtake(a)

(* toggle_domain is three statements and no transaction.                    *)
StartToggleDomain(a, d) ==
  /\ job[a] = Idle /\ d \in DOMAIN domains
  /\ ~ (domains[d].enabled /\ Used(d))
  /\ job' = [job EXCEPT ![a] = [op |-> "toggleDomain", id |-> d, old |-> domains[d].name]]
  /\ UNCHANGED <<domains, routes, allow, torn, history>>

ApplyToggleDomain(a) ==
  /\ job[a].op = "toggleDomain"
  /\ LET d == job[a].id IN
       /\ d \in DOMAIN domains
       /\ domains' = [domains EXCEPT ![d].enabled = ~ @]
       /\ job' = [job EXCEPT ![a] = [op |-> "syncAllow", id |-> d, old |-> domains[d].name]]
  /\ UNCHANGED <<routes, allow, torn>>
  /\ Overtake(a) /\ doubt' = doubt \cup Doubted(a)

(* The allowlist follows what the catalog says of the id by now; the name is*)
(* the one that the id had.                                                 *)
SyncAllow(a) ==
  /\ job[a].op = "syncAllow"
  /\ LET d == job[a].id
         n == job[a].old
     IN  /\ d \in DOMAIN domains
         /\ allow' = [allow EXCEPT ![n] = IF @ = "none" THEN @ ELSE Switch(domains[d].enabled)]
         /\ torn' = torn \ {n}
         /\ doubt' = doubt \cup ({n} \ {domains[d].name})
  /\ job' = [job EXCEPT ![a] = Idle]
  /\ UNCHANGED <<domains, routes, overtaken>>

StartDeleteDomain(a, d) ==
  /\ job[a] = Idle /\ d \in DOMAIN domains
  /\ ~ Used(d)
  /\ job' = [job EXCEPT ![a] = [op |-> "deleteDomain", id |-> d, old |-> domains[d].name]]
  /\ UNCHANGED <<domains, routes, allow, torn, history>>

(* delete_domain; exit_domain_id is ON DELETE SET NULL.                     *)
ApplyDeleteDomain(a) ==
  /\ job[a].op = "deleteDomain"
  /\ LET d == job[a].id
         n == job[a].old
     IN  /\ domains' = Without(domains, d)
         /\ routes' = [r \in DOMAIN routes |->
                         IF ExitId(routes[r]) = d THEN [routes[r] EXCEPT !.target[2] = NoId] ELSE routes[r]]
         /\ allow' = [allow EXCEPT ![n] = IF @ = "none" THEN @ ELSE "off"]
         /\ torn' = torn \ {n}
  /\ job' = [job EXCEPT ![a] = Idle]
  /\ Overtake(a) /\ doubt' = doubt \cup Doubted(a)

(* The request fails or dies before its writes: a transaction is rolled     *)
(* back, but the toggle of a domain has already changed the catalog.        *)
Abandon(a) ==
  /\ job[a] # Idle
  /\ torn' = IF job[a].op = "syncAllow" THEN torn \cup {job[a].old} ELSE torn
  /\ job' = [job EXCEPT ![a] = Idle]
  /\ overtaken' = overtaken \ {a}
  /\ UNCHANGED <<domains, routes, allow, doubt>>

-----------------------------------------------------------------------------
RouteStep(a) ==
  \/ StartCreateRoute(a) \/ ApplyCreateRoute(a)
  \/ \E r \in RouteIds : StartUpdateRoute(a, r) \/ StartToggleRoute(a, r) \/ DeleteRoute(a, r)
  \/ ApplyUpdateRoute(a) \/ ApplyToggleRoute(a)

DomainStep(a) ==
  \/ StartInsertDomain(a) \/ ApplyInsertDomain(a)
  \/ \E d \in Ids : StartUpdateDomain(a, d) \/ StartToggleDomain(a, d) \/ StartDeleteDomain(a, d)
  \/ ApplyUpdateDomain(a) \/ ApplyToggleDomain(a) \/ SyncAllow(a) \/ ApplyDeleteDomain(a)

Next == \E a \in Admins : RouteStep(a) \/ DomainStep(a) \/ Abandon(a)

Spec == Init /\ [][Next]_vars

-----------------------------------------------------------------------------
(* Properties.                                                              *)

(* What the name of an enabled route needs of the catalog.                  *)
Ready(n) ==
  \A r \in DOMAIN routes : routes[r].enabled =>
    /\ routes[r].entry = n => \E d \in Catalogued(n) : domains[d].role = "entry" /\ domains[d].enabled
    /\ Exit(routes[r]) = n => \E d \in Catalogued(n) : domains[d].role = "exit" /\ domains[d].enabled

(* A route that is enabled is served under names that the catalog has, in   *)
(* the right role and enabled, whoever else is at work: what the checks of  *)
(* routes and domains are there for.                                        *)
RoutesReady == \A n \in Names : Ready(n)

(* No operation, neither of routes nor of the catalog, takes a domain away  *)
(* from a route that is being served, unless its checks were overtaken.     *)
ReadyUnlessOvertaken == \A n \in Names \ doubt : Ready(n)

UsedOnce(n) ==
  \A r \in Users(n) :
    /\ routes[r].entry = n => Exit(routes[r]) # n
    /\ \A s \in Users(n) : s = r

(* A name is in use once, as the entry or as the exit of one route: the host*)
(* of a request never leaves a choice.  Only requests that overtook each    *)
(* other can give a name two uses, and no later one spreads that.           *)
SingleUse == \A n \in Names \ doubt : UsedOnce(n)

RoleKept(n) ==
  \A r \in DOMAIN routes :
    /\ routes[r].entry = n => \A d \in Catalogued(n) : domains[d].role = "entry"
    /\ Exit(routes[r]) = n => \A d \in Catalogued(n) : domains[d].role = "exit"
    /\ ExitId(routes[r]) # NoId => (Exit(routes[r]) = n <=> ExitId(routes[r]) \in Catalogued(n))

(* Whatever was renamed, moved to another role or deleted, also under       *)
(* disabled routes: a route and the catalog agree on what a name is for, and*)
(* an exit that was chosen by id is known by the name the id now has, but   *)
(* for the names of requests that were overtaken.                           *)
RolesAgree == \A n \in Names \ doubt : RoleKept(n)

Syncing(n) == \E a \in Admins : job[a].op = "syncAllow" /\ job[a].old = n
AllowedRight(n) ==
  n \in torn \/ Syncing(n) \/ (allow[n] = "on" <=> \E d \in Catalogued(n) : domains[d].enabled)

(* Caddy may get a certificate for exactly the names that are enabled in the*)
(* catalog.  A toggle that died between its statements leaves a difference  *)
(* until the name is next saved; one whose domain was renamed under it, or  *)
(* another request that was overtaken, leaves it in doubt.                  *)
AllowlistExact == \A n \in Names \ doubt : AllowedRight(n)

=============================================================================
