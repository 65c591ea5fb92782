------------------------ MODULE DomainRegistry_proofs ------------------------
(***************************************************************************)
(* Proofs about domains, routes and the allowlist, for every number of     *)
(* names, rows, routes and administrators.  A request that writes is either*)
(* overtaken, and then the names it touches are in doubt, or what its      *)
(* checks found still holds.  Of a name that a write leaves alone nothing  *)
(* changes, so each operation is looked at only for the names it writes    *)
(* about.                                                                  *)
(***************************************************************************)
EXTENDS DomainRegistry, TLAPS

(* The catalog has a name once, the allowlist knows every name it has, and  *)
(* the exits that were chosen by id exist.                                  *)
UniqueNames == \A d, e \in DOMAIN domains : domains[d].name = domains[e].name => d = e
Listed == \A d \in DOMAIN domains : allow[domains[d].name] # "none"
Links == \A r \in DOMAIN routes : ExitId(routes[r]) \in DOMAIN domains \cup {NoId}

Enabled(n) == \E d \in Catalogued(n) : domains[d].enabled

(* What the catalog asks of a route, and what the other routes do.          *)
Fits(row) ==
  /\ \A d \in Catalogued(row.entry) : domains[d].role = "entry"
  /\ \A d \in Catalogued(Exit(row)) : domains[d].role = "exit"
  /\ row.enabled => Enabled(row.entry) /\ (Exit(row) # External => Enabled(Exit(row)))
Linked(row) == ExitId(row) # NoId => ExitId(row) \in Catalogued(Exit(row))
Fresh(row, others) ==
  /\ row.entry # Exit(row)
  /\ \A n \in NamesOf(row) : Users(n) \cap others = {}

(* What a request's checks found still holds.                               *)
JobOK(a) ==
  LET j == job[a] IN
  /\ j.op = "createRoute" => Fits(j.row) /\ Linked(j.row) /\ Fresh(j.row, DOMAIN routes)
  /\ j.op = "updateRoute" =>
       /\ j.id \in DOMAIN routes /\ j.before = NamesOf(routes[j.id])
       /\ Fits(j.row) /\ Linked(j.row) /\ Fresh(j.row, DOMAIN routes \ {j.id})
  /\ j.op = "toggleRoute" =>
       /\ j.id \in DOMAIN routes /\ j.before = NamesOf(routes[j.id])
       /\ routes[j.id].enabled \/ Fits([routes[j.id] EXCEPT !.enabled = TRUE])
  /\ j.op = "insertDomain" => Catalogued(j.row.name) = {} /\ RoleFits(j.row.name, j.row.role)
  /\ j.op = "updateDomain" =>
       /\ j.id \in Catalogued(j.old)
       /\ Catalogued(j.row.name) \subseteq {j.id}
       /\ Used(j.id) => /\ j.row.role = domains[j.id].role /\ j.row.enabled
                        /\ j.row.name = j.old \/ RenameFits(j.row.name, j.row.role)
       /\ RoleFits(j.row.name, j.row.role)
  /\ j.op = "toggleDomain" => j.id \in Catalogued(j.old) /\ ~(domains[j.id].enabled /\ Used(j.id))
  /\ j.op = "deleteDomain" => j.id \in Catalogued(j.old) /\ ~Used(j.id)

(* What routes may rely on under a name.                                    *)
Served(n) == Ready(n) /\ UsedOnce(n) /\ RoleKept(n)

RegistryInv ==
  /\ TypeOK /\ UniqueNames /\ Listed /\ Links
  /\ \A n \in Names \ doubt : Served(n) /\ AllowedRight(n)
  /\ \A a \in Admins \ overtaken : JobOK(a)

-----------------------------------------------------------------------------
(* The operators.                                                           *)

(* No row of the catalog is called External.                                *)
LEMMA CataloguedNames ==
  ASSUME TypeOK
  PROVE  /\ \A n : \A d \in Catalogued(n) :
              d \in DOMAIN domains /\ d \in Ids /\ domains[d] \in Domain /\ domains[d].name = n
         /\ Catalogued(External) = {}
  BY RegistryAssumption DEF RegistryAssumption, TypeOK, IsTable, Catalogued, Domain

(* A stored route's parts.                                                  *)
LEMMA RouteParts ==
  ASSUME NEW row \in Route
  PROVE  /\ row.entry \in Names /\ row.enabled \in BOOLEAN
         /\ Exit(row) \in Names \cup {External} /\ ExitId(row) \in Ids \cup {NoId}
         /\ Exit(row) = External => ExitId(row) = NoId
         /\ NamesOf(row) \subseteq Names
         /\ \A n \in Names : n \in NamesOf(row) <=> row.entry = n \/ Exit(row) = n
  BY RegistryAssumption DEF RegistryAssumption, Route, Target, Exit, ExitId, NamesOf

(* The routes that use a name are those the conflict queries find.          *)
LEMMA UsersAreFound ==
  ASSUME NEW n \in Names, NEW others \in SUBSET DOMAIN routes
  PROVE  /\ Users(n) \cap others = {} <=> ~UsedAsEntry(n, others) /\ ~UsedAsExit(n, others)
         /\ \A r \in DOMAIN routes :
              r \in Users(n) <=> \/ routes[r].entry = n \/ Exit(routes[r]) = n
                                 \/ ExitId(routes[r]) \in Catalogued(n)
  BY RegistryAssumption DEF RegistryAssumption, Users, UsedAsEntry, UsedAsExit, NamesOf

(* The checks of create, update and enabling give what is to be kept.       *)
LEMMA AcceptableFits ==
  ASSUME TypeOK, NEW row \in Route, NEW others \in SUBSET DOMAIN routes, Acceptable(row, others)
  PROVE  Fits(row) /\ Fresh(row, others)
<1>1. Fits(row)
  <2>1. CASE Exit(row) = External
    BY <2>1, CataloguedNames, RouteParts DEF Acceptable, CatalogAllows, Fits, Enabled
  <2>2. CASE Exit(row) # External
    BY <2>2, RouteParts DEF Acceptable, CatalogAllows, Fits, Enabled
  <2>3. QED
    BY <2>1, <2>2
<1>2. Fresh(row, others)
  <2>1. row.entry # Exit(row) /\ \A n \in NamesOf(row) : ~UsedAsEntry(n, others) /\ ~UsedAsExit(n, others)
    BY DEF Acceptable, NoConflict
  <2>2. NamesOf(row) \subseteq Names
    BY RouteParts
  <2>3. QED
    BY <2>1, <2>2, UsersAreFound DEF Fresh
<1>3. QED
  BY <1>1, <1>2

(* resolve_route_resources gives a route whose exit, if it was chosen by id,*)
(* has the name of that row.                                                *)
LEMMA FormResolves ==
  ASSUME TypeOK, NEW form \in Form, Choosable(form)
  PROVE  Resolved(form) \in Route /\ Linked(Resolved(form))
<1>1. PICK x \in Names \cup {External}, i \in Ids \cup {NoId} : form.target = <<x, i>>
  BY DEF Form
<1>2. form.entry \in Names /\ form.enabled \in BOOLEAN /\ Exit(form) = x /\ ExitId(form) = i
  BY <1>1 DEF Form, Exit, ExitId
<1>3. ASSUME NEW t \in Target PROVE [form EXCEPT !.target = t] \in Route
                                     /\ [form EXCEPT !.target = t].target = t
  BY <1>3 DEF Form, Route
<1>4. CASE x = External
  <2>1. Resolved(form) = [form EXCEPT !.target = <<External, NoId>>]
    BY <1>2, <1>4 DEF Resolved
  <2>2. <<External, NoId>> \in Target
    BY DEF Target
  <2>3. QED
    BY <1>3, <2>1, <2>2 DEF ExitId, Linked
<1>5. CASE x # External /\ i = NoId
  <2>1. Resolved(form) = form
    BY <1>2, <1>5 DEF Resolved
  <2>2. QED
    BY <1>1, <1>2, <1>5, <2>1 DEF Form, Route, Target, Linked
<1>6. CASE x # External /\ i # NoId
  <2>1. i \in DOMAIN domains /\ domains[i].name \in Names
    BY <1>2, <1>6 DEF Choosable, TypeOK, IsTable, Domain
  <2>2. [form.target EXCEPT ![1] = domains[i].name] = <<domains[i].name, i>>
    BY <1>1
  <2>3. Resolved(form) = [form EXCEPT !.target = <<domains[i].name, i>>]
    BY <1>2, <1>6, <2>2 DEF Resolved
  <2>4. <<domains[i].name, i>> \in Target
    BY <2>1 DEF Target
  <2>5. QED
    BY <1>3, <2>1, <2>3, <2>4 DEF Exit, ExitId, Catalogued, Linked
<1>7. QED
  BY <1>4, <1>5, <1>6

(* disable_unused_allowlist_domains never turns off what the catalog has    *)
(* enabled.                                                                 *)
LEMMA DisableKeeps ==
  ASSUME TypeOK, NEW names, NEW table, NEW n \in Names
  PROVE  /\ DisableUnused(names, table)[n] \in {"none", "on", "off"}
         /\ \/ DisableUnused(names, table)[n] = allow[n]
            \/ DisableUnused(names, table)[n] = "off" /\ ~Enabled(n)
<1>1. allow[n] \in {"none", "on", "off"}
  BY DEF TypeOK
<1>2. QED
  BY <1>1 DEF DisableUnused, Enabled

-----------------------------------------------------------------------------
(* Names that a step leaves alone.                                          *)

(* A step that changes neither table touches no name.                       *)
LEMMA NothingTouched ==
  ASSUME UNCHANGED <<domains, routes>>
  PROVE  \A n : Untouched(n)
<1>1. domains' = domains /\ routes' = routes
  OBVIOUS
<1>2. \A n : Catalogued(n)' = Catalogued(n)
  BY <1>1 DEF Catalogued
<1>3. \A n : Users(n)' = Users(n)
  BY <1>1, <1>2 DEF Users, NamesOf, Exit, ExitId
<1>4. QED
  BY <1>1, <1>2, <1>3 DEF Untouched

(* What checks find of a name that is left alone stays so.                  *)
LEMMA ChecksStand ==
  ASSUME NEW n \in Names, Untouched(n)
  PROVE  /\ Enabled(n)' <=> Enabled(n)
         /\ UsedAsEntry(n, DOMAIN routes)' <=> UsedAsEntry(n, DOMAIN routes)
         /\ UsedAsExit(n, DOMAIN routes)' <=> UsedAsExit(n, DOMAIN routes)
         /\ \A role : RoleFits(n, role)' <=> RoleFits(n, role)
         /\ \A role : RenameFits(n, role)' <=> RenameFits(n, role)
<1>1. Enabled(n)' <=> Enabled(n)
  BY DEF Untouched, Enabled
<1>2. /\ UsedAsEntry(n, DOMAIN routes)' <=> UsedAsEntry(n, DOMAIN routes)
      /\ UsedAsExit(n, DOMAIN routes)' <=> UsedAsExit(n, DOMAIN routes)
  <2>1. n # External
    BY RegistryAssumption DEF RegistryAssumption
  <2>2. /\ UsedAsEntry(n, DOMAIN routes) <=> \E r \in Users(n) : routes[r].entry = n
        /\ UsedAsExit(n, DOMAIN routes) <=>
             \E r \in Users(n) : Exit(routes[r]) = n \/ ExitId(routes[r]) \in Catalogued(n)
    BY <2>1 DEF UsedAsEntry, UsedAsExit, Users, NamesOf
  <2>3. /\ UsedAsEntry(n, DOMAIN routes)' <=> \E r \in Users(n)' : routes'[r].entry = n
        /\ UsedAsExit(n, DOMAIN routes)' <=>
             \E r \in Users(n)' : Exit(routes'[r]) = n \/ ExitId(routes'[r]) \in Catalogued(n)'
    BY <2>1 DEF UsedAsEntry, UsedAsExit, Users, NamesOf, Exit, ExitId
  <2>4. QED
    BY <2>2, <2>3 DEF Untouched
<1>3. QED
  BY <1>1, <1>2 DEF RoleFits, RenameFits

(* A name is served as well as it was if only rows that used it before use  *)
(* it, and its rows and theirs are the same.                                *)
LEMMA ServedByFewer ==
  ASSUME NEW n \in Names, Served(n), Catalogued(n)' = Catalogued(n),
         \A d \in Catalogued(n) : domains'[d] = domains[d],
         \A r \in Users(n)' : r \in Users(n) /\ routes'[r] = routes[r]
  PROVE  Served(n)'
<1>1. ASSUME NEW r \in DOMAIN routes',
             routes'[r].entry = n \/ Exit(routes'[r]) = n \/ ExitId(routes'[r]) \in Catalogued(n)'
      PROVE  r \in DOMAIN routes /\ r \in Users(n) /\ routes'[r] = routes[r]
  <2>1. r \in Users(n)'
    BY <1>1, RegistryAssumption DEF RegistryAssumption, Users, NamesOf, Exit, ExitId
  <2>2. QED
    BY <2>1 DEF Users
<1>2. Ready(n)'
  BY <1>1 DEF Served, Ready, Exit
<1>3. UsedOnce(n)'
  BY DEF Served, UsedOnce, Exit
<1>4. RoleKept(n)'
  BY <1>1 DEF Served, RoleKept, Exit, ExitId
<1>5. QED
  BY <1>2, <1>3, <1>4 DEF Served

(* So is a name that is left alone.                                          *)
LEMMA NameStands ==
  ASSUME NEW n \in Names, Served(n), Untouched(n)
  PROVE  Served(n)'
BY ServedByFewer DEF Untouched

-----------------------------------------------------------------------------
(* Requests of others.                                                      *)

(* What a request is about are names of the system.                         *)
LEMMA JobNames ==
  ASSUME TypeOK, NEW b \in Admins
  PROVE  /\ job[b].op \in {"createRoute", "updateRoute"} =>
              job[b].row \in Route /\ NamesOf(job[b].row) \subseteq Concerns(b)
         /\ job[b].op \in {"updateRoute", "toggleRoute"} =>
              job[b].id \in RouteIds /\ job[b].before \subseteq Concerns(b)
         /\ job[b].op \in {"insertDomain", "updateDomain"} =>
              job[b].row \in Domain /\ job[b].row.name \in Concerns(b)
         /\ job[b].op \in {"updateDomain", "toggleDomain", "deleteDomain"} =>
              job[b].id \in Ids /\ job[b].old \in Concerns(b)
         /\ job[b].op = "syncAllow" => job[b].id \in Ids /\ job[b].old \in Names
         /\ Concerns(b) \subseteq Names
<1>1. job[b] \in Job
  BY DEF TypeOK
<1>2. /\ job[b].op \in {"createRoute", "updateRoute"} => job[b].row \in Route
      /\ job[b].op \in {"updateRoute", "toggleRoute"} =>
           job[b].id \in RouteIds /\ job[b].before \in SUBSET Names
      /\ job[b].op \in {"insertDomain", "updateDomain"} => job[b].row \in Domain
      /\ job[b].op \in {"updateDomain", "toggleDomain", "deleteDomain", "syncAllow"} =>
           job[b].id \in Ids /\ job[b].old \in Names
  BY <1>1 DEF Job, Idle
<1>3. QED
  BY <1>2, RouteParts DEF Concerns, Domain

(* The rows that a request's checks saw under a name are still there.       *)
LEMMA RowsStand ==
  ASSUME NEW n \in Names, Untouched(n)
  PROVE  /\ Catalogued(n)' = Catalogued(n)
         /\ \A d \in Catalogued(n) : domains'[d] = domains[d] /\ domains[d].name = n
         /\ \A r \in DOMAIN routes : routes[r].entry = n => r \in DOMAIN routes' /\ routes'[r] = routes[r]
         /\ Users(n)' = Users(n)
  BY DEF Untouched, Users, NamesOf, Catalogued

(* What the catalog and the routes say of a form's names.                   *)
LEMMA FormStands ==
  ASSUME TypeOK, IsTable(domains, Ids, Domain)', NEW row \in Route,
         \A n \in NamesOf(row) : Untouched(n)
  PROVE  /\ Fits(row) => Fits(row)'
         /\ Linked(row) => Linked(row)'
         /\ Fresh(row, DOMAIN routes) => Fresh(row, DOMAIN routes)'
         /\ \A r : Fresh(row, DOMAIN routes \ {r}) => Fresh(row, DOMAIN routes \ {r})'
<1>1. /\ Untouched(row.entry) /\ row.entry \in Names
      /\ Exit(row) # External => Exit(row) \in Names /\ Untouched(Exit(row))
  BY RouteParts DEF NamesOf
<1>2. Catalogued(External) = {} /\ Catalogued(External)' = {}
  BY CataloguedNames, RegistryAssumption DEF RegistryAssumption, IsTable, Catalogued, Domain
<1>3. /\ Catalogued(row.entry)' = Catalogued(row.entry)
      /\ \A d \in Catalogued(row.entry) : domains'[d] = domains[d]
      /\ Enabled(row.entry)' <=> Enabled(row.entry)
  BY <1>1, RowsStand, ChecksStand
<1>4. /\ Catalogued(Exit(row))' = Catalogued(Exit(row))
      /\ \A d \in Catalogued(Exit(row)) : domains'[d] = domains[d]
      /\ Exit(row) # External => (Enabled(Exit(row))' <=> Enabled(Exit(row)))
  <2>1. CASE Exit(row) = External
    BY <1>2, <2>1
  <2>2. CASE Exit(row) # External
    BY <1>1, <2>2, RowsStand, ChecksStand
  <2>3. QED
    BY <2>1, <2>2
<1>5. Fits(row) => Fits(row)'
  BY <1>3, <1>4 DEF Fits, Exit
<1>6. Linked(row) => Linked(row)'
  BY <1>4 DEF Linked, Exit, ExitId
<1>7. \A n \in NamesOf(row) : Users(n)' = Users(n) /\ Users(n) \subseteq DOMAIN routes
  BY DEF Untouched, Users
<1>8. Fresh(row, DOMAIN routes) => Fresh(row, DOMAIN routes)'
  BY <1>7 DEF Fresh, NamesOf, Exit
<1>9. ASSUME NEW r, Fresh(row, DOMAIN routes \ {r}) PROVE Fresh(row, DOMAIN routes \ {r})'
  BY <1>7, <1>9 DEF Fresh, NamesOf, Exit
<1>10. QED
  BY <1>5, <1>6, <1>8, <1>9

(* A domain whose name is left alone is in use as before.                   *)
LEMMA DomainStands ==
  ASSUME NEW n \in Names, Untouched(n), NEW d \in Catalogued(n)
  PROVE  d \in Catalogued(n)' /\ domains'[d] = domains[d] /\ (Used(d)' <=> Used(d))
<1>1. d \in Catalogued(n)' /\ domains'[d] = domains[d] /\ domains[d].name = n
  BY RowsStand
<1>2. Used(d) <=> UsedAsEntry(n, DOMAIN routes) \/ UsedAsExit(n, DOMAIN routes)
  BY <1>1 DEF Used
<1>3. Used(d)' <=> UsedAsEntry(n, DOMAIN routes)' \/ UsedAsExit(n, DOMAIN routes)'
  BY <1>1 DEF Used
<1>4. QED
  BY <1>1, <1>2, <1>3, ChecksStand

(* A request whose checks saw nothing that the step writes still holds what *)
(* they found.                                                              *)
LEMMA JobStands ==
  ASSUME TypeOK, IsTable(domains, Ids, Domain)', NEW b \in Admins, job'[b] = job[b],
         \A n \in Concerns(b) : Untouched(n), JobOK(b)
  PROVE  JobOK(b)'
<1>1. PICK j : j = job[b] /\ j = job'[b]
  OBVIOUS
<1>2. Concerns(b) \subseteq Names
  BY JobNames
<1>3. CASE j.op = "createRoute"
  BY <1>1, <1>3, JobNames, FormStands DEF JobOK
<1>4. ASSUME j.op \in {"updateRoute", "toggleRoute"}
      PROVE  j.id \in DOMAIN routes' /\ routes'[j.id] = routes[j.id] /\ j.before = NamesOf(routes[j.id])
             /\ NamesOf(routes[j.id])' = NamesOf(routes[j.id]) /\ routes[j.id] \in Route
  <2>1. j.id \in DOMAIN routes /\ j.before = NamesOf(routes[j.id]) /\ routes[j.id] \in Route
    BY <1>1, <1>4 DEF JobOK, TypeOK, IsTable
  <2>2. routes[j.id].entry \in Names /\ Untouched(routes[j.id].entry)
    BY <1>1, <1>2, <1>4, <2>1, JobNames DEF NamesOf
  <2>3. j.id \in DOMAIN routes' /\ routes'[j.id] = routes[j.id]
    BY <2>1, <2>2, RowsStand
  <2>4. QED
    BY <2>1, <2>3 DEF NamesOf, Exit
<1>5. CASE j.op = "updateRoute"
  <2>1. j.row \in Route /\ \A n \in NamesOf(j.row) : Untouched(n)
    BY <1>1, <1>5, JobNames
  <2>2. Fits(j.row)' /\ Linked(j.row)' /\ Fresh(j.row, DOMAIN routes \ {j.id})'
    BY <1>1, <1>5, <2>1, FormStands DEF JobOK
  <2>3. QED
    BY <1>1, <1>4, <1>5, <2>2 DEF JobOK
<1>6. CASE j.op = "toggleRoute"
  <2>1. PICK row : row = [routes[j.id] EXCEPT !.enabled = TRUE]
    OBVIOUS
  <2>2. row \in Route /\ NamesOf(row) = NamesOf(routes[j.id])
    BY <1>4, <1>6, <2>1 DEF Route, NamesOf, Exit
  <2>3. \A n \in NamesOf(row) : Untouched(n)
    BY <1>1, <1>4, <1>6, <2>2, JobNames
  <2>4. Fits(row) => Fits(row)'
    BY <2>2, <2>3, FormStands
  <2>5. routes[j.id].enabled \/ Fits(row)
    BY <1>1, <1>6, <2>1 DEF JobOK
  <2>6. routes'[j.id].enabled \/ Fits([routes[j.id] EXCEPT !.enabled = TRUE])'
    BY <1>4, <1>6, <2>1, <2>4, <2>5
  <2>7. QED
    BY <1>1, <1>4, <1>6, <2>6 DEF JobOK
<1>7. CASE j.op = "insertDomain"
  <2>1. j.row.name \in Names /\ Untouched(j.row.name)
    BY <1>1, <1>2, <1>7, JobNames
  <2>2. (Catalogued(j.row.name) = {})' /\ RoleFits(j.row.name, j.row.role)'
    BY <1>1, <1>7, <2>1, RowsStand, ChecksStand DEF JobOK
  <2>3. QED
    BY <1>1, <1>7, <2>2 DEF JobOK
<1>8. CASE j.op = "updateDomain"
  <2>1. /\ j.row.name \in Names /\ Untouched(j.row.name)
        /\ j.old \in Names /\ Untouched(j.old)
    BY <1>1, <1>2, <1>8, JobNames
  <2>2. /\ j.id \in Catalogued(j.old)' /\ domains'[j.id] = domains[j.id]
        /\ Used(j.id)' <=> Used(j.id)
    BY <1>1, <1>8, <2>1, DomainStands DEF JobOK
  <2>3. /\ (Catalogued(j.row.name) \subseteq {j.id})' /\ RoleFits(j.row.name, j.row.role)'
        /\ RenameFits(j.row.name, j.row.role)' <=> RenameFits(j.row.name, j.row.role)
    BY <1>1, <1>8, <2>1, RowsStand, ChecksStand DEF JobOK
  <2>4. QED
    BY <1>1, <1>8, <2>2, <2>3 DEF JobOK
<1>9. CASE j.op \in {"toggleDomain", "deleteDomain"}
  <2>1. j.old \in Names /\ Untouched(j.old)
    BY <1>1, <1>2, <1>9, JobNames
  <2>2. /\ j.id \in Catalogued(j.old)' /\ domains'[j.id] = domains[j.id]
        /\ Used(j.id)' <=> Used(j.id)
    BY <1>1, <1>9, <2>1, DomainStands DEF JobOK
  <2>3. QED
    BY <1>1, <1>9, <2>2 DEF JobOK
<1>10. CASE j.op \notin {"createRoute", "updateRoute", "toggleRoute", "insertDomain", "updateDomain",
                        "toggleDomain", "deleteDomain"}
  BY <1>1, <1>10 DEF JobOK
<1>11. QED
  BY <1>3, <1>5, <1>6, <1>7, <1>8, <1>9, <1>10

(* A request that has ended owes nothing.                                   *)
LEMMA IdleIsOK ==
  ASSUME NEW a \in Admins, job'[a] = Idle
  PROVE  JobOK(a)'
  BY DEF JobOK, Idle

(* A write overtakes the others whose checks it contradicts; the rest hold  *)
(* what they found.                                                         *)
LEMMA OthersStand ==
  ASSUME TypeOK, IsTable(domains, Ids, Domain)', \A b \in Admins \ overtaken : JobOK(b),
         NEW a \in Admins, NEW j, job' = [job EXCEPT ![a] = j], JobOK(a)',
         \/ Overtake(a)
         \/ UNCHANGED <<domains, routes>> /\ (overtaken' = overtaken \/ overtaken' = overtaken \ {a})
  PROVE  \A b \in Admins \ overtaken' : JobOK(b)'
<1>1. SUFFICES ASSUME NEW b \in Admins \ overtaken', b # a PROVE JobOK(b)'
  OBVIOUS
<1>2. job'[b] = job[b]
  BY <1>1 DEF TypeOK
<1>3. b \notin overtaken /\ \A n \in Concerns(b) : Untouched(n)
  <2>1. CASE Overtake(a)
    BY <1>1, <2>1 DEF Overtake
  <2>2. CASE UNCHANGED <<domains, routes>> /\ (overtaken' = overtaken \/ overtaken' = overtaken \ {a})
    BY <1>1, <2>2, NothingTouched
  <2>3. QED
    BY <2>1, <2>2
<1>4. QED
  BY <1>2, <1>3, JobStands

(* The allowlist is right about a name that the step does not write about.  *)
LEMMA AllowStands ==
  ASSUME TypeOK, NEW n \in Names, AllowedRight(n), Enabled(n)' <=> Enabled(n),
         NEW a \in Admins, NEW j, job' = [job EXCEPT ![a] = j],
         job[a].op = "syncAllow" => job[a].old # n \/ n \in torn',
         n \in torn => n \in torn', allow'[n] = allow[n]
  PROVE  AllowedRight(n)'
<1>1. CASE n \in torn'
  BY <1>1 DEF AllowedRight
<1>2. CASE n \notin torn'
  <2>1. Syncing(n) => Syncing(n)'
    <3>1. \A b \in Admins \ {a} : job'[b] = job[b]
      BY DEF TypeOK
    <3>2. QED
      BY <1>2, <3>1 DEF Syncing
  <2>2. QED
    BY <1>2, <2>1 DEF AllowedRight, Enabled
<1>3. QED
  BY <1>1, <1>2

(* The invariant after a step of a, from its parts.                         *)
LEMMA AfterStep ==
  ASSUME RegistryInv, NEW a \in Admins, NEW j \in Job, job' = [job EXCEPT ![a] = j], JobOK(a)',
         IsTable(domains, Ids, Domain)', IsTable(routes, RouteIds, Route)',
         allow' \in [Names -> {"none", "on", "off"}], torn' \in SUBSET Names,
         doubt' \in SUBSET Names,
         UniqueNames', Listed', Links',
         \/ Overtake(a)
         \/ UNCHANGED <<domains, routes>> /\ (overtaken' = overtaken \/ overtaken' = overtaken \ {a}),
         \A n \in Names \ doubt' : Served(n)' /\ AllowedRight(n)'
  PROVE  RegistryInv'
<1>1. overtaken' \in SUBSET Admins
  BY DEF RegistryInv, TypeOK, Overtake
<1>2. TypeOK'
  BY <1>1 DEF RegistryInv, TypeOK
<1>3. \A b \in Admins \ overtaken' : JobOK(b)'
  BY OthersStand DEF RegistryInv
<1>4. QED
  BY <1>2, <1>3 DEF RegistryInv

(* A request whose checks passed.                                           *)
LEMMA StartStep ==
  ASSUME RegistryInv, NEW a \in Admins, NEW j \in Job, job[a] = Idle,
         job' = [job EXCEPT ![a] = j], UNCHANGED <<domains, routes, allow, torn, history>>, JobOK(a)'
  PROVE  RegistryInv'
<1>1. UNCHANGED <<domains, routes, allow, torn, overtaken, doubt>>
  BY DEF history
<1>2. ASSUME NEW n \in Names \ doubt'
      PROVE  Served(n)' /\ AllowedRight(n)'
  <2>1. Untouched(n) /\ Served(n) /\ AllowedRight(n)
    BY <1>1, NothingTouched DEF RegistryInv
  <2>2. Served(n)' /\ (Enabled(n)' <=> Enabled(n))
    BY <2>1, NameStands, ChecksStand
  <2>3. job[a].op # "syncAllow"
    BY DEF Idle
  <2>4. QED
    BY <1>1, <2>1, <2>2, <2>3, AllowStands DEF RegistryInv
<1>3. /\ IsTable(domains, Ids, Domain)' /\ IsTable(routes, RouteIds, Route)'
      /\ allow' \in [Names -> {"none", "on", "off"}] /\ torn' \in SUBSET Names
      /\ doubt' \in SUBSET Names
  BY <1>1 DEF RegistryInv, TypeOK, IsTable
<1>4. UniqueNames' /\ Listed' /\ Links'
  BY <1>1 DEF RegistryInv, UniqueNames, Listed, Links
<1>5. QED
  BY <1>1, <1>2, <1>3, <1>4, AfterStep

-----------------------------------------------------------------------------
(* Routes.                                                                  *)

(* The checks of create_route.                                              *)
LEMMA StartCreateRouteStep ==
  ASSUME RegistryInv, NEW a \in Admins, StartCreateRoute(a)
  PROVE  RegistryInv'
<1>1. PICK form \in Form :
        /\ Choosable(form) /\ Acceptable(Resolved(form), DOMAIN routes)
        /\ job' = [job EXCEPT ![a] = [op |-> "createRoute", row |-> Resolved(form)]]
        /\ job[a] = Idle /\ UNCHANGED <<domains, routes, allow, torn, history>>
  BY DEF StartCreateRoute
<1>2. PICK row \in Route :
        /\ row = Resolved(form) /\ Fits(row) /\ Linked(row) /\ Fresh(row, DOMAIN routes)
        /\ job' = [job EXCEPT ![a] = [op |-> "createRoute", row |-> row]]
        /\ job'[a] = [op |-> "createRoute", row |-> row]
  BY <1>1, FormResolves, AcceptableFits DEF RegistryInv, TypeOK
<1>3. JobOK(a)'
  <2>1. Fits(row)' /\ Linked(row)' /\ Fresh(row, DOMAIN routes)'
    BY <1>1, <1>2, FormStands, NothingTouched DEF RegistryInv, TypeOK, IsTable
  <2>2. QED
    BY <1>2, <2>1 DEF JobOK
<1>4. [op |-> "createRoute", row |-> row] \in Job
  BY DEF Job
<1>5. QED
  BY <1>1, <1>2, <1>3, <1>4, StartStep

(* The checks of update_route.                                              *)
LEMMA StartUpdateRouteStep ==
  ASSUME RegistryInv, NEW a \in Admins, NEW r \in RouteIds, StartUpdateRoute(a, r)
  PROVE  RegistryInv'
<1>1. PICK form \in Form :
        /\ Choosable(form) /\ Acceptable(Resolved(form), DOMAIN routes \ {r})
        /\ job' = [job EXCEPT ![a] = [op |-> "updateRoute", id |-> r, row |-> Resolved(form),
                                      before |-> NamesOf(routes[r])]]
        /\ r \in DOMAIN routes
        /\ job[a] = Idle /\ UNCHANGED <<domains, routes, allow, torn, history>>
  BY DEF StartUpdateRoute
<1>2. NamesOf(routes[r]) \in SUBSET Names
  BY <1>1, RouteParts DEF RegistryInv, TypeOK, IsTable
<1>3. PICK row \in Route, before \in SUBSET Names :
        /\ row = Resolved(form) /\ before = NamesOf(routes[r])
        /\ Fits(row) /\ Linked(row) /\ Fresh(row, DOMAIN routes \ {r})
        /\ job' = [job EXCEPT ![a] = [op |-> "updateRoute", id |-> r, row |-> row, before |-> before]]
        /\ job'[a] = [op |-> "updateRoute", id |-> r, row |-> row, before |-> before]
  BY <1>1, <1>2, FormResolves, AcceptableFits DEF RegistryInv, TypeOK
<1>4. JobOK(a)'
  <2>1. Fits(row)' /\ Linked(row)' /\ Fresh(row, DOMAIN routes \ {r})'
    BY <1>1, <1>3, FormStands, NothingTouched DEF RegistryInv, TypeOK, IsTable
  <2>2. r \in DOMAIN routes' /\ before = NamesOf(routes[r])'
    BY <1>1, <1>3 DEF NamesOf, Exit
  <2>3. QED
    BY <1>3, <2>1, <2>2 DEF JobOK
<1>5. [op |-> "updateRoute", id |-> r, row |-> row, before |-> before] \in Job
  BY DEF Job
<1>6. QED
  BY <1>1, <1>3, <1>4, <1>5, StartStep

(* The check of toggle_route, made when it is to enable.                    *)
LEMMA StartToggleRouteStep ==
  ASSUME RegistryInv, NEW a \in Admins, NEW r \in RouteIds, StartToggleRoute(a, r)
  PROVE  RegistryInv'
<1>1. /\ r \in DOMAIN routes
      /\ routes[r].enabled \/ Acceptable([routes[r] EXCEPT !.enabled = TRUE], DOMAIN routes \ {r})
      /\ job' = [job EXCEPT ![a] = [op |-> "toggleRoute", id |-> r, before |-> NamesOf(routes[r])]]
      /\ job[a] = Idle /\ UNCHANGED <<domains, routes, allow, torn, history>>
  BY DEF StartToggleRoute
<1>2. /\ NamesOf(routes[r]) \in SUBSET Names
      /\ [routes[r] EXCEPT !.enabled = TRUE] \in Route
  <2>1. routes[r] \in Route
    BY <1>1 DEF RegistryInv, TypeOK, IsTable
  <2>2. QED
    BY <2>1, RouteParts DEF Route
<1>3. PICK row \in Route, before \in SUBSET Names :
        /\ row = [routes[r] EXCEPT !.enabled = TRUE] /\ before = NamesOf(routes[r])
        /\ routes[r].enabled \/ Fits(row)
        /\ job' = [job EXCEPT ![a] = [op |-> "toggleRoute", id |-> r, before |-> before]]
        /\ job'[a] = [op |-> "toggleRoute", id |-> r, before |-> before]
  BY <1>1, <1>2, AcceptableFits DEF RegistryInv, TypeOK
<1>4. JobOK(a)'
  <2>1. Fits(row) => Fits(row)'
    BY <1>1, FormStands, NothingTouched DEF RegistryInv, TypeOK, IsTable
  <2>2. r \in DOMAIN routes' /\ before = NamesOf(routes[r])' /\ routes' = routes
    BY <1>1, <1>3 DEF NamesOf, Exit
  <2>3. routes'[r].enabled \/ Fits([routes[r] EXCEPT !.enabled = TRUE])'
    BY <1>3, <2>1, <2>2
  <2>4. job'[a].op = "toggleRoute" /\ job'[a].id = r /\ job'[a].before = before
    BY <1>3
  <2>5. QED
    BY <2>2, <2>3, <2>4 DEF JobOK
<1>5. [op |-> "toggleRoute", id |-> r, before |-> before] \in Job
  BY DEF Job
<1>6. QED
  BY <1>1, <1>3, <1>4, <1>5, StartStep

(* A request that writes routes and leaves the catalog alone.               *)
LEMMA RoutesStep ==
  ASSUME RegistryInv, NEW a \in Admins, UNCHANGED domains, Overtake(a),
         job[a].op # "syncAllow", job' = [job EXCEPT ![a] = Idle],
         \A r \in DOMAIN routes' :
           r \in RouteIds /\ routes'[r] \in Route /\ ExitId(routes'[r]) \in DOMAIN domains \cup {NoId},
         allow' \in [Names -> {"none", "on", "off"}], torn' \in SUBSET Names,
         doubt' \in SUBSET Names, doubt \subseteq doubt',
         \A n \in Names : allow'[n] = "none" => allow[n] = "none",
         \A n \in Names \ doubt' :
           /\ Served(n)'
           /\ \/ allow'[n] = allow[n] /\ (n \in torn => n \in torn')
              \/ allow'[n] = "on" /\ Enabled(n)
              \/ allow'[n] = "off" /\ ~Enabled(n)
  PROVE  RegistryInv'
<1>1. JobOK(a)' /\ Idle \in Job
  BY IdleIsOK DEF RegistryInv, TypeOK, Job
<1>2. \A n : Enabled(n)' <=> Enabled(n)
  BY DEF Enabled, Catalogued
<1>3. UniqueNames' /\ Listed' /\ Links'
  BY DEF RegistryInv, TypeOK, IsTable, Domain, UniqueNames, Listed, Links, ExitId
<1>4. IsTable(domains, Ids, Domain)' /\ IsTable(routes, RouteIds, Route)'
  BY DEF RegistryInv, TypeOK, IsTable
<1>5. ASSUME NEW n \in Names \ doubt' PROVE AllowedRight(n)'
  <2>1. CASE allow'[n] = allow[n] /\ (n \in torn => n \in torn')
    BY <1>2, <2>1, AllowStands DEF RegistryInv
  <2>2. CASE (allow'[n] = "on" /\ Enabled(n)) \/ (allow'[n] = "off" /\ ~Enabled(n))
    BY <1>2, <2>2 DEF AllowedRight, Enabled
  <2>3. QED
    BY <2>1, <2>2
<1>6. QED
  BY <1>1, <1>3, <1>4, <1>5, AfterStep

(* The names that an overtaken request leaves out of doubt it leaves alone. *)
LEMMA OvertakenSpares ==
  ASSUME RegistryInv, NEW a \in Admins, a \in overtaken, NEW n \in Names \ doubt,
         n \notin Doubted(a)
  PROVE  n \notin Concerns(a) /\ Untouched(n) /\ Served(n)' /\ (Enabled(n)' <=> Enabled(n))
  BY NameStands, ChecksStand DEF Doubted, Touched, RegistryInv

(* The names of a route that passed the checks are served by it.            *)
LEMMA RowServes ==
  ASSUME TypeOK, UNCHANGED domains, NEW row \in Route, Fits(row), Linked(row), row.entry # Exit(row),
         NEW n \in NamesOf(row), NEW r, r \in DOMAIN routes', routes'[r] = row, Users(n)' = {r}
  PROVE  Served(n)'
<1>1. n \in Names /\ Catalogued(n)' = Catalogued(n)
      /\ (row.entry = n \/ Exit(row) = n) /\ n # External
  BY RouteParts, RegistryAssumption DEF RegistryAssumption, Catalogued
<1>2. ASSUME NEW s \in DOMAIN routes',
             routes'[s].entry = n \/ Exit(routes'[s]) = n \/ ExitId(routes'[s]) \in Catalogued(n)'
      PROVE  s = r
  BY <1>1, <1>2, RegistryAssumption DEF RegistryAssumption, Users, NamesOf, Exit, ExitId
<1>3. Ready(n)'
  <2>1. ASSUME row.enabled PROVE \E d \in Catalogued(n) : domains[d].enabled
    BY <1>1, <2>1 DEF Fits, Enabled
  <2>2. QED
    BY <1>1, <1>2, <2>1 DEF Fits, Ready, Exit
<1>4. UsedOnce(n)'
  BY DEF UsedOnce, Exit
<1>5. RoleKept(n)'
  <2>1. ExitId(row) # NoId => (Exit(row) = n <=> ExitId(row) \in Catalogued(n))
    BY DEF Linked, Catalogued
  <2>2. ASSUME NEW s \in DOMAIN routes'
        PROVE  /\ routes'[s].entry = n => \A d \in Catalogued(n) : domains[d].role = "entry"
               /\ Exit(routes'[s]) = n => \A d \in Catalogued(n) : domains[d].role = "exit"
               /\ ExitId(routes'[s]) # NoId =>
                    (Exit(routes'[s]) = n <=> ExitId(routes'[s]) \in Catalogued(n))
    BY <1>1, <1>2, <2>1 DEF Fits
  <2>3. QED
    BY <1>1, <2>2 DEF RoleKept, Exit, ExitId
<1>6. QED
  BY <1>3, <1>4, <1>5 DEF Served

(* A route that passed the checks uses no name but its own.                 *)
LEMMA RowUses ==
  ASSUME TypeOK, UNCHANGED domains, NEW row \in Route, Linked(row), NEW n \in Names \ NamesOf(row),
         NEW r, routes'[r] = row
  PROVE  r \notin Users(n)'
<1>1. Catalogued(n)' = Catalogued(n) /\ NoId \notin Catalogued(n)
  BY CataloguedNames, RegistryAssumption DEF RegistryAssumption, Catalogued
<1>2. ExitId(row) \notin Catalogued(n)
  <2>1. CASE ExitId(row) = NoId
    BY <1>1, <2>1
  <2>2. CASE ExitId(row) # NoId
    <3>1. Exit(row) # External /\ Exit(row) # n
      BY <2>2, RouteParts
    <3>2. QED
      BY <2>2, <3>1 DEF Linked, Catalogued
  <2>3. QED
    BY <2>1, <2>2
<1>3. QED
  BY <1>1, <1>2 DEF Users, NamesOf, Exit, ExitId

(* The transaction of create_route.                                         *)
LEMMA ApplyCreateRouteStep ==
  ASSUME RegistryInv, NEW a \in Admins, ApplyCreateRoute(a)
  PROVE  RegistryInv'
<1>1. PICK row \in Route, r \in RouteIds \ DOMAIN routes :
        /\ row = job[a].row /\ job[a].op = "createRoute" /\ NamesOf(row) \subseteq Concerns(a)
        /\ Storable(row, DOMAIN routes)
        /\ routes' = With(routes, r, row)
        /\ IF row.enabled THEN AllowOn(NamesOf(row)) ELSE UNCHANGED allow
        /\ torn' = IF row.enabled THEN torn \ NamesOf(row) ELSE torn
        /\ job' = [job EXCEPT ![a] = Idle] /\ UNCHANGED domains
        /\ Overtake(a) /\ doubt' = doubt \cup Doubted(a)
  BY JobNames DEF ApplyCreateRoute, RegistryInv
<1>2. /\ DOMAIN routes' = DOMAIN routes \cup {r} /\ routes'[r] = row
      /\ \A s \in DOMAIN routes : routes'[s] = routes[s]
  BY <1>1 DEF With
<1>3. \A s \in DOMAIN routes' :
        s \in RouteIds /\ routes'[s] \in Route /\ ExitId(routes'[s]) \in DOMAIN domains \cup {NoId}
  BY <1>1, <1>2 DEF RegistryInv, TypeOK, IsTable, Links, Storable
<1>4. /\ allow' \in [Names -> {"none", "on", "off"}] /\ torn' \in SUBSET Names
      /\ \A n \in Names : allow'[n] = IF row.enabled /\ n \in NamesOf(row) THEN "on" ELSE allow[n]
      /\ \A n \in Names : n \in torn => n \in torn' \/ (row.enabled /\ n \in NamesOf(row))
  BY <1>1 DEF RegistryInv, TypeOK, AllowOn
<1>5. doubt' \in SUBSET Names /\ doubt \subseteq doubt'
  BY <1>1, JobNames DEF Doubted, Touched, RegistryInv, TypeOK
<1>6. ASSUME NEW n \in Names \ doubt'
      PROVE  /\ Served(n)'
             /\ \/ allow'[n] = allow[n] /\ (n \in torn => n \in torn')
                \/ allow'[n] = "on" /\ Enabled(n)
  <2>1. CASE a \in overtaken
    <3>1. n \notin NamesOf(row) /\ Served(n)'
      BY <1>1, <2>1, OvertakenSpares
    <3>2. QED
      BY <1>4, <3>1
  <2>2. CASE a \notin overtaken
    <3>1. Fits(row) /\ Linked(row) /\ Fresh(row, DOMAIN routes)
      BY <1>1, <2>2 DEF RegistryInv, JobOK
    <3>2. Catalogued(n)' = Catalogued(n)
      BY <1>1 DEF Catalogued
    <3>3. \A s \in DOMAIN routes : s \in Users(n)' <=> s \in Users(n)
      BY <1>2, <3>2 DEF Users, NamesOf, Exit, ExitId
    <3>4. CASE n \in NamesOf(row)
      <4>1. Users(n)' = {r}
        <5>1. Users(n) = {} /\ Users(n)' \subseteq DOMAIN routes'
          BY <3>1, <3>4 DEF Fresh, Users
        <5>2. r \in Users(n)'
          BY <1>2, <3>4 DEF Users, NamesOf, Exit
        <5>3. QED
          BY <1>2, <3>3, <5>1, <5>2
      <4>2. Served(n)'
        BY <1>1, <1>2, <3>1, <3>4, <4>1, RowServes DEF Fresh, RegistryInv
      <4>3. row.enabled => Enabled(n)
        BY <3>1, <3>4 DEF Fits, NamesOf
      <4>4. QED
        BY <1>4, <4>2, <4>3
    <3>5. CASE n \notin NamesOf(row)
      <4>1. r \notin Users(n)' /\ Users(n)' \subseteq DOMAIN routes'
        BY <1>1, <1>2, <3>1, <3>5, RowUses DEF RegistryInv, Users
      <4>2. Served(n)'
        BY <1>1, <1>2, <3>2, <3>3, <4>1, ServedByFewer DEF RegistryInv
      <4>3. QED
        BY <1>4, <3>5, <4>2
    <3>6. QED
      BY <3>4, <3>5
  <2>3. QED
    BY <2>1, <2>2
<1>7. job[a].op # "syncAllow" /\ \A n \in Names : allow'[n] = "none" => allow[n] = "none"
  BY <1>1, <1>4
<1>8. QED
  BY <1>1, <1>3, <1>4, <1>5, <1>6, <1>7, RoutesStep

(* The transaction of update_route, its two allowlist statements included.  *)
LEMMA ApplyUpdateRouteStep ==
  ASSUME RegistryInv, NEW a \in Admins, ApplyUpdateRoute(a)
  PROVE  RegistryInv'
<1>1. PICK row \in Route, r \in DOMAIN routes, names \in SUBSET Names :
        LET on == IF row.enabled THEN NamesOf(row) ELSE {} IN
        /\ row = job[a].row /\ r = job[a].id /\ job[a].op = "updateRoute"
        /\ names \subseteq Concerns(a) /\ NamesOf(row) \subseteq names
        /\ Storable(row, DOMAIN routes \ {r})
        /\ routes' = [routes EXCEPT ![r] = row]
        /\ allow' = [n \in Names |-> IF n \in on THEN "on"
                                     ELSE DisableUnused(names, [routes EXCEPT ![r] = row])[n]]
        /\ torn' = torn \ on
        /\ job' = [job EXCEPT ![a] = Idle] /\ UNCHANGED domains
        /\ Overtake(a) /\ doubt' = doubt \cup Doubted(a)
  <2>1. job[a].op = "updateRoute"
    BY DEF ApplyUpdateRoute
  <2>2. /\ job[a].row \in Route /\ NamesOf(job[a].row) \subseteq Concerns(a)
        /\ job[a].before \subseteq Concerns(a) /\ Concerns(a) \subseteq Names
    BY <2>1, JobNames DEF RegistryInv
  <2>3. job[a].before \cup NamesOf(job[a].row) \in SUBSET Names
    BY <2>2
  <2>4. QED
    BY <2>1, <2>2, <2>3 DEF ApplyUpdateRoute
<1>2. /\ DOMAIN routes' = DOMAIN routes /\ routes'[r] = row
      /\ \A s \in DOMAIN routes \ {r} : routes'[s] = routes[s]
  BY <1>1
<1>3. \A s \in DOMAIN routes' :
        s \in RouteIds /\ routes'[s] \in Route /\ ExitId(routes'[s]) \in DOMAIN domains \cup {NoId}
  BY <1>1, <1>2 DEF RegistryInv, TypeOK, IsTable, Links, Storable
<1>4. ASSUME NEW n \in Names
      PROVE  /\ allow'[n] \in {"none", "on", "off"}
             /\ n \notin NamesOf(row) \/ ~row.enabled =>
                  /\ n \in torn => n \in torn'
                  /\ allow'[n] = allow[n] \/ (allow'[n] = "off" /\ ~Enabled(n))
             /\ n \in NamesOf(row) /\ row.enabled => allow'[n] = "on"
             /\ n \notin names => allow'[n] = allow[n]
             /\ allow'[n] = "none" => allow[n] = "none"
  <2>1. CASE row.enabled /\ n \in NamesOf(row)
    BY <1>1, <2>1
  <2>2. CASE ~(row.enabled /\ n \in NamesOf(row))
    <3>1. allow'[n] = DisableUnused(names, [routes EXCEPT ![r] = row])[n]
          /\ (n \in torn => n \in torn')
      BY <1>1, <2>2
    <3>2. n \notin names => allow'[n] = allow[n]
      BY <3>1 DEF DisableUnused
    <3>3. /\ allow'[n] \in {"none", "on", "off"}
          /\ allow'[n] = allow[n] \/ (allow'[n] = "off" /\ ~Enabled(n))
      BY <3>1, DisableKeeps DEF RegistryInv
    <3>4. QED
      BY <2>2, <3>1, <3>2, <3>3
  <2>3. QED
    BY <2>1, <2>2
<1>5. allow' \in [Names -> {"none", "on", "off"}] /\ torn' \in SUBSET Names
  BY <1>1, <1>4 DEF RegistryInv, TypeOK
<1>6. doubt' \in SUBSET Names /\ doubt \subseteq doubt'
  BY <1>1, JobNames DEF Doubted, Touched, RegistryInv, TypeOK
<1>7. ASSUME NEW n \in Names \ doubt'
      PROVE  /\ Served(n)'
             /\ \/ allow'[n] = allow[n] /\ (n \in torn => n \in torn')
                \/ allow'[n] = "on" /\ Enabled(n)
                \/ allow'[n] = "off" /\ ~Enabled(n)
  <2>1. CASE a \in overtaken
    <3>1. n \notin names /\ n \notin NamesOf(row) /\ Served(n)'
      BY <1>1, <2>1, OvertakenSpares
    <3>2. QED
      BY <1>4, <3>1
  <2>2. CASE a \notin overtaken
    <3>1. Fits(row) /\ Linked(row) /\ Fresh(row, DOMAIN routes \ {r})
      BY <1>1, <2>2 DEF RegistryInv, JobOK
    <3>2. Catalogued(n)' = Catalogued(n)
      BY <1>1 DEF Catalogued
    <3>3. \A s \in DOMAIN routes \ {r} : s \in Users(n)' <=> s \in Users(n)
      BY <1>2, <3>2 DEF Users, NamesOf, Exit, ExitId
    <3>4. CASE n \in NamesOf(row)
      <4>1. Users(n)' = {r}
        <5>1. Users(n) \subseteq {r} /\ Users(n)' \subseteq DOMAIN routes'
          BY <3>1, <3>4 DEF Fresh, Users
        <5>2. r \in Users(n)'
          BY <1>2, <3>4 DEF Users, NamesOf, Exit
        <5>3. QED
          BY <1>2, <3>3, <5>1, <5>2
      <4>2. Served(n)'
        BY <1>1, <1>2, <3>1, <3>4, <4>1, RowServes DEF Fresh, RegistryInv
      <4>3. row.enabled => Enabled(n)
        BY <3>1, <3>4 DEF Fits, NamesOf
      <4>4. QED
        BY <1>4, <4>2, <4>3
    <3>5. CASE n \notin NamesOf(row)
      <4>1. r \notin Users(n)' /\ Users(n)' \subseteq DOMAIN routes'
        BY <1>1, <1>2, <3>1, <3>5, RowUses DEF RegistryInv, Users
      <4>2. Served(n)'
        BY <1>1, <1>2, <3>2, <3>3, <4>1, ServedByFewer DEF RegistryInv
      <4>3. QED
        BY <1>4, <3>5, <4>2
    <3>6. QED
      BY <3>4, <3>5
  <2>3. QED
    BY <2>1, <2>2
<1>8. job[a].op # "syncAllow" /\ \A n \in Names : allow'[n] = "none" => allow[n] = "none"
  BY <1>1, <1>4
<1>9. QED
  BY <1>1, <1>3, <1>5, <1>6, <1>7, <1>8, RoutesStep

(* The transaction of toggle_route.                                         *)
LEMMA ApplyToggleRouteStep ==
  ASSUME RegistryInv, NEW a \in Admins, ApplyToggleRoute(a)
  PROVE  RegistryInv'
<1> SUFFICES ASSUME NEW r, r = job[a].id, NEW names, names = job[a].before PROVE RegistryInv'
  OBVIOUS
<1>1. /\ job[a].op = "toggleRoute" /\ names \in SUBSET Names /\ names \subseteq Concerns(a)
      /\ routes' = [routes EXCEPT ![r].enabled = ~ @]
      /\ IF routes[r].enabled
           THEN allow' = DisableUnused(names, [routes EXCEPT ![r].enabled = ~ @]) /\ UNCHANGED torn
           ELSE AllowOn(names) /\ torn' = torn \ names
      /\ job' = [job EXCEPT ![a] = Idle] /\ UNCHANGED domains
      /\ Overtake(a) /\ doubt' = doubt \cup Doubted(a)
  <2>1. job[a].op = "toggleRoute"
    BY DEF ApplyToggleRoute
  <2>2. names \subseteq Concerns(a) /\ Concerns(a) \subseteq Names
    BY <2>1, JobNames DEF RegistryInv
  <2>3. QED
    BY <2>1, <2>2 DEF ApplyToggleRoute
<1>2. /\ DOMAIN routes' = DOMAIN routes
      /\ \A s \in DOMAIN routes \ {r} : routes'[s] = routes[s]
  BY <1>1
<1>3. r \in DOMAIN routes =>
        /\ routes'[r] \in Route /\ routes'[r].enabled = ~routes[r].enabled
        /\ routes'[r].entry = routes[r].entry
        /\ Exit(routes'[r]) = Exit(routes[r]) /\ ExitId(routes'[r]) = ExitId(routes[r])
  <2>1. ASSUME r \in DOMAIN routes
        PROVE  routes'[r] = [routes[r] EXCEPT !.enabled = ~ @] /\ routes[r] \in Route
    BY <1>1, <2>1 DEF RegistryInv, TypeOK, IsTable
  <2>2. QED
    BY <2>1 DEF Route, Exit, ExitId
<1>4. \A s \in DOMAIN routes' :
        s \in RouteIds /\ routes'[s] \in Route /\ ExitId(routes'[s]) \in DOMAIN domains \cup {NoId}
  BY <1>2, <1>3 DEF RegistryInv, TypeOK, IsTable, Links
<1>5. ASSUME NEW n \in Names
      PROVE  /\ allow'[n] \in {"none", "on", "off"}
             /\ routes[r].enabled \/ n \notin names =>
                  /\ n \in torn => n \in torn'
                  /\ allow'[n] = allow[n] \/ (allow'[n] = "off" /\ ~Enabled(n))
             /\ ~routes[r].enabled /\ n \in names => allow'[n] = "on"
             /\ n \notin names => allow'[n] = allow[n]
             /\ allow'[n] = "none" => allow[n] = "none"
  <2>1. CASE routes[r].enabled
    <3>1. allow'[n] = DisableUnused(names, [routes EXCEPT ![r].enabled = ~ @])[n] /\ torn' = torn
      BY <1>1, <2>1
    <3>2. n \notin names => allow'[n] = allow[n]
      BY <3>1 DEF DisableUnused
    <3>3. /\ allow'[n] \in {"none", "on", "off"}
          /\ allow'[n] = allow[n] \/ (allow'[n] = "off" /\ ~Enabled(n))
      BY <3>1, DisableKeeps DEF RegistryInv
    <3>4. QED
      BY <2>1, <3>1, <3>2, <3>3
  <2>2. CASE ~routes[r].enabled
    BY <1>1, <2>2 DEF AllowOn, RegistryInv, TypeOK
  <2>3. QED
    BY <2>1, <2>2
<1>6. allow' \in [Names -> {"none", "on", "off"}] /\ torn' \in SUBSET Names
  <2>1. allow' = [n \in Names |-> allow'[n]]
    BY <1>1 DEF AllowOn, DisableUnused
  <2>2. QED
    BY <1>1, <1>5, <2>1 DEF RegistryInv, TypeOK
<1>7. doubt' \in SUBSET Names /\ doubt \subseteq doubt'
  BY <1>1, JobNames DEF Doubted, Touched, RegistryInv, TypeOK
<1>8. ASSUME NEW n \in Names \ doubt'
      PROVE  /\ Served(n)'
             /\ \/ allow'[n] = allow[n] /\ (n \in torn => n \in torn')
                \/ allow'[n] = "on" /\ Enabled(n)
                \/ allow'[n] = "off" /\ ~Enabled(n)
  <2>1. CASE a \in overtaken
    <3>1. n \notin names /\ Served(n)'
      BY <1>1, <2>1, OvertakenSpares
    <3>2. QED
      BY <1>5, <3>1
  <2>2. CASE a \notin overtaken
    <3>1. /\ r \in DOMAIN routes /\ names = NamesOf(routes[r]) /\ routes[r] \in Route
          /\ routes[r].enabled \/ Fits([routes[r] EXCEPT !.enabled = TRUE])
          /\ Served(n)
      BY <1>1, <1>7, <2>2 DEF RegistryInv, JobOK, TypeOK, IsTable
    <3>2. /\ Catalogued(n)' = Catalogued(n) /\ domains' = domains
          /\ Users(n)' = Users(n) /\ Users(n) \subseteq DOMAIN routes
          /\ \A s \in DOMAIN routes : /\ routes'[s].entry = routes[s].entry
                                      /\ Exit(routes'[s]) = Exit(routes[s])
                                      /\ ExitId(routes'[s]) = ExitId(routes[s])
      <4>1. Catalogued(n)' = Catalogued(n) /\ domains' = domains
        BY <1>1 DEF Catalogued
      <4>2. \A s \in DOMAIN routes : /\ routes'[s].entry = routes[s].entry
                                     /\ Exit(routes'[s]) = Exit(routes[s])
                                     /\ ExitId(routes'[s]) = ExitId(routes[s])
        BY <1>2, <1>3
      <4>3. QED
        BY <1>2, <4>1, <4>2 DEF Users, NamesOf, Exit, ExitId
    <3>3. ~routes[r].enabled /\ n \in names => Enabled(n)
      BY <3>1 DEF Fits, NamesOf, Route, Exit
    <3>4. Ready(n)'
      <4>1. ASSUME NEW s \in DOMAIN routes, routes'[s].enabled, ~routes[s].enabled,
                   routes[s].entry = n \/ Exit(routes[s]) = n
            PROVE  Enabled(n)
        <5>1. s = r
          BY <1>2, <4>1
        <5>2. n \in NamesOf(routes[r])
          BY <3>1, <4>1, <5>1, RouteParts
        <5>3. QED
          BY <3>1, <3>3, <4>1, <5>1, <5>2
      <4>2. RoleKept(n) /\ Ready(n)
        BY <3>1 DEF Served
      <4>3. ASSUME NEW s \in DOMAIN routes', routes'[s].enabled
            PROVE  /\ routes'[s].entry = n =>
                        \E d \in Catalogued(n) : domains[d].role = "entry" /\ domains[d].enabled
                   /\ Exit(routes'[s]) = n =>
                        \E d \in Catalogued(n) : domains[d].role = "exit" /\ domains[d].enabled
        BY <1>2, <3>2, <4>1, <4>2, <4>3 DEF RoleKept, Ready, Enabled
      <4>4. QED
        BY <3>2, <4>3 DEF Ready, Exit
    <3>5. UsedOnce(n)'
      BY <3>1, <3>2 DEF Served, UsedOnce, Exit
    <3>6. RoleKept(n)'
      BY <1>2, <3>1, <3>2 DEF Served, RoleKept, Exit, ExitId
    <3>7. QED
      BY <1>5, <3>3, <3>4, <3>5, <3>6 DEF Served
  <2>3. QED
    BY <2>1, <2>2
<1>9. job[a].op # "syncAllow" /\ \A n \in Names : allow'[n] = "none" => allow[n] = "none"
  BY <1>1, <1>5
<1>10. QED
  BY <1>1, <1>4, <1>6, <1>7, <1>8, <1>9, RoutesStep

(* The deletion of a route takes its names off the allowlist if nothing     *)
(* else needs them.                                                         *)
LEMMA DeleteRouteStep ==
  ASSUME RegistryInv, NEW a \in Admins, NEW r \in RouteIds, DeleteRoute(a, r)
  PROVE  RegistryInv'
<1>1. PICK names, table :
        /\ job[a] = Idle /\ routes' = Without(routes, r) /\ allow' = DisableUnused(names, table)
        /\ UNCHANGED <<domains, job, torn, doubt>> /\ Overtake(a)
  BY DEF DeleteRoute
<1>2. DOMAIN routes' = DOMAIN routes \ {r} /\ \A s \in DOMAIN routes' : routes'[s] = routes[s]
  BY <1>1 DEF Without, Restrict
<1>3. \A s \in DOMAIN routes' :
        s \in RouteIds /\ routes'[s] \in Route /\ ExitId(routes'[s]) \in DOMAIN domains \cup {NoId}
  BY <1>2 DEF RegistryInv, TypeOK, IsTable, Links
<1>4. allow' \in [Names -> {"none", "on", "off"}]
  <2>1. allow' = [n \in Names |-> allow'[n]]
    BY <1>1 DEF DisableUnused
  <2>2. QED
    BY <1>1, <2>1, DisableKeeps DEF RegistryInv
<1>5. job' = [job EXCEPT ![a] = Idle] /\ job[a].op # "syncAllow"
  BY <1>1 DEF RegistryInv, TypeOK, Idle
<1>6. torn' \in SUBSET Names /\ doubt' \in SUBSET Names /\ doubt \subseteq doubt' /\ UNCHANGED domains
  BY <1>1 DEF RegistryInv, TypeOK
<1>7. ASSUME NEW n \in Names \ doubt' PROVE Served(n)'
  <2>1. Catalogued(n)' = Catalogued(n)
    BY <1>1 DEF Catalogued
  <2>2. \A s \in Users(n)' : s \in Users(n) /\ routes'[s] = routes[s]
    BY <1>2, <2>1 DEF Users, NamesOf, Exit, ExitId
  <2>3. QED
    BY <1>1, <2>1, <2>2, ServedByFewer DEF RegistryInv
<1>8. \A n \in Names :
        /\ allow'[n] = "none" => allow[n] = "none"
        /\ \/ allow'[n] = allow[n] /\ (n \in torn => n \in torn')
           \/ allow'[n] = "off" /\ ~Enabled(n)
  BY <1>1, DisableKeeps DEF RegistryInv
<1>9. QED
  BY <1>1, <1>3, <1>4, <1>5, <1>6, <1>7, <1>8, RoutesStep

-----------------------------------------------------------------------------
(* The catalog.                                                             *)

(* The checks of upsert_domain when it finds no row of the name.            *)
LEMMA StartInsertDomainStep ==
  ASSUME RegistryInv, NEW a \in Admins, StartInsertDomain(a)
  PROVE  RegistryInv'
<1>1. PICK row \in Domain :
        /\ Catalogued(row.name) = {} /\ RoleFits(row.name, row.role)
        /\ job' = [job EXCEPT ![a] = [op |-> "insertDomain", row |-> row]]
        /\ job[a] = Idle /\ UNCHANGED <<domains, routes, allow, torn, history>>
  BY DEF StartInsertDomain
<1>2. job'[a] = [op |-> "insertDomain", row |-> row] /\ [op |-> "insertDomain", row |-> row] \in Job
  BY <1>1 DEF RegistryInv, TypeOK, Job
<1>3. JobOK(a)'
  <2>1. row.name \in Names /\ Untouched(row.name)
    BY <1>1, NothingTouched DEF Domain
  <2>2. (Catalogued(row.name) = {})' /\ RoleFits(row.name, row.role)'
    BY <1>1, <2>1, RowsStand, ChecksStand
  <2>3. QED
    BY <1>2, <2>2 DEF JobOK
<1>4. QED
  BY <1>1, <1>2, <1>3, StartStep

(* The checks of update_domain, renamings included.                         *)
LEMMA StartUpdateDomainStep ==
  ASSUME RegistryInv, NEW a \in Admins, NEW d \in Ids, StartUpdateDomain(a, d)
  PROVE  RegistryInv'
<1>1. PICK row \in Domain, old \in Names :
        /\ d \in Catalogued(old)
        /\ Catalogued(row.name) \subseteq {d}
        /\ Used(d) => /\ row.role = domains[d].role /\ row.enabled
                      /\ row.name = old \/ RenameFits(row.name, row.role)
        /\ RoleFits(row.name, row.role)
        /\ job' = [job EXCEPT ![a] = [op |-> "updateDomain", id |-> d, row |-> row, old |-> old]]
        /\ job[a] = Idle /\ UNCHANGED <<domains, routes, allow, torn, history>>
  BY DEF StartUpdateDomain, RegistryInv, TypeOK, IsTable, Domain, Catalogued
<1>2. /\ job'[a] = [op |-> "updateDomain", id |-> d, row |-> row, old |-> old]
      /\ [op |-> "updateDomain", id |-> d, row |-> row, old |-> old] \in Job
  BY <1>1 DEF RegistryInv, TypeOK, Job
<1>3. JobOK(a)'
  <2>1. row.name \in Names /\ Untouched(row.name) /\ Untouched(old)
    BY <1>1, NothingTouched DEF Domain
  <2>2. /\ (Catalogued(row.name) \subseteq {d})' /\ RoleFits(row.name, row.role)'
        /\ RenameFits(row.name, row.role)' <=> RenameFits(row.name, row.role)
        /\ d \in Catalogued(old)' /\ domains'[d] = domains[d] /\ (Used(d)' <=> Used(d))
    BY <1>1, <2>1, RowsStand, ChecksStand, DomainStands
  <2>3. /\ job'[a].op = "updateDomain" /\ job'[a].id = d /\ job'[a].row = row /\ job'[a].old = old
    BY <1>2
  <2>4. QED
    BY <1>1, <2>2, <2>3 DEF JobOK
<1>4. QED
  BY <1>1, <1>2, <1>3, StartStep

(* The check of toggle_domain, made when it is to disable.                  *)
LEMMA StartToggleDomainStep ==
  ASSUME RegistryInv, NEW a \in Admins, NEW d \in Ids, StartToggleDomain(a, d)
  PROVE  RegistryInv'
<1>1. PICK old \in Names :
        /\ d \in Catalogued(old) /\ ~(domains[d].enabled /\ Used(d))
        /\ job' = [job EXCEPT ![a] = [op |-> "toggleDomain", id |-> d, old |-> old]]
        /\ job[a] = Idle /\ UNCHANGED <<domains, routes, allow, torn, history>>
  BY DEF StartToggleDomain, RegistryInv, TypeOK, IsTable, Domain, Catalogued
<1>2. /\ job'[a] = [op |-> "toggleDomain", id |-> d, old |-> old]
      /\ [op |-> "toggleDomain", id |-> d, old |-> old] \in Job
  BY <1>1 DEF RegistryInv, TypeOK, Job
<1>3. JobOK(a)'
  <2>1. d \in Catalogued(old)' /\ domains'[d] = domains[d] /\ (Used(d)' <=> Used(d))
    BY <1>1, NothingTouched, DomainStands
  <2>2. QED
    BY <1>1, <1>2, <2>1 DEF JobOK
<1>4. QED
  BY <1>1, <1>2, <1>3, StartStep

(* The check of delete_domain.                                              *)
LEMMA StartDeleteDomainStep ==
  ASSUME RegistryInv, NEW a \in Admins, NEW d \in Ids, StartDeleteDomain(a, d)
  PROVE  RegistryInv'
<1>1. PICK old \in Names :
        /\ d \in Catalogued(old) /\ ~Used(d)
        /\ job' = [job EXCEPT ![a] = [op |-> "deleteDomain", id |-> d, old |-> old]]
        /\ job[a] = Idle /\ UNCHANGED <<domains, routes, allow, torn, history>>
  BY DEF StartDeleteDomain, RegistryInv, TypeOK, IsTable, Domain, Catalogued
<1>2. /\ job'[a] = [op |-> "deleteDomain", id |-> d, old |-> old]
      /\ [op |-> "deleteDomain", id |-> d, old |-> old] \in Job
  BY <1>1 DEF RegistryInv, TypeOK, Job
<1>3. JobOK(a)'
  <2>1. d \in Catalogued(old)' /\ domains'[d] = domains[d] /\ (Used(d)' <=> Used(d))
    BY <1>1, NothingTouched, DomainStands
  <2>2. QED
    BY <1>1, <1>2, <2>1 DEF JobOK
<1>4. QED
  BY <1>1, <1>2, <1>3, StartStep

(* The invariant after a write about a domain, from its parts: the names it *)
(* does not write about need no further look.                               *)
LEMMA CatalogStep ==
  ASSUME RegistryInv, NEW a \in Admins, NEW j \in Job, job' = [job EXCEPT ![a] = j], JobOK(a)',
         job[a].op # "syncAllow", Overtake(a),
         IsTable(domains, Ids, Domain)', IsTable(routes, RouteIds, Route)',
         allow' \in [Names -> {"none", "on", "off"}], torn' \in SUBSET Names,
         doubt \cup Doubted(a) \subseteq doubt', doubt' \in SUBSET Names,
         UniqueNames', Listed', Links',
         \A n \in Names \ Concerns(a) : allow'[n] = allow[n] /\ (n \in torn => n \in torn'),
         a \notin overtaken =>
           \A n \in Names \ doubt' :
             /\ Served(n)'
             /\ n \in Concerns(a) => AllowedRight(n)'
             /\ n \notin Concerns(a) => (Enabled(n)' <=> Enabled(n))
  PROVE  RegistryInv'
<1>1. ASSUME NEW n \in Names \ doubt' PROVE Served(n)' /\ AllowedRight(n)'
  <2>1. CASE a \in overtaken
    <3>1. n \notin Concerns(a) /\ Served(n)' /\ (Enabled(n)' <=> Enabled(n))
      BY <1>1, <2>1, OvertakenSpares
    <3>2. AllowedRight(n)
      BY DEF RegistryInv
    <3>3. QED
      BY <3>1, <3>2, AllowStands DEF RegistryInv
  <2>2. CASE a \notin overtaken
    <3>1. AllowedRight(n)
      BY DEF RegistryInv
    <3>2. CASE n \notin Concerns(a)
      BY <2>2, <3>1, <3>2, AllowStands DEF RegistryInv
    <3>3. QED
      BY <2>2, <3>2
  <2>3. QED
    BY <2>1, <2>2
<1>2. QED
  BY <1>1, AfterStep

(* A name that no row has becomes the name of a new one, which no route uses*)
(* in another role.                                                         *)
LEMMA ApplyInsertDomainStep ==
  ASSUME RegistryInv, NEW a \in Admins, ApplyInsertDomain(a)
  PROVE  RegistryInv'
<1>1. PICK row \in Domain, d \in Ids :
        /\ row = job[a].row /\ job[a].op = "insertDomain" /\ Concerns(a) = {row.name}
        /\ IF Catalogued(row.name) = {} THEN d \notin DOMAIN domains ELSE d \in Catalogued(row.name)
        /\ domains' = With(domains, d, row)
        /\ allow' = [allow EXCEPT ![row.name] = Switch(row.enabled)]
        /\ torn' = torn \ {row.name}
        /\ job' = [job EXCEPT ![a] = Idle] /\ UNCHANGED routes
        /\ Overtake(a) /\ doubt' = doubt \cup Doubted(a)
  <2>1. job[a].op = "insertDomain" /\ job[a].row \in Domain
    BY JobNames DEF RegistryInv, ApplyInsertDomain
  <2>2. Concerns(a) = {job[a].row.name}
    BY <2>1 DEF Concerns
  <2>3. QED
    BY <2>1, <2>2 DEF ApplyInsertDomain
<1>2. row.name \in Names /\ row.enabled \in BOOLEAN /\ row.role \in {"entry", "exit"}
  BY DEF Domain, Role
<1>3. /\ DOMAIN domains' = DOMAIN domains \cup {d} /\ domains'[d] = row
      /\ \A e \in DOMAIN domains \ {d} : domains'[e] = domains[e]
  BY <1>1 DEF With
<1>4. d \in DOMAIN domains => domains[d].name = row.name
  BY <1>1 DEF Catalogued
<1>5. /\ Catalogued(row.name)' = {d}
      /\ \A m : m # row.name => Catalogued(m)' = Catalogued(m) /\ d \notin Catalogued(m)
  BY <1>1, <1>3, <1>4 DEF RegistryInv, UniqueNames, Catalogued
<1>6. IsTable(domains, Ids, Domain)' /\ IsTable(routes, RouteIds, Route)' /\ UniqueNames'
  BY <1>1, <1>3, <1>4 DEF RegistryInv, TypeOK, IsTable, UniqueNames, Catalogued
<1>7. /\ allow' \in [Names -> {"none", "on", "off"}] /\ torn' \in SUBSET Names
      /\ \A n \in Names \ {row.name} : allow'[n] = allow[n] /\ (n \in torn => n \in torn')
      /\ allow'[row.name] = Switch(row.enabled)
  BY <1>1, <1>2 DEF RegistryInv, TypeOK, Switch
<1>8. Listed' /\ Links'
  <2>1. Switch(row.enabled) # "none"
    BY DEF Switch
  <2>2. ASSUME NEW e \in DOMAIN domains' PROVE allow'[domains'[e].name] # "none"
    <3>1. CASE e = d
      BY <1>3, <1>7, <2>1, <3>1
    <3>2. CASE e # d
      BY <1>2, <1>3, <1>7, <2>1, <3>2 DEF RegistryInv, TypeOK, IsTable, Domain, Listed
    <3>3. QED
      BY <3>1, <3>2
  <2>3. QED
    BY <1>1, <1>3, <2>2 DEF RegistryInv, Listed, Links, ExitId
<1>9. doubt \cup Doubted(a) \subseteq doubt' /\ doubt' \in SUBSET Names
  BY <1>1, <1>2 DEF Doubted, Touched, RegistryInv, TypeOK
<1>10. ASSUME a \notin overtaken, NEW n \in Names \ doubt'
       PROVE  /\ Served(n)'
              /\ n \in Concerns(a) => AllowedRight(n)'
              /\ n \notin Concerns(a) => (Enabled(n)' <=> Enabled(n))
  <2>1. Catalogued(row.name) = {} /\ RoleFits(row.name, row.role) /\ Served(n) /\ d \notin DOMAIN domains
    BY <1>1, <1>10 DEF RegistryInv, JobOK
  <2>2. CASE n = row.name
    <3>1. \A r \in DOMAIN routes : routes'[r] = routes[r] /\ ExitId(routes[r]) # d
      BY <1>1, <2>1, RegistryAssumption DEF RegistryAssumption, RegistryInv, Links
    <3>2. \A r \in DOMAIN routes : /\ routes[r].entry = n => row.role = "entry" /\ ~routes[r].enabled
                                   /\ Exit(routes[r]) = n => row.role = "exit" /\ ~routes[r].enabled
                                                             /\ ExitId(routes[r]) = NoId
      BY <1>2, <2>1, <2>2 DEF RoleFits, UsedAsEntry, UsedAsExit, Served, Ready, RoleKept
    <3>3. Ready(n)'
      BY <1>1, <3>2 DEF Ready, Exit
    <3>4. UsedOnce(n)'
      <4>1. Users(n)' = Users(n)
        BY <1>1, <1>5, <2>1, <2>2, <3>1 DEF Users, NamesOf, Exit, ExitId
      <4>2. QED
        BY <1>1, <2>1, <4>1 DEF Served, UsedOnce, Exit
    <3>5. RoleKept(n)'
      BY <1>1, <1>3, <1>5, <2>2, <3>1, <3>2 DEF RoleKept, Exit, ExitId
    <3>6. AllowedRight(n)'
      BY <1>2, <1>3, <1>5, <1>7, <2>2 DEF AllowedRight, Switch
    <3>7. QED
      BY <1>1, <2>2, <3>3, <3>4, <3>5, <3>6 DEF Served
  <2>3. CASE n # row.name
    <3>1. Untouched(n)
      <4>1. Catalogued(n)' = Catalogued(n) /\ \A e \in Catalogued(n) : domains'[e] = domains[e]
        BY <1>3, <1>5, <2>3 DEF Catalogued
      <4>2. Users(n)' = Users(n)
        BY <1>1, <4>1 DEF Users, NamesOf, Exit, ExitId
      <4>3. QED
        BY <1>1, <4>1, <4>2 DEF Untouched
    <3>2. QED
      BY <1>1, <2>1, <2>3, <3>1, NameStands, ChecksStand
  <2>4. QED
    BY <2>2, <2>3
<1>11. Idle \in Job /\ JobOK(a)'
  BY <1>1, IdleIsOK DEF RegistryInv, TypeOK, Job
<1>12. job[a].op # "syncAllow"
  BY <1>1
<1>13. \A n \in Names \ Concerns(a) : allow'[n] = allow[n] /\ (n \in torn => n \in torn')
  BY <1>1, <1>7
<1>14. QED
  <2> HIDE <1>1
  <2>1. job' = [job EXCEPT ![a] = Idle] /\ Overtake(a)
    BY <1>1
  <2>2. QED
    BY <2>1, <1>6, <1>7, <1>8, <1>9, <1>10, <1>11, <1>12, <1>13, CatalogStep

(* A name after the renaming of old.                                        *)
Moved(n, old, name) == IF n = old THEN name ELSE n

(* The routes after a renaming, as update_domain writes them.               *)
LEMMA RenamedRoutes ==
  ASSUME TypeOK, NEW d \in Ids, NEW row \in Domain, NEW old \in Names, NEW r \in DOMAIN routes
  PROVE  LET x == routes[r]  y == Renamed(d, row, old)[r] IN
         /\ y \in Route /\ ExitId(y) = ExitId(x) /\ y.enabled = x.enabled
         /\ y.entry = IF row.role = "entry" THEN Moved(x.entry, old, row.name) ELSE x.entry
         /\ Exit(y) = IF row.role = "exit" /\ (ExitId(x) = d \/ Exit(x) = old)
                        THEN row.name ELSE Exit(x)
<1>1. PICK x : x = routes[r]
  OBVIOUS
<1>2. x \in Route
  BY <1>1 DEF TypeOK, IsTable
<1>3. PICK en \in Names, ex \in Names \cup {External}, i \in Ids \cup {NoId} :
        en = x.entry /\ x.target = <<ex, i>> /\ Exit(x) = ex /\ ExitId(x) = i
        /\ (ex = External => i = NoId)
  <2>1. x.entry \in Names /\ x.target \in Target
    BY <1>2 DEF Route
  <2>2. PICK ex \in Names \cup {External}, i \in Ids \cup {NoId} :
          x.target = <<ex, i>> /\ (ex = External => i = NoId)
    BY <2>1, RegistryAssumption DEF RegistryAssumption, Target
  <2>3. QED
    BY <2>1, <2>2 DEF Exit, ExitId
<1>4. /\ row.name \in Names /\ row.role \in {"entry", "exit"}
      /\ External # old /\ d # NoId
  BY RegistryAssumption DEF RegistryAssumption, Domain, Role
<1>5. PICK y : y = Renamed(d, row, old)[r]
  OBVIOUS
<1>6. CASE row.role = "entry" /\ en = old
  <2>1. y = [x EXCEPT !.entry = row.name]
    BY <1>1, <1>3, <1>5, <1>6 DEF Renamed
  <2>2. QED
    BY <1>1, <1>2, <1>3, <1>4, <1>5, <1>6, <2>1 DEF Route, Moved, Exit, ExitId
<1>7. CASE row.role = "exit" /\ (i = d \/ ex = old)
  <2>1. [x.target EXCEPT ![1] = row.name] = <<row.name, i>>
    BY <1>3
  <2>2. y = [x EXCEPT !.target = <<row.name, i>>]
    BY <1>1, <1>3, <1>5, <1>7, <2>1 DEF Renamed
  <2>3. <<row.name, i>> \in Target
    BY <1>3, <1>4, <1>7 DEF Target
  <2>4. QED
    BY <1>1, <1>2, <1>3, <1>4, <1>5, <1>7, <2>2, <2>3 DEF Route, Moved, Exit, ExitId
<1>8. CASE ~(row.role = "entry" /\ en = old) /\ ~(row.role = "exit" /\ (i = d \/ ex = old))
  <2>1. y = x
    BY <1>1, <1>3, <1>5, <1>8 DEF Renamed
  <2>2. QED
    BY <1>1, <1>2, <1>3, <1>4, <1>5, <1>8, <2>1 DEF Moved
<1>9. QED
  BY <1>6, <1>7, <1>8

(* A renaming that nothing overtook keeps what routes may rely on, under the*)
(* old name, under the new one and under every other.                       *)
LEMMA RenamingServes ==
  ASSUME RegistryInv, NEW d \in Ids, NEW row \in Domain, NEW old \in Names,
         d \in Catalogued(old), Catalogued(row.name) \subseteq {d},
         Used(d) => /\ row.role = domains[d].role /\ row.enabled
                    /\ row.name = old \/ RenameFits(row.name, row.role),
         RoleFits(row.name, row.role),
         domains' = [domains EXCEPT ![d] = row], routes' = Renamed(d, row, old),
         NEW n \in Names, Served(n), n = row.name => Served(old)
  PROVE  Served(n)'
<1>1. /\ row.name \in Names /\ row.enabled \in BOOLEAN /\ row.role \in {"entry", "exit"}
      /\ External \notin Names /\ NoId \notin Ids
  BY RegistryAssumption DEF RegistryAssumption, Domain, Role
<1>2. /\ DOMAIN domains' = DOMAIN domains /\ domains'[d] = row /\ d \in DOMAIN domains
      /\ domains[d].name = old
      /\ \A e \in DOMAIN domains \ {d} : domains'[e] = domains[e]
  BY DEF Catalogued
<1>3. /\ Catalogued(row.name)' = {d}
      /\ \A m : m \notin {old, row.name} => Catalogued(m)' = Catalogued(m) /\ d \notin Catalogued(m)
      /\ old # row.name => Catalogued(old)' = {} /\ Catalogued(row.name) = {}
      /\ Catalogued(old) = {d}
  BY <1>2 DEF RegistryInv, UniqueNames, Catalogued
<1>4. DOMAIN routes' = DOMAIN routes
  BY DEF Renamed
<1>5. ASSUME NEW r \in DOMAIN routes
      PROVE  /\ ExitId(routes'[r]) = ExitId(routes[r]) /\ routes'[r].enabled = routes[r].enabled
             /\ routes'[r].entry = IF row.role = "entry" THEN Moved(routes[r].entry, old, row.name)
                                                         ELSE routes[r].entry
             /\ Exit(routes'[r]) = IF row.role = "exit" /\ (ExitId(routes[r]) = d \/ Exit(routes[r]) = old)
                                     THEN row.name ELSE Exit(routes[r])
  BY RenamedRoutes DEF RegistryInv
<1>6. Used(d) <=> \E r \in DOMAIN routes :
                    routes[r].entry = old \/ Exit(routes[r]) = old \/ ExitId(routes[r]) = d
  BY <1>2, <1>3 DEF Used, UsedAsEntry, UsedAsExit
<1>7. ASSUME Served(old), NEW r \in DOMAIN routes
      PROVE  /\ routes[r].entry = old => domains[d].role = "entry"
             /\ Exit(routes[r]) = old => domains[d].role = "exit"
             /\ ExitId(routes[r]) # NoId => (Exit(routes[r]) = old <=> ExitId(routes[r]) = d)
  BY <1>3, <1>7 DEF Served, RoleKept
<1>8. d # NoId
  BY <1>1
<1>9. CASE n \notin {old, row.name}
  <2>1. \A r \in DOMAIN routes : /\ routes'[r].entry = n <=> routes[r].entry = n
                                 /\ Exit(routes'[r]) = n <=> Exit(routes[r]) = n
    <3>1. ASSUME NEW r \in DOMAIN routes PROVE ExitId(routes[r]) = d => Exit(routes[r]) # n
      BY <1>3, <1>8, <1>9, <3>1 DEF Served, RoleKept
    <3>2. QED
      BY <1>5, <1>9, <3>1 DEF Moved
  <2>2. /\ Catalogued(n)' = Catalogued(n) /\ Catalogued(n) \subseteq DOMAIN domains \ {d}
        /\ \A e \in Catalogued(n) : domains'[e] = domains[e]
    BY <1>2, <1>3, <1>9 DEF Catalogued
  <2>3. Ready(n)'
    BY <1>4, <1>5, <2>1, <2>2 DEF Served, Ready, Exit
  <2>4. Users(n)' = Users(n)
    BY <1>1, <1>4, <1>5, <2>1, <2>2 DEF Users, NamesOf, Exit, ExitId
  <2>5. UsedOnce(n)'
    BY <2>1, <2>4 DEF Served, UsedOnce, Exit, Users
  <2>6. RoleKept(n)'
    BY <1>4, <1>5, <2>1, <2>2 DEF Served, RoleKept, Exit, ExitId
  <2>7. QED
    BY <2>3, <2>5, <2>6 DEF Served
<1>10. CASE n = old /\ n # row.name
  <2>1. \A r \in DOMAIN routes : routes'[r].entry # n /\ Exit(routes'[r]) # n
    BY <1>5, <1>6, <1>7, <1>10 DEF Moved
  <2>2. Catalogued(n)' = {}
    BY <1>3, <1>10
  <2>3. Users(n)' = {}
    BY <1>4, <2>1, <2>2 DEF Users, NamesOf, Exit, ExitId
  <2>4. Ready(n)' /\ RoleKept(n)' /\ UsedOnce(n)'
    BY <1>4, <2>1, <2>2, <2>3 DEF Ready, RoleKept, UsedOnce, Exit, ExitId
  <2>5. QED
    BY <2>4 DEF Served
<1>11. CASE n = row.name
  <2>1. Served(old)
    BY <1>11
  <2>2. ASSUME NEW r \in DOMAIN routes, ~Used(d)
        PROVE  /\ routes'[r].entry = routes[r].entry /\ Exit(routes'[r]) = Exit(routes[r])
               /\ ExitId(routes[r]) # d
    BY <1>5, <1>6, <2>2 DEF Moved
  <2>3. ASSUME NEW r \in DOMAIN routes, Used(d)
        PROVE  /\ routes'[r].entry = n <=> routes[r].entry = old
               /\ Exit(routes'[r]) = n <=> Exit(routes[r]) = old
               /\ ExitId(routes[r]) # NoId => (Exit(routes[r]) = old <=> ExitId(routes[r]) = d)
    <3>1. n = old \/ (routes[r].entry # n /\ Exit(routes[r]) # n)
      BY <1>1, <1>11, <2>3 DEF RenameFits, RoleFits, UsedAsEntry, UsedAsExit
    <3>2. /\ routes[r].entry = old => row.role = "entry"
          /\ Exit(routes[r]) = old => row.role = "exit"
          /\ ExitId(routes[r]) # NoId => (Exit(routes[r]) = old <=> ExitId(routes[r]) = d)
      BY <1>7, <2>1, <2>3
    <3>3. QED
      BY <1>5, <1>8, <1>11, <3>1, <3>2 DEF Moved
  <2>4. CASE Used(d)
    <3>1. row.role = domains[d].role /\ row.enabled
      BY <2>4
    <3>2. \A r \in DOMAIN routes : /\ routes[r].entry = old => domains[d].role = "entry"
                                   /\ Exit(routes[r]) = old => domains[d].role = "exit"
      BY <1>7, <2>1
    <3>3. Ready(n)'
      BY <1>2, <1>3, <1>4, <1>11, <2>3, <2>4, <3>1, <3>2 DEF Ready, Exit
    <3>4. Users(n)' = Users(old)
      BY <1>1, <1>3, <1>4, <1>5, <1>11, <2>3, <2>4 DEF Users, NamesOf, Exit, ExitId
    <3>5. UsedOnce(n)'
      BY <2>1, <2>3, <2>4, <3>4 DEF Served, UsedOnce, Exit, Users
    <3>6. RoleKept(n)'
      BY <1>2, <1>3, <1>4, <1>5, <1>11, <2>3, <2>4, <3>1, <3>2 DEF RoleKept, Exit, ExitId
    <3>7. QED
      BY <3>3, <3>5, <3>6 DEF Served
  <2>5. CASE ~Used(d)
    <3>1. \A r \in DOMAIN routes : /\ routes[r].entry = n => row.role = "entry" /\ ~routes[r].enabled
                                   /\ Exit(routes[r]) = n => row.role = "exit" /\ ~routes[r].enabled
                                                             /\ ExitId(routes[r]) = NoId
      <4>1. CASE n = old
        BY <1>6, <2>5, <4>1
      <4>2. CASE n # old
        BY <1>1, <1>3, <1>11, <4>2 DEF RoleFits, UsedAsEntry, UsedAsExit, Served, Ready, RoleKept
      <4>3. QED
        BY <4>1, <4>2
    <3>2. Ready(n)'
      BY <1>4, <1>5, <2>2, <2>5, <3>1 DEF Ready, Exit
    <3>3. Users(n)' = {r \in DOMAIN routes : n \in NamesOf(routes[r])}
      BY <1>3, <1>4, <1>5, <1>11, <2>2, <2>5 DEF Users, NamesOf, Exit, ExitId
    <3>4. UsedOnce(n)'
      BY <2>2, <2>5, <3>3 DEF Served, UsedOnce, Users, Exit
    <3>5. RoleKept(n)'
      BY <1>2, <1>3, <1>4, <1>5, <1>11, <2>2, <2>5, <3>1 DEF RoleKept, Exit, ExitId
    <3>6. QED
      BY <3>2, <3>4, <3>5 DEF Served
  <2>6. QED
    BY <2>4, <2>5
<1>12. QED
  BY <1>9, <1>10, <1>11

(* The transaction of update_domain: the row, the routes that refer to its  *)
(* name, the allowlist.                                                     *)
LEMMA ApplyUpdateDomainStep ==
  ASSUME RegistryInv, NEW a \in Admins, ApplyUpdateDomain(a)
  PROVE  RegistryInv'
<1>1. PICK row \in Domain, d \in Ids, old \in Names :
        /\ row = job[a].row /\ d = job[a].id /\ old = job[a].old /\ job[a].op = "updateDomain"
        /\ Concerns(a) = {row.name, old}
        /\ Catalogued(row.name) \subseteq {d}
        /\ domains' = IF d \in DOMAIN domains THEN [domains EXCEPT ![d] = row] ELSE domains
        /\ routes' = Renamed(d, row, old)
        /\ allow' = [n \in Names |->
                       IF n = row.name THEN Switch(row.enabled)
                       ELSE IF n = old /\ allow[n] # "none" THEN "off" ELSE allow[n]]
        /\ torn' = torn \ {row.name, old}
        /\ doubt' = doubt \cup Doubted(a) \cup (IF old \in doubt THEN {row.name} ELSE {})
        /\ job' = [job EXCEPT ![a] = Idle] /\ Overtake(a)
  <2>1. job[a].op = "updateDomain"
    BY DEF ApplyUpdateDomain
  <2>2. job[a].row \in Domain /\ job[a].id \in Ids /\ job[a].old \in Names
    BY <2>1, JobNames DEF RegistryInv
  <2>3. Concerns(a) = {job[a].row.name, job[a].old}
    BY <2>1 DEF Concerns
  <2>4. QED
    BY <2>1, <2>2, <2>3 DEF ApplyUpdateDomain
<1>2. row.name \in Names /\ row.enabled \in BOOLEAN
  BY DEF Domain
<1>3. /\ DOMAIN domains' = DOMAIN domains
      /\ d \in DOMAIN domains => domains'[d] = row
      /\ \A e \in DOMAIN domains \ {d} : domains'[e] = domains[e] /\ domains[e].name # row.name
  BY <1>1 DEF Catalogued
<1>4. IsTable(domains, Ids, Domain)' /\ UniqueNames'
  BY <1>3 DEF RegistryInv, TypeOK, IsTable, UniqueNames
<1>5. ASSUME NEW n \in Names
      PROVE  /\ allow'[n] = IF n = row.name THEN Switch(row.enabled)
                            ELSE IF n = old /\ allow[n] # "none" THEN "off" ELSE allow[n]
             /\ allow'[n] \in {"none", "on", "off"}
  BY <1>1 DEF RegistryInv, TypeOK, Switch
<1>6. allow' \in [Names -> {"none", "on", "off"}] /\ torn' \in SUBSET Names
  BY <1>1, <1>5 DEF RegistryInv, TypeOK
<1>7. Listed'
  <2>1. allow'[row.name] # "none"
    BY <1>2, <1>5 DEF Switch
  <2>2. ASSUME NEW e \in DOMAIN domains \ {d} PROVE allow'[domains[e].name] # "none"
    <3>1. domains[e].name \in Names /\ allow[domains[e].name] # "none"
      BY DEF RegistryInv, TypeOK, IsTable, Domain, Listed
    <3>2. QED
      BY <1>3, <1>5, <3>1
  <2>3. QED
    BY <1>3, <2>1, <2>2 DEF Listed
<1>8. /\ DOMAIN routes' = DOMAIN routes
      /\ \A r \in DOMAIN routes : routes'[r] \in Route /\ ExitId(routes'[r]) = ExitId(routes[r])
  <2>1. DOMAIN routes' = DOMAIN routes
    BY <1>1 DEF Renamed
  <2>2. ASSUME NEW r \in DOMAIN routes
        PROVE  routes'[r] \in Route /\ ExitId(routes'[r]) = ExitId(routes[r])
    <3>1. routes'[r] = Renamed(d, row, old)[r]
      BY <1>1
    <3> HIDE <1>1
    <3>2. QED
      BY <3>1, RenamedRoutes DEF RegistryInv
  <2>3. QED
    BY <2>1, <2>2
<1>9. IsTable(routes, RouteIds, Route)' /\ Links'
  BY <1>3, <1>8 DEF RegistryInv, TypeOK, IsTable, Links, ExitId
<1>10. doubt \cup Doubted(a) \subseteq doubt' /\ doubt' \in SUBSET Names
  BY <1>1, <1>2 DEF Doubted, Touched, RegistryInv, TypeOK
<1>11. ASSUME a \notin overtaken, NEW n \in Names \ doubt'
       PROVE  /\ Served(n)'
              /\ n \in Concerns(a) => AllowedRight(n)'
              /\ n \notin Concerns(a) => (Enabled(n)' <=> Enabled(n))
  <2>1. /\ d \in Catalogued(old) /\ d \in DOMAIN domains /\ domains[d].name = old
        /\ Used(d) => /\ row.role = domains[d].role /\ row.enabled
                      /\ row.name = old \/ RenameFits(row.name, row.role)
        /\ RoleFits(row.name, row.role)
    BY <1>1, <1>11 DEF RegistryInv, JobOK, Catalogued
  <2>2. n \notin doubt /\ (n = row.name => old \notin doubt)
    BY <1>1, <1>11
  <2>3. Served(n)'
    <3>1. Served(n) /\ (n = row.name => Served(old))
      BY <2>2 DEF RegistryInv
    <3>2. Catalogued(row.name) \subseteq {d}
          /\ domains' = [domains EXCEPT ![d] = row] /\ routes' = Renamed(d, row, old)
      BY <1>1, <2>1
    <3> HIDE <1>1
    <3>3. QED
      BY <2>1, <3>1, <3>2, RenamingServes
  <2>4. /\ Catalogued(row.name)' = {d}
        /\ n \notin {old, row.name} => /\ Catalogued(n)' = Catalogued(n)
                                       /\ \A e \in Catalogued(n) : domains'[e] = domains[e]
        /\ old # row.name => Catalogued(old)' = {}
    BY <1>3, <2>1 DEF RegistryInv, UniqueNames, Catalogued
  <2>5. n \in Concerns(a) => AllowedRight(n)'
    <3>1. CASE n = row.name
      BY <1>2, <1>3, <1>5, <2>1, <2>4, <3>1 DEF AllowedRight, Switch
    <3>2. CASE n = old /\ n # row.name
      BY <1>5, <2>4, <3>2 DEF AllowedRight
    <3>3. QED
      BY <1>1, <3>1, <3>2
  <2>6. n \notin Concerns(a) => (Enabled(n)' <=> Enabled(n))
    BY <1>1, <2>4 DEF Enabled
  <2>7. QED
    BY <2>3, <2>5, <2>6
<1>12. Idle \in Job /\ JobOK(a)'
  BY <1>1, IdleIsOK DEF RegistryInv, TypeOK, Job
<1>13. job[a].op # "syncAllow"
       /\ \A n \in Names \ Concerns(a) : allow'[n] = allow[n] /\ (n \in torn => n \in torn')
  BY <1>1, <1>5
<1>14. QED
  <2>1. job' = [job EXCEPT ![a] = Idle] /\ Overtake(a)
    BY <1>1
  <2> HIDE <1>1
  <2>2. QED
    BY <2>1, <1>4, <1>6, <1>7, <1>9, <1>10, <1>11, <1>12, <1>13, CatalogStep

(* A domain that no route uses may be switched; the first statement of the  *)
(* toggle leaves the allowlist behind.                                      *)
LEMMA ApplyToggleDomainStep ==
  ASSUME RegistryInv, NEW a \in Admins, ApplyToggleDomain(a)
  PROVE  RegistryInv'
<1>1. PICK d \in DOMAIN domains, old \in Names, now \in Names :
        /\ d = job[a].id /\ job[a].op = "toggleDomain" /\ old = job[a].old /\ now = domains[d].name
        /\ Concerns(a) = {old}
        /\ domains' = [domains EXCEPT ![d].enabled = ~ @]
        /\ job' = [job EXCEPT ![a] = [op |-> "syncAllow", id |-> d, old |-> now]]
        /\ UNCHANGED <<routes, allow, torn>>
        /\ Overtake(a) /\ doubt' = doubt \cup Doubted(a)
  <2>1. job[a].op = "toggleDomain" /\ job[a].id \in DOMAIN domains
    BY DEF ApplyToggleDomain
  <2>2. job[a].old \in Names /\ Concerns(a) = {job[a].old} /\ domains[job[a].id].name \in Names
    BY <2>1, JobNames DEF RegistryInv, Concerns, TypeOK, IsTable, Domain
  <2>3. QED
    BY <2>1, <2>2 DEF ApplyToggleDomain
<1>2. /\ domains[d] \in Domain /\ d \in Ids /\ d \in Catalogued(now)
      /\ [domains[d] EXCEPT !.enabled = ~ @] \in Domain
      /\ [domains[d] EXCEPT !.enabled = ~ @].name = now
      /\ [domains[d] EXCEPT !.enabled = ~ @].role = domains[d].role
      /\ [domains[d] EXCEPT !.enabled = ~ @].enabled = ~domains[d].enabled
  BY <1>1 DEF RegistryInv, TypeOK, IsTable, Domain, Catalogued
<1>3. /\ DOMAIN domains' = DOMAIN domains
      /\ domains'[d].name = domains[d].name /\ domains'[d].role = domains[d].role
      /\ domains'[d].enabled = ~domains[d].enabled
      /\ domains'[d] \in Domain
      /\ \A e \in DOMAIN domains \ {d} : domains'[e] = domains[e]
  BY <1>1, <1>2
<1>4. \A m : Catalogued(m)' = Catalogued(m)
  BY <1>3 DEF Catalogued
<1>5. /\ IsTable(domains, Ids, Domain)' /\ IsTable(routes, RouteIds, Route)'
      /\ UniqueNames' /\ Listed' /\ Links'
      /\ allow' \in [Names -> {"none", "on", "off"}] /\ torn' \in SUBSET Names
  BY <1>1, <1>3 DEF RegistryInv, TypeOK, IsTable, UniqueNames, Listed, Links, ExitId
<1>6. [op |-> "syncAllow", id |-> d, old |-> now] \in Job
      /\ job'[a] = [op |-> "syncAllow", id |-> d, old |-> now] /\ JobOK(a)'
  BY <1>1, <1>2 DEF RegistryInv, TypeOK, Job, JobOK
<1>7. doubt \cup Doubted(a) \subseteq doubt' /\ doubt' \in SUBSET Names
  BY <1>1 DEF Doubted, Touched, RegistryInv, TypeOK
<1>8. ASSUME a \notin overtaken, NEW n \in Names \ doubt'
      PROVE  /\ Served(n)'
             /\ n \in Concerns(a) => AllowedRight(n)'
             /\ n \notin Concerns(a) => (Enabled(n)' <=> Enabled(n))
  <2>1. d \in Catalogued(old) /\ old = now /\ ~(domains[d].enabled /\ Used(d)) /\ Served(n)
    BY <1>1, <1>8 DEF RegistryInv, JobOK, Catalogued
  <2>2. Users(n)' = Users(n) /\ Catalogued(n)' = Catalogued(n) /\ routes' = routes
    BY <1>1, <1>4 DEF Users, NamesOf, Exit, ExitId
  <2>3. CASE n = old
    <3>1. Catalogued(n) = {d}
      BY <2>1, <2>3 DEF RegistryInv, UniqueNames, Catalogued
    <3>2. ASSUME NEW r \in DOMAIN routes, routes[r].enabled, routes[r].entry = n \/ Exit(routes[r]) = n
          PROVE  FALSE
      <4>1. Used(d)
        BY <1>1, <2>1, <2>3, <3>2 DEF Used, UsedAsEntry, UsedAsExit
      <4>2. domains[d].enabled
        BY <2>1, <3>1, <3>2 DEF Served, Ready
      <4>3. QED
        BY <2>1, <4>1, <4>2
    <3>3. Ready(n)'
      BY <2>2, <3>2 DEF Ready, Exit
    <3>4. UsedOnce(n)'
      BY <2>1, <2>2 DEF Served, UsedOnce, Exit
    <3>5. RoleKept(n)'
      BY <1>3, <2>1, <2>2, <3>1 DEF Served, RoleKept, Exit, ExitId
    <3>6. AllowedRight(n)'
      BY <1>6, <2>1, <2>3 DEF AllowedRight, Syncing
    <3>7. QED
      BY <1>1, <2>3, <3>3, <3>4, <3>5, <3>6 DEF Served
  <2>4. CASE n # old
    <3>1. \A e \in Catalogued(n) : domains'[e] = domains[e]
      BY <1>1, <1>3, <2>1, <2>4 DEF Catalogued
    <3>2. Untouched(n)
      BY <2>2, <3>1 DEF Untouched
    <3>3. QED
      BY <1>1, <2>1, <2>4, <3>2, NameStands, ChecksStand
  <2>5. QED
    BY <2>3, <2>4
<1>9. job[a].op # "syncAllow"
      /\ \A n \in Names \ Concerns(a) : allow'[n] = allow[n] /\ (n \in torn => n \in torn')
  BY <1>1
<1>10. QED
  <2>1. job' = [job EXCEPT ![a] = [op |-> "syncAllow", id |-> d, old |-> now]] /\ Overtake(a)
    BY <1>1
  <2> HIDE <1>1
  <2>2. QED
    BY <2>1, <1>5, <1>6, <1>7, <1>8, <1>9, CatalogStep

(* Its last statement makes the allowlist follow, if the domain still has   *)
(* the name.                                                                *)
LEMMA SyncAllowStep ==
  ASSUME RegistryInv, NEW a \in Admins, SyncAllow(a)
  PROVE  RegistryInv'
<1>1. PICK d \in DOMAIN domains, old \in Names :
        /\ d = job[a].id /\ old = job[a].old /\ job[a].op = "syncAllow"
        /\ allow' = [allow EXCEPT ![old] = IF @ = "none" THEN @ ELSE Switch(domains[d].enabled)]
        /\ torn' = torn \ {old}
        /\ doubt' = doubt \cup ({old} \ {domains[d].name})
        /\ job' = [job EXCEPT ![a] = Idle] /\ UNCHANGED <<domains, routes, overtaken>>
  BY JobNames DEF SyncAllow, RegistryInv
<1>2. domains[d].enabled \in BOOLEAN /\ domains[d].name \in Names
  BY DEF RegistryInv, TypeOK, IsTable, Domain
<1>3. /\ allow'[old] = IF allow[old] = "none" THEN "none" ELSE Switch(domains[d].enabled)
      /\ \A n \in Names \ {old} : allow'[n] = allow[n]
      /\ allow' \in [Names -> {"none", "on", "off"}] /\ torn' \in SUBSET Names
      /\ doubt' \in SUBSET Names
  BY <1>1, <1>2 DEF RegistryInv, TypeOK, Switch
<1>4. /\ IsTable(domains, Ids, Domain)' /\ IsTable(routes, RouteIds, Route)'
      /\ UniqueNames' /\ Links'
  BY <1>1 DEF RegistryInv, TypeOK, IsTable, UniqueNames, Links, ExitId
<1>5. Listed'
  BY <1>1, <1>3 DEF RegistryInv, TypeOK, IsTable, Domain, Listed, Switch
<1>6. ASSUME NEW n \in Names \ doubt' PROVE Served(n)' /\ AllowedRight(n)'
  <2>1. n \notin doubt /\ (n = old => domains[d].name = old)
    BY <1>1, <1>6
  <2>2. Served(n)' /\ (Enabled(n)' <=> Enabled(n))
    BY <1>1, <2>1, NothingTouched, NameStands, ChecksStand DEF RegistryInv
  <2>3. CASE n = old
    <3>1. Enabled(n) <=> domains[d].enabled
      BY <2>1, <2>3 DEF RegistryInv, UniqueNames, Enabled, Catalogued
    <3>2. allow[old] # "none"
      BY <2>1, <2>3 DEF RegistryInv, Listed
    <3>3. allow'[n] = "on" <=> Enabled(n)'
      BY <1>2, <1>3, <2>2, <2>3, <3>1, <3>2 DEF Switch
    <3>4. QED
      BY <2>2, <3>3 DEF AllowedRight, Enabled
  <2>4. CASE n # old
    <3>1. AllowedRight(n) /\ allow'[n] = allow[n] /\ (n \in torn => n \in torn')
      BY <1>1, <1>3, <2>1, <2>4 DEF RegistryInv
    <3>2. QED
      BY <1>1, <2>2, <2>4, <3>1, AllowStands DEF RegistryInv
  <2>5. QED
    BY <2>3, <2>4
<1>7. Idle \in Job /\ JobOK(a)'
  BY <1>1, IdleIsOK DEF RegistryInv, TypeOK, Job
<1>8. QED
  BY <1>1, <1>3, <1>4, <1>5, <1>6, <1>7, AfterStep

(* A domain that no route uses may be deleted.                              *)
LEMMA ApplyDeleteDomainStep ==
  ASSUME RegistryInv, NEW a \in Admins, ApplyDeleteDomain(a)
  PROVE  RegistryInv'
<1>1. PICK d \in Ids, old \in Names :
        /\ d = job[a].id /\ old = job[a].old /\ job[a].op = "deleteDomain" /\ Concerns(a) = {old}
        /\ domains' = Without(domains, d)
        /\ routes' = [r \in DOMAIN routes |->
                        IF ExitId(routes[r]) = d THEN [routes[r] EXCEPT !.target[2] = NoId]
                        ELSE routes[r]]
        /\ allow' = [allow EXCEPT ![old] = IF @ = "none" THEN @ ELSE "off"]
        /\ torn' = torn \ {old}
        /\ job' = [job EXCEPT ![a] = Idle]
        /\ Overtake(a) /\ doubt' = doubt \cup Doubted(a)
  <2>1. job[a].op = "deleteDomain"
    BY DEF ApplyDeleteDomain
  <2>2. job[a].old \in Names /\ job[a].id \in Ids /\ Concerns(a) = {job[a].old}
    BY <2>1, JobNames DEF RegistryInv, Concerns
  <2>3. QED
    BY <2>1, <2>2 DEF ApplyDeleteDomain
<1>2. /\ DOMAIN domains' = DOMAIN domains \ {d}
      /\ \A e \in DOMAIN domains' : domains'[e] = domains[e]
  BY <1>1 DEF Without, Restrict
<1>3. /\ allow'[old] = IF allow[old] = "none" THEN "none" ELSE "off"
      /\ \A n \in Names \ {old} : allow'[n] = allow[n]
      /\ allow' \in [Names -> {"none", "on", "off"}] /\ torn' \in SUBSET Names
  BY <1>1 DEF RegistryInv, TypeOK
<1>4. ASSUME NEW r \in DOMAIN routes
      PROVE  /\ routes'[r] \in Route
             /\ ExitId(routes[r]) # d => routes'[r] = routes[r]
             /\ ExitId(routes[r]) = d => ExitId(routes'[r]) = NoId
  <2>1. CASE ExitId(routes[r]) # d
    BY <1>1, <2>1 DEF RegistryInv, TypeOK, IsTable
  <2>2. CASE ExitId(routes[r]) = d
    <3>1. PICK x : x = routes[r]
      OBVIOUS
    <3>2. x \in Route /\ x.target \in Target /\ x.target[2] = d /\ d # NoId
      BY <2>2, <3>1, RegistryAssumption DEF RegistryAssumption, RegistryInv, TypeOK, IsTable, Route, ExitId
    <3>3. PICK ex \in Names : x.target = <<ex, d>>
      BY <3>2 DEF Target
    <3>4. [x.target EXCEPT ![2] = NoId] = <<ex, NoId>> /\ <<ex, NoId>> \in Target
      BY <3>3 DEF Target
    <3>5. routes'[r] = [x EXCEPT !.target = <<ex, NoId>>]
      BY <1>1, <2>2, <3>1, <3>4
    <3>6. QED
      BY <2>2, <3>2, <3>4, <3>5 DEF Route, ExitId
  <2>3. QED
    BY <2>1, <2>2
<1>5. DOMAIN routes' = DOMAIN routes
  BY <1>1
<1>6. IsTable(domains, Ids, Domain)' /\ IsTable(routes, RouteIds, Route)' /\ UniqueNames'
  BY <1>2, <1>4, <1>5 DEF RegistryInv, TypeOK, IsTable, UniqueNames
<1>7. Links'
  BY <1>2, <1>4, <1>5 DEF RegistryInv, Links, ExitId
<1>8. Listed'
  BY <1>2, <1>3 DEF RegistryInv, TypeOK, IsTable, Domain, Listed
<1>9. doubt \cup Doubted(a) \subseteq doubt' /\ doubt' \in SUBSET Names
  BY <1>1 DEF Doubted, Touched, RegistryInv, TypeOK
<1>10. ASSUME a \notin overtaken, NEW n \in Names \ doubt'
       PROVE  /\ Served(n)'
              /\ n \in Concerns(a) => AllowedRight(n)'
              /\ n \notin Concerns(a) => (Enabled(n)' <=> Enabled(n))
  <2>1. d \in Catalogued(old) /\ d \in DOMAIN domains /\ domains[d].name = old /\ ~Used(d) /\ Served(n)
    BY <1>1, <1>10 DEF RegistryInv, JobOK, Catalogued
  <2>2. \A r \in DOMAIN routes :
          routes[r].entry # old /\ Exit(routes[r]) # old /\ ExitId(routes[r]) # d /\ routes'[r] = routes[r]
    BY <1>4, <2>1 DEF Used, UsedAsEntry, UsedAsExit
  <2>3. CASE n = old
    <3>1. Catalogued(n)' = {}
      BY <1>2, <2>1, <2>3 DEF RegistryInv, UniqueNames, Catalogued
    <3>2. Users(n)' = {}
      BY <1>1, <1>5, <2>2, <2>3, <3>1 DEF Users, NamesOf, Exit, ExitId
    <3>3. Ready(n)' /\ UsedOnce(n)' /\ RoleKept(n)'
      BY <1>5, <2>2, <2>3, <3>1, <3>2 DEF Ready, UsedOnce, RoleKept, Exit, ExitId
    <3>4. AllowedRight(n)'
      BY <1>3, <2>3, <3>1 DEF AllowedRight
    <3>5. QED
      BY <1>1, <2>3, <3>3, <3>4 DEF Served
  <2>4. CASE n # old
    <3>1. Catalogued(n)' = Catalogued(n) /\ \A e \in Catalogued(n) : domains'[e] = domains[e]
      BY <1>2, <2>1, <2>4 DEF Catalogued
    <3>2. Users(n)' = Users(n)
      BY <1>5, <2>2, <3>1 DEF Users, NamesOf, Exit, ExitId
    <3>3. Untouched(n)
      BY <2>2, <3>1, <3>2 DEF Untouched, Users
    <3>4. QED
      BY <1>1, <2>1, <2>4, <3>3, NameStands, ChecksStand
  <2>5. QED
    BY <2>3, <2>4
<1>11. Idle \in Job /\ JobOK(a)'
  BY <1>1, IdleIsOK DEF RegistryInv, TypeOK, Job
<1>12. job[a].op # "syncAllow"
       /\ \A n \in Names \ Concerns(a) : allow'[n] = allow[n] /\ (n \in torn => n \in torn')
  BY <1>1, <1>3
<1>13. QED
  <2>1. job' = [job EXCEPT ![a] = Idle] /\ Overtake(a)
    BY <1>1
  <2> HIDE <1>1
  <2>2. QED
    BY <2>1, <1>3, <1>6, <1>7, <1>8, <1>9, <1>10, <1>11, <1>12, CatalogStep

(* A toggle of a domain that stops half-way is remembered in torn.          *)
LEMMA AbandonStep ==
  ASSUME RegistryInv, NEW a \in Admins, Abandon(a)
  PROVE  RegistryInv'
<1>1. /\ job' = [job EXCEPT ![a] = Idle] /\ UNCHANGED <<domains, routes, allow, doubt>>
      /\ torn' = IF job[a].op = "syncAllow" THEN torn \cup {job[a].old} ELSE torn
      /\ overtaken' = overtaken \ {a}
      /\ job[a].op = "syncAllow" => job[a].old \in Names
  BY JobNames DEF Abandon, RegistryInv
<1>2. /\ IsTable(domains, Ids, Domain)' /\ IsTable(routes, RouteIds, Route)'
      /\ UniqueNames' /\ Listed' /\ Links'
      /\ allow' \in [Names -> {"none", "on", "off"}] /\ torn' \in SUBSET Names
      /\ doubt' \in SUBSET Names
  BY <1>1 DEF RegistryInv, TypeOK, IsTable, UniqueNames, Listed, Links, ExitId
<1>3. ASSUME NEW n \in Names \ doubt' PROVE Served(n)' /\ AllowedRight(n)'
  <2>1. Served(n) /\ AllowedRight(n) /\ Untouched(n)
    BY <1>1, NothingTouched DEF RegistryInv
  <2>2. Served(n)' /\ (Enabled(n)' <=> Enabled(n))
    BY <2>1, NameStands, ChecksStand
  <2>3. QED
    BY <1>1, <2>1, <2>2, AllowStands DEF RegistryInv
<1>4. Idle \in Job /\ JobOK(a)'
  BY <1>1, IdleIsOK DEF RegistryInv, TypeOK, Job
<1>5. QED
  BY <1>1, <1>2, <1>3, <1>4, AfterStep

-----------------------------------------------------------------------------
(* The invariant.                                                           *)

(* An empty catalog and no routes.                                          *)
LEMMA InitInv == Init => RegistryInv
<1> SUFFICES ASSUME Init PROVE RegistryInv
  OBVIOUS
<1>1. DOMAIN domains = {} /\ DOMAIN routes = {}
  BY DEF Init
<1>2. TypeOK
  BY <1>1 DEF Init, TypeOK, IsTable, Job
<1>3. \A a \in Admins : JobOK(a)
  BY DEF Init, JobOK, Idle
<1>4. \A n : Served(n) /\ (n \in Names => AllowedRight(n))
  BY <1>1 DEF Init, Served, Ready, UsedOnce, RoleKept, Users, AllowedRight, Catalogued
<1>5. QED
  BY <1>1, <1>2, <1>3, <1>4 DEF RegistryInv, UniqueNames, Listed, Links

(* The invariant is inductive, however requests interleave.                 *)
LEMMA NextInv == RegistryInv /\ [Next]_vars => RegistryInv'
<1> SUFFICES ASSUME RegistryInv, [Next]_vars PROVE RegistryInv'
  OBVIOUS
<1>1. ASSUME NEW a \in Admins, RouteStep(a) PROVE RegistryInv'
  BY <1>1, StartCreateRouteStep, ApplyCreateRouteStep, StartUpdateRouteStep, ApplyUpdateRouteStep,
     StartToggleRouteStep, ApplyToggleRouteStep, DeleteRouteStep DEF RouteStep
<1>2. ASSUME NEW a \in Admins, DomainStep(a) PROVE RegistryInv'
  BY <1>2, StartInsertDomainStep, ApplyInsertDomainStep, StartUpdateDomainStep,
     ApplyUpdateDomainStep, StartToggleDomainStep, ApplyToggleDomainStep, SyncAllowStep,
     StartDeleteDomainStep, ApplyDeleteDomainStep DEF DomainStep
<1>3. CASE UNCHANGED vars
  <2>1. UNCHANGED <<domains, routes, allow, job, torn, overtaken, doubt>>
    BY <1>3 DEF vars
  <2>2. TypeOK' /\ UniqueNames' /\ Listed' /\ Links'
    BY <2>1 DEF RegistryInv, TypeOK, IsTable, UniqueNames, Listed, Links, ExitId
  <2>3. ASSUME NEW n \in Names \ doubt' PROVE Served(n)' /\ AllowedRight(n)'
    <3>1. Untouched(n) /\ Served(n) /\ AllowedRight(n)
      BY <2>1, NothingTouched DEF RegistryInv
    <3>2. Served(n)' /\ (Enabled(n)' <=> Enabled(n))
      BY <3>1, NameStands, ChecksStand
    <3>3. QED
      BY <2>1, <3>1, <3>2 DEF AllowedRight, Syncing, Enabled
  <2>4. ASSUME NEW a \in Admins \ overtaken' PROVE JobOK(a)'
    BY <2>1, <2>2, NothingTouched, JobStands DEF RegistryInv, TypeOK
  <2>5. QED
    BY <2>2, <2>3, <2>4 DEF RegistryInv
<1>4. QED
  BY <1>1, <1>2, <1>3, AbandonStep DEF Next

(* In every behaviour, however many administrators are at work: a request   *)
(* that is not overtaken writes on checks that still hold, and for every    *)
(* name that no overtaken request wrote about, the tables agree.            *)
THEOREM RegistryInvariant == Spec => []RegistryInv
BY InitInv, NextInv, PTL DEF Spec

(* The tables keep their shape, and a request the rows it is about, also    *)
(* when requests overtake each other.                                       *)
THEOREM RegistryTypeCorrect == Spec => []TypeOK
<1>1. RegistryInv => TypeOK
  BY DEF RegistryInv
<1>2. QED
  BY <1>1, RegistryInvariant, PTL

(* validate_route_domain_catalog, domain_is_used and the checks of the      *)
(* catalog's forms keep the domains of every enabled route in the catalog,  *)
(* enabled and in their role, but for names that a request wrote about after*)
(* another had overtaken its checks.                                        *)
THEOREM EnabledRoutesAreReady == Spec => []ReadyUnlessOvertaken
<1>1. RegistryInv => ReadyUnlessOvertaken
  BY DEF RegistryInv, Served, ReadyUnlessOvertaken
<1>2. QED
  BY <1>1, RegistryInvariant, PTL

(* validate_route_domain_conflicts and validate_domain_rename_target keep a *)
(* name to one use, renamings that cascade to the routes included; requests *)
(* that overtake each other spoil no name but those they are about.         *)
THEOREM NamesHaveOneUse == Spec => []SingleUse
<1>1. RegistryInv => SingleUse
  BY DEF RegistryInv, Served, SingleUse
<1>2. QED
  BY <1>1, RegistryInvariant, PTL

(* Roles and chosen exits agree between routes and catalog, also for routes *)
(* that are disabled and while several administrators are at work.          *)
THEOREM RolesStayTrue == Spec => []RolesAgree
<1>1. RegistryInv => RolesAgree
  BY DEF RegistryInv, Served, RolesAgree
<1>2. QED
  BY <1>1, RegistryInvariant, PTL

(* enable_allowlist_domains, disable_unused_allowlist_domains and the       *)
(* catalog's own writes keep the allowlist equal to the enabled names, but  *)
(* for a toggle that died between its statements or whose domain was renamed*)
(* between them, and for names written about by an overtaken request.       *)
THEOREM AllowlistFollows == Spec => []AllowlistExact
<1>1. RegistryInv => AllowlistExact
  BY DEF RegistryInv, AllowlistExact
<1>2. QED
  BY <1>1, RegistryInvariant, PTL

=============================================================================
