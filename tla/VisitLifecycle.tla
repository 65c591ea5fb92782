--------------------------- MODULE VisitLifecycle ---------------------------
(***************************************************************************)
(* The life of a visit (crates/app/src/web.rs: public_entry, cloak_verify, *)
(* resolve_exit_visit; crates/services/src/visits.rs): a client is shown   *)
(* the probe page, a decoy, or is sent on to the landing page; the row of  *)
(* visits that counts it is a "probe" until the client is judged, and then *)
(* "real" or "fake".  Which row is a client's is remembered in a map in    *)
(* memory, under the route and a hash of the client's network, browser and *)
(* language: several browsers, and several tabs, may share an entry.       *)
(*                                                                         *)
(* A request is cut where the code waits for a statement: what happens     *)
(* between two statements is one step.  What the screening answers is not  *)
(* determined here: it depends on headers, lists and look-ups (Screening), *)
(* on a configuration an administrator may change at any time, and on      *)
(* whether it can be read: a read that fails counts as screening off.      *)
(***************************************************************************)
EXTENDS Naturals, FiniteSets

CONSTANTS
  Procs,     (* the processes, each with its map of remembered visits       *)
  Routes,
  Clients,   (* values of client_token_key                                  *)
  Requests,  (* places for requests in progress                             *)
  Visits,    (* visit ids                                                   *)
  None,      (* no visit, no route                                          *)
  MaxRequests (* bound on the requests that come in                         *)

ASSUME VisitAssumption ==
  /\ None \notin Visits \cup Routes
  /\ MaxRequests \in Nat

VARIABLES
  live,      (* routes not deleted                                          *)
  variant,   (* page_variant of each visit, "absent" before the INSERT      *)
  route,     (* route_id of each visit                                      *)
  known,     (* public_visits of each process: client and route to visit    *)
  probed,    (* clients that hold the cookie of a failed probe, per route   *)
  req,       (* what each request is doing                                  *)
  announced, (* visits whose page events were given to the Meta queue       *)
  handed,    (* visits named in a link to a landing page                    *)
  pages,     (* <<route, visit>> for which a page with an event token was   *)
             (* rendered                                                    *)
  cut,       (* history: visits whose request to make them real was lost    *)
             (* after its UPDATE                                            *)
  served     (* requests so far                                             *)

outside == <<announced, handed, pages>>
vars == <<live, variant, route, known, probed, req, outside, cut, served>>

(* The branches of the handlers, among which classify_server and the probe  *)
(* choose, and what they count a client as.                                 *)
RealPlans == {"open", "trusted", "human", "landing"}
FakePlans == {"decoy", "robot"}
Plans == RealPlans \cup FakePlans \cup {"probe"}
Verdict(plan) ==
  IF plan \in RealPlans THEN "real" ELSE IF plan \in FakePlans THEN "fake" ELSE "probe"

Slots == Clients \X Routes
Idle == [stage |-> "idle"]
Busy(q) == req[q] # Idle
Stages == {"insert", "update", "given", "cached", "finish", "render"}
Jobs == [stage : Stages, plan : Plans, proc : Procs, slot : Slots, id : Visits \cup {None}]

TypeOK ==
  /\ live \in SUBSET Routes
  /\ variant \in [Visits -> {"absent", "probe", "real", "fake"}]
  /\ route \in [Visits -> Routes \cup {None}]
  /\ known \in [Procs -> [Slots -> Visits \cup {None}]]
  /\ probed \in SUBSET Slots
  /\ req \in [Requests -> {Idle} \cup Jobs]
  /\ \A q \in Requests :
        req[q].stage \in {"update", "given", "cached"} =>
          req[q].id \in {v \in Visits : variant[v] # "absent"}
  /\ announced \in SUBSET Visits /\ handed \in SUBSET Visits
  /\ pages \in SUBSET (Routes \X Visits) /\ cut \in SUBSET Visits
  /\ served \in 0..MaxRequests

Init ==
  /\ live = Routes
  /\ variant = [v \in Visits |-> "absent"]
  /\ route = [v \in Visits |-> None]
  /\ known = [p \in Procs |-> [s \in Slots |-> None]]
  /\ probed = {}
  /\ req = [q \in Requests |-> Idle]
  /\ announced = {} /\ handed = {} /\ pages = {}
  /\ cut = {}
  /\ served = 0

-----------------------------------------------------------------------------
(* Requests arrive.  A client presents a cookie or a token or leaves it out *)
(* (another tab, another browser, expired), so holding one is a possibility *)
(* and no more.                                                             *)

Begin(q, stage, plan, p, s, id) ==
  /\ req[q] = Idle
  /\ served < MaxRequests /\ served' = served + 1
  /\ req' = [req EXCEPT ![q] =
               [stage |-> stage, plan |-> plan, proc |-> p, slot |-> s, id |-> id]]
  /\ UNCHANGED <<live, variant, route, known, probed, outside, cut>>

(* public_entry, screening off or its configuration not read: sent on.      *)
EnterOpen(q, p, s) == Begin(q, "insert", "open", p, s, None)

(* public_entry, sent on by the server rules, where the route asks for no   *)
(* probe, or by the cookie of a passed one.  Which of them a route asks for *)
(* may change, so the cookie is not kept.                                   *)
EnterTrusted(q, p, s) == Begin(q, "insert", "trusted", p, s, None)

(* public_entry, judged a bot by the server rules; also the exit domain     *)
(* without a valid exit token while screening is on.                        *)
Refuse(q, p, s) == Begin(q, "insert", "decoy", p, s, None)

(* public_entry with the cookie of a failed probe.                          *)
EnterFailed(q, p, s) ==
  /\ s \in probed
  /\ IF known[p][s] # None
       THEN Begin(q, "update", "decoy", p, s, known[p][s])
       ELSE Begin(q, "insert", "decoy", p, s, None)

(* public_entry, the probe page: counted unless a visit is remembered.      *)
EnterProbe(q, p, s) ==
  /\ known[p][s] = None
  /\ Begin(q, "insert", "probe", p, s, None)

(* Variant: the UPDATE also when nothing is remembered.                     *)
VerifyHumanUnchecked(q, p, s) == Begin(q, "update", "human", p, s, known[p][s])

(* cloak_verify, passed.                                                    *)
VerifyHuman(q, p, s) ==
  IF known[p][s] # None
    THEN Begin(q, "update", "human", p, s, known[p][s])
    ELSE Begin(q, "insert", "human", p, s, None)

(* cloak_verify, not passed.                                                *)
VerifyRobot(q, p, s) ==
  IF known[p][s] # None
    THEN Begin(q, "update", "robot", p, s, known[p][s])
    ELSE Begin(q, "finish", "robot", p, s, None)

(* resolve_exit_visit without, or after refusing, a visit in the link.      *)
CacheStage(p, s) == IF known[p][s] # None THEN "cached" ELSE "insert"

(* public_entry on the exit domain, admitted by an exit token or with the   *)
(* screening off or unread, and resolve_exit_visit up to its first          *)
(* statement.  The link may name any visit a link ever named.               *)
ExitAdmitted(q, p, s) ==
  \/ \E v \in handed : Begin(q, "given", "landing", p, s, v)
  \/ Begin(q, CacheStage(p, s), "landing", p, s, known[p][s])

-----------------------------------------------------------------------------
(* Statements.                                                              *)

To(q, stage, id) == req' = [req EXCEPT ![q].stage = stage, ![q].id = id]

(* Variant: the id alone selects the row.                                   *)
UpdatableById(v, new) == variant[v] # "absent"

(* complete_probe_visit: only a probe is judged, or judged again the same.  *)
Updatable(v, new) == variant[v] \in {"probe", new}

(* Variant: the handler keeps the remembered visit whatever the UPDATE says.*)
AfterUpdateKept(plan, hit) == "finish"

(* What follows the UPDATE: a failed probe ignores the result, the others   *)
(* count the client anew unless a row was updated.                          *)
AfterUpdate(plan, hit) == IF hit \/ plan = "robot" THEN "finish" ELSE "insert"

Update(q) ==
  LET v == req[q].id  new == Verdict(req[q].plan) IN
  /\ req[q].stage = "update"
  /\ IF Updatable(v, new)
       THEN variant' = [variant EXCEPT ![v] = new]
       ELSE UNCHANGED variant
  /\ To(q, AfterUpdate(req[q].plan, Updatable(v, new)), v)
  /\ UNCHANGED <<live, route, known, probed, outside, cut>>

(* The UPDATE ends with an error, carried out or not.                       *)
UpdateFails(q) ==
  LET v == req[q].id  new == Verdict(req[q].plan) IN
  /\ req[q].stage = "update"
  /\ \/ UNCHANGED <<variant, cut>>
     \/ /\ Updatable(v, new)
        /\ variant' = [variant EXCEPT ![v] = new]
        /\ cut' = IF new = "real" THEN cut \cup {v} ELSE cut
  /\ To(q, AfterUpdate(req[q].plan, FALSE), v)
  /\ UNCHANGED <<live, route, known, probed, outside>>

(* record: the INSERT; its foreign key needs the route.                     *)
Recorded(q, v) ==
  /\ req[q].stage = "insert"
  /\ req[q].slot[2] \in live
  /\ variant[v] = "absent"
  /\ variant' = [variant EXCEPT ![v] = Verdict(req[q].plan)]
  /\ route' = [route EXCEPT ![v] = req[q].slot[2]]
  /\ UNCHANGED <<live, known, probed, outside, cut>>

Insert(q) == \E v \in Visits : Recorded(q, v) /\ To(q, "finish", v)

(* It ends with an error: the handler goes on without a visit.              *)
InsertFails(q) ==
  /\ req[q].stage = "insert"
  /\ To(q, "finish", None)
  /\ \/ \E v \in Visits : Recorded(q, v)
     \/ UNCHANGED <<live, variant, route, known, probed, outside, cut>>

(* Variant: any visit there is will do.                                     *)
BelongsIfPresent(v, r) == variant[v] # "absent"

(* belongs_to_route.                                                        *)
Belongs(v, r) == route[v] = r

Show(q, v) == pages' = pages \cup {<<req[q].slot[2], v>>}

(* resolve_exit_visit: the visit of the link, else the remembered one, is   *)
(* used if it is of this route; an error counts as a no.                    *)
Accept(q) ==
  /\ req[q].stage \in {"given", "cached"}
  /\ Belongs(req[q].id, req[q].slot[2])
  /\ Show(q, req[q].id)
  /\ req' = [req EXCEPT ![q] = Idle]
  /\ UNCHANGED <<live, variant, route, known, probed, announced, handed, cut>>

RejectGiven(q) ==
  LET p == req[q].proc  s == req[q].slot IN
  /\ req[q].stage = "given"
  /\ To(q, CacheStage(p, s), known[p][s])
  /\ UNCHANGED <<live, variant, route, known, probed, outside, cut>>

RejectCached(q) ==
  /\ req[q].stage = "cached"
  /\ To(q, "insert", None)
  /\ UNCHANGED <<live, variant, route, known, probed, outside, cut>>

-----------------------------------------------------------------------------
(* The rest of a handler, after its last statement, and the reply.          *)

(* remember_public_visit; no branch remembers that it has no visit.         *)
Remember(q) ==
  IF req[q].id = None THEN UNCHANGED known
  ELSE known' = [known EXCEPT ![req[q].proc][req[q].slot] = req[q].id]

(* Variant: page events where the visitor enters, none where a visit is     *)
(* first counted on the exit domain.                                        *)
AnnouncingAtEntry == RealPlans \ {"landing"}

(* The branches that call send_meta_page_events.                            *)
Announcing == RealPlans

Announce(q) ==
  announced' = IF req[q].plan \in Announcing THEN announced \cup ({req[q].id} \ {None})
               ELSE announced

(* The reply, a decoy page's excepted.  That it may not reach the client    *)
(* needs no case of its own: nobody has to use what it brings.              *)
Reply(q) ==
  LET s == req[q].slot  plan == req[q].plan  id == {req[q].id} \ {None} IN
  /\ probed' = IF plan = "robot" THEN probed \cup {s} ELSE probed
  /\ handed' = IF plan \in RealPlans \ {"landing"} THEN handed \cup id ELSE handed
  /\ pages' = IF plan = "landing" THEN pages \cup ({s[2]} \X id) ELSE pages

Finish(q) ==
  /\ req[q].stage = "finish"
  /\ Remember(q) /\ Announce(q) /\ Reply(q)
  /\ IF req[q].plan = "decoy" THEN To(q, "render", None) ELSE req' = [req EXCEPT ![q] = Idle]
  /\ UNCHANGED <<live, variant, route, cut>>

(* render_decoy_landing: it waits for the decoy's picture and names, and    *)
(* only then looks up whose page this is.  That need not be the visit the   *)
(* request has counted: another request may have remembered one since, real *)
(* or not, and there is one even if this request could count none.          *)
RenderDecoy(q) ==
  /\ req[q].stage = "render"
  /\ LET s == req[q].slot IN
       pages' = pages \cup ({s[2]} \X ({known[req[q].proc][s]} \ {None}))
  /\ req' = [req EXCEPT ![q] = Idle]
  /\ UNCHANGED <<live, variant, route, known, probed, announced, handed, cut>>

-----------------------------------------------------------------------------
(* What may happen at any time.                                             *)

(* Visits made real by an UPDATE whose handler does not go on.              *)
Losing(Q) ==
  {req[q].id : q \in {x \in Q : req[x].stage = "finish" /\ req[x].plan = "human"}} \ {None}

(* The client goes away and the server drops its handler.                   *)
Abandon(q) ==
  /\ Busy(q)
  /\ req' = [req EXCEPT ![q] = Idle]
  /\ cut' = cut \cup Losing({q})
  /\ UNCHANGED <<live, variant, route, known, probed, outside>>

Crash(p) ==
  LET Q == {q \in Requests : Busy(q) /\ req[q].proc = p} IN
  /\ known' = [known EXCEPT ![p] = [s \in Slots |-> None]]
  /\ req' = [q \in Requests |-> IF q \in Q THEN Idle ELSE req[q]]
  /\ cut' = cut \cup Losing(Q)
  /\ UNCHANGED <<live, variant, route, probed, outside>>

(* public_visit: an entry lives for six hours.                              *)
Expire(p, s) ==
  /\ known' = [known EXCEPT ![p][s] = None]
  /\ UNCHANGED <<live, variant, route, probed, req, outside, cut>>

(* ON DELETE SET NULL; the public pages may go on using the cached route.   *)
DeleteRoute(r) ==
  /\ r \in live
  /\ live' = live \ {r}
  /\ route' = [v \in Visits |-> IF route[v] = r THEN None ELSE route[v]]
  /\ UNCHANGED <<variant, known, probed, req, outside, cut>>

Arrive(q) ==
  \E p \in Procs, s \in Slots :
    \/ EnterOpen(q, p, s) \/ EnterTrusted(q, p, s) \/ Refuse(q, p, s)
    \/ EnterFailed(q, p, s) \/ EnterProbe(q, p, s)
    \/ VerifyHuman(q, p, s) \/ VerifyRobot(q, p, s) \/ ExitAdmitted(q, p, s)

(* A request goes on, or ends.                                              *)
Continue(q) ==
  \/ Update(q) \/ UpdateFails(q) \/ Insert(q) \/ InsertFails(q)
  \/ Accept(q) \/ RejectGiven(q) \/ RejectCached(q)
  \/ Finish(q) \/ RenderDecoy(q) \/ Abandon(q)

(* What happens around the requests.                                        *)
Disturb ==
  \/ \E p \in Procs : Crash(p)
  \/ \E p \in Procs, s \in Slots : Expire(p, s)
  \/ \E r \in Routes : DeleteRoute(r)

Next ==
  \/ \E q \in Requests : Arrive(q)
  \/ UNCHANGED served /\ ((\E q \in Requests : Continue(q)) \/ Disturb)

Spec == Init /\ [][Next]_vars

-----------------------------------------------------------------------------
(* A visit that was judged is never judged differently: not by a second     *)
(* tab that shares it, not by a late answer, not after a repeated probe.    *)
VerdictIsFinal ==
  [][\A v \in Visits : variant[v] \in {"real", "fake"} => variant'[v] = variant[v]]_vars

(* A visit that Meta hears of, or that a link to a landing page names, is   *)
(* counted as real, and Meta hears of every visit a link names.             *)
HandedOutIsReal ==
  /\ handed \subseteq announced
  /\ \A v \in announced : variant[v] = "real"

(* A landing page or a decoy, and the downloads it reports, belong to a     *)
(* visit Meta heard of if the visit is real at all, except while the request*)
(* that made it real is at work, or if it was lost between its UPDATE and   *)
(* its page events.                                                         *)
PagesAreAnnounced ==
  \A x \in pages :
    variant[x[2]] = "real" =>
      \/ x[2] \in announced \cup cut
      \/ \E q \in Requests : req[q].stage = "finish" /\ req[q].plan = "human" /\ req[q].id = x[2]

(* The event token of a page, landing page or decoy, never names a visit of *)
(* another route, although a link may, and although a decoy names whatever  *)
(* visit is remembered when it is rendered.                                 *)
TokensMatchRoute ==
  \A x \in pages : route[x[2]] \in {x[1], None}
=============================================================================
