----------------------- MODULE VisitLifecycle_proofs -----------------------
(***************************************************************************)
(* Proofs about the life of a visit, for every set of processes, routes,   *)
(* clients, concurrent requests and visits.                                *)
(***************************************************************************)
EXTENDS VisitLifecycle, TLAPS

(* Visits that have a row.                                                  *)
Rows == {v \in Visits : variant[v] # "absent"}

(* A visit of the slot's route, or one whose route was deleted since.       *)
Fits(v, s) == v \in Rows /\ route[v] \in {s[2], None}

(* A request that has a visit in hand has one with a row, and of its route  *)
(* unless it comes from a link or has yet to be looked at; when it is about *)
(* to finish, the row says what the request will tell Meta and the client.  *)
Judging == {"decoy", "human", "robot"}
JobOK(q) ==
  /\ req[q].stage = "update" => req[q].plan \in Judging /\ Fits(req[q].id, req[q].slot)
  /\ req[q].stage \in {"update", "given", "cached"} => req[q].id \in Rows
  /\ req[q].stage = "finish" /\ req[q].id # None =>
       /\ Fits(req[q].id, req[q].slot)
       /\ req[q].plan \in RealPlans => variant[req[q].id] = "real"

(* What is remembered has a row, of the route it is remembered under.       *)
MemoryOK ==
  \A p \in Procs, s \in Slots : known[p][s] # None => Fits(known[p][s], s)

(* So has what was given away; it is real, and of its page's route.         *)
GivenOK ==
  /\ HandedOutIsReal
  /\ \A x \in pages : x[2] \in Rows /\ route[x[2]] \in {x[1], None}

VisitInv ==
  /\ TypeOK
  /\ \A q \in Requests : JobOK(q)
  /\ MemoryOK
  /\ GivenOK

(* No row is taken away, moved to another route or judged differently.      *)
RowsKept ==
  \A v \in Rows :
    /\ v \in Rows'
    /\ route'[v] \in {route[v], None}
    /\ variant[v] \in {"real", "fake"} => variant'[v] = variant[v]

(* A request that is not idle is a job.                                     *)
LEMMA BusyIsJob ==
  ASSUME TypeOK, NEW q \in Requests, req[q].stage # "idle"
  PROVE  /\ req[q] \in Jobs
         /\ req[q].stage \in Stages /\ req[q].plan \in Plans
         /\ req[q].proc \in Procs /\ req[q].slot \in Slots
         /\ req[q].id \in Visits \cup {None}
         /\ req[q].slot[2] \in Routes
<1>1. req[q] \in Jobs
  BY DEF TypeOK, Idle
<1>2. QED
  BY <1>1 DEF Jobs, Slots

(* To moves one request on and leaves what it is about.                     *)
LEMMA ToMoves ==
  ASSUME TypeOK, NEW q \in Requests, req[q].stage # "idle",
         NEW stage \in Stages, NEW id \in Visits \cup {None}, To(q, stage, id)
  PROVE  /\ req' \in [Requests -> {Idle} \cup Jobs]
         /\ req'[q].stage = stage /\ req'[q].id = id
         /\ req'[q].plan = req[q].plan /\ req'[q].slot = req[q].slot
         /\ \A x \in Requests : x # q => req'[x] = req[x]
<1>1. req[q] \in Jobs /\ req \in [Requests -> {Idle} \cup Jobs]
  BY BusyIsJob DEF TypeOK
<1>2. req' = [req EXCEPT ![q] = [[req[q] EXCEPT !.stage = stage] EXCEPT !.id = id]]
  BY <1>1 DEF To
<1>3. [[req[q] EXCEPT !.stage = stage] EXCEPT !.id = id] \in Jobs
  BY <1>1 DEF Jobs
<1>4. /\ [[req[q] EXCEPT !.stage = stage] EXCEPT !.id = id].stage = stage
      /\ [[req[q] EXCEPT !.stage = stage] EXCEPT !.id = id].id = id
      /\ [[req[q] EXCEPT !.stage = stage] EXCEPT !.id = id].plan = req[q].plan
      /\ [[req[q] EXCEPT !.stage = stage] EXCEPT !.id = id].slot = req[q].slot
  BY <1>1 DEF Jobs
<1>5. req'[q] = [[req[q] EXCEPT !.stage = stage] EXCEPT !.id = id]
  BY <1>1, <1>2
<1>6. QED
  BY <1>1, <1>2, <1>3, <1>4, <1>5

(* So does the end of a request.                                            *)
LEMMA EndsIdle ==
  ASSUME TypeOK, NEW q \in Requests, req' = [req EXCEPT ![q] = Idle]
  PROVE  /\ req' \in [Requests -> {Idle} \cup Jobs]
         /\ req'[q].stage = "idle"
         /\ \A x \in Requests : x # q => req'[x] = req[x]
  BY DEF TypeOK, Idle

(* The parts of the invariant that a step does not touch stand as long as   *)
(* the rows they speak of are kept.                                         *)
LEMMA JobKept ==
  ASSUME VisitInv, RowsKept, NEW q \in Requests, req'[q] = req[q]
  PROVE  JobOK(q)'
<1>1. JobOK(q)
  BY DEF VisitInv
<1>2. \A v \in Visits, s \in Slots : Fits(v, s) => Fits(v, s)'
  BY DEF Fits, RowsKept
<1>3. CASE req[q].stage \in {"update", "given", "cached"}
  <2>1. req[q].id \in Rows /\ req[q].id \in Rows' /\ req[q].id \in Visits /\ req[q].slot \in Slots
    BY <1>1, <1>3, BusyIsJob DEF JobOK, RowsKept, VisitInv, Rows
  <2>2. QED
    BY <1>1, <1>2, <1>3, <2>1 DEF JobOK
<1>4. CASE req[q].stage = "finish" /\ req[q].id # None
  <2>1. req[q].id \in Rows /\ req[q].id \in Visits /\ req[q].slot \in Slots
    BY <1>1, <1>4, BusyIsJob DEF JobOK, Fits, VisitInv, Rows
  <2>2. req[q].plan \in RealPlans => variant'[req[q].id] = "real"
    BY <1>1, <1>4, <2>1 DEF JobOK, RowsKept
  <2>3. QED
    BY <1>1, <1>2, <1>4, <2>1, <2>2 DEF JobOK
<1>5. CASE ~(req[q].stage \in {"update", "given", "cached"})
           /\ ~(req[q].stage = "finish" /\ req[q].id # None)
  BY <1>5, <1>1 DEF JobOK
<1>6. QED
  BY <1>3, <1>4, <1>5

(* A step that keeps rows and the memory keeps what is remembered in the    *)
(* table.                                                                   *)
LEMMA MemoryKept ==
  ASSUME VisitInv, RowsKept, UNCHANGED known
  PROVE  MemoryOK'
  BY DEF VisitInv, MemoryOK, RowsKept, Fits

(* A step that keeps rows and what was given out keeps it real and of its   *)
(* route.                                                                   *)
LEMMA GivenKept ==
  ASSUME VisitInv, RowsKept, UNCHANGED outside
  PROVE  GivenOK'
<1>1. GivenOK /\ TypeOK
  BY DEF VisitInv
<1>2. UNCHANGED <<announced, handed, pages>>
  BY DEF outside
<1>3. HandedOutIsReal'
  <2>1. ASSUME NEW v \in announced PROVE variant'[v] = "real"
    BY <1>1, <2>1 DEF GivenOK, HandedOutIsReal, RowsKept, Rows, TypeOK
  <2>2. QED
    BY <1>1, <1>2, <2>1 DEF GivenOK, HandedOutIsReal
<1>4. ASSUME NEW x \in pages PROVE x[2] \in Rows' /\ route'[x[2]] \in {x[1], None}
  <2>1. x[2] \in Rows /\ route[x[2]] \in {x[1], None}
    BY <1>1, <1>4 DEF GivenOK
  <2>2. x[2] \in Rows' /\ route'[x[2]] \in {route[x[2]], None}
    BY <2>1 DEF RowsKept
  <2>3. QED
    BY <2>1, <2>2
<1>5. QED
  BY <1>2, <1>3, <1>4 DEF GivenOK

(* A step that touches neither variant nor route keeps the rows.            *)
LEMMA UntouchedRows ==
  ASSUME UNCHANGED <<variant, route>>
  PROVE  RowsKept
  BY DEF RowsKept, Rows

(* An UPDATE judges a probe, or judges a visit the same again.              *)
LEMMA UpdatedRows ==
  ASSUME TypeOK, UNCHANGED route, NEW v \in Rows, NEW new \in {"real", "fake"},
         Updatable(v, new), variant' = [variant EXCEPT ![v] = new]
  PROVE  RowsKept /\ variant'[v] = new
  BY DEF TypeOK, RowsKept, Rows, Updatable

(* An INSERT takes an id that has no row.                                   *)
LEMMA RecordedRows ==
  ASSUME TypeOK, NEW q \in Requests, NEW v \in Visits, Recorded(q, v)
  PROVE  /\ RowsKept
         /\ v \in Rows' /\ variant'[v] = Verdict(req[q].plan)
         /\ route'[v] = req[q].slot[2]
         /\ variant' \in [Visits -> {"absent", "probe", "real", "fake"}]
         /\ route' \in [Visits -> Routes \cup {None}]
<1>1. req[q].plan \in Plans /\ req[q].slot[2] \in Routes
  BY BusyIsJob DEF Recorded
<1>2. Verdict(req[q].plan) \in {"probe", "real", "fake"}
  BY <1>1 DEF Verdict
<1>3. QED
  BY <1>1, <1>2 DEF TypeOK, Recorded, RowsKept, Rows

(* The invariant from the requests one by one: TypeOK asks of them what     *)
(* JobOK says.                                                              *)
LEMMA Assemble ==
  ASSUME live' \in SUBSET Routes,
         variant' \in [Visits -> {"absent", "probe", "real", "fake"}],
         route' \in [Visits -> Routes \cup {None}],
         known' \in [Procs -> [Slots -> Visits \cup {None}]],
         probed' \in SUBSET Slots,
         req' \in [Requests -> {Idle} \cup Jobs],
         announced' \in SUBSET Visits, handed' \in SUBSET Visits,
         pages' \in SUBSET (Routes \X Visits), cut' \in SUBSET Visits,
         served' \in 0..MaxRequests,
         \A q \in Requests : JobOK(q)',
         MemoryOK', GivenOK'
  PROVE  VisitInv'
<1>1. \A q \in Requests :
        req'[q].stage \in {"update", "given", "cached"} =>
          req'[q].id \in {v \in Visits : variant'[v] # "absent"}
  BY DEF JobOK, Rows
<1>2. TypeOK'
  BY <1>1 DEF TypeOK
<1>3. QED
  BY <1>2 DEF VisitInv

(* A request that starts with a visit in hand took it from what has a row.  *)
LEMMA BeginStep ==
  ASSUME VisitInv, NEW q \in Requests, NEW stage \in Stages, NEW plan \in Plans,
         NEW p \in Procs, NEW s \in Slots, NEW id \in Visits \cup {None},
         Begin(q, stage, plan, p, s, id),
         stage \in {"update", "given", "cached"} => id \in Rows,
         stage = "finish" => id = None,
         stage = "update" => plan \in Judging /\ Fits(id, s)
  PROVE  VisitInv'
<1> DEFINE job == [stage |-> stage, plan |-> plan, proc |-> p, slot |-> s, id |-> id]
<1>1. TypeOK /\ UNCHANGED <<live, variant, route, known, probed, announced, handed, pages, cut>>
  BY DEF VisitInv, Begin, outside
<1>2. RowsKept
  BY <1>1, UntouchedRows
<1>3. job \in Jobs /\ req'[q] = job /\ req' \in [Requests -> {Idle} \cup Jobs]
  BY <1>1 DEF Jobs, TypeOK, Begin
<1>4. ASSUME NEW x \in Requests PROVE JobOK(x)'
  <2>1. CASE x = q
    BY <1>1, <1>3, <2>1 DEF JobOK, Rows, Fits
  <2>2. CASE x # q
    <3>1. req'[x] = req[x]
      BY <1>1, <2>2 DEF TypeOK, Begin
    <3>2. QED
      BY <3>1, <1>2, JobKept
  <2>3. QED
    BY <2>1, <2>2
<1>5. MemoryOK' /\ GivenOK'
  BY <1>1, <1>2, MemoryKept, GivenKept DEF outside
<1>6. served' \in 0..MaxRequests
  BY <1>1, VisitAssumption DEF VisitAssumption, TypeOK, Begin
<1>7. QED
  BY <1>1, <1>3, <1>4, <1>5, <1>6, Assemble DEF TypeOK

(* Every handler starts so.                                                 *)
LEMMA ArriveStep ==
  ASSUME VisitInv, NEW q \in Requests, Arrive(q)
  PROVE  VisitInv'
<1>1. PICK p \in Procs, s \in Slots :
        \/ EnterOpen(q, p, s) \/ EnterTrusted(q, p, s) \/ Refuse(q, p, s)
        \/ EnterFailed(q, p, s) \/ EnterProbe(q, p, s)
        \/ VerifyHuman(q, p, s) \/ VerifyRobot(q, p, s) \/ ExitAdmitted(q, p, s)
  BY DEF Arrive
<1>2. /\ known[p][s] \in Visits \cup {None}
      /\ known[p][s] # None => Fits(known[p][s], s) /\ known[p][s] \in Rows
  BY DEF VisitInv, TypeOK, MemoryOK, Fits
<1>3. \A v \in handed : v \in Rows
  BY DEF VisitInv, TypeOK, GivenOK, HandedOutIsReal, Rows
<1>4. None \in Visits \cup {None} /\ handed \subseteq Visits
  BY DEF VisitInv, TypeOK
<1> USE DEF Stages, Plans, RealPlans, FakePlans, Judging
<1>5. CASE EnterOpen(q, p, s) \/ EnterTrusted(q, p, s) \/ Refuse(q, p, s) \/ EnterProbe(q, p, s)
  BY <1>4, <1>5, BeginStep DEF EnterOpen, EnterTrusted, Refuse, EnterProbe
<1>6. CASE EnterFailed(q, p, s) \/ VerifyHuman(q, p, s) \/ VerifyRobot(q, p, s)
  BY <1>2, <1>4, <1>6, BeginStep DEF EnterFailed, VerifyHuman, VerifyRobot
<1>7. CASE ExitAdmitted(q, p, s)
  <2>1. CASE \E v \in handed : Begin(q, "given", "landing", p, s, v)
    BY <1>3, <1>4, <2>1, BeginStep
  <2>2. CASE Begin(q, CacheStage(p, s), "landing", p, s, known[p][s])
    BY <1>2, <2>2, BeginStep DEF CacheStage
  <2>3. QED
    BY <1>7, <2>1, <2>2 DEF ExitAdmitted
<1>8. QED
  BY <1>1, <1>5, <1>6, <1>7

(* A statement that leaves memory and what was given away alone moves its   *)
(* request on; the step is right if the request is.                         *)
LEMMA StatementStep ==
  ASSUME VisitInv, UNCHANGED served, RowsKept, NEW q \in Requests, req[q].stage # "idle",
         NEW stage \in Stages, NEW id \in Visits \cup {None}, To(q, stage, id),
         variant' \in [Visits -> {"absent", "probe", "real", "fake"}],
         route' \in [Visits -> Routes \cup {None}], cut' \in SUBSET Visits,
         UNCHANGED <<live, known, probed, outside>>,
         JobOK(q)'
  PROVE  VisitInv'
<1>1. TypeOK /\ UNCHANGED <<live, known, probed, announced, handed, pages>>
  BY DEF VisitInv, outside
<1>2. req' \in [Requests -> {Idle} \cup Jobs] /\ \A x \in Requests : x # q => req'[x] = req[x]
  BY <1>1, ToMoves
<1>3. \A x \in Requests : JobOK(x)'
  BY <1>2, JobKept
<1>4. MemoryOK' /\ GivenOK'
  BY <1>1, MemoryKept, GivenKept
<1>5. QED
  BY <1>1, <1>2, <1>3, <1>4, Assemble DEF TypeOK

(* complete_probe_visit, carried out or failed: what the request goes on    *)
(* with agrees with the row.                                                *)
LEMMA UpdateStep ==
  ASSUME VisitInv, NEW q \in Requests, Update(q) \/ UpdateFails(q), UNCHANGED served
  PROVE  VisitInv'
<1> DEFINE v == req[q].id  new == Verdict(req[q].plan)
<1>1. /\ TypeOK /\ req[q].stage = "update" /\ v \in Rows /\ req[q].plan \in Judging
      /\ cut \subseteq Visits /\ Fits(v, req[q].slot) /\ req[q].slot \in Slots
  BY BusyIsJob DEF VisitInv, JobOK, Update, UpdateFails, TypeOK
<1>2. /\ req[q].plan \in Plans /\ v \in Visits /\ None \notin Visits
      /\ "finish" \in Stages /\ "insert" \in Stages
  BY <1>1, BusyIsJob, VisitAssumption DEF VisitAssumption, Stages, Rows
<1>3. /\ new \in {"real", "fake"} /\ (req[q].plan \in RealPlans => new = "real")
      /\ req[q].plan # "landing"
  BY <1>1 DEF Verdict, Judging, RealPlans, FakePlans
<1>4. PICK stage \in {"finish", "insert"} :
        /\ To(q, stage, v)
        /\ UNCHANGED <<live, route, known, probed, outside>>
        /\ cut' \in SUBSET Visits
        /\ \/ UNCHANGED variant
           \/ Updatable(v, new) /\ variant' = [variant EXCEPT ![v] = new]
        /\ stage = "finish" => req[q].plan = "robot" \/ variant' = [variant EXCEPT ![v] = new]
  BY <1>1, <1>2 DEF Update, UpdateFails, AfterUpdate
<1>5. RowsKept /\ (variant' = [variant EXCEPT ![v] = new] => variant'[v] = new)
  <2>1. CASE UNCHANGED variant
    BY <1>1, <1>2, <1>4, <2>1, UntouchedRows DEF TypeOK
  <2>2. CASE Updatable(v, new) /\ variant' = [variant EXCEPT ![v] = new]
    BY <1>1, <1>3, <1>4, <2>2, UpdatedRows
  <2>3. QED
    BY <1>4, <2>1, <2>2
<1>6. variant' \in [Visits -> {"absent", "probe", "real", "fake"}]
  BY <1>1, <1>3, <1>4 DEF TypeOK
<1>7. /\ req'[q].stage = stage /\ req'[q].id = v
      /\ req'[q].plan = req[q].plan /\ req'[q].slot = req[q].slot
  BY <1>1, <1>2, <1>4, ToMoves
<1>8. JobOK(q)'
  <2>1. v \in Rows' /\ route'[v] \in {req[q].slot[2], None}
    BY <1>1, <1>5 DEF RowsKept, Fits
  <2>2. stage = "finish" /\ req[q].plan \in RealPlans => variant'[v] = "real"
    BY <1>1, <1>3, <1>4, <1>5 DEF RealPlans
  <2>3. QED
    BY <1>3, <1>4, <1>7, <2>1, <2>2 DEF JobOK, Fits
<1>9. route' \in [Visits -> Routes \cup {None}]
  BY <1>1, <1>4 DEF TypeOK
<1>10. QED
  BY <1>1, <1>2, <1>4, <1>5, <1>6, <1>8, <1>9, StatementStep

(* record, carried out: the request goes on with the row it made, or with   *)
(* none if the answer is lost.                                              *)
LEMMA InsertStep ==
  ASSUME VisitInv, NEW q \in Requests, Insert(q) \/ InsertFails(q), UNCHANGED served
  PROVE  VisitInv'
<1>1. TypeOK /\ req[q].stage = "insert"
  BY DEF VisitInv, Insert, InsertFails, Recorded
<1>2. "finish" \in Stages /\ None \notin Visits
  BY VisitAssumption DEF VisitAssumption, Stages
<1>3. ASSUME NEW v \in Visits, Recorded(q, v), NEW id \in {v, None}, To(q, "finish", id)
      PROVE  VisitInv'
  <2>1. /\ RowsKept /\ v \in Rows' /\ variant'[v] = Verdict(req[q].plan)
        /\ route'[v] = req[q].slot[2]
        /\ variant' \in [Visits -> {"absent", "probe", "real", "fake"}]
        /\ route' \in [Visits -> Routes \cup {None}]
    BY <1>1, <1>3, RecordedRows
  <2>2. /\ req'[q].stage = "finish" /\ req'[q].id = id
        /\ req'[q].plan = req[q].plan /\ req'[q].slot = req[q].slot
    BY <1>1, <1>2, <1>3, ToMoves
  <2>3. JobOK(q)'
    BY <2>1, <2>2, <1>3 DEF JobOK, Verdict, Fits
  <2>4. UNCHANGED <<live, known, probed, outside>> /\ cut' \in SUBSET Visits
    BY <1>1, <1>3 DEF Recorded, TypeOK
  <2>5. QED
    BY <1>1, <1>2, <1>3, <2>1, <2>3, <2>4, StatementStep
<1>4. CASE To(q, "finish", None)
           /\ UNCHANGED <<live, variant, route, known, probed, outside, cut>>
  <2>1. RowsKept
    BY <1>4, UntouchedRows
  <2>2. req'[q].stage = "finish" /\ req'[q].id = None
    BY <1>1, <1>2, <1>4, ToMoves
  <2>3. JobOK(q)'
    BY <2>2 DEF JobOK
  <2>4. QED
    BY <1>1, <1>2, <1>4, <2>1, <2>3, StatementStep DEF TypeOK
<1>5. QED
  BY <1>3, <1>4 DEF Insert, InsertFails

(* resolve_exit_visit, a visit refused: the remembered one has a row.       *)
LEMMA RejectStep ==
  ASSUME VisitInv, NEW q \in Requests, RejectGiven(q) \/ RejectCached(q), UNCHANGED served
  PROVE  VisitInv'
<1>1. /\ TypeOK /\ req[q].stage \in {"given", "cached"}
      /\ UNCHANGED <<live, variant, route, known, probed, outside, cut>>
  BY DEF VisitInv, RejectGiven, RejectCached
<1>2. RowsKept
  BY <1>1, UntouchedRows
<1>3. PICK stage \in {"cached", "insert"}, id \in Visits \cup {None} :
        To(q, stage, id) /\ (stage = "cached" => id \in Rows)
  <2>1. CASE RejectGiven(q)
    <3>1. known[req[q].proc][req[q].slot] \in Rows \cup {None}
      BY <1>1, BusyIsJob DEF VisitInv, MemoryOK, Fits
    <3>2. QED
      BY <2>1, <3>1 DEF RejectGiven, CacheStage, Rows
  <2>2. CASE RejectCached(q)
    BY <2>2 DEF RejectCached
  <2>3. QED
    BY <2>1, <2>2
<1>4. stage \in Stages /\ req'[q].stage = stage /\ req'[q].id = id
  BY <1>1, <1>3, ToMoves DEF Stages
<1>5. JobOK(q)'
  BY <1>1, <1>3, <1>4 DEF JobOK, Rows
<1>6. QED
  BY <1>1, <1>2, <1>3, <1>4, <1>5, StatementStep DEF TypeOK

(* A request that ended, or has only a decoy to show, holds nothing.        *)
LEMMA DoneJobOK ==
  ASSUME NEW q \in Requests, req'[q].stage \in {"idle", "render"}
  PROVE  JobOK(q)'
  BY DEF JobOK

(* resolve_exit_visit, a visit accepted: it has a row, of the page's route. *)
LEMMA AcceptStep ==
  ASSUME VisitInv, NEW q \in Requests, Accept(q), UNCHANGED served
  PROVE  VisitInv'
<1>1. /\ TypeOK /\ req[q].stage \in {"given", "cached"} /\ JobOK(q)
      /\ req' = [req EXCEPT ![q] = Idle]
      /\ UNCHANGED <<live, variant, route, known, probed, announced, handed, cut>>
      /\ pages' = pages \cup {<<req[q].slot[2], req[q].id>>}
  BY DEF VisitInv, Accept, Show
<1>2. /\ RowsKept /\ None \notin Routes
      /\ req' \in [Requests -> {Idle} \cup Jobs] /\ req'[q].stage = "idle"
      /\ \A x \in Requests : x # q => req'[x] = req[x]
  BY <1>1, UntouchedRows, EndsIdle, VisitAssumption DEF VisitAssumption
<1>3. \A x \in Requests : JobOK(x)'
  BY <1>2, DoneJobOK, JobKept
<1>4. MemoryOK'
  BY <1>1, <1>2, MemoryKept
<1>5. req[q].id \in Rows /\ route[req[q].id] = req[q].slot[2] /\ req[q].slot[2] \in Routes
  BY <1>1, BusyIsJob DEF JobOK, Accept, Belongs
<1>6. GivenOK'
  <2>1. HandedOutIsReal'
    BY <1>1 DEF VisitInv, GivenOK, HandedOutIsReal
  <2>2. ASSUME NEW x \in pages' PROVE x[2] \in Rows' /\ route'[x[2]] \in {x[1], None}
    <3>1. CASE x \in pages
      BY <1>1, <3>1 DEF VisitInv, GivenOK, Rows
    <3>2. CASE x = <<req[q].slot[2], req[q].id>>
      BY <1>1, <1>5, <3>2 DEF Rows
    <3>3. QED
      BY <1>1, <2>2, <3>1, <3>2
  <2>3. QED
    BY <2>1, <2>2 DEF GivenOK
<1>7. pages' \in SUBSET (Routes \X Visits)
  BY <1>1, <1>5 DEF TypeOK, Rows
<1>8. QED
  BY <1>1, <1>2, <1>3, <1>4, <1>6, <1>7, Assemble DEF TypeOK

(* The end of a handler: what it remembers, announces and gives away is the *)
(* visit JobOK speaks of.                                                   *)
LEMMA FinishStep ==
  ASSUME VisitInv, NEW q \in Requests, Finish(q), UNCHANGED served
  PROVE  VisitInv'
<1> DEFINE v == req[q].id  s == req[q].slot  plan == req[q].plan
<1>1. /\ TypeOK /\ req[q].stage = "finish" /\ JobOK(q)
      /\ UNCHANGED <<live, variant, route, cut>>
      /\ Remember(q) /\ Announce(q) /\ Reply(q)
  BY DEF VisitInv, Finish
<1>2. /\ RowsKept
      /\ req' \in [Requests -> {Idle} \cup Jobs] /\ req'[q].stage \in {"idle", "render"}
      /\ \A x \in Requests : x # q => req'[x] = req[x]
  <2>1. CASE To(q, "render", None)
    BY <1>1, <2>1, UntouchedRows, ToMoves DEF Stages
  <2>2. CASE req' = [req EXCEPT ![q] = Idle]
    BY <1>1, <2>2, UntouchedRows, EndsIdle
  <2>3. QED
    BY <2>1, <2>2 DEF Finish
<1>3. \A x \in Requests : JobOK(x)'
  BY <1>2, DoneJobOK, JobKept
<1>4. /\ v \in Visits \cup {None} /\ s \in Slots /\ s[2] \in Routes /\ req[q].proc \in Procs
      /\ v # None => Fits(v, s)
      /\ v # None /\ plan \in RealPlans => variant[v] = "real"
  BY <1>1, BusyIsJob DEF JobOK
<1>5. Rows' = Rows /\ \A w, t : Fits(w, t)' = Fits(w, t)
  BY <1>1 DEF Rows, Fits
<1>6. known' \in [Procs -> [Slots -> Visits \cup {None}]] /\ MemoryOK'
  <2>1. CASE v = None
    BY <1>1, <1>5, <2>1 DEF Remember, VisitInv, MemoryOK, TypeOK
  <2>2. CASE v # None
    <3>1. known' = [known EXCEPT ![req[q].proc][s] = v] /\ Fits(v, s) /\ v \in Visits
      BY <1>1, <1>4, <2>2 DEF Remember
    <3>2. known' \in [Procs -> [Slots -> Visits \cup {None}]]
      BY <1>1, <1>4, <3>1 DEF TypeOK
    <3>3. ASSUME NEW p \in Procs, NEW t \in Slots, known'[p][t] # None
          PROVE Fits(known'[p][t], t)
      BY <1>1, <1>4, <3>1, <3>3 DEF TypeOK, VisitInv, MemoryOK
    <3>4. QED
      BY <1>5, <3>2, <3>3 DEF MemoryOK
  <2>3. QED
    BY <2>1, <2>2
<1>7. /\ probed' \in SUBSET Slots
      /\ announced' \in SUBSET Visits /\ handed' \in SUBSET Visits
  BY <1>1, <1>4 DEF Reply, Announce, TypeOK
<1>8. HandedOutIsReal'
  BY <1>1, <1>4 DEF Reply, Announce, Announcing, VisitInv, GivenOK, HandedOutIsReal
<1>9. ASSUME NEW x \in pages'
      PROVE  x \in Routes \X Visits /\ x[2] \in Rows' /\ route'[x[2]] \in {x[1], None}
  <2>1. CASE x \in pages
    BY <1>1, <1>5, <2>1 DEF VisitInv, GivenOK, TypeOK
  <2>2. CASE plan = "landing" /\ v # None /\ x = <<s[2], v>>
    BY <1>1, <1>4, <1>5, <2>2 DEF Fits
  <2>3. x \in pages \/ (plan = "landing" /\ v # None /\ x = <<s[2], v>>)
    BY <1>1, <1>9 DEF Reply
  <2>4. QED
    BY <2>1, <2>2, <2>3
<1>10. GivenOK' /\ pages' \in SUBSET (Routes \X Visits)
  BY <1>8, <1>9 DEF GivenOK
<1>11. QED
  BY <1>1, <1>2, <1>3, <1>6, <1>7, <1>10, Assemble DEF TypeOK

(* A decoy names what is remembered under its own route.                    *)
LEMMA RenderStep ==
  ASSUME VisitInv, NEW q \in Requests, RenderDecoy(q), UNCHANGED served
  PROVE  VisitInv'
<1> DEFINE s == req[q].slot
           v == known[req[q].proc][s]
<1>1. /\ TypeOK /\ req[q].stage = "render"
      /\ req' = [req EXCEPT ![q] = Idle]
      /\ UNCHANGED <<live, variant, route, known, probed, announced, handed, cut>>
      /\ pages' = pages \cup ({s[2]} \X ({v} \ {None}))
  BY DEF VisitInv, RenderDecoy
<1>2. /\ RowsKept
      /\ req' \in [Requests -> {Idle} \cup Jobs] /\ req'[q].stage = "idle"
      /\ \A x \in Requests : x # q => req'[x] = req[x]
  BY <1>1, UntouchedRows, EndsIdle
<1>3. \A x \in Requests : JobOK(x)'
  BY <1>2, DoneJobOK, JobKept
<1>4. s[2] \in Routes /\ (v # None => v \in Visits /\ Fits(v, s))
  BY <1>1, BusyIsJob DEF VisitInv, MemoryOK, Fits, Rows
<1>5. ASSUME NEW x \in pages'
      PROVE  x \in Routes \X Visits /\ x[2] \in Rows' /\ route'[x[2]] \in {x[1], None}
  <2>1. CASE x \in pages
    BY <1>1, <2>1 DEF VisitInv, GivenOK, TypeOK, Rows
  <2>2. CASE v # None /\ x = <<s[2], v>>
    BY <1>1, <1>4, <2>2 DEF Fits, Rows
  <2>3. QED
    BY <1>1, <1>5, <2>1, <2>2
<1>6. GivenOK' /\ pages' \in SUBSET (Routes \X Visits)
  BY <1>1, <1>5 DEF VisitInv, GivenOK, HandedOutIsReal
<1>7. MemoryOK'
  BY <1>1, <1>2, MemoryKept
<1>8. QED
  BY <1>1, <1>2, <1>3, <1>6, <1>7, Assemble DEF TypeOK

(* What a lost handler leaves behind are visits.                            *)
LEMMA LosingVisits ==
  ASSUME TypeOK, NEW Q \in SUBSET Requests
  PROVE  Losing(Q) \subseteq Visits
<1>1. ASSUME NEW q \in Q, req[q].stage = "finish" PROVE req[q].id \in Visits \cup {None}
  BY <1>1, BusyIsJob
<1>2. QED
  BY <1>1 DEF Losing

(* Requests that end without a reply, a map that is emptied, an entry that  *)
(* expires: rows and what was given away stay as they are.                  *)
LEMMA LossStep ==
  ASSUME VisitInv, UNCHANGED served,
         (\E q \in Requests : Abandon(q)) \/ (\E p \in Procs : Crash(p))
           \/ (\E p \in Procs, s \in Slots : Expire(p, s))
  PROVE  VisitInv'
<1>1. /\ TypeOK
      /\ UNCHANGED <<live, variant, route, probed, announced, handed, pages>>
      /\ UNCHANGED outside
  BY DEF VisitInv, Abandon, Crash, Expire, outside
<1>2. RowsKept
  BY <1>1, UntouchedRows
<1>3. \A x \in Requests : req'[x] = req[x] \/ req'[x].stage = "idle"
  <2>1. ASSUME NEW q \in Requests, Abandon(q), NEW x \in Requests
        PROVE req'[x] = req[x] \/ req'[x].stage = "idle"
    BY <1>1, <2>1 DEF TypeOK, Abandon, Idle
  <2>2. ASSUME NEW p \in Procs, Crash(p), NEW x \in Requests
        PROVE req'[x] = req[x] \/ req'[x].stage = "idle"
    BY <1>1, <2>2 DEF Crash, Idle
  <2>3. ASSUME NEW p \in Procs, NEW s \in Slots, Expire(p, s)
        PROVE UNCHANGED req
    BY <2>3 DEF Expire
  <2>4. QED
    BY <2>1, <2>2, <2>3
<1>4. \A x \in Requests : JobOK(x)'
  BY <1>2, <1>3, DoneJobOK, JobKept
<1>5. req' \in [Requests -> {Idle} \cup Jobs]
  BY <1>1 DEF TypeOK, Abandon, Crash, Expire
<1>6. cut' \in SUBSET Visits
  <2>1. CASE \E q \in Requests : Abandon(q)
    BY <1>1, <2>1, LosingVisits DEF TypeOK, Abandon
  <2>2. CASE \E p \in Procs : Crash(p)
    BY <1>1, <2>2, LosingVisits DEF TypeOK, Crash
  <2>3. CASE \E p \in Procs, s \in Slots : Expire(p, s)
    BY <1>1, <2>3 DEF TypeOK, Expire
  <2>4. QED
    BY <2>1, <2>2, <2>3
<1>7. known' \in [Procs -> [Slots -> Visits \cup {None}]] /\ MemoryOK'
  <2>1. ASSUME NEW p \in Procs, NEW s \in Slots
        PROVE known'[p][s] = known[p][s] \/ known'[p][s] = None
    <3>1. ASSUME NEW q \in Requests, Abandon(q) PROVE UNCHANGED known
      BY <3>1 DEF Abandon
    <3>2. ASSUME NEW a \in Procs, Crash(a)
          PROVE known'[p][s] = known[p][s] \/ known'[p][s] = None
      BY <1>1, <3>2 DEF TypeOK, Crash
    <3>3. ASSUME NEW a \in Procs, NEW t \in Slots, Expire(a, t)
          PROVE known'[p][s] = known[p][s] \/ known'[p][s] = None
      BY <1>1, <3>3 DEF TypeOK, Expire
    <3>4. QED
      BY <3>1, <3>2, <3>3
  <2>2. known' \in [Procs -> [Slots -> Visits \cup {None}]]
    <3>1. ASSUME NEW q \in Requests, Abandon(q) PROVE UNCHANGED known
      BY <3>1 DEF Abandon
    <3>2. ASSUME NEW a \in Procs, Crash(a)
          PROVE known' \in [Procs -> [Slots -> Visits \cup {None}]]
      BY <1>1, <3>2 DEF TypeOK, Crash
    <3>3. ASSUME NEW a \in Procs, NEW t \in Slots, Expire(a, t)
          PROVE known' \in [Procs -> [Slots -> Visits \cup {None}]]
      BY <1>1, <3>3 DEF TypeOK, Expire
    <3>4. QED
      BY <1>1, <3>1, <3>2, <3>3 DEF TypeOK
  <2>3. \A v, s : Fits(v, s)' = Fits(v, s)
    BY <1>1 DEF Rows, Fits
  <2>4. QED
    BY <2>1, <2>2, <2>3 DEF VisitInv, MemoryOK
<1>8. GivenOK'
  BY <1>1, <1>2, GivenKept
<1>9. QED
  BY <1>1, <1>4, <1>5, <1>6, <1>7, <1>8, Assemble DEF TypeOK

(* A route's deletion detaches its visits and changes nothing else of them. *)
LEMMA DeleteStep ==
  ASSUME VisitInv, UNCHANGED served, NEW r \in Routes, DeleteRoute(r)
  PROVE  VisitInv' /\ RowsKept
<1>1. /\ TypeOK /\ live' = live \ {r}
      /\ UNCHANGED <<variant, known, probed, req, announced, handed, pages, cut>>
      /\ UNCHANGED outside
      /\ route' \in [Visits -> Routes \cup {None}]
      /\ \A v \in Visits : route'[v] \in {route[v], None}
  BY DEF VisitInv, DeleteRoute, outside, TypeOK
<1>2. RowsKept
  BY <1>1 DEF RowsKept, Rows
<1>3. /\ \A q \in Requests : JobOK(q)'
      /\ MemoryOK' /\ GivenOK'
  BY <1>1, <1>2, JobKept, MemoryKept, GivenKept
<1>4. QED
  BY <1>1, <1>2, <1>3, Assemble DEF TypeOK

(* No step takes a row away or judges it differently.                       *)
LEMMA NextKeepsRows == VisitInv /\ [Next]_vars => RowsKept
<1> SUFFICES ASSUME VisitInv, [Next]_vars PROVE RowsKept
  OBVIOUS
<1>1. TypeOK
  BY DEF VisitInv
<1>2. ASSUME NEW q \in Requests, Update(q) \/ UpdateFails(q) PROVE RowsKept
  <2> DEFINE v == req[q].id  new == Verdict(req[q].plan)
  <2>1. req[q].stage = "update" /\ JobOK(q)
    BY <1>2 DEF VisitInv, Update, UpdateFails
  <2>2. v \in Rows /\ new \in {"real", "fake"}
    BY <2>1 DEF JobOK, Judging, Verdict, RealPlans, FakePlans
  <2>3. /\ UNCHANGED route
        /\ UNCHANGED variant \/ (Updatable(v, new) /\ variant' = [variant EXCEPT ![v] = new])
    BY <1>2 DEF Update, UpdateFails
  <2>4. QED
    BY <1>1, <2>2, <2>3, UntouchedRows, UpdatedRows
<1>3. ASSUME NEW q \in Requests, Insert(q) \/ InsertFails(q) PROVE RowsKept
  BY <1>1, <1>3, RecordedRows, UntouchedRows DEF Insert, InsertFails
<1>4. ASSUME NEW r \in Routes, DeleteRoute(r), UNCHANGED served PROVE RowsKept
  BY <1>4, DeleteStep
<1>5. ASSUME UNCHANGED <<variant, route>> PROVE RowsKept
  BY <1>5, UntouchedRows
<1>6. ASSUME NEW q \in Requests, Arrive(q) PROVE UNCHANGED <<variant, route>>
  BY <1>6 DEF Arrive, EnterOpen, EnterTrusted, Refuse, EnterFailed, EnterProbe, VerifyHuman,
              VerifyRobot, ExitAdmitted, Begin
<1>7. ASSUME NEW q \in Requests,
             \/ Accept(q) \/ RejectGiven(q) \/ RejectCached(q)
             \/ Finish(q) \/ RenderDecoy(q) \/ Abandon(q)
      PROVE UNCHANGED <<variant, route>>
  BY <1>7 DEF Accept, RejectGiven, RejectCached, Finish, RenderDecoy, Abandon
<1>8. ASSUME (\E p \in Procs : Crash(p)) \/ (\E p \in Procs, s \in Slots : Expire(p, s))
      PROVE UNCHANGED <<variant, route>>
  BY <1>8 DEF Crash, Expire
<1>9. QED
  BY <1>2, <1>3, <1>4, <1>5, <1>6, <1>7, <1>8 DEF Next, Continue, Disturb, vars

(* The invariant holds of the empty table and is kept by every step.        *)
LEMMA VisitInductive ==
  /\ Init => VisitInv
  /\ VisitInv /\ [Next]_vars => VisitInv'
<1>1. ASSUME Init PROVE VisitInv
  <2>1. /\ TypeOK
        /\ \A q \in Requests : req[q].stage = "idle"
    BY <1>1, VisitAssumption DEF VisitAssumption, Init, TypeOK, Idle
  <2>2. \A q \in Requests : JobOK(q)
    BY <2>1 DEF JobOK
  <2>3. MemoryOK /\ GivenOK
    BY <1>1 DEF Init, MemoryOK, GivenOK, HandedOutIsReal
  <2>4. QED
    BY <2>1, <2>2, <2>3 DEF VisitInv
<1>2. ASSUME VisitInv, [Next]_vars PROVE VisitInv'
  <2>1. ASSUME NEW q \in Requests, Arrive(q) \/ (Continue(q) /\ UNCHANGED served)
        PROVE VisitInv'
    BY <1>2, <2>1, ArriveStep, UpdateStep, InsertStep, AcceptStep, RejectStep, FinishStep, RenderStep,
       LossStep
    DEF Continue
  <2>2. ASSUME (\E p \in Procs : Crash(p)) \/ (\E p \in Procs, s \in Slots : Expire(p, s)),
               UNCHANGED served
        PROVE VisitInv'
    BY <1>2, <2>2, LossStep
  <2>3. ASSUME NEW r \in Routes, DeleteRoute(r), UNCHANGED served PROVE VisitInv'
    BY <1>2, <2>3, DeleteStep
  <2>4. ASSUME UNCHANGED vars PROVE VisitInv'
    BY <1>2, <2>4 DEF vars, outside, VisitInv, TypeOK, JobOK, MemoryOK, GivenOK,
                      HandedOutIsReal, Rows, Fits
  <2>5. QED
    BY <1>2, <2>1, <2>2, <2>3, <2>4 DEF Next, Disturb
<1>3. QED
  BY <1>1, <1>2

(* In every behaviour the variables have their types, and a request that    *)
(* waits for a statement about a visit has one with a row.                  *)
THEOREM VisitTypeCorrect == Spec => []TypeOK
<1>1. VisitInv => TypeOK
  BY DEF VisitInv
<1>2. QED
  BY <1>1, VisitInductive, PTL DEF Spec

(* Meta hears of real visits only, and links name only visits it heard of,  *)
(* whatever requests share a visit, in however many processes.              *)
THEOREM OnlyRealVisitsGoOut == Spec => []HandedOutIsReal
<1>1. VisitInv => HandedOutIsReal
  BY DEF VisitInv, GivenOK
<1>2. QED
  BY <1>1, VisitInductive, PTL DEF Spec

(* No link, whatever visit it names, makes a page of one route speak for a  *)
(* visit of another, and no decoy does, whatever visit is remembered when it*)
(* is rendered.                                                             *)
THEOREM PagesSpeakForTheirRoute == Spec => []TokensMatchRoute
<1>1. VisitInv => TokensMatchRoute
  BY DEF VisitInv, GivenOK, TokensMatchRoute
<1>2. QED
  BY <1>1, VisitInductive, PTL DEF Spec

(* A judged visit is never judged differently.                              *)
THEOREM VerdictsStand == Spec => VerdictIsFinal
<1>1. VisitInv /\ [Next]_vars =>
        [\A v \in Visits : variant[v] \in {"real", "fake"} => variant'[v] = variant[v]]_vars
  BY NextKeepsRows DEF RowsKept, Rows
<1>2. QED
  BY <1>1, VisitInductive, PTL DEF Spec, VerdictIsFinal
-----------------------------------------------------------------------------
(* Where a visit may come from.                                             *)

(* A visit is in use when it is remembered, when a page speaks for it, or   *)
(* when a request has it in hand and will not itself tell Meta of it.       *)
Holds(x, v) ==
  /\ x.stage \in {"update", "given", "cached"} \/ (x.stage = "finish" /\ x.plan \notin RealPlans)
  /\ x.id = v
Held(v) ==
  \/ \E p \in Procs, s \in Slots : known[p][s] = v
  \/ \E q \in Requests : Holds(req[q], v)
  \/ \E x \in pages : x[2] = v

(* Meta heard of it, will hear of it from the request that made it real, or *)
(* will not because that one was lost.                                      *)
Concludes(x, v) == x.stage = "finish" /\ x.plan = "human" /\ x.id = v
Followed(v) == v \in announced \cup cut \/ \E q \in Requests : Concludes(req[q], v)

FollowedInv == \A v \in Visits : variant[v] = "real" /\ Held(v) => Followed(v)

(* A request that made a visit real goes on with it until it has told Meta, *)
(* or is counted as lost.                                                   *)
LEMMA ConcludingStays ==
  ASSUME VisitInv, [Next]_vars, NEW v \in Visits, NEW q \in Requests, Concludes(req[q], v)
  PROVE  Followed(v)'
<1>1. TypeOK /\ req[q].stage = "finish" /\ req[q].plan = "human" /\ req[q].id = v /\ v # None
  BY VisitAssumption DEF VisitInv, Concludes, VisitAssumption
<1>2. CASE req'[q] = req[q]
  BY <1>2 DEF Followed
<1>3. ASSUME NEW x \in Requests, Arrive(x) PROVE Followed(v)'
  <2>1. req[x] = Idle /\ \E job : req' = [req EXCEPT ![x] = job]
    BY <1>3 DEF Arrive, EnterOpen, EnterTrusted, Refuse, EnterFailed, EnterProbe, VerifyHuman,
                VerifyRobot, ExitAdmitted, Begin
  <2>2. x # q
    BY <1>1, <2>1 DEF Idle
  <2>3. req'[q] = req[q]
    BY <1>1, <2>1, <2>2 DEF TypeOK
  <2>4. QED
    BY <1>2, <2>3
<1>4. ASSUME NEW x \in Requests,
             \/ Update(x) \/ UpdateFails(x) \/ Insert(x) \/ InsertFails(x)
             \/ Accept(x) \/ RejectGiven(x) \/ RejectCached(x) \/ RenderDecoy(x)
      PROVE  Followed(v)'
  <2>1. x # q
    BY <1>1, <1>4 DEF Update, UpdateFails, Insert, InsertFails, Recorded, Accept, RejectGiven,
                      RejectCached, RenderDecoy
  <2>2. req'[q] = req[q]
    BY <1>1, <1>4, <2>1 DEF Update, UpdateFails, Insert, InsertFails, Accept, RejectGiven,
                            RejectCached, RenderDecoy, To, TypeOK
  <2>3. QED
    BY <1>2, <2>2
<1>5. ASSUME NEW x \in Requests, Finish(x) PROVE Followed(v)'
  <2>1. CASE x = q
    <3>1. v \in announced'
      BY <1>1, <1>5, <2>1 DEF Finish, Announce, Announcing, RealPlans
    <3>2. QED
      BY <3>1 DEF Followed
  <2>2. CASE x # q
    BY <1>1, <1>2, <1>5, <2>2 DEF Finish, To, TypeOK
  <2>3. QED
    BY <2>1, <2>2
<1>6. ASSUME NEW x \in Requests, Abandon(x) PROVE Followed(v)'
  <2>1. CASE x = q
    <3>1. v \in Losing({q})
      BY <1>1 DEF Losing
    <3>2. QED
      BY <1>6, <2>1, <3>1 DEF Abandon, Followed
  <2>2. CASE x # q
    BY <1>1, <1>2, <1>6, <2>2 DEF Abandon, TypeOK
  <2>3. QED
    BY <2>1, <2>2
<1>7. ASSUME NEW p \in Procs, Crash(p) PROVE Followed(v)'
  <2> DEFINE Q == {y \in Requests : Busy(y) /\ req[y].proc = p}
  <2>1. CASE q \in Q
    <3>1. v \in Losing(Q)
      BY <1>1, <2>1 DEF Losing
    <3>2. QED
      BY <1>7, <3>1 DEF Crash, Followed
  <2>2. CASE q \notin Q
    BY <1>2, <1>7, <2>2 DEF Crash
  <2>3. QED
    BY <2>1, <2>2
<1>8. ASSUME (\E p \in Procs, s \in Slots : Expire(p, s)) \/ (\E r \in Routes : DeleteRoute(r))
             \/ UNCHANGED vars
      PROVE  Followed(v)'
  BY <1>2, <1>8 DEF Expire, DeleteRoute, vars
<1>9. QED
  BY <1>3, <1>4, <1>5, <1>6, <1>7, <1>8 DEF Next, Continue, Disturb

(* What is followed is followed for good.                                   *)
LEMMA FollowedStays ==
  ASSUME VisitInv, [Next]_vars, NEW v \in Visits, Followed(v)
  PROVE  Followed(v)'
<1>1. CASE v \in announced \cup cut
  <2>1. announced \subseteq announced' /\ cut \subseteq cut'
    <3>1. ASSUME NEW q \in Requests, Arrive(q) PROVE UNCHANGED <<announced, cut>>
      BY <3>1 DEF Arrive, EnterOpen, EnterTrusted, Refuse, EnterFailed, EnterProbe, VerifyHuman,
                  VerifyRobot, ExitAdmitted, Begin, outside
    <3>2. ASSUME NEW q \in Requests, Continue(q)
          PROVE  announced \subseteq announced' /\ cut \subseteq cut'
      BY <3>2 DEF Continue, Update, UpdateFails, Insert, InsertFails, Recorded, Accept,
                  RejectGiven, RejectCached, Finish, RenderDecoy, Announce, Abandon, outside
    <3>3. ASSUME Disturb PROVE announced \subseteq announced' /\ cut \subseteq cut'
      BY <3>3 DEF Disturb, Crash, Expire, DeleteRoute, outside
    <3>4. QED
      BY <3>1, <3>2, <3>3 DEF Next, vars, outside
  <2>2. QED
    BY <1>1, <2>1 DEF Followed
<1>2. CASE \E q \in Requests : Concludes(req[q], v)
  BY <1>2, ConcludingStays
<1>3. QED
  BY <1>1, <1>2 DEF Followed

(* What is in use after a step was in use before, unless somebody tells Meta*)
(* of it: so it is enough to look at what the step itself takes up.         *)
LEMMA FollowedFrom ==
  ASSUME VisitInv, FollowedInv, [Next]_vars, NEW v \in Visits,
         (variant[v] = "real" /\ Held(v)) \/ Followed(v)
  PROVE  Followed(v)'
  BY FollowedStays DEF FollowedInv

(* A request arrives with a visit that is remembered or named in a link.    *)
LEMMA ArriveFollows ==
  ASSUME VisitInv, FollowedInv, [Next]_vars, NEW q \in Requests, Arrive(q)
  PROVE  FollowedInv'
<1>1. TypeOK /\ None \notin Visits /\ handed \subseteq announced
  BY VisitAssumption DEF VisitInv, GivenOK, HandedOutIsReal, VisitAssumption
<1>2. PICK p \in Procs, s \in Slots :
        \/ EnterOpen(q, p, s) \/ EnterTrusted(q, p, s) \/ Refuse(q, p, s)
        \/ EnterFailed(q, p, s) \/ EnterProbe(q, p, s)
        \/ VerifyHuman(q, p, s) \/ VerifyRobot(q, p, s) \/ ExitAdmitted(q, p, s)
  BY DEF Arrive
<1>3. PICK stage \in Stages, plan \in Plans, id \in handed \cup {None, known[p][s]} :
        Begin(q, stage, plan, p, s, id)
  BY <1>2 DEF EnterOpen, EnterTrusted, Refuse, EnterFailed, EnterProbe, VerifyHuman, VerifyRobot,
              ExitAdmitted, CacheStage, Stages, Plans, RealPlans, FakePlans
<1>4. /\ UNCHANGED <<variant, known, pages>>
      /\ req'[q].id = id
      /\ \A x \in Requests \ {q} : req'[x] = req[x]
  BY <1>1, <1>3 DEF Begin, outside, TypeOK
<1>5. ASSUME NEW v \in Visits, variant'[v] = "real", Held(v)' PROVE Followed(v)'
  <2>1. Held(v) \/ v \in handed
    BY <1>1, <1>4, <1>5 DEF Held, Holds
  <2>2. QED
    BY <1>1, <1>4, <1>5, <2>1, FollowedFrom DEF Followed
<1>6. QED
  BY <1>5 DEF FollowedInv

(* An UPDATE makes real what the request then tells Meta of, or what it does*)
(* not learn that it has made real.                                         *)
LEMMA UpdateFollows ==
  ASSUME VisitInv, FollowedInv, [Next]_vars, NEW q \in Requests, Update(q) \/ UpdateFails(q)
  PROVE  FollowedInv'
<1>1. PICK w \in Visits, new \in {"real", "fake"} :
        /\ w = req[q].id /\ new = Verdict(req[q].plan)
        /\ TypeOK /\ req[q].stage = "update" /\ req[q].plan \in Judging
        /\ new = "real" => req[q].plan = "human"
  BY DEF VisitInv, JobOK, Update, UpdateFails, Rows, Verdict, Judging, RealPlans, FakePlans
<1>2. PICK stage \in {"finish", "insert"} :
        /\ To(q, stage, w) /\ UNCHANGED <<route, known, outside>>
        /\ \/ UNCHANGED variant
           \/ variant' = [variant EXCEPT ![w] = new]
        /\ stage = "insert" /\ new = "real" => UNCHANGED variant \/ w \in cut'
  <2>1. CASE Update(q)
    BY <1>1, <2>1 DEF Update, AfterUpdate
  <2>2. CASE UpdateFails(q)
    BY <1>1, <2>2 DEF UpdateFails, AfterUpdate
  <2>3. QED
    BY <2>1, <2>2
<1>3. /\ req'[q].stage = stage /\ req'[q].id = w /\ req'[q].plan = req[q].plan
      /\ \A x \in Requests \ {q} : req'[x] = req[x]
      /\ UNCHANGED known /\ UNCHANGED pages
  BY <1>1, <1>2, ToMoves DEF Stages, outside
<1>4. Held(w)
  BY <1>1 DEF Held, Holds
<1>5. CASE variant'[w] = variant[w]
  <2>1. ASSUME NEW v \in Visits, variant'[v] = "real", Held(v)' PROVE Followed(v)'
    <3>1. Held(v)
      BY <1>3, <1>4, <2>1 DEF Held, Holds
    <3>2. variant[v] = "real"
      BY <1>1, <1>2, <1>5, <2>1 DEF TypeOK
    <3>3. QED
      BY <3>1, <3>2, FollowedFrom
  <2>2. QED
    BY <2>1 DEF FollowedInv
<1>6. CASE variant'[w] # variant[w]
  <2>1. variant' = [variant EXCEPT ![w] = new] /\ variant'[w] = new
    BY <1>1, <1>2, <1>6 DEF TypeOK
  <2>2. new = "real" => Followed(w)'
    <3>1. CASE stage = "finish"
      BY <1>1, <1>3, <3>1 DEF Followed, Concludes
    <3>2. CASE stage = "insert"
      BY <1>2, <1>6, <3>2 DEF Followed
    <3>3. QED
      BY <3>1, <3>2
  <2>3. ASSUME NEW v \in Visits, variant'[v] = "real", Held(v)' PROVE Followed(v)'
    <3>1. CASE v = w
      BY <2>1, <2>2, <2>3, <3>1
    <3>2. CASE v # w
      <4>1. Held(v) /\ variant[v] = "real"
        BY <1>1, <1>3, <2>1, <2>3, <3>2 DEF Held, Holds, TypeOK
      <4>2. QED
        BY <4>1, FollowedFrom
    <3>3. QED
      BY <3>1, <3>2
  <2>4. QED
    BY <2>3 DEF FollowedInv
<1>7. QED
  BY <1>5, <1>6

(* A visit that an INSERT counts as real is at first nobody's but the       *)
(* request's own.                                                           *)
LEMMA InsertFollows ==
  ASSUME VisitInv, FollowedInv, [Next]_vars, NEW q \in Requests, Insert(q) \/ InsertFails(q)
  PROVE  FollowedInv'
<1>1. TypeOK /\ None \notin Visits /\ req[q].stage = "insert"
  BY VisitAssumption DEF VisitInv, Insert, InsertFails, Recorded, VisitAssumption
<1>2. PICK id \in Visits \cup {None} :
        /\ To(q, "finish", id)
        /\ \/ \E w \in Visits : Recorded(q, w) /\ id \in {w, None}
           \/ UNCHANGED <<variant, known, pages>> /\ id = None
  BY DEF Insert, InsertFails, outside
<1>3. /\ req'[q].stage = "finish" /\ req'[q].id = id /\ req'[q].plan = req[q].plan
      /\ \A x \in Requests \ {q} : req'[x] = req[x]
      /\ UNCHANGED known /\ UNCHANGED pages
  BY <1>1, <1>2, ToMoves DEF Stages, Recorded, outside
<1>4. ASSUME NEW v \in Visits, variant'[v] = "real", Held(v)' PROVE Followed(v)'
  <2>1. CASE UNCHANGED variant /\ id = None
    <3>1. Held(v)
      BY <1>1, <1>3, <1>4, <2>1 DEF Held, Holds
    <3>2. QED
      BY <1>4, <2>1, <3>1, FollowedFrom
  <2>2. ASSUME NEW w \in Visits, Recorded(q, w), id \in {w, None} PROVE Followed(v)'
    <3>1. CASE v # w
      <4>1. variant[v] = "real"
        BY <1>1, <1>4, <2>2, <3>1 DEF Recorded, TypeOK
      <4>2. Held(v)
        BY <1>1, <1>3, <1>4, <2>2, <3>1 DEF Held, Holds
      <4>3. QED
        BY <4>1, <4>2, FollowedFrom
    <3>2. CASE v = w
      <4>1. v \notin Rows /\ v # None
        BY <1>1, <2>2, <3>2 DEF Recorded, Rows
      <4>2. req[q].plan \in RealPlans
        BY <1>1, <1>4, <2>2, <3>2 DEF Recorded, TypeOK, Verdict
      <4>3. \A x \in Requests : ~Holds(req[x], v)
        BY <4>1 DEF VisitInv, JobOK, Holds, Fits
      <4>4. ~Held(v)'
        <5>1. \A x \in Requests : ~Holds(req'[x], v)
          BY <1>3, <4>2, <4>3 DEF Holds
        <5>2. \A p \in Procs, s \in Slots : known'[p][s] # v
          BY <1>3, <4>1 DEF VisitInv, MemoryOK, Fits
        <5>3. \A x \in pages' : x[2] # v
          BY <1>3, <4>1 DEF VisitInv, GivenOK
        <5>4. QED
          BY <5>1, <5>2, <5>3 DEF Held
      <4>5. QED
        BY <1>4, <4>4
    <3>3. QED
      BY <3>1, <3>2
  <2>3. QED
    BY <1>2, <2>1, <2>2
<1>5. QED
  BY <1>4 DEF FollowedInv

(* A page speaks for a visit that was in use before, and a request that     *)
(* turns from one visit to another takes one that is remembered.            *)
LEMMA ChoiceFollows ==
  ASSUME VisitInv, FollowedInv, [Next]_vars, NEW q \in Requests,
         Accept(q) \/ RejectGiven(q) \/ RejectCached(q)
  PROVE  FollowedInv'
<1>1. TypeOK /\ None \notin Visits /\ req[q].stage \in {"given", "cached"}
  BY VisitAssumption DEF VisitInv, Accept, RejectGiven, RejectCached, VisitAssumption
<1>2. /\ \A x \in Requests \ {q} : req'[x] = req[x]
      /\ UNCHANGED variant /\ UNCHANGED known
  BY <1>1 DEF Accept, RejectGiven, RejectCached, To, TypeOK
<1>3. CASE Accept(q)
  <2>1. /\ req'[q].stage = "idle" /\ Holds(req[q], req[q].id)
        /\ pages' = pages \cup {<<req[q].slot[2], req[q].id>>}
    BY <1>1, <1>3 DEF Accept, Show, TypeOK, Idle, Holds
  <2>2. ASSUME NEW v \in Visits, Held(v)' PROVE Held(v)
    BY <1>2, <2>1, <2>2 DEF Held, Holds
  <2>3. QED
    BY <1>2, <2>2, FollowedFrom DEF FollowedInv
<1>4. CASE RejectGiven(q) \/ RejectCached(q)
  <2>1. PICK p \in Procs, s \in Slots : p = req[q].proc /\ s = req[q].slot
    BY <1>1, BusyIsJob
  <2>2. PICK stage \in {"cached", "insert"}, id \in {known[p][s], None} :
          To(q, stage, id) /\ UNCHANGED pages
    BY <1>4, <2>1 DEF RejectGiven, RejectCached, CacheStage, outside
  <2>3. req'[q].stage = stage /\ req'[q].id = id
    BY <1>1, <2>2, ToMoves DEF Stages, TypeOK
  <2>4. ASSUME NEW v \in Visits, Held(v)' PROVE Held(v)
    BY <1>1, <1>2, <2>2, <2>3, <2>4 DEF Held, Holds
  <2>5. QED
    BY <1>2, <2>4, FollowedFrom DEF FollowedInv
<1>5. QED
  BY <1>3, <1>4

(* A request that ends tells Meta of the visit it counted as real; another  *)
(* visit it remembers, or shows a page of, was in its hands before.         *)
LEMMA FinishFollows ==
  ASSUME VisitInv, FollowedInv, [Next]_vars, NEW q \in Requests, Finish(q)
  PROVE  FollowedInv'
<1>1. /\ TypeOK /\ req[q].stage = "finish" /\ req[q].proc \in Procs /\ req[q].slot \in Slots
      /\ UNCHANGED variant
  BY BusyIsJob DEF VisitInv, Finish
<1>2. req'[q].stage \in {"idle", "render"} /\ \A x \in Requests \ {q} : req'[x] = req[x]
  BY <1>1, ToMoves, EndsIdle DEF Finish, Stages
<1>3. \A p \in Procs, s \in Slots : known'[p][s] \in {known[p][s], req[q].id}
  BY <1>1 DEF Finish, Remember, TypeOK
<1>4. \A x \in pages' : x \in pages \/ x[2] = req[q].id
  BY DEF Finish, Reply
<1>5. ASSUME NEW v \in Visits, variant'[v] = "real", Held(v)' PROVE Followed(v)'
  <2>1. CASE v # req[q].id \/ req[q].plan \notin RealPlans
    <3>1. Held(v)
      BY <1>1, <1>2, <1>3, <1>4, <1>5, <2>1 DEF Held, Holds
    <3>2. QED
      BY <1>1, <1>5, <3>1, FollowedFrom
  <2>2. CASE v = req[q].id /\ req[q].plan \in RealPlans
    <3>1. v \in announced'
      BY <2>2, VisitAssumption DEF Finish, Announce, Announcing, VisitAssumption
    <3>2. QED
      BY <3>1 DEF Followed
  <2>3. QED
    BY <2>1, <2>2
<1>6. QED
  BY <1>5 DEF FollowedInv

(* A decoy shows what was remembered before.                                *)
LEMMA RenderFollows ==
  ASSUME VisitInv, FollowedInv, [Next]_vars, NEW q \in Requests, RenderDecoy(q)
  PROVE  FollowedInv'
<1>1. /\ TypeOK /\ req[q].proc \in Procs /\ req[q].slot \in Slots
      /\ UNCHANGED <<variant, known>>
      /\ pages' = pages \cup ({req[q].slot[2]} \X ({known[req[q].proc][req[q].slot]} \ {None}))
  BY BusyIsJob DEF VisitInv, RenderDecoy
<1>2. req'[q].stage = "idle" /\ \A x \in Requests \ {q} : req'[x] = req[x]
  BY <1>1, EndsIdle DEF RenderDecoy
<1>3. \A x \in pages' : x \in pages \/ x[2] = known[req[q].proc][req[q].slot]
  BY <1>1
<1>4. ASSUME NEW v \in Visits, Held(v)' PROVE Held(v)
  BY <1>1, <1>2, <1>3, <1>4 DEF Held, Holds
<1>5. QED
  BY <1>1, <1>4, FollowedFrom DEF FollowedInv

(* Loss and deletion take visits out of use and put none into it.           *)
LEMMA LossFollows ==
  ASSUME VisitInv, FollowedInv, [Next]_vars,
         (\E q \in Requests : Abandon(q)) \/ Disturb \/ UNCHANGED vars
  PROVE  FollowedInv'
<1>1. TypeOK /\ None \notin Visits /\ UNCHANGED variant /\ UNCHANGED pages
  BY VisitAssumption DEF VisitInv, VisitAssumption, Abandon, Disturb, Crash, Expire, DeleteRoute, vars,
                         outside
<1>2. \A q \in Requests : req'[q] = req[q] \/ req'[q].stage = "idle"
  <2>1. ASSUME NEW x \in Requests, Abandon(x), NEW q \in Requests
        PROVE  req'[q] = req[q] \/ req'[q].stage = "idle"
    BY <1>1, <2>1 DEF Abandon, TypeOK, Idle
  <2>2. ASSUME NEW p \in Procs, Crash(p), NEW q \in Requests
        PROVE  req'[q] = req[q] \/ req'[q].stage = "idle"
    BY <2>2 DEF Crash, Idle
  <2>3. QED
    BY <2>1, <2>2 DEF Disturb, Expire, DeleteRoute, vars
<1>3. \A p \in Procs, s \in Slots : known'[p][s] \in {known[p][s], None}
  <2>1. ASSUME NEW x \in Procs, Crash(x), NEW p \in Procs, NEW s \in Slots
        PROVE  known'[p][s] \in {known[p][s], None}
    BY <1>1, <2>1 DEF Crash, TypeOK
  <2>2. ASSUME NEW x \in Procs, NEW t \in Slots, Expire(x, t), NEW p \in Procs, NEW s \in Slots
        PROVE  known'[p][s] \in {known[p][s], None}
    BY <1>1, <2>2 DEF Expire, TypeOK
  <2>3. QED
    BY <2>1, <2>2 DEF Disturb, Abandon, DeleteRoute, vars
<1>4. ASSUME NEW v \in Visits, Held(v)' PROVE Held(v)
  BY <1>1, <1>2, <1>3, <1>4 DEF Held, Holds
<1>5. QED
  BY <1>1, <1>4, FollowedFrom DEF FollowedInv

(* Together with VisitInv, FollowedInv is inductive.                        *)
LEMMA FollowedInductive ==
  /\ Init => FollowedInv
  /\ VisitInv /\ FollowedInv /\ [Next]_vars => FollowedInv'
<1>1. Init => FollowedInv
  BY DEF Init, FollowedInv
<1>2. ASSUME VisitInv, FollowedInv, [Next]_vars PROVE FollowedInv'
  BY <1>2, ArriveFollows, UpdateFollows, InsertFollows, ChoiceFollows, FinishFollows, RenderFollows,
     LossFollows
  DEF Next, Continue
<1>3. QED
  BY <1>1, <1>2

(* Pages, and the downloads they report, belong to visits of which Meta     *)
(* hears: a real visit that any process remembers, or any link leads to, was*)
(* announced, unless the request that made it real is still at work or lost *)
(* its client or its process between complete_probe_visit and               *)
(* send_meta_page_events.                                                   *)
THEOREM RealPagesAreAnnounced == Spec => []PagesAreAnnounced
<1>1. VisitInv /\ FollowedInv => PagesAreAnnounced
  BY DEF VisitInv, TypeOK, FollowedInv, PagesAreAnnounced, Held, Followed, Concludes
<1>2. QED
  BY <1>1, VisitInductive, FollowedInductive, PTL DEF Spec

=============================================================================
