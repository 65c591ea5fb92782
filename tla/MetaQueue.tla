----------------------------- MODULE MetaQueue -----------------------------
(***************************************************************************)
(* The server-side queue of Meta CAPI events: table meta_event_queue, the  *)
(* request handlers that put events into it, the background worker that    *)
(* every application process runs, and the operator's retry, archive and   *)
(* delete buttons (crates/services/src/meta.rs, crates/app/src/main.rs).   *)
(*                                                                         *)
(* One action is one SQL statement, one transaction or one HTTP call: the  *)
(* worker holds no lock between them, so every interleaving of several     *)
(* workers with each other and with the handlers is a behaviour.           *)
(*                                                                         *)
(* Clock readings are abstracted to the two comparisons the claim query    *)
(* makes: "due" is next_attempt_at <= now(), "stale" is updated_at <=      *)
(* now() - 10 minutes.  Both turn TRUE at any time after they were reset,  *)
(* so a POST may take longer than the ten minutes.                         *)
(***************************************************************************)
EXTENDS Naturals, FiniteSets

CONSTANTS
  Events,      (* the keys (route_id, event_name, event_id) of the rows      *)
  Routes,      (* the routes events belong to                                *)
  RouteOf,     (* the route of each event                                    *)
  Workers,     (* the application processes (blue and green), one worker each*)
  BatchLimit,  (* rows one claim may take: process_pending(50)               *)
  Verdicts,    (* what a route's configuration can say, see ConfigVerdicts   *)
  NoEvent,     (* "no event in hand"                                         *)
  MaxFaults    (* bound on the disturbances of a behaviour: failed calls,    *)
               (* crashes, operator clicks and duplicate submissions         *)

(* "deliver": enabled with pixel and token; "skip": no configuration, a     *)
(* disabled one, or the event's kind switched off; "error": config() fails, *)
(* as it does when the stored token cannot be decrypted.                    *)
ConfigVerdicts == {"deliver", "skip", "error"}

ASSUME QueueAssumption ==
  /\ RouteOf \in [Events -> Routes]
  /\ IsFiniteSet(Events) /\ IsFiniteSet(Workers)
  /\ BatchLimit \in Nat \ {0}
  /\ Verdicts \in SUBSET ConfigVerdicts
  /\ NoEvent \notin Events
  /\ MaxFaults \in Nat

VARIABLES
  status,    (* status of each row; "absent" before its INSERT, "deleted" after the cascade *)
  attempts,  (* attempts column                                          *)
  due,       (* next_attempt_at <= now()                                 *)
  stale,     (* updated_at <= now() - interval '10 minutes'              *)
  archived,  (* archived_at IS NOT NULL                                  *)
  created,   (* position in created_at order, 0 before the INSERT        *)
  routes,    (* the routes that exist                                    *)
  cfg,       (* verdict of the stored configuration of each route        *)
  seen,      (* verdicts config() may return: cfg or a cached older one  *)
  held,      (* rows of a worker's batch that it has not started         *)
  cur,       (* row a worker is processing                               *)
  step,      (* where in process_event the worker is                     *)
  posts,     (* history: POSTs made for each event                       *)
  accepted,  (* history: POSTs Meta accepted for each event              *)
  lease,     (* history: claims nothing has broken yet                   *)
  causes,    (* history: happenings that can cost a duplicate delivery   *)
  faults     (* disturbances so far                                      *)

rowVars == <<status, attempts, due, stale, archived, created>>
cfgVars == <<routes, cfg, seen>>
workerVars == <<held, cur, step>>
historyVars == <<posts, accepted, lease, causes>>
vars == <<rowVars, cfgVars, workerVars, historyVars, faults>>

Status == {"absent", "pending", "processing", "sent", "failed", "skipped", "deleted"}
Finished == {"sent", "skipped"}
Present(e) == status[e] \notin {"absent", "deleted"}

(* The steps of process_event: "idle" between events, "skip" and "post"     *)
(* after the configuration was read, "ok" and "bad" after the answer came,   *)
(* "hung" in a call that never ends: the client has no timeout.             *)
Steps == {"idle", "skip", "post", "ok", "bad", "hung"}

(* The rows a worker has claimed and not finished.                          *)
Holding(w) == held[w] \cup ({cur[w]} \ {NoEvent})

TypeOK ==
  /\ status \in [Events -> Status]
  /\ attempts \in [Events -> Nat]
  /\ due \in [Events -> BOOLEAN]
  /\ stale \in [Events -> BOOLEAN]
  /\ archived \in [Events -> BOOLEAN]
  /\ created \in [Events -> Nat]
  /\ routes \in SUBSET Routes
  /\ cfg \in [Routes -> ConfigVerdicts]
  /\ seen \in [Routes -> SUBSET ConfigVerdicts]
  /\ held \in [Workers -> SUBSET Events]
  /\ cur \in [Workers -> Events \cup {NoEvent}]
  /\ step \in [Workers -> Steps]
  /\ posts \in [Events -> Nat]
  /\ accepted \in [Events -> Nat]
  /\ lease \in SUBSET (Workers \X Events)
  /\ causes \in [Events -> Nat]
  /\ faults \in 0..MaxFaults

Init ==
  /\ status = [e \in Events |-> "absent"]
  /\ attempts = [e \in Events |-> 0]
  /\ due = [e \in Events |-> FALSE]
  /\ stale = [e \in Events |-> FALSE]
  /\ archived = [e \in Events |-> FALSE]
  /\ created = [e \in Events |-> 0]
  /\ routes = Routes
  /\ cfg \in [Routes -> Verdicts]
  /\ seen = [r \in Routes |-> {cfg[r]}]
  /\ held = [w \in Workers |-> {}]
  /\ cur = [w \in Workers |-> NoEvent]
  /\ step = [w \in Workers |-> "idle"]
  /\ posts = [e \in Events |-> 0]
  /\ accepted = [e \in Events |-> 0]
  /\ lease = {}
  /\ causes = [e \in Events |-> 0]
  /\ faults = 0

Disturb == faults < MaxFaults /\ faults' = faults + 1

(* The leases that stand when nobody has one on e any more.                 *)
WithoutLeaseOn(e) == {p \in lease : p[2] # e}
WithoutLeaseOf(w) == {p \in lease : p[1] # w}
Leased(e) == \E w \in Workers : <<w, e>> \in lease
Stuck(e) == \E w \in Workers : <<w, e>> \in lease /\ step[w] = "hung"

-----------------------------------------------------------------------------
(* Producers.                                                               *)

(* Variant: the INSERT of an event of a deleted route goes through.          *)
EnqueueOrphan(e) ==
  /\ ~ Present(e)
  /\ status' = [status EXCEPT ![e] = "pending"]
  /\ due' = [due EXCEPT ![e] = TRUE]
  /\ created' = [created EXCEPT ![e] = Cardinality({f \in Events : status[f] # "absent"}) + 1]
  /\ UNCHANGED <<attempts, stale, archived, cfgVars, workerVars, historyVars, faults>>

(* enqueue_event of a new key: INSERT with the column defaults.  The foreign *)
(* key makes the INSERT of an event of a deleted route fail.                 *)
Enqueue(e) ==
  /\ status[e] = "absent"
  /\ RouteOf[e] \in routes
  /\ status' = [status EXCEPT ![e] = "pending"]
  /\ due' = [due EXCEPT ![e] = TRUE]
  /\ created' = [created EXCEPT ![e] = Cardinality({f \in Events : status[f] # "absent"}) + 1]
  /\ UNCHANGED <<attempts, stale, archived, cfgVars, workerVars, historyVars, faults>>

(* Variant: ON CONFLICT queues the row afresh.                               *)
EnqueueResets(e) ==
  /\ Present(e)
  /\ Disturb
  /\ status' = [status EXCEPT ![e] = "pending"]
  /\ stale' = [stale EXCEPT ![e] = FALSE]
  /\ UNCHANGED <<attempts, due, archived, created, cfgVars, workerVars, historyVars>>

(* enqueue_event of a key that is there: ON CONFLICT DO UPDATE refreshes    *)
(* what the browser sent and updated_at, whatever the row's status is.      *)
EnqueueAgain(e) ==
  /\ Present(e)
  /\ Disturb
  /\ stale' = [stale EXCEPT ![e] = FALSE]
  /\ UNCHANGED <<status, attempts, due, archived, created, cfgVars, workerVars, historyVars>>

-----------------------------------------------------------------------------
(* The worker.                                                              *)

(* Variant: a "processing" row is taken without waiting for ten minutes.     *)
ClaimableAtOnce(e) ==
  /\ ~ archived[e]
  /\ \/ status[e] \in {"pending", "failed"} /\ due[e]
     \/ status[e] = "processing"

(* Variant: a "processing" row is never taken again.                         *)
ClaimableOnce(e) ==
  /\ ~ archived[e]
  /\ status[e] \in {"pending", "failed"} /\ due[e]

(* The condition of the claim query.                                        *)
Claimable(e) ==
  /\ ~ archived[e]
  /\ \/ status[e] \in {"pending", "failed"} /\ due[e]
     \/ status[e] = "processing" /\ stale[e]

(* What one run of the claim query takes: the oldest claimable rows, as many*)
(* as the limit allows.                                                     *)
IsBatch(batch) ==
  LET claimable == {e \in Events : Claimable(e)}
  IN  /\ batch \in SUBSET claimable
      /\ batch # {}
      /\ \/ batch = claimable /\ Cardinality(batch) <= BatchLimit
         \/ Cardinality(batch) = BatchLimit
      /\ \A e \in batch, f \in claimable \ batch : created[e] <= created[f]

(* process_pending, first half: one transaction that turns the batch to     *)
(* "processing" and commits.                                                *)
Claim(w) ==
  /\ step[w] = "idle" /\ held[w] = {}
  /\ \E batch \in SUBSET Events :
       /\ IsBatch(batch)
       /\ status' = [e \in Events |-> IF e \in batch THEN "processing" ELSE status[e]]
       /\ stale' = [e \in Events |-> stale[e] /\ e \notin batch]
       /\ held' = [held EXCEPT ![w] = batch]
       /\ lease' = lease \cup ({w} \X batch)
  /\ UNCHANGED <<attempts, due, archived, created, cfgVars, cur, step,
                 posts, accepted, causes, faults>>

(* process_event up to its branches: take the next row of the batch and look *)
(* at what config() returned for its route.  RETURNING promises no order.    *)
Begin(w, e) ==
  /\ step[w] = "idle" /\ e \in held[w]
  /\ \E v \in seen[RouteOf[e]] \ {"error"} :
       step' = [step EXCEPT ![w] = IF v = "deliver" THEN "post" ELSE "skip"]
  /\ held' = [held EXCEPT ![w] = @ \ {e}]
  /\ cur' = [cur EXCEPT ![w] = e]
  /\ UNCHANGED <<rowVars, cfgVars, historyVars, faults>>

(* The worker is left with nothing in hand; an answer it had not recorded   *)
(* is forgotten.                                                            *)
DropBatch(w) ==
  /\ held' = [held EXCEPT ![w] = {}]
  /\ cur' = [cur EXCEPT ![w] = NoEvent]
  /\ step' = [step EXCEPT ![w] = "idle"]
  /\ lease' = WithoutLeaseOf(w)
  /\ causes' = [e \in Events |-> IF e = cur[w] /\ step[w] = "ok" THEN causes[e] + 1 ELSE causes[e]]

(* config() fails and the "?" in process_pending ends the loop: the rows the *)
(* worker had claimed and not reached stay "processing".                     *)
ConfigError(w, e) ==
  /\ step[w] = "idle" /\ e \in held[w]
  /\ "error" \in seen[RouteOf[e]]
  /\ DropBatch(w)
  /\ UNCHANGED <<rowVars, cfgVars, posts, accepted, faults>>

(* The POST to graph.facebook.com.  A transport error leaves open whether   *)
(* Meta took the event; the worker then records a failure either way.  A    *)
(* call that gets no answer may also keep its worker for good.              *)
PostAccepted(w) ==
  /\ step[w] = "post"
  /\ step' = [step EXCEPT ![w] = "ok"]
  /\ posts' = [posts EXCEPT ![cur[w]] = @ + 1]
  /\ accepted' = [accepted EXCEPT ![cur[w]] = @ + 1]
  /\ UNCHANGED <<rowVars, cfgVars, held, cur, lease, causes, faults>>

PostRefused(w) ==
  /\ step[w] = "post"
  /\ Disturb
  /\ \E s \in {"bad", "hung"} : step' = [step EXCEPT ![w] = s]
  /\ posts' = [posts EXCEPT ![cur[w]] = @ + 1]
  /\ UNCHANGED <<rowVars, cfgVars, held, cur, accepted, lease, causes>>

PostAnswerLost(w) ==
  /\ step[w] = "post"
  /\ Disturb
  /\ \E s \in {"bad", "hung"} : step' = [step EXCEPT ![w] = s]
  /\ posts' = [posts EXCEPT ![cur[w]] = @ + 1]
  /\ accepted' = [accepted EXCEPT ![cur[w]] = @ + 1]
  /\ causes' = [causes EXCEPT ![cur[w]] = @ + 1]
  /\ UNCHANGED <<rowVars, cfgVars, held, cur, lease>>

(* The mark_* statements select the row by id alone: whoever else has       *)
(* claimed it meanwhile, the row takes this worker's result.                *)
FinishRow(w, s) ==
  /\ status' = [e \in Events |-> IF e = cur[w] /\ Present(e) THEN s ELSE status[e]]
  /\ stale' = [stale EXCEPT ![cur[w]] = FALSE]
  /\ lease' = WithoutLeaseOn(cur[w])
  /\ cur' = [cur EXCEPT ![w] = NoEvent]
  /\ step' = [step EXCEPT ![w] = "idle"]

CountAttempt(row) ==
  attempts' = [e \in Events |-> IF e = row /\ Present(e) THEN attempts[e] + 1 ELSE attempts[e]]

(* Variant: any answer counts as success.                                    *)
MarkSentUnchecked(w) ==
  /\ step[w] \in {"ok", "bad"}
  /\ FinishRow(w, "sent")
  /\ CountAttempt(cur[w])
  /\ UNCHANGED <<due, archived, created, cfgVars, held, posts, accepted, causes, faults>>

(* mark_sent.                                                               *)
MarkSent(w) ==
  /\ step[w] = "ok"
  /\ FinishRow(w, "sent")
  /\ CountAttempt(cur[w])
  /\ UNCHANGED <<due, archived, created, cfgVars, held, posts, accepted, causes, faults>>

(* mark_failed: next_attempt_at moves into the future, from one minute to   *)
(* six hours by the number of attempts.                                     *)
MarkFailed(w) ==
  /\ step[w] = "bad"
  /\ FinishRow(w, "failed")
  /\ CountAttempt(cur[w])
  /\ due' = [due EXCEPT ![cur[w]] = FALSE]
  /\ UNCHANGED <<archived, created, cfgVars, held, posts, accepted, causes, faults>>

(* Variant: a status that the CHECK constraint of the column does not list.  *)
MarkSkippedUnlisted(w) ==
  /\ step[w] = "skip"
  /\ FinishRow(w, "disabled")
  /\ UNCHANGED <<attempts, due, archived, created, cfgVars, held, posts, accepted, causes, faults>>

(* mark_skipped: no attempt is counted.                                     *)
MarkSkipped(w) ==
  /\ step[w] = "skip"
  /\ FinishRow(w, "skipped")
  /\ UNCHANGED <<attempts, due, archived, created, cfgVars, held, posts, accepted, causes, faults>>

(* A mark_* statement or the configuration query fails, and "?" ends the    *)
(* loop; or the process dies and is started again.  Either way the worker   *)
(* begins its next tick with nothing in hand.                               *)
Abort(w) ==
  /\ Holding(w) # {}
  /\ Disturb
  /\ DropBatch(w)
  /\ UNCHANGED <<rowVars, cfgVars, posts, accepted>>

-----------------------------------------------------------------------------
(* The operator.                                                            *)

(* retry_event: back to "pending" and due now, out of the archive, whatever *)
(* the status was; the attempts column keeps its count.                     *)
RetryEvent(e) ==
  /\ Present(e)
  /\ Disturb
  /\ status' = [status EXCEPT ![e] = "pending"]
  /\ due' = [due EXCEPT ![e] = TRUE]
  /\ stale' = [stale EXCEPT ![e] = FALSE]
  /\ archived' = [archived EXCEPT ![e] = FALSE]
  /\ lease' = WithoutLeaseOn(e)
  /\ causes' = [causes EXCEPT ![e] = @ + 1]
  /\ UNCHANGED <<attempts, created, cfgVars, workerVars, posts, accepted>>

(* archive_event: any row, also one a worker is sending.                    *)
ArchiveEvent(e) ==
  /\ Present(e)
  /\ Disturb
  /\ archived' = [archived EXCEPT ![e] = TRUE]
  /\ stale' = [stale EXCEPT ![e] = FALSE]
  /\ UNCHANGED <<status, attempts, due, created, cfgVars, workerVars, historyVars>>

(* archive_finished: the finished rows older than the cutoff, of one profile*)
(* or of all of them.                                                       *)
ArchiveFinished ==
  /\ Disturb
  /\ \E old \in SUBSET {e \in Events : status[e] \in Finished /\ ~ archived[e]} :
       /\ old # {}
       /\ archived' = [e \in Events |-> archived[e] \/ e \in old]
       /\ stale' = [e \in Events |-> stale[e] /\ e \notin old]
  /\ UNCHANGED <<status, attempts, due, created, cfgVars, workerVars, historyVars>>

(* RouteService::delete: the rows go with the route (ON DELETE CASCADE).    *)
DeleteRoute(r) ==
  /\ r \in routes
  /\ Disturb
  /\ routes' = routes \ {r}
  /\ status' = [e \in Events |-> IF RouteOf[e] = r /\ Present(e) THEN "deleted" ELSE status[e]]
  /\ cfg' = [cfg EXCEPT ![r] = "skip"]
  /\ seen' = [seen EXCEPT ![r] = (@ \ {"error"}) \cup {"skip"}]
  /\ lease' = {p \in lease : RouteOf[p[2]] # r}
  /\ UNCHANGED <<attempts, due, stale, archived, created, workerVars, posts, accepted, causes>>

(* A new stored configuration or a restart under another META_TOKEN_KEY.    *)
(* Processes that have the old answer cached may still return it; a failure *)
(* is never cached.                                                         *)
ConfigChange(r) ==
  /\ r \in routes
  /\ Disturb
  /\ \E v \in Verdicts :
       /\ cfg' = [cfg EXCEPT ![r] = v]
       /\ seen' = [seen EXCEPT ![r] = (@ \ {"error"}) \cup {v}]
  /\ UNCHANGED <<rowVars, routes, workerVars, historyVars>>

-----------------------------------------------------------------------------
(* Time.                                                                    *)

(* next_attempt_at is reached.                                              *)
TimeDue(e) ==
  /\ Present(e) /\ ~ due[e]
  /\ due' = [due EXCEPT ![e] = TRUE]
  /\ UNCHANGED <<status, attempts, stale, archived, created, cfgVars, workerVars,
                 historyVars, faults>>

(* Ten minutes have passed since updated_at.  Of a row whose worker has      *)
(* dropped it, this is the recovery; a worker that is still busy with its    *)
(* batch loses its claim, which counts as a disturbance unless it hangs.     *)
TimeStale(e) ==
  /\ status[e] = "processing" /\ ~ stale[e] /\ ~ Leased(e)
  /\ stale' = [stale EXCEPT ![e] = TRUE]
  /\ UNCHANGED <<status, attempts, due, archived, created, cfgVars, workerVars,
                 historyVars, faults>>

ClaimExpires(e) ==
  /\ status[e] = "processing" /\ ~ stale[e] /\ Leased(e)
  /\ Disturb \/ (Stuck(e) /\ UNCHANGED faults)
  /\ stale' = [stale EXCEPT ![e] = TRUE]
  /\ lease' = WithoutLeaseOn(e)
  /\ causes' = [causes EXCEPT ![e] = @ + 1]
  /\ UNCHANGED <<status, attempts, due, archived, created, cfgVars, workerVars,
                 posts, accepted>>

(* The cached answers of config() have outlived their ten minutes.          *)
CacheExpires(r) ==
  /\ seen[r] # {cfg[r]}
  /\ seen' = [seen EXCEPT ![r] = {cfg[r]}]
  /\ UNCHANGED <<rowVars, routes, cfg, workerVars, historyVars, faults>>

-----------------------------------------------------------------------------
Deliver(w) ==
  \/ Claim(w)
  \/ \E e \in Events : Begin(w, e) \/ ConfigError(w, e)
  \/ PostAccepted(w) \/ PostRefused(w) \/ PostAnswerLost(w)
  \/ MarkSent(w) \/ MarkFailed(w) \/ MarkSkipped(w)

Operator ==
  \/ \E e \in Events : RetryEvent(e) \/ ArchiveEvent(e)
  \/ ArchiveFinished
  \/ \E r \in Routes : DeleteRoute(r) \/ ConfigChange(r)

Time ==
  \/ \E e \in Events : TimeDue(e) \/ TimeStale(e) \/ ClaimExpires(e)
  \/ \E r \in Routes : CacheExpires(r)

Next ==
  \/ \E e \in Events : Enqueue(e) \/ EnqueueAgain(e)
  \/ \E w \in Workers : Deliver(w) \/ Abort(w)
  \/ Operator
  \/ Time

Spec == Init /\ [][Next]_vars

(* Every process ticks every 30 seconds and runs on through a batch until an *)
(* HTTP call hangs, and time passes.  Nothing is assumed of visitors,        *)
(* operators or faults, the restart that would free a hung worker included.  *)
Fairness ==
  /\ \A w \in Workers : WF_vars(Deliver(w))
  /\ \A e \in Events :
       WF_vars(TimeDue(e)) /\ WF_vars(TimeStale(e)) /\ WF_vars(Stuck(e) /\ ClaimExpires(e))
  /\ \A r \in Routes : WF_vars(CacheExpires(r))

FairSpec == Spec /\ Fairness

-----------------------------------------------------------------------------
(* What the invariants below rest on.                                       *)

(* A worker is between events exactly when it has no row in hand, and the   *)
(* rows it has exist or were deleted under it.                              *)
WorkerOK ==
  \A w \in Workers :
    /\ cur[w] = NoEvent <=> step[w] = "idle"
    /\ cur[w] \notin held[w]
    /\ \A e \in Holding(w) : status[e] # "absent"

(* The workers that have called for e and not recorded an answer.           *)
Answered(e) == {w \in Workers : cur[w] = e /\ step[w] \in {"ok", "bad", "hung"}}
AttemptsCounted == \A e \in Events : attempts[e] + Cardinality(Answered(e)) <= posts[e]

AcceptanceKnown ==
  \A e \in Events :
    /\ status[e] = "sent" => accepted[e] > 0
    /\ \A w \in Workers : cur[w] = e /\ step[w] = "ok" => accepted[e] > 0
    /\ status[e] = "absent" => accepted[e] = 0

(* The workers that may still send e, and whether the claim query may hand  *)
(* e out without breaking anybody's claim.                                  *)
Sending(e) == {w \in Workers : e \in held[w] \/ (cur[w] = e /\ step[w] # "ok")}
Open(e) == status[e] \in {"pending", "processing", "failed"} /\ ~ Leased(e)

(* Each delivery of e that was made or may still come has been paid for.    *)
DuplicateBudget ==
  \A e \in Events :
    accepted[e] + Cardinality(Sending(e)) + (IF Open(e) THEN 1 ELSE 0) <= 1 + causes[e]

-----------------------------------------------------------------------------
(* Properties.                                                              *)

(* At most one worker has an unbroken claim on an event, and such a claim   *)
(* means the row is "processing" and fresh.  A claim is broken by ten       *)
(* minutes of silence, by the operator's retry or by the late result of an  *)
(* earlier holder: by nothing else, a duplicate submission included.        *)
LeaseExclusion ==
  \A w \in Workers, e \in Events : <<w, e>> \in lease =>
    /\ status[e] = "processing" /\ ~ stale[e]
    /\ e \in Holding(w)
    /\ \A v \in Workers : <<v, e>> \in lease => v = w

(* A row says "sent" only after Meta accepted the event, and its attempts   *)
(* column never counts a call that was not made.                            *)
SentWasAccepted ==
  \A e \in Events :
    /\ status[e] = "sent" => accepted[e] > 0
    /\ attempts[e] <= posts[e]

(* Meta gets an event once, and once more at most for each lost answer,     *)
(* each unrecorded success, each expired claim and each operator retry.     *)
BoundedDuplicates == \A e \in Events : accepted[e] <= 1 + causes[e]

(* A "sent" row is reopened by the operator or by a worker whose claim on   *)
(* it was broken, never by a producer and never by the claim query.         *)
LateFailure(e) == \E w \in Workers : cur[w] = e /\ <<w, e>> \notin lease /\ cur'[w] = NoEvent
OperatorActs(e) == causes'[e] > causes[e] \/ status'[e] = "deleted"
SentIsFinal ==
  [][\A e \in Events : status[e] = "sent" /\ status'[e] # "sent" =>
       LateFailure(e) \/ OperatorActs(e)]_vars

(* A row that still has to be delivered or skipped.                         *)
Waiting(e) == status[e] \in {"pending", "processing", "failed"} /\ ~ archived[e]
Readable(e) == cfg[RouteOf[e]] # "error"

(* An event in the queue whose route's configuration can be read does not   *)
(* wait forever: retries, crashes and expired claims bring it to an end.    *)
EventuallySettled ==
  \A e \in Events : (Waiting(e) /\ Readable(e)) ~> (~ Waiting(e) \/ ~ Readable(e))

(* When all configurations can be read in the end and one worker is not     *)
(* hung, whatever was lost to unreadable ones before, to crashes, expired   *)
(* claims, failed calls and calls of other processes that never end, is     *)
(* made up for: no event stays with a worker that dropped it or hangs.      *)
SomeWorkerRuns == \E w \in Workers : step[w] # "hung"
SettledOnceReadable ==
  <>[](SomeWorkerRuns /\ \A r \in Routes : "error" \notin seen[r])
    => \A e \in Events : Waiting(e) ~> ~ Waiting(e)

(* The queue implements the outbox: archived or not, claimed by nobody, one *)
(* or several workers, a row counts as open until a mark_* statement closes *)
(* it.                                                                      *)
Box(e) == IF status[e] \in {"pending", "processing", "failed"} THEN "open" ELSE status[e]

Promise == INSTANCE Outbox WITH
  box <- [e \in Events |-> Box(e)],
  delivered <- {e \in Events : accepted[e] > 0}

ImplementsOutbox == Promise!OutboxSpec

=============================================================================
