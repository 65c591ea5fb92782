----------------------------- MODULE Downloads -----------------------------
(***************************************************************************)
(* POST /api/downloaded (crates/app/src/web.rs): a visitor's browser       *)
(* reports that it started the download.  The report is deduplicated twice,*)
(* by a map in the memory of each process (crates/app/src/state.rs) and by *)
(* a partial unique index of table download_events (migration 0006), and   *)
(* leads to one Lead event in the Meta queue.                              *)
(*                                                                         *)
(* A key is (route_id, visit_id, event_id); pages derive the event id from *)
(* the visit, so a reload of a page repeats its key.  Requests without a   *)
(* valid token change nothing and are left out.                            *)
(*                                                                         *)
(* A page also carries the promotion code it was opened under, which the   *)
(* row refers to; codes are edited and deleted while pages stay open       *)
(* (crates/services/src/promos.rs).                                        *)
(***************************************************************************)
EXTENDS Naturals, FiniteSets

CONSTANTS
  Requests,   (* the reports that are sent                          *)
  Keys,       (* their keys                                         *)
  KeyOf,      (* the key of each report                             *)
  Routes,     (* the routes of the keys                             *)
  RouteOf,    (* the route of each key                              *)
  Procs,      (* the processes (blue and green) that may answer     *)
  NoProc,     (* "no process"                                       *)
  Codes,      (* the promotion codes                                *)
  CodeOf,     (* the code in the page of each report, or NoCode     *)
  HomeOf,     (* the route each code is made for                    *)
  NoCode,     (* "no code"                                          *)
  NoRoute,    (* the home of a deleted code                         *)
  MaxFaults   (* bound on failed statements, lost clients, crashes  *)

ASSUME DownloadsAssumption ==
  /\ KeyOf \in [Requests -> Keys]
  /\ RouteOf \in [Keys -> Routes]
  /\ NoProc \notin Procs
  /\ NoCode \notin Codes /\ NoRoute \notin Routes
  /\ CodeOf \in [Requests -> Codes \cup {NoCode}]
  /\ HomeOf \in [Codes -> Routes]
  /\ MaxFaults \in Nat

VARIABLES
  pc,        (* where the handler of each report is                       *)
  at,        (* the process that handles it                               *)
  hits,      (* public_event_hits of each process                         *)
  rows,      (* rows of download_events with the key, route_id not null   *)
  detached,  (* rows of the key whose route_id was set to null            *)
  queue,     (* the keys with a Lead event in meta_event_queue            *)
  routes,    (* the routes that exist                                     *)
  home,      (* the route of each promotion code                          *)
  credit,    (* promo_id of the row of each key                           *)
  excused,   (* history: keys a fault has touched                         *)
  abandoned, (* history: keys whose report was dropped in the middle      *)
  faults     (* faults so far                                             *)

otherVars == <<detached, queue, routes, home>>
tableVars == <<rows, credit, otherVars>>
vars == <<pc, at, hits, tableVars, excused, abandoned, faults>>

(* "checked" after belongs_to_route, "marked" while the row is written,     *)
(* "lead" when the answer is out and the enqueue task is spawned.           *)
Stages == {"new", "checked", "marked", "lead", "done"}
InFlight(r) == pc[r] \in {"checked", "marked", "lead"}
Exists(r) == RouteOf[KeyOf[r]] \in routes
Recorded(k) == rows[k] + detached[k] > 0
Standing(r) == CodeOf[r] \in {c \in Codes : home[c] # NoRoute} \cup {NoCode}

TypeOK ==
  /\ pc \in [Requests -> Stages]
  /\ at \in [Requests -> Procs \cup {NoProc}]
  /\ hits \in [Procs -> SUBSET Keys]
  /\ rows \in [Keys -> {0, 1}]
  /\ detached \in [Keys -> Nat]
  /\ queue \in SUBSET Keys
  /\ routes \in SUBSET Routes
  /\ home \in [Codes -> Routes \cup {NoRoute}]
  /\ credit \in [Keys -> Codes \cup {NoCode}]
  /\ excused \in SUBSET Keys
  /\ abandoned \in SUBSET Keys
  /\ faults \in 0..MaxFaults

Init ==
  /\ pc = [r \in Requests |-> "new"]
  /\ at = [r \in Requests |-> NoProc]
  /\ hits = [p \in Procs |-> {}]
  /\ rows = [k \in Keys |-> 0]
  /\ detached = [k \in Keys |-> 0]
  /\ queue = {}
  /\ routes = Routes
  /\ home = HomeOf
  /\ credit = [k \in Keys |-> NoCode]
  /\ excused = {}
  /\ abandoned = {}
  /\ faults = 0

Fault(ks) ==
  /\ faults < MaxFaults
  /\ faults' = faults + 1
  /\ excused' = excused \cup ks

-----------------------------------------------------------------------------
(* The handler.                                                             *)

(* belongs_to_route of a live route; of a deleted one the answer is no,     *)
(* because the visit's route_id was set to null.                            *)
Check(r, p) ==
  /\ pc[r] = "new"
  /\ pc' = [pc EXCEPT ![r] = IF Exists(r) THEN "checked" ELSE "done"]
  /\ at' = [at EXCEPT ![r] = p]
  /\ UNCHANGED <<hits, tableVars, excused, abandoned, faults>>

(* A failed query counts as "no".                                           *)
CheckFails(r, p) ==
  /\ pc[r] = "new"
  /\ Fault({KeyOf[r]})
  /\ pc' = [pc EXCEPT ![r] = "done"]
  /\ at' = [at EXCEPT ![r] = p]
  /\ UNCHANGED <<hits, tableVars, abandoned>>

(* mark_public_event_once: the first report takes the key, a later one is   *)
(* answered without doing anything.                                         *)
Mark(r) ==
  /\ pc[r] = "checked"
  /\ pc' = [pc EXCEPT ![r] = IF KeyOf[r] \in hits[at[r]] THEN "done" ELSE "marked"]
  /\ hits' = [hits EXCEPT ![at[r]] = @ \cup {KeyOf[r]}]
  /\ UNCHANGED <<at, tableVars, excused, abandoned, faults>>

(* The foreign keys: the route must exist, and the code unless the row is   *)
(* there and has one.                                                       *)
Storable(r) == Exists(r) /\ (Standing(r) \/ credit[KeyOf[r]] # NoCode)

(* Variant: the row takes the code of the last report.                      *)
CreditedLast(k, c) == IF c = NoCode THEN credit[k] ELSE c

(* COALESCE: the row keeps the code it has.                                 *)
Credited(k, c) == IF credit[k] = NoCode THEN c ELSE credit[k]

(* Variant: an INSERT without ON CONFLICT and without the unique index.     *)
UpsertAlways(r) ==
  /\ rows' = [rows EXCEPT ![KeyOf[r]] = @ + 1]
  /\ credit' = [credit EXCEPT ![KeyOf[r]] = Credited(KeyOf[r], CodeOf[r])]

(* INSERT ... ON CONFLICT DO UPDATE.                                        *)
Upsert(r) ==
  /\ rows' = [rows EXCEPT ![KeyOf[r]] = 1]
  /\ credit' = [credit EXCEPT ![KeyOf[r]] = Credited(KeyOf[r], CodeOf[r])]

(* Variant: the Lead event is not sent.                                     *)
RecordOnly(r) ==
  /\ pc[r] = "marked" /\ Storable(r)
  /\ Upsert(r)
  /\ pc' = [pc EXCEPT ![r] = "done"]
  /\ UNCHANGED <<at, hits, otherVars, excused, abandoned, faults>>

(* record_download succeeds; the answer is sent and the Lead task spawned.  *)
Record(r) ==
  /\ pc[r] = "marked" /\ Storable(r)
  /\ Upsert(r)
  /\ pc' = [pc EXCEPT ![r] = "lead"]
  /\ UNCHANGED <<at, hits, otherVars, excused, abandoned, faults>>

(* Variant: the key stays taken when the row could not be written.          *)
ReleaseKept(r) ==
  /\ pc' = [pc EXCEPT ![r] = "done"]
  /\ UNCHANGED hits

(* Variant: the error of record_download is logged and the Lead event sent. *)
ReleaseToLead(r) ==
  /\ pc' = [pc EXCEPT ![r] = "lead"]
  /\ hits' = [hits EXCEPT ![at[r]] = @ \ {KeyOf[r]}]

(* clear_public_event_hit after a failure, so that a repeated report counts.*)
Release(r) ==
  /\ pc' = [pc EXCEPT ![r] = "done"]
  /\ hits' = [hits EXCEPT ![at[r]] = @ \ {KeyOf[r]}]

(* record_download fails: the foreign key of a deleted route or code, or    *)
(* the database.  In the second case the row may be there all the same.     *)
RecordRefused(r) ==
  /\ pc[r] = "marked" /\ ~ Storable(r)
  /\ Release(r)
  /\ UNCHANGED <<at, tableVars, excused, abandoned, faults>>

RecordFails(r) ==
  /\ pc[r] = "marked" /\ Storable(r)
  /\ Fault({KeyOf[r]})
  /\ Upsert(r) \/ UNCHANGED <<rows, credit>>
  /\ Release(r)
  /\ UNCHANGED <<at, otherVars, abandoned>>

(* The client goes away and the server drops the handler at its await: the  *)
(* row may be written or not, and the key stays taken.                      *)
Cancel(r) ==
  /\ pc[r] \in {"checked", "marked"}
  /\ Fault({KeyOf[r]})
  /\ \/ pc[r] = "marked" /\ Storable(r) /\ Upsert(r)
     \/ UNCHANGED <<rows, credit>>
  /\ pc' = [pc EXCEPT ![r] = "done"]
  /\ abandoned' = abandoned \cup {KeyOf[r]}
  /\ UNCHANGED <<at, hits, otherVars>>

(* The spawned task: enqueue_event, whose INSERT fails for a deleted route. *)
SendLead(r) ==
  /\ pc[r] = "lead"
  /\ queue' = IF Exists(r) THEN queue \cup {KeyOf[r]} ELSE queue
  /\ pc' = [pc EXCEPT ![r] = "done"]
  /\ UNCHANGED <<at, hits, rows, detached, routes, home, credit, excused, abandoned, faults>>

SendLeadFails(r) ==
  /\ pc[r] = "lead"
  /\ Fault({KeyOf[r]})
  /\ pc' = [pc EXCEPT ![r] = "done"]
  /\ UNCHANGED <<at, hits, tableVars, abandoned>>

-----------------------------------------------------------------------------
(* Around it.                                                               *)

(* The process dies: its map and the tasks it had spawned are gone, and the *)
(* statements that were under way may or may not have been carried out.     *)
Crash(p) ==
  LET here == {r \in Requests : at[r] = p /\ InFlight(r)}
      writing == {r \in here : pc[r] = "marked" /\ Storable(r)}
  IN  /\ here # {} \/ hits[p] # {}
      /\ Fault({KeyOf[r] : r \in here})
      /\ \E written \in SUBSET writing :
           LET By(k) == {r \in written : KeyOf[r] = k}
           IN  /\ rows' = [k \in Keys |-> IF By(k) # {} THEN 1 ELSE rows[k]]
               /\ credit' = [k \in Keys |-> IF By(k) # {}
                     THEN Credited(k, CodeOf[CHOOSE r \in By(k) : TRUE]) ELSE credit[k]]
      /\ pc' = [r \in Requests |-> IF r \in here THEN "done" ELSE pc[r]]
      /\ hits' = [hits EXCEPT ![p] = {}]
      /\ UNCHANGED <<at, otherVars, abandoned>>

(* Six hours after it was taken a key is free again.  No statement takes    *)
(* that long.                                                               *)
HitExpires(p, k) ==
  /\ k \in hits[p]
  /\ \A r \in Requests : ~ (at[r] = p /\ KeyOf[r] = k /\ pc[r] = "marked")
  /\ hits' = [hits EXCEPT ![p] = @ \ {k}]
  /\ UNCHANGED <<pc, at, tableVars, excused, abandoned, faults>>

(* What deleting codes does to the rows: ON DELETE SET NULL.                *)
Without(gone) ==
  /\ home' = [c \in Codes |-> IF c \in gone THEN NoRoute ELSE home[c]]
  /\ credit' = [k \in Keys |-> IF credit[k] \in gone THEN NoCode ELSE credit[k]]

(* PromosService::delete, and update, which may give a code another route.  *)
(* That a code is switched off decides which pages carry it, not what their *)
(* reports do.                                                              *)
DeleteCode(c) ==
  /\ home[c] # NoRoute
  /\ Without({c})
  /\ UNCHANGED <<pc, at, hits, rows, detached, queue, routes, excused, abandoned, faults>>

MoveCode(c, o) ==
  /\ home[c] # NoRoute /\ o \in routes
  /\ home' = [home EXCEPT ![c] = o]
  /\ UNCHANGED <<pc, at, hits, rows, detached, queue, routes, credit, excused, abandoned, faults>>

(* RouteService::delete: ON DELETE CASCADE in the queue and the codes, ON   *)
(* DELETE SET NULL in download_events and visits.                           *)
DeleteRoute(o) ==
  /\ o \in routes
  /\ routes' = routes \ {o}
  /\ queue' = {k \in queue : RouteOf[k] # o}
  /\ rows' = [k \in Keys |-> IF RouteOf[k] = o THEN 0 ELSE rows[k]]
  /\ detached' = [k \in Keys |-> IF RouteOf[k] = o THEN detached[k] + rows[k] ELSE detached[k]]
  /\ Without({c \in Codes : home[c] = o})
  /\ UNCHANGED <<pc, at, hits, excused, abandoned, faults>>

Handler(r) ==
  \/ \E p \in Procs : Check(r, p) \/ CheckFails(r, p)
  \/ Mark(r) \/ Record(r) \/ RecordRefused(r) \/ RecordFails(r) \/ Cancel(r)
  \/ SendLead(r) \/ SendLeadFails(r)

Next ==
  \/ \E r \in Requests : Handler(r)
  \/ \E p \in Procs : Crash(p) \/ \E k \in Keys : HitExpires(p, k)
  \/ \E o \in Routes : DeleteRoute(o) \/ \E c \in Codes : MoveCode(c, o)
  \/ \E c \in Codes : DeleteCode(c)

Spec == Init /\ [][Next]_vars

-----------------------------------------------------------------------------
(* Properties.                                                              *)

(* However often, through whatever processes and across whatever restarts a *)
(* download is reported, it is one row, also after its route was deleted.   *)
(* The maps alone could not keep this: they forget, and there are several.  *)
OneRowPerDownload == \A k \in Keys : rows[k] + detached[k] <= 1

(* A Lead event, in the queue or about to be put there, belongs to a        *)
(* download that is in the table, and what is not detached has its route.   *)
LeadHasDownload ==
  /\ \A k \in queue : rows[k] = 1 /\ RouteOf[k] \in routes
  /\ \A r \in Requests : pc[r] = "lead" => Recorded(KeyOf[r])
  /\ \A k \in Keys : rows[k] > 0 => RouteOf[k] \in routes

(* A taken key is backed by a row or by a report that is writing it: a      *)
(* failed attempt does not block the next one for six hours.  Only a client *)
(* that went away in the middle may leave a key taken for nothing.          *)
TakenForAReason ==
  \A p \in Procs : \A k \in hits[p] :
    \/ Recorded(k) \/ k \in abandoned
    \/ \E r \in Requests : at[r] = p /\ KeyOf[r] = k /\ pc[r] = "marked"

(* When every report of a download has been answered and nothing failed on  *)
(* the way, the Lead event is in the queue: a report that was dropped as a  *)
(* duplicate was dropped in favour of one that counted.  A promotion code   *)
(* that is deleted while a page with it is open costs the page's download.  *)
NothingLost ==
  \A r \in Requests :
    LET k == KeyOf[r]
        quiet == \A s \in Requests : KeyOf[s] = k => ~ InFlight(s) /\ Standing(s)
    IN  pc[r] = "done" /\ quiet /\ k \notin excused /\ RouteOf[k] \in routes => k \in queue

(* A download is credited to the code of the first of its reports that had  *)
(* one: reports of the same visit from pages under other codes, in other    *)
(* processes or after a restart, do not take it over; only the deletion of  *)
(* the code, alone or with its route, makes room for another.               *)
CreditStays ==
  [][\A k \in Keys : credit'[k] # credit[k] =>
       \/ credit[k] = NoCode /\ rows'[k] = 1
       \/ credit'[k] = NoCode /\ home'[credit[k]] = NoRoute]_vars

=============================================================================
