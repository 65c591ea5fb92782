-------------------------- MODULE Downloads_proofs --------------------------
(***************************************************************************)
(* Proofs about download reports, for every set of reports, keys, routes,  *)
(* processes and promotion codes and every bound on the faults.            *)
(***************************************************************************)
EXTENDS Downloads, TLAPS

(* A row has a route that exists; a row whose route was deleted is alone:   *)
(* no report of its key is stored any more.                                 *)
RowsOK ==
  \A k \in Keys :
    /\ rows[k] = 1 => RouteOf[k] \in routes /\ detached[k] = 0
    /\ detached[k] \in {0, 1}
    /\ detached[k] = 1 => RouteOf[k] \notin routes

(* What is in the queue, or about to be put there, is in the table.         *)
LeadsOK ==
  /\ \A k \in queue : rows[k] = 1
  /\ \A r \in Requests : pc[r] = "lead" => Recorded(KeyOf[r])

(* Nothing happened to a download that could cost its Lead event.           *)
Undisturbed(k) ==
  /\ k \notin excused /\ RouteOf[k] \in routes
  /\ \A r \in Requests : KeyOf[r] = k => Standing(r)

(* The Lead event is in the queue, or a report will put it there.           *)
UnderWay(k) ==
  \/ k \in queue
  \/ \E r \in Requests : KeyOf[r] = k /\ pc[r] \in {"marked", "lead"}

(* A report that was turned away, and a key that turns reports away.        *)
Answered(k) ==
  \/ \E p \in Procs : k \in hits[p]
  \/ \E r \in Requests : KeyOf[r] = k /\ pc[r] = "done"

AnswersOK == \A k \in Keys : Undisturbed(k) /\ Answered(k) => UnderWay(k)

DownloadsInv == TypeOK /\ RowsOK /\ LeadsOK /\ TakenForAReason /\ AnswersOK

-----------------------------------------------------------------------------
(* Type correctness.                                                        *)

(* Nothing has been reported at the start.                                  *)
LEMMA InitTypeOK == Init => TypeOK
  BY DownloadsAssumption DEF DownloadsAssumption, Init, TypeOK, Stages

(* An upsert keeps the types of the table.                                  *)
LEMMA UpsertType ==
  ASSUME TypeOK, NEW r \in Requests, Upsert(r)
  PROVE  rows' \in [Keys -> {0, 1}] /\ credit' \in [Keys -> Codes \cup {NoCode}]
  BY DownloadsAssumption DEF DownloadsAssumption, TypeOK, Upsert, Credited

(* A fault is counted, and excuses downloads.                               *)
LEMMA FaultType ==
  ASSUME TypeOK, NEW ks \in SUBSET Keys, Fault(ks)
  PROVE  faults' \in 0..MaxFaults /\ excused' \in SUBSET Keys
  BY DownloadsAssumption DEF DownloadsAssumption, TypeOK, Fault

(* A deleted code has no home, and no row refers to it any more.            *)
LEMMA WithoutType ==
  ASSUME TypeOK, NEW gone \in SUBSET Codes, Without(gone)
  PROVE  /\ home' \in [Codes -> Routes \cup {NoRoute}]
         /\ credit' \in [Keys -> Codes \cup {NoCode}]
  BY DEF TypeOK, Without

(* The tables after the crash of a process.                                 *)
LEMMA CrashType ==
  ASSUME TypeOK, NEW p \in Procs, Crash(p)
  PROVE  /\ rows' \in [Keys -> {0, 1}] /\ credit' \in [Keys -> Codes \cup {NoCode}]
         /\ \A k \in Keys : rows[k] = 1 => rows'[k] = 1
         /\ \A k \in Keys : rows'[k] # rows[k] => RouteOf[k] \in routes
         /\ \A k \in Keys : credit'[k] # credit[k] => credit[k] = NoCode /\ rows'[k] = 1
<1> DEFINE here == {r \in Requests : at[r] = p /\ InFlight(r)}
           writing == {r \in here : pc[r] = "marked" /\ Storable(r)}
<1>1. PICK written \in SUBSET writing :
        /\ rows' = [k \in Keys |-> IF {r \in written : KeyOf[r] = k} # {} THEN 1 ELSE rows[k]]
        /\ credit' = [k \in Keys |-> IF {r \in written : KeyOf[r] = k} # {}
             THEN Credited(k, CodeOf[CHOOSE r \in {r \in written : KeyOf[r] = k} : TRUE])
             ELSE credit[k]]
  BY DEF Crash
<1>2. ASSUME NEW k \in Keys, {r \in written : KeyOf[r] = k} # {}
      PROVE  /\ CodeOf[CHOOSE r \in {r \in written : KeyOf[r] = k} : TRUE] \in Codes \cup {NoCode}
             /\ RouteOf[k] \in routes
  <2>1. (CHOOSE r \in {r \in written : KeyOf[r] = k} : TRUE) \in Requests
    BY <1>2
  <2>2. QED
    BY <1>2, <2>1, DownloadsAssumption DEF DownloadsAssumption, Storable, Exists
<1>3. ASSUME NEW k \in Keys
      PROVE  /\ credit'[k] \in Codes \cup {NoCode}
             /\ credit'[k] # credit[k] => credit[k] = NoCode /\ rows'[k] = 1
  BY <1>1, <1>2 DEF TypeOK, Credited
<1>4. QED
  BY <1>1, <1>2, <1>3 DEF TypeOK

(* Every step keeps the types.                                              *)
LEMMA StepTypeOK == TypeOK /\ [Next]_vars => TypeOK'
<1> SUFFICES ASSUME TypeOK, [Next]_vars PROVE TypeOK'
  OBVIOUS
<1> USE DownloadsAssumption DEF DownloadsAssumption
<1>1. ASSUME NEW r \in Requests, NEW p \in Procs, Check(r, p) PROVE TypeOK'
  BY <1>1 DEF TypeOK, Check, tableVars, otherVars, Stages
<1>2. ASSUME NEW r \in Requests, NEW p \in Procs, CheckFails(r, p) PROVE TypeOK'
  BY <1>2, FaultType DEF TypeOK, CheckFails, tableVars, otherVars, Stages
<1>3. ASSUME NEW r \in Requests, Mark(r) PROVE TypeOK'
  BY <1>3 DEF TypeOK, Mark, tableVars, otherVars, Stages
<1>4. ASSUME NEW r \in Requests, Record(r) PROVE TypeOK'
  BY <1>4, UpsertType DEF TypeOK, Record, otherVars, Stages
<1>5. ASSUME NEW r \in Requests, RecordRefused(r) PROVE TypeOK'
  BY <1>5 DEF TypeOK, RecordRefused, Release, tableVars, otherVars, Stages
<1>6. ASSUME NEW r \in Requests, RecordFails(r) PROVE TypeOK'
  BY <1>6, UpsertType, FaultType DEF TypeOK, RecordFails, Release, otherVars, Stages
<1>7. ASSUME NEW r \in Requests, Cancel(r) PROVE TypeOK'
  BY <1>7, UpsertType, FaultType DEF TypeOK, Cancel, otherVars, Stages
<1>8. ASSUME NEW r \in Requests, SendLead(r) PROVE TypeOK'
  BY <1>8 DEF TypeOK, SendLead, Stages
<1>9. ASSUME NEW r \in Requests, SendLeadFails(r) PROVE TypeOK'
  BY <1>9, FaultType DEF TypeOK, SendLeadFails, tableVars, otherVars, Stages
<1>10. ASSUME NEW p \in Procs, Crash(p) PROVE TypeOK'
  <2>1. {KeyOf[r] : r \in {r \in Requests : at[r] = p /\ InFlight(r)}} \in SUBSET Keys
    OBVIOUS
  <2>2. faults' \in 0..MaxFaults /\ excused' \in SUBSET Keys
    BY <1>10, <2>1, FaultType DEF Crash
  <2>3. QED
    BY <1>10, <2>2, CrashType DEF TypeOK, Crash, otherVars, Stages
<1>11. ASSUME NEW p \in Procs, NEW k \in Keys, HitExpires(p, k) PROVE TypeOK'
  BY <1>11 DEF TypeOK, HitExpires, tableVars, otherVars
<1>12. ASSUME NEW o \in Routes, DeleteRoute(o) PROVE TypeOK'
  <2>1. {c \in Codes : home[c] = o} \in SUBSET Codes
    OBVIOUS
  <2>2. detached' \in [Keys -> Nat]
    BY <1>12 DEF TypeOK, DeleteRoute
  <2>3. QED
    BY <1>12, <2>1, <2>2, WithoutType DEF TypeOK, DeleteRoute
<1>13. ASSUME NEW o \in Routes, NEW c \in Codes, MoveCode(c, o) PROVE TypeOK'
  BY <1>13 DEF TypeOK, MoveCode
<1>14. ASSUME NEW c \in Codes, DeleteCode(c) PROVE TypeOK'
  BY <1>14, WithoutType DEF TypeOK, DeleteCode
<1>15. CASE UNCHANGED vars
  BY <1>15 DEF TypeOK, vars, tableVars, otherVars
<1>16. QED
  BY <1>1, <1>2, <1>3, <1>4, <1>5, <1>6, <1>7, <1>8, <1>9, <1>10, <1>11, <1>12, <1>13,
     <1>14, <1>15 DEF Next, Handler

(* The state of Downloads always has the types of TypeOK.                   *)
THEOREM DownloadTypeCorrect == Spec => []TypeOK
<1>1. QED
  BY InitTypeOK, StepTypeOK, PTL DEF Spec

-----------------------------------------------------------------------------
(* What every step keeps.                                                   *)

(* But for the deletion of a route, rows only appear, and only for a route  *)
(* that exists.                                                             *)
TablesGrow ==
  /\ UNCHANGED <<detached, routes>>
  /\ \A k \in Keys : rows[k] = 1 => rows'[k] = 1
  /\ \A k \in Keys : rows'[k] # rows[k] => RouteOf[k] \in routes

(* The upsert of record_download inserts a row or completes one.            *)
LEMMA UpsertGrows ==
  ASSUME TypeOK, NEW r \in Requests, Storable(r), UNCHANGED <<detached, routes>>,
         Upsert(r) \/ UNCHANGED <<rows, credit>>
  PROVE  TablesGrow
  BY DownloadsAssumption DEF DownloadsAssumption, TypeOK, TablesGrow, Upsert, Storable, Exists

(* So does a step that leaves the tables alone.                             *)
LEMMA UntouchedGrows ==
  ASSUME UNCHANGED <<rows, detached, routes>>
  PROVE  TablesGrow
  BY DEF TablesGrow

(* Only the deletion of a route takes anything from the tables.             *)
LEMMA StepGrows ==
  ASSUME TypeOK, [Next]_vars
  PROVE  TablesGrow \/ \E o \in Routes : DeleteRoute(o)
<1> USE DEF tableVars, otherVars
<1>1. ASSUME NEW r \in Requests, NEW p \in Procs, Check(r, p) \/ CheckFails(r, p)
      PROVE TablesGrow
  BY <1>1, UntouchedGrows DEF Check, CheckFails
<1>2. ASSUME NEW r \in Requests, Mark(r) \/ RecordRefused(r) \/ SendLead(r) \/ SendLeadFails(r)
      PROVE TablesGrow
  BY <1>2, UntouchedGrows DEF Mark, RecordRefused, SendLead, SendLeadFails
<1>3. ASSUME NEW r \in Requests, Record(r) \/ RecordFails(r) PROVE TablesGrow
  BY <1>3, UpsertGrows DEF Record, RecordFails
<1>4. ASSUME NEW r \in Requests, Cancel(r) PROVE TablesGrow
  BY <1>4, UpsertGrows, UntouchedGrows DEF Cancel
<1>5. ASSUME NEW p \in Procs, Crash(p) PROVE TablesGrow
  BY <1>5, CrashType DEF Crash, TablesGrow
<1>6. ASSUME NEW p \in Procs, NEW k \in Keys, HitExpires(p, k) PROVE TablesGrow
  BY <1>6, UntouchedGrows DEF HitExpires
<1>7. ASSUME NEW o \in Routes, NEW c \in Codes, MoveCode(c, o) PROVE TablesGrow
  BY <1>7, UntouchedGrows DEF MoveCode
<1>8. ASSUME NEW c \in Codes, DeleteCode(c) PROVE TablesGrow
  BY <1>8, UntouchedGrows DEF DeleteCode
<1>9. CASE UNCHANGED vars
  BY <1>9, UntouchedGrows DEF vars
<1>10. QED
  BY <1>1, <1>2, <1>3, <1>4, <1>5, <1>6, <1>7, <1>8, <1>9 DEF Next, Handler

(* Deleting a route moves its rows aside.                                   *)
LEMMA DeletionDetaches ==
  ASSUME TypeOK, NEW o \in Routes, DeleteRoute(o), NEW k \in Keys
  PROVE  /\ RouteOf[k] # o => rows'[k] = rows[k] /\ detached'[k] = detached[k]
         /\ RouteOf[k] = o => rows'[k] = 0 /\ detached'[k] = detached[k] + rows[k]
         /\ RouteOf[k] \in routes' <=> RouteOf[k] \in routes /\ RouteOf[k] # o
  BY DEF TypeOK, DeleteRoute

(* A download once recorded stays recorded, or its route is gone.           *)
LEMMA RecordedStays ==
  ASSUME TypeOK, TypeOK', [Next]_vars, NEW k \in Keys, Recorded(k)
  PROVE  Recorded(k)'
<1>1. rows[k] \in {0, 1} /\ rows'[k] \in {0, 1} /\ detached[k] \in Nat /\ detached'[k] \in Nat
  BY DEF TypeOK
<1>2. rows[k] = 1 \/ detached[k] > 0
  BY <1>1 DEF Recorded
<1>3. CASE TablesGrow
  BY <1>1, <1>2, <1>3 DEF TablesGrow, Recorded
<1>4. CASE \E o \in Routes : DeleteRoute(o)
  <2>1. \/ rows'[k] = rows[k] /\ detached'[k] = detached[k]
        \/ detached'[k] = detached[k] + rows[k]
    BY <1>4, DeletionDetaches
  <2>2. QED
    BY <1>1, <1>2, <2>1 DEF Recorded
<1>5. QED
  BY <1>3, <1>4, StepGrows

(* What is disturbed stays so: faults are remembered, a deleted route does  *)
(* not come back, and neither does a deleted code.                          *)
LEMMA DisturbanceStays ==
  ASSUME TypeOK, [Next]_vars
  PROVE  /\ abandoned \subseteq abandoned'
         /\ \A k \in Keys : Undisturbed(k)' => Undisturbed(k)
<1>1. excused \subseteq excused' /\ abandoned \subseteq abandoned'
  BY DEF Next, Handler, vars, tableVars, otherVars, Check, CheckFails, Mark, Record,
         RecordRefused, RecordFails, Cancel, SendLead, SendLeadFails, Crash, HitExpires,
         DeleteRoute, MoveCode, DeleteCode, Fault
<1>2. routes' \subseteq routes
  <2>1. CASE TablesGrow
    BY <2>1 DEF TablesGrow
  <2>2. CASE \E o \in Routes : DeleteRoute(o)
    BY <2>2 DEF DeleteRoute
  <2>3. QED
    BY <2>1, <2>2, StepGrows
<1>3. ASSUME NEW c \in Codes PROVE home[c] = NoRoute => home'[c] = NoRoute
  <2> USE DEF TypeOK, tableVars, otherVars
  <2>1. CASE UNCHANGED home
    BY <2>1
  <2>2. CASE \E gone \in SUBSET Codes : Without(gone)
    BY <2>2 DEF Without
  <2>3. ASSUME NEW d \in Codes, NEW o \in Routes, MoveCode(d, o)
        PROVE home[c] = NoRoute => home'[c] = NoRoute
    BY <2>3 DEF MoveCode
  <2>4. ASSUME NEW o \in Routes, DeleteRoute(o) PROVE \E gone \in SUBSET Codes : Without(gone)
    BY <2>4 DEF DeleteRoute
  <2>5. ASSUME NEW d \in Codes, DeleteCode(d) PROVE \E gone \in SUBSET Codes : Without(gone)
    BY <2>5 DEF DeleteCode
  <2>6. QED
    BY <2>1, <2>2, <2>3, <2>4, <2>5
       DEF Next, Handler, vars, Check, CheckFails, Mark, Record, RecordRefused,
           RecordFails, Cancel, SendLead, SendLeadFails, Crash, HitExpires
<1>4. QED
  BY <1>1, <1>2, <1>3 DEF Undisturbed, Standing

-----------------------------------------------------------------------------
(* The invariant.                                                           *)

(* The invariant holds at the start.                                        *)
LEMMA InitInv == Init => DownloadsInv
<1> SUFFICES ASSUME Init PROVE DownloadsInv
  OBVIOUS
<1>1. RowsOK /\ LeadsOK
  BY DownloadsAssumption DEF DownloadsAssumption, Init, RowsOK, LeadsOK
<1>2. TakenForAReason /\ AnswersOK
  BY DEF Init, TakenForAReason, AnswersOK, Answered
<1>3. QED
  BY <1>1, <1>2, InitTypeOK DEF DownloadsInv

(* Reports of one download share its row, through every step.               *)
LEMMA StepRowsOK ==
  ASSUME TypeOK, TypeOK', RowsOK, [Next]_vars
  PROVE  RowsOK'
<1> SUFFICES ASSUME NEW k \in Keys
             PROVE  /\ rows'[k] = 1 => RouteOf[k] \in routes' /\ detached'[k] = 0
                    /\ detached'[k] \in {0, 1}
                    /\ detached'[k] = 1 => RouteOf[k] \notin routes'
  BY DEF RowsOK
<1>1. rows[k] \in {0, 1} /\ detached[k] \in Nat
  BY DEF TypeOK
<1>2. CASE TablesGrow
  BY <1>2, <1>1 DEF RowsOK, TablesGrow
<1>3. CASE \E o \in Routes : DeleteRoute(o)
  BY <1>3, <1>1, DeletionDetaches DEF RowsOK
<1>4. QED
  BY <1>2, <1>3, StepGrows

(* What is to be sent, or was sent, has its row, through every step.        *)
LEMMA StepLeadsOK ==
  ASSUME TypeOK, TypeOK', RowsOK, LeadsOK, [Next]_vars
  PROVE  LeadsOK'
<1>1. ASSUME NEW k \in Keys, rows[k] = 1, RouteOf[k] \in routes'
      PROVE  rows'[k] = 1
  <2>1. CASE TablesGrow
    BY <1>1, <2>1 DEF TablesGrow
  <2>2. CASE \E o \in Routes : DeleteRoute(o)
    BY <1>1, <2>2, DeletionDetaches
  <2>3. QED
    BY <2>1, <2>2, StepGrows
<1>2. ASSUME NEW k \in queue' PROVE rows'[k] = 1
  <2>1. k \in Keys
    BY DEF TypeOK
  <2>2. CASE k \in queue
    <3>1. RouteOf[k] \in routes'
      <4>1. RouteOf[k] \in routes
        BY <2>1, <2>2 DEF LeadsOK, RowsOK
      <4>2. CASE TablesGrow
        BY <4>1, <4>2 DEF TablesGrow
      <4>3. CASE \E o \in Routes : DeleteRoute(o)
        BY <1>2, <4>1, <4>3 DEF DeleteRoute
      <4>4. QED
        BY <4>2, <4>3, StepGrows
    <3>2. QED
      BY <1>1, <2>1, <2>2, <3>1 DEF LeadsOK
  <2>3. CASE k \notin queue
    <3>1. PICK r \in Requests : SendLead(r)
      BY <1>2, <2>3
         DEF Next, Handler, vars, tableVars, otherVars, Check, CheckFails, Mark, Record,
             RecordRefused, RecordFails, Cancel, SendLeadFails, Crash, HitExpires,
             DeleteRoute, MoveCode, DeleteCode
    <3>2. pc[r] = "lead" /\ k = KeyOf[r] /\ RouteOf[k] \in routes /\ UNCHANGED rows
      BY <1>2, <2>3, <3>1 DEF SendLead, Exists
    <3>3. Recorded(k) /\ rows[k] \in {0, 1} /\ detached[k] = 0
      BY <2>1, <3>2 DEF LeadsOK, RowsOK, TypeOK
    <3>4. QED
      BY <3>2, <3>3 DEF Recorded
  <2>4. QED
    BY <2>2, <2>3
<1>3. ASSUME NEW r \in Requests, pc'[r] = "lead" PROVE Recorded(KeyOf[r])'
  <2>1. KeyOf[r] \in Keys
    BY DownloadsAssumption DEF DownloadsAssumption
  <2>2. CASE pc[r] = "lead"
    BY <2>1, <2>2, RecordedStays DEF LeadsOK
  <2>3. CASE pc[r] # "lead"
    <3>1. Record(r)
      BY <1>3, <2>3
         DEF TypeOK, Next, Handler, vars, tableVars, otherVars, Check, CheckFails, Mark, Record,
             RecordRefused, RecordFails, Release, Cancel, SendLead, SendLeadFails, Crash,
             HitExpires, DeleteRoute, MoveCode, DeleteCode
    <3>2. rows'[KeyOf[r]] = 1 /\ detached'[KeyOf[r]] \in Nat
      BY <2>1, <3>1 DEF Record, Upsert, TypeOK
    <3>3. QED
      BY <3>2 DEF Recorded
  <2>4. QED
    BY <2>2, <2>3
<1>4. QED
  BY <1>2, <1>3 DEF LeadsOK

(* Only Mark takes a key.                                                   *)
LEMMA TakenByMark ==
  ASSUME TypeOK, [Next]_vars, NEW p \in Procs, NEW k \in Keys, k \in hits'[p], k \notin hits[p]
  PROVE  \E r \in Requests : Mark(r) /\ at[r] = p /\ KeyOf[r] = k
<1>1. hits' # hits
  OBVIOUS
<1>2. ASSUME NEW r \in Requests PROVE ~RecordRefused(r) /\ ~RecordFails(r)
  BY DEF RecordRefused, RecordFails, Release, TypeOK
<1>3. ASSUME NEW q \in Procs PROVE ~Crash(q)
  BY DEF Crash, TypeOK
<1>4. ASSUME NEW q \in Procs, NEW j \in Keys PROVE ~HitExpires(q, j)
  BY DEF HitExpires, TypeOK
<1>5. PICK r \in Requests : Mark(r)
  BY <1>1, <1>2, <1>3, <1>4
     DEF Next, Handler, vars, Check, CheckFails, Record, Cancel, SendLead, SendLeadFails,
         DeleteRoute, MoveCode, DeleteCode
<1>6. QED
  BY <1>5 DEF Mark, TypeOK

(* Who takes a key is about to write its row, and gives the key back if it  *)
(* cannot; reports in other processes hold keys of their own.               *)
LEMMA StepTaken ==
  ASSUME TypeOK, TypeOK', TakenForAReason, [Next]_vars
  PROVE  TakenForAReason'
<1> DEFINE Writer(p, k) == \E r \in Requests : at[r] = p /\ KeyOf[r] = k /\ pc[r] = "marked"
<1> SUFFICES ASSUME NEW p \in Procs, NEW k \in hits'[p]
             PROVE  Recorded(k)' \/ k \in abandoned' \/ Writer(p, k)'
  BY DEF TakenForAReason
<1> HIDE DEF Writer
<1>k. k \in Keys
  BY DEF TypeOK
<1>1. CASE k \in hits[p] /\ Recorded(k)
  BY <1>1, <1>k, RecordedStays
<1>2. CASE k \in hits[p] /\ k \in abandoned
  BY <1>2, DisturbanceStays
<1>3. CASE k \in hits[p] /\ Writer(p, k)
  <2>1. PICK r \in Requests : at[r] = p /\ KeyOf[r] = k /\ pc[r] = "marked"
    BY <1>3 DEF Writer
  <2>2. CASE at'[r] = p /\ pc'[r] = "marked"
    BY <2>1, <2>2 DEF Writer
  <2>3. CASE Record(r)
    <3>1. rows'[k] = 1 /\ detached'[k] \in Nat
      BY <1>k, <2>1, <2>3 DEF Record, Upsert, TypeOK
    <3>2. QED
      BY <3>1 DEF Recorded
  <2>4. CASE RecordRefused(r) \/ RecordFails(r)
    BY <2>1, <2>4 DEF RecordRefused, RecordFails, Release, TypeOK
  <2>5. CASE Cancel(r)
    BY <2>1, <2>5 DEF Cancel
  <2>6. CASE Crash(p)
    BY <2>6 DEF Crash, TypeOK
  <2>7. QED
    <3>1. SUFFICES ASSUME ~Record(r), ~RecordRefused(r), ~RecordFails(r), ~Cancel(r), ~Crash(p)
                   PROVE  at'[r] = p /\ pc'[r] = "marked"
      BY <2>2, <2>3, <2>4, <2>5, <2>6
    <3>2. ASSUME NEW q \in Procs, q # p, Crash(q) PROVE at'[r] = p /\ pc'[r] = "marked"
      BY <2>1, <3>2 DEF Crash
    <3>3. QED
      BY <2>1, <3>1, <3>2
         DEF TypeOK, Next, Handler, vars, tableVars, otherVars, Check, CheckFails, Mark,
             Record, RecordRefused, RecordFails, Release, Cancel, SendLead, SendLeadFails,
             HitExpires, DeleteRoute, MoveCode, DeleteCode
<1>4. CASE k \notin hits[p]
  <2>1. PICK r \in Requests : Mark(r) /\ at[r] = p /\ KeyOf[r] = k
    BY <1>4, <1>k, TakenByMark
  <2>2. at'[r] = p /\ KeyOf[r] = k /\ pc'[r] = "marked"
    BY <1>4, <2>1 DEF Mark, TypeOK
  <2>3. QED
    BY <2>2 DEF Writer
<1>5. QED
  BY <1>1, <1>2, <1>3, <1>4 DEF TakenForAReason, Writer

(* A download that stays undisturbed and is under way stays under way: a    *)
(* report that fails to write its row, or dies, disturbs it.                *)
LEMMA StepUnderWay ==
  ASSUME TypeOK, TypeOK', [Next]_vars, NEW k \in Keys, UnderWay(k), Undisturbed(k)'
  PROVE  UnderWay(k)'
<1>1. Undisturbed(k) /\ k \notin excused'
  BY DisturbanceStays DEF Undisturbed
<1>2. CASE k \in queue
  <2>1. RouteOf[k] \in routes'
    BY DEF Undisturbed
  <2>2. k \in queue'
    BY <1>2, <2>1
       DEF Next, Handler, vars, tableVars, otherVars, Check, CheckFails, Mark, Record,
           RecordRefused, RecordFails, Cancel, SendLead, SendLeadFails, Crash, HitExpires,
           DeleteRoute, MoveCode, DeleteCode
  <2>3. QED
    BY <2>2 DEF UnderWay
<1>3. CASE \E r \in Requests : KeyOf[r] = k /\ pc[r] \in {"marked", "lead"}
  <2>1. PICK r \in Requests : KeyOf[r] = k /\ pc[r] \in {"marked", "lead"}
    BY <1>3
  <2>2. CASE pc'[r] \in {"marked", "lead"}
    BY <2>1, <2>2 DEF UnderWay
  <2>3. CASE SendLead(r)
    <3>1. Exists(r)
      BY <1>1, <2>1 DEF Exists, Undisturbed
    <3>2. k \in queue'
      BY <2>1, <2>3, <3>1 DEF SendLead
    <3>3. QED
      BY <3>2 DEF UnderWay
  <2>4. ~RecordRefused(r)
    BY <1>1, <2>1 DEF RecordRefused, Storable, Undisturbed, Exists
  <2>5. ~RecordFails(r) /\ ~Cancel(r) /\ ~SendLeadFails(r)
    BY <1>1, <2>1 DEF RecordFails, Cancel, SendLeadFails, Fault
  <2>6. ASSUME NEW p \in Procs, Crash(p) PROVE pc'[r] \in {"marked", "lead"}
    <3>1. ~(at[r] = p /\ InFlight(r))
      BY <1>1, <2>1, <2>6 DEF Crash, Fault
    <3>2. QED
      BY <2>1, <2>6, <3>1 DEF Crash
  <2>7. QED
    <3>1. SUFFICES ASSUME ~SendLead(r) PROVE pc'[r] \in {"marked", "lead"}
      BY <2>2, <2>3
    <3>2. QED
      BY <2>1, <3>1, <2>4, <2>5, <2>6
         DEF TypeOK, Next, Handler, vars, tableVars, otherVars, Check, CheckFails, Mark,
             Record, RecordRefused, RecordFails, Release, Cancel, SendLead, SendLeadFails,
             HitExpires, DeleteRoute, MoveCode, DeleteCode
<1>4. QED
  BY <1>2, <1>3 DEF UnderWay

(* A key is first taken by a report that is about to write, and a report is *)
(* answered early only if its key was taken.                                *)
LEMMA StepAnswersOK ==
  ASSUME TypeOK, TypeOK', AnswersOK, [Next]_vars
  PROVE  AnswersOK'
<1> SUFFICES ASSUME NEW k \in Keys, Undisturbed(k)', Answered(k)'
             PROVE  UnderWay(k)'
  BY DEF AnswersOK
<1>1. Undisturbed(k) /\ k \notin excused'
  BY DisturbanceStays DEF Undisturbed
<1>2. CASE Answered(k)
  BY <1>1, <1>2, StepUnderWay DEF AnswersOK
<1>3. CASE UnderWay(k)
  BY <1>3, StepUnderWay
<1>4. CASE ~Answered(k) /\ ~UnderWay(k)
  <2>1. PICK r \in Requests : Mark(r) /\ KeyOf[r] = k
    <3>1. CASE \E p \in Procs : k \in hits'[p]
      <4>1. PICK p \in Procs : k \in hits'[p] /\ k \notin hits[p]
        BY <1>4, <3>1 DEF Answered
      <4>2. QED
        BY <4>1, TakenByMark
    <3>2. CASE \E r \in Requests : KeyOf[r] = k /\ pc'[r] = "done"
      <4>1. PICK r \in Requests :
              KeyOf[r] = k /\ pc'[r] = "done" /\ pc[r] \notin {"done", "marked", "lead"}
        BY <1>4, <3>2 DEF Answered, UnderWay
      <4>2. ASSUME NEW p \in Procs PROVE ~Check(r, p) /\ ~CheckFails(r, p)
        BY <1>1, <4>1 DEF Check, CheckFails, Fault, Exists, Undisturbed, TypeOK
      <4>3. ~Cancel(r)
        BY <1>1, <4>1 DEF Cancel, Fault
      <4>4. ASSUME NEW p \in Procs PROVE ~Crash(p)
        BY <1>1, <4>1 DEF Crash, Fault
      <4>5. Mark(r)
        BY <4>1, <4>2, <4>3, <4>4
           DEF TypeOK, Next, Handler, vars, tableVars, otherVars, Check, CheckFails, Mark,
               Record, RecordRefused, RecordFails, Release, Cancel, SendLead, SendLeadFails,
               HitExpires, DeleteRoute, MoveCode, DeleteCode
      <4>6. QED
        BY <4>1, <4>5
    <3>3. QED
      BY <3>1, <3>2 DEF Answered
  <2>2. at[r] \in Procs => k \notin hits[at[r]]
    BY <1>4 DEF Answered
  <2>3. QED
    BY <2>1, <2>2 DEF Mark, UnderWay, TypeOK
<1>5. QED
  BY <1>2, <1>3, <1>4

(* The invariant is inductive.                                              *)
LEMMA StepInv == DownloadsInv /\ [Next]_vars => DownloadsInv'
  BY StepTypeOK, StepRowsOK, StepLeadsOK, StepTaken, StepAnswersOK DEF DownloadsInv

(* It holds in every behaviour.                                             *)
LEMMA InvHolds == Spec => []DownloadsInv
<1>1. QED
  BY InitInv, StepInv, PTL DEF Spec

-----------------------------------------------------------------------------
(* What the invariant says of the properties.                               *)

(* However often, through whatever processes and restarts a download is     *)
(* reported, it is one row (record_download, migration 0006).               *)
THEOREM DownloadsAreRows == Spec => []OneRowPerDownload
<1>1. DownloadsInv => OneRowPerDownload
  <2> SUFFICES ASSUME DownloadsInv, NEW k \in Keys PROVE rows[k] + detached[k] <= 1
    BY DEF OneRowPerDownload
  <2>1. rows[k] \in {0, 1} /\ detached[k] \in {0, 1} /\ (rows[k] = 1 => detached[k] = 0)
    BY DEF DownloadsInv, TypeOK, RowsOK
  <2>2. QED
    BY <2>1
<1>2. QED
  BY InvHolds, <1>1, PTL

(* A Lead event in the queue, or about to be put there, belongs to a        *)
(* download in the table (downloaded, record_download before the task).     *)
THEOREM LeadsAreDownloads == Spec => []LeadHasDownload
<1>1. DownloadsInv => LeadHasDownload
  <2> SUFFICES ASSUME DownloadsInv PROVE LeadHasDownload
    OBVIOUS
  <2>1. ASSUME NEW k \in Keys, rows[k] > 0 PROVE RouteOf[k] \in routes
    <3>1. rows[k] = 1
      BY <2>1 DEF DownloadsInv, TypeOK
    <3>2. QED
      BY <3>1 DEF DownloadsInv, RowsOK
  <2>2. ASSUME NEW k \in queue PROVE rows[k] = 1 /\ RouteOf[k] \in routes
    BY DEF DownloadsInv, TypeOK, LeadsOK, RowsOK
  <2>3. QED
    BY <2>1, <2>2 DEF DownloadsInv, LeadsOK, LeadHasDownload
<1>2. QED
  BY InvHolds, <1>1, PTL

(* A key is taken for a row, for a report that is writing it, or by a       *)
(* report dropped in the middle (clear_public_event_hit gives back others). *)
THEOREM KeysAreTakenForAReason == Spec => []TakenForAReason
<1>1. DownloadsInv => TakenForAReason
  BY DEF DownloadsInv
<1>2. QED
  BY InvHolds, <1>1, PTL

(* Reports that were all answered, with no fault on the way, put the Lead   *)
(* event in the queue: none was dropped in favour of one that came to       *)
(* nothing.                                                                 *)
THEOREM ReportsCount == Spec => []NothingLost
<1>1. DownloadsInv => NothingLost
  <2> SUFFICES ASSUME DownloadsInv, NEW r \in Requests, pc[r] = "done",
                      \A s \in Requests : KeyOf[s] = KeyOf[r] => ~InFlight(s) /\ Standing(s),
                      KeyOf[r] \notin excused, RouteOf[KeyOf[r]] \in routes
               PROVE  KeyOf[r] \in queue
    BY DEF NothingLost
  <2>1. KeyOf[r] \in Keys
    BY DownloadsAssumption DEF DownloadsAssumption
  <2>2. Undisturbed(KeyOf[r]) /\ Answered(KeyOf[r])
    BY DEF Undisturbed, Answered
  <2>3. UnderWay(KeyOf[r])
    BY <2>1, <2>2 DEF DownloadsInv, AnswersOK
  <2>4. QED
    BY <2>3 DEF UnderWay, InFlight
<1>2. QED
  BY InvHolds, <1>1, PTL

-----------------------------------------------------------------------------
(* The code of a download.                                                  *)

(* An upsert writes a code only where there was none.                       *)
LEMMA UpsertCredits ==
  ASSUME TypeOK, NEW r \in Requests, Upsert(r), NEW k \in Keys, credit'[k] # credit[k]
  PROVE  credit[k] = NoCode /\ rows'[k] = 1
  BY DEF TypeOK, Upsert, Credited

(* A row loses its code only to the deletion of that code.                  *)
LEMMA WithoutTakesCredit ==
  ASSUME TypeOK, NEW gone \in SUBSET Codes, Without(gone), NEW k \in Keys,
         credit'[k] # credit[k]
  PROVE  credit'[k] = NoCode /\ home'[credit[k]] = NoRoute
  BY DEF TypeOK, Without

(* A download is credited to the first code reported for it, and keeps it   *)
(* until that code is deleted (the COALESCE of record_download).            *)
THEOREM FirstCodeKeepsCredit == Spec => CreditStays
<1> DEFINE Kept(k) ==
      credit'[k] # credit[k] =>
        \/ credit[k] = NoCode /\ rows'[k] = 1
        \/ credit'[k] = NoCode /\ home'[credit[k]] = NoRoute
<1>1. ASSUME TypeOK, [Next]_vars PROVE [\A k \in Keys : Kept(k)]_vars
  <2> SUFFICES ASSUME NEW k \in Keys, credit'[k] # credit[k]
               PROVE  \/ credit[k] = NoCode /\ rows'[k] = 1
                      \/ credit'[k] = NoCode /\ home'[credit[k]] = NoRoute
    OBVIOUS
  <2> USE <1>1 DEF tableVars, otherVars
  <2>1. ASSUME NEW r \in Requests, Record(r) \/ RecordFails(r) \/ Cancel(r)
        PROVE credit[k] = NoCode /\ rows'[k] = 1
    <3>1. Upsert(r)
      BY <2>1 DEF Record, RecordFails, Cancel
    <3>2. QED
      BY <3>1, UpsertCredits
  <2>2. ASSUME NEW p \in Procs, Crash(p) PROVE credit[k] = NoCode /\ rows'[k] = 1
    BY <2>2, CrashType
  <2>3. ASSUME NEW o \in Routes, DeleteRoute(o)
        PROVE credit'[k] = NoCode /\ home'[credit[k]] = NoRoute
    <3>1. {c \in Codes : home[c] = o} \in SUBSET Codes
      OBVIOUS
    <3>2. QED
      BY <2>3, <3>1, WithoutTakesCredit DEF DeleteRoute
  <2>4. ASSUME NEW c \in Codes, DeleteCode(c)
        PROVE credit'[k] = NoCode /\ home'[credit[k]] = NoRoute
    BY <2>4, WithoutTakesCredit DEF DeleteCode
  <2>5. QED
    BY <2>1, <2>2, <2>3, <2>4
       DEF Next, Handler, vars, Check, CheckFails, Mark, RecordRefused, SendLead,
           SendLeadFails, HitExpires, MoveCode
<1>2. QED
  BY <1>1, DownloadTypeCorrect, PTL DEF Spec, CreditStays

=============================================================================
