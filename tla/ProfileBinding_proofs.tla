------------------------ MODULE ProfileBinding_proofs ------------------------
(***************************************************************************)
(* Proofs about routes and their profiles, for every number of profiles,   *)
(* policies, routes and operations at the same time.                       *)
(***************************************************************************)
EXTENDS ProfileBinding, TLAPS

Saving == {"resolved", "copied"}

(* A route about to be saved knows its landing profile as it is, but for    *)
(* what it has met; once the rows are written the foreign keys hold, and the*)
(* settings copied are the policy's.                                        *)
RouteOpOK(o) ==
  LET x == op[o]  l == x.new.landing  p == x.new.policy IN
  /\ x.stage \in Saving =>
       /\ l = None => "use" \notin x.met
       /\ l # None => landing[l] # None
       /\ l # None /\ Exists(landing[l]) =>
            /\ "use" \notin x.met => landing[l].on
            /\ "picture" \notin x.met => x.new.picture = landing[l].picture
  /\ x.stage = "copied" =>
       /\ l # None => Exists(landing[l])
       /\ p # None => Exists(policy[p]) /\ ("policy" \notin x.met => x.new.set = policy[p])

(* What is about to switch a landing profile off has met those who bound    *)
(* it since its check.                                                      *)
LandingOpOK(o) ==
  LET x == op[o] IN
  /\ x.stage = "save" /\ ~x.new.on /\ "use" \notin x.met => BoundTo(x.id) = {}
  /\ x.stage = "toggle" => landing[x.id] # None
  /\ x.stage = "toggle" /\ Exists(landing[x.id]) /\ landing[x.id].on /\ "use" \notin x.met =>
       BoundTo(x.id) = {}

BindingInv ==
  /\ TypeOK /\ BoundIsEnabled /\ CopiesFollow
  /\ \A o \in Ops : RouteOpOK(o) /\ LandingOpOK(o)

-----------------------------------------------------------------------------
(* The parts of the state.                                                  *)

RouteJobs ==
  [stage : Saving, id : Routes, update : BOOLEAN, new : Rows,
   met : SUBSET {"use", "picture", "policy"}]
SaveJobs == [stage : {"save"}, id : Profiles, new : Landings, met : SUBSET {"use", "picture"}]
SwitchJobs == [stage : {"toggle", "delete"}, id : Profiles, met : SUBSET {"use", "picture"}]

(* The fields of an operation at each of its stages.                        *)
LEMMA JobKinds ==
  ASSUME TypeOK, NEW o \in Ops
  PROVE  /\ op[o].stage \in Saving => op[o] \in RouteJobs
         /\ op[o].stage = "save" => op[o] \in SaveJobs
         /\ op[o].stage \in {"toggle", "delete"} => op[o] \in SwitchJobs
         /\ op[o].stage = "drop" => op[o].id \in Policies
         /\ op[o].stage = "own" => op[o].id \in Routes /\ op[o].new \in Settings
         /\ op[o] \in {Idle} \cup Jobs
  BY DEF TypeOK, Jobs, Idle, Saving, RouteJobs, SaveJobs, SwitchJobs

(* The operations named above are operations of the model.                  *)
LEMMA JobsHold == RouteJobs \cup SaveJobs \cup SwitchJobs \subseteq Jobs
  BY DEF Jobs, Saving, RouteJobs, SaveJobs, SwitchJobs

(* A row that exists is a row, and a row exists.                            *)
LEMMA RowKinds ==
  ASSUME TypeOK
  PROVE  /\ \A l \in Profiles : Exists(landing[l]) => landing[l] \in Landings
         /\ \A p \in Policies : Exists(policy[p]) => policy[p] \in Settings
         /\ \A r \in Routes : Exists(route[r]) => route[r] \in Rows
  BY DEF TypeOK, Exists

(* A row is not one of the two marks for rows that are not there.           *)
LEMMA RowsExist ==
  /\ \A row \in Landings \cup Settings \cup Rows : Exists(row)
  /\ ~Exists(None) /\ ~Exists(Gone)
  BY MarksAreNoRows DEF Exists

(* The profiles a route refers to are there.                                *)
LEMMA Bound ==
  ASSUME TypeOK, NEW r \in Routes, Exists(route[r])
  PROVE  /\ route[r] \in Rows /\ route[r].picture \in Shown /\ route[r].set \in Settings
         /\ route[r].landing # None =>
              route[r].landing \in Profiles /\ Exists(landing[route[r].landing])
         /\ route[r].policy # None =>
              route[r].policy \in Policies /\ Exists(policy[route[r].policy])
  BY RowKinds DEF TypeOK, Rows

(* What the end of an operation on a landing profile does to the others.    *)
LEMMA EndOnLandingEffect ==
  ASSUME TypeOK, NEW o \in Ops, NEW l \in Profiles \cup {None},
         NEW change \in SUBSET {"use", "picture"}, EndOnLanding(o, l, change)
  PROVE  /\ op' \in [Ops -> {Idle} \cup Jobs] /\ op'[o] = Idle
         /\ \A x \in Ops \ {o} :
              /\ op'[x].stage = op[x].stage
              /\ op[x].stage \in Saving =>
                   /\ op'[x].new = op[x].new /\ op[x].met \subseteq op'[x].met
                   /\ op[x].new.landing # l => op'[x].met = op[x].met
                   /\ op[x].new.landing = None => op'[x].met = op[x].met
                   /\ op[x].new.landing = l /\ l # None => change \subseteq op'[x].met
              /\ op[x].stage \in {"save", "toggle"} =>
                   /\ op'[x].id = op[x].id /\ op[x].met \subseteq op'[x].met
                   /\ op[x].id = l => change \subseteq op'[x].met
              /\ op[x].stage = "save" => op'[x].new = op[x].new
<1>1. op'[o] = Idle
  BY DEF EndOnLanding
<1>2. ASSUME NEW x \in Ops \ {o}
      PROVE  /\ op'[x] \in {Idle} \cup Jobs
             /\ op'[x].stage = op[x].stage
             /\ op[x].stage \in Saving =>
                  /\ op'[x].new = op[x].new /\ op[x].met \subseteq op'[x].met
                  /\ op[x].new.landing # l => op'[x].met = op[x].met
                  /\ op[x].new.landing = None => op'[x].met = op[x].met
                  /\ op[x].new.landing = l /\ l # None => change \subseteq op'[x].met
             /\ op[x].stage \in {"save", "toggle"} =>
                  /\ op'[x].id = op[x].id /\ op[x].met \subseteq op'[x].met
                  /\ op[x].id = l => change \subseteq op'[x].met
             /\ op[x].stage = "save" => op'[x].new = op[x].new
  <2>1. CASE ~OnLanding(op[x], l)
    <3>1. op'[x] = op[x]
      BY <2>1 DEF EndOnLanding
    <3>2. QED
      BY <2>1, <3>1, JobKinds DEF OnLanding, Saving
  <2>2. CASE OnLanding(op[x], l)
    <3>1. op'[x] = [op[x] EXCEPT !.met = @ \cup change]
      BY <2>2 DEF EndOnLanding
    <3>2. CASE op[x].stage \in Saving
      <4>1. op[x] \in RouteJobs /\ op[x].new.landing = l /\ l # None
        BY <2>2, <3>2, JobKinds DEF OnLanding, Saving
      <4>2. op'[x] \in RouteJobs
        BY <3>1, <4>1 DEF RouteJobs
      <4>3. QED
        BY <3>1, <3>2, <4>1, <4>2, JobsHold DEF RouteJobs, Saving
    <3>3. CASE op[x].stage = "save"
      <4>1. op[x] \in SaveJobs
        BY <3>3, JobKinds
      <4>2. op'[x] \in SaveJobs
        BY <3>1, <4>1 DEF SaveJobs
      <4>3. QED
        BY <3>1, <3>3, <4>1, <4>2, JobsHold DEF SaveJobs, Saving
    <3>4. CASE op[x].stage \in {"toggle", "delete"}
      <4>1. op[x] \in SwitchJobs
        BY <3>4, JobKinds
      <4>2. op'[x] \in SwitchJobs
        BY <3>1, <4>1 DEF SwitchJobs
      <4>3. QED
        BY <3>1, <3>4, <4>1, <4>2, JobsHold DEF SwitchJobs, Saving
    <3>5. QED
      BY <2>2, <3>2, <3>3, <3>4 DEF OnLanding, Saving
  <2>3. QED
    BY <2>1, <2>2
<1>3. op' \in [Ops -> {Idle} \cup Jobs]
  BY <1>1, <1>2 DEF EndOnLanding
<1>4. QED
  BY <1>1, <1>2, <1>3

-----------------------------------------------------------------------------
(* What other operations may do while one is in progress.                   *)

(* A route about to be saved: its landing profile may change when that is   *)
(* met, and go while nothing is written yet; its policy may change when     *)
(* that is met.                                                             *)
LEMMA RouteOpStays ==
  ASSUME NEW x \in Ops, RouteOpOK(x), op'[x].stage = op[x].stage,
         op[x].stage \in Saving =>
           LET l == op[x].new.landing  p == op[x].new.policy IN
           /\ op'[x].new = op[x].new /\ op[x].met \subseteq op'[x].met
           /\ l = None => "use" \notin op'[x].met
           /\ l # None =>
                \/ landing'[l] = landing[l]
                \/ landing'[l] = Gone /\ op[x].stage = "resolved"
                \/ /\ Exists(landing[l]) /\ Exists(landing'[l])
                   /\ landing'[l].on = landing[l].on \/ "use" \in op'[x].met
                   /\ landing'[l].picture = landing[l].picture \/ "picture" \in op'[x].met
           /\ op[x].stage = "copied" /\ p # None =>
                \/ policy'[p] = policy[p]
                \/ Exists(policy'[p]) /\ "policy" \in op'[x].met
  PROVE  RouteOpOK(x)'
<1>1. CASE op[x].stage \notin Saving
  BY <1>1 DEF RouteOpOK, Saving
<1>2. CASE op[x].stage \in Saving
  <2>1. PICK new : new = op[x].new /\ new = op'[x].new
    BY <1>2
  <2>2. PICK l, p : l = new.landing /\ p = new.policy
    OBVIOUS
  <2>3. /\ l = None => "use" \notin op'[x].met
        /\ l # None => landing'[l] # None
        /\ l # None /\ Exists(landing'[l]) =>
            /\ "use" \notin op'[x].met => landing'[l].on
            /\ "picture" \notin op'[x].met => new.picture = landing'[l].picture
    BY <1>2, <2>1, <2>2, BindingAssumption DEF RouteOpOK, Exists, BindingAssumption
  <2>4. op[x].stage = "copied" =>
          /\ l # None => Exists(landing'[l])
          /\ p # None => Exists(policy'[p]) /\ ("policy" \notin op'[x].met => new.set = policy'[p])
    BY <1>2, <2>1, <2>2 DEF RouteOpOK
  <2>5. QED
    BY <1>2, <2>1, <2>2, <2>3, <2>4 DEF RouteOpOK
<1>3. QED
  BY <1>1, <1>2

(* A switch of a landing profile: it is bound only when that is met.        *)
LEMMA LandingOpStays ==
  ASSUME NEW x \in Ops, LandingOpOK(x), op'[x].stage = op[x].stage,
         op[x].stage \in {"save", "toggle"} =>
           LET l == op[x].id IN
           /\ op'[x].id = l /\ op[x].met \subseteq op'[x].met
           /\ op[x].stage = "save" => op'[x].new = op[x].new
           /\ op[x].stage = "toggle" /\ landing[l] # None => landing'[l] # None
           /\ \/ "use" \in op'[x].met
              \/ /\ \A r \in Routes : Exists(route'[r]) /\ route'[r].landing = l =>
                                        Exists(route[r]) /\ route[r].landing = l
                 /\ \/ ~Exists(landing'[l])
                    \/ landing'[l] = landing[l]
                    \/ Exists(landing[l]) /\ (landing'[l].on => landing[l].on)
                    \/ op[x].stage = "save"
  PROVE  LandingOpOK(x)'
<1>1. CASE op[x].stage \notin {"save", "toggle"}
  BY <1>1 DEF LandingOpOK
<1>2. CASE op[x].stage \in {"save", "toggle"}
  <2>1. PICK l : l = op[x].id /\ l = op'[x].id
    BY <1>2
  <2>2. CASE "use" \in op'[x].met
    BY <1>2, <2>1, <2>2 DEF LandingOpOK
  <2>3. CASE "use" \notin op'[x].met
    <3>1. BoundTo(l)' \subseteq BoundTo(l)
      BY <1>2, <2>1, <2>3 DEF BoundTo
    <3>2. "use" \notin op[x].met
      BY <1>2, <2>3
    <3>3. CASE op[x].stage = "save"
      BY <1>2, <2>1, <3>1, <3>2, <3>3 DEF LandingOpOK
    <3>4. CASE op[x].stage = "toggle"
      BY <1>2, <2>1, <2>3, <3>1, <3>2, <3>4 DEF LandingOpOK
    <3>5. QED
      BY <1>2, <3>3, <3>4
  <2>4. QED
    BY <2>2, <2>3
<1>3. QED
  BY <1>1, <1>2

-----------------------------------------------------------------------------
(* Operations begin and end.                                                *)

(* A job that is in order may be started, or follow the one before.         *)
LEMMA JobStep ==
  ASSUME BindingInv, NEW o \in Ops, NEW job \in {Idle} \cup Jobs, op' = [op EXCEPT ![o] = job],
         UNCHANGED <<tables, history>>, RouteOpOK(o)', LandingOpOK(o)'
  PROVE  BindingInv'
<1>1. /\ op'[o] = job /\ (\A x \in Ops \ {o} : op'[x] = op[x])
      /\ op' \in [Ops -> {Idle} \cup Jobs]
  BY DEF BindingInv, TypeOK
<1>2. TypeOK' /\ BoundIsEnabled' /\ CopiesFollow'
  BY <1>1 DEF BindingInv, TypeOK, BoundIsEnabled, CopiesFollow, tables, history
<1>3. ASSUME NEW x \in Ops PROVE RouteOpOK(x)' /\ LandingOpOK(x)'
  <2>1. CASE x = o
    BY <2>1
  <2>2. CASE x # o
    BY <1>1, <2>2 DEF BindingInv, RouteOpOK, LandingOpOK, BoundTo, tables, history
  <2>3. QED
    BY <2>1, <2>2
<1>4. QED
  BY <1>2, <1>3 DEF BindingInv

(* An operation that only ends disturbs nothing.                            *)
LEMMA EndStep ==
  ASSUME BindingInv, NEW o \in Ops, End(o), UNCHANGED <<tables, history>>
  PROVE  BindingInv'
<1>1. op' = [op EXCEPT ![o] = Idle] /\ op'[o] = Idle
  BY DEF End, BindingInv, TypeOK
<1>2. RouteOpOK(o)' /\ LandingOpOK(o)'
  BY <1>1 DEF RouteOpOK, LandingOpOK, Idle, Saving
<1>3. QED
  BY <1>1, <1>2, JobStep

(* Screening switched off is one of the settings.                           *)
LEMMA OffIsSetting == Off \in Settings
  BY DEF Off, Settings, Stored

(* The checks before an operation's writes.                                 *)
LEMMA BeginStep ==
  ASSUME BindingInv, NEW o \in Ops, Begin(o)
  PROVE  BindingInv'
<1>1. ASSUME NEW job \in Jobs, Start(o, job)
      PROVE  /\ op' = [op EXCEPT ![o] = job] /\ op'[o] = job /\ UNCHANGED <<tables, history>>
             /\ UNCHANGED landing /\ UNCHANGED policy /\ UNCHANGED route
  BY <1>1 DEF Start, BindingInv, TypeOK, tables
<1>2. ASSUME NEW r \in Routes, NEW l \in Profiles \cup {None}, NEW pic \in Shown,
             NEW p \in Policies \cup {None}, StartSave(o, r, l, pic, p)
      PROVE  BindingInv'
  <2> DEFINE new == [landing |-> l, picture |-> pic, policy |-> p, set |-> Off]
             job == [stage |-> "resolved", id |-> r, update |-> Exists(route[r]), met |-> {},
                     new |-> new]
  <2>1. job \in Jobs
    <3>1. new \in Rows
      BY OffIsSetting DEF Rows
    <3>2. Exists(route[r]) \in BOOLEAN
      BY DEF Exists
    <3> HIDE DEF new
    <3>3. QED
      BY <3>1, <3>2 DEF Jobs
  <2>2. Start(o, job)
    BY <1>2 DEF StartSave
  <2>3. op' = [op EXCEPT ![o] = job] /\ op'[o] = job /\ UNCHANGED <<tables, history>>
        /\ UNCHANGED landing
    BY <1>1, <2>1, <2>2
  <2>4. l # None => Exists(landing[l]) /\ landing[l].on /\ pic = landing[l].picture
    BY <1>2 DEF StartSave
  <2>5. LandingOpOK(o)' /\ RouteOpOK(o)'
    BY <2>3, <2>4 DEF RouteOpOK, LandingOpOK, Saving, Exists
  <2>6. QED
    BY <2>1, <2>3, <2>5, JobStep
<1>3. ASSUME NEW l \in Profiles, NEW new \in Landings, StartSaveLanding(o, l, new)
      PROVE  BindingInv'
  <2> DEFINE job == [stage |-> "save", id |-> l, new |-> new, met |-> {}]
  <2>1. job \in Jobs /\ Start(o, job)
    BY <1>3 DEF StartSaveLanding, Jobs
  <2>2. /\ op' = [op EXCEPT ![o] = job] /\ op'[o] = job /\ UNCHANGED <<tables, history>>
        /\ UNCHANGED route
    BY <1>1, <2>1
  <2>3. new.on \/ BoundTo(l) = {}
    BY <1>3 DEF StartSaveLanding, MayDisable, Used
  <2>4. LandingOpOK(o)' /\ RouteOpOK(o)'
    BY <2>2, <2>3 DEF RouteOpOK, LandingOpOK, Saving, BoundTo
  <2>5. QED
    BY <2>1, <2>2, <2>4, JobStep
<1>4. ASSUME NEW l \in Profiles, StartToggleLanding(o, l)
      PROVE  BindingInv'
  <2> DEFINE job == [stage |-> "toggle", id |-> l, met |-> {}]
  <2>1. job \in Jobs /\ Start(o, job)
    BY <1>4 DEF StartToggleLanding, Jobs
  <2>2. /\ op' = [op EXCEPT ![o] = job] /\ op'[o] = job /\ UNCHANGED <<tables, history>>
        /\ UNCHANGED route /\ UNCHANGED landing
    BY <1>1, <2>1
  <2>3. Exists(landing[l]) /\ (landing[l].on => BoundTo(l) = {})
    BY <1>4 DEF StartToggleLanding, MayDisable, Used
  <2>4. LandingOpOK(o)' /\ RouteOpOK(o)'
    BY <2>2, <2>3 DEF RouteOpOK, LandingOpOK, Saving, BoundTo, Exists
  <2>5. QED
    BY <2>1, <2>2, <2>4, JobStep
<1>5. ASSUME NEW job \in Jobs, job.stage \in {"delete", "drop", "own"}, Start(o, job)
      PROVE  BindingInv'
  <2>1. op' = [op EXCEPT ![o] = job] /\ op'[o] = job /\ UNCHANGED <<tables, history>>
    BY <1>1, <1>5
  <2>2. LandingOpOK(o)' /\ RouteOpOK(o)'
    BY <1>5, <2>1 DEF RouteOpOK, LandingOpOK, Saving
  <2>3. QED
    BY <2>1, <2>2, JobStep
<1>6. ASSUME NEW l \in Profiles, StartDeleteLanding(o, l)
      PROVE  BindingInv'
  BY <1>5, <1>6 DEF StartDeleteLanding, Jobs
<1>7. ASSUME NEW p \in Policies, StartDeletePolicy(o, p)
      PROVE  BindingInv'
  BY <1>5, <1>7 DEF StartDeletePolicy, Jobs
<1>8. ASSUME NEW r \in Routes, NEW new \in Settings, StartOwn(o, r, new)
      PROVE  BindingInv'
  <2> DEFINE kept == IF new.token = NoToken
                       THEN [new EXCEPT !.token = route[r].set.token] ELSE new
             job == [stage |-> "own", id |-> r, met |-> {}, new |-> kept]
  <2>1. kept \in Settings
    BY <1>8, Bound DEF StartOwn, BindingInv, Settings
  <2> HIDE DEF kept
  <2>2. job \in Jobs /\ job.stage = "own"
    BY <2>1 DEF Jobs
  <2>3. Start(o, job)
    BY <1>8 DEF StartOwn, kept
  <2>4. QED
    BY <1>5, <2>2, <2>3
<1>9. QED
  BY <1>2, <1>3, <1>4, <1>6, <1>7, <1>8 DEF Begin

-----------------------------------------------------------------------------
(* Routes.                                                                  *)

(* upsert_route_children holds what it refers to.                           *)
LEMMA CopyStep ==
  ASSUME BindingInv, NEW o \in Ops, Copy(o)
  PROVE  BindingInv'
<1> DEFINE x == op[o]  l == x.new.landing  p == x.new.policy
           set == IF p = None THEN Off ELSE policy[p]
           job == [x EXCEPT !.stage = "copied", !.new.set = set]
<1>1. /\ x.stage = "resolved" /\ x \in RouteJobs /\ RouteOpOK(o)
      /\ l # None => Exists(landing[l])
      /\ p # None => Exists(policy[p])
      /\ UNCHANGED <<tables, history>> /\ UNCHANGED landing /\ UNCHANGED policy
  BY JobKinds DEF BindingInv, Copy, Saving, tables
<1>2. set \in Settings
  BY <1>1, OffIsSetting, RowKinds DEF BindingInv, RouteJobs, Rows
<1>3. op' = [op EXCEPT ![o] = job]
  BY DEF Copy, BindingInv, TypeOK
<1> HIDE DEF set
<1>4. [x.new EXCEPT !.set = set] \in Rows /\ job = [x EXCEPT !.stage = "copied", !.new = [x.new EXCEPT !.set = set]]
  BY <1>1, <1>2 DEF RouteJobs, Rows
<1>5. job \in RouteJobs /\ job \in Jobs
  BY <1>1, <1>4, JobsHold DEF RouteJobs, Saving
<1>6. /\ job.stage = "copied" /\ job.met = x.met /\ job.new.landing = l /\ job.new.policy = p
      /\ job.new.picture = x.new.picture /\ job.new.set = set
  BY <1>1, <1>4 DEF RouteJobs, Rows
<1>7. op'[o] = job
  BY <1>3 DEF BindingInv, TypeOK
<1> HIDE DEF job
<1>8. RouteOpOK(o)'
  BY <1>1, <1>6, <1>7 DEF RouteOpOK, Saving, set
<1>9. LandingOpOK(o)'
  BY <1>6, <1>7 DEF LandingOpOK
<1>10. QED
  BY <1>1, <1>3, <1>5, <1>8, <1>9, JobStep

(* The commit makes the route what was copied, and tells those who looked at*)
(* the uses of its landing profile.                                         *)
LEMMA CommitStep ==
  ASSUME BindingInv, NEW o \in Ops, Commit(o)
  PROVE  BindingInv'
<1>1. PICK id \in Routes, new \in Rows, met \in SUBSET {"use", "picture", "policy"} :
        /\ id = op[o].id /\ new = op[o].new /\ met = op[o].met
        /\ op[o].stage = "copied"
        /\ route' = [route EXCEPT ![id] = new]
        /\ stale' = (stale \ ({id} \X {"picture", "policy"})) \cup ({id} \X (met \ {"use"}))
        /\ crossed' = IF "use" \in met THEN crossed \cup {new.landing} ELSE crossed
        /\ EndOnLanding(o, new.landing, {"use"})
        /\ UNCHANGED <<landing, policy>>
  BY JobKinds DEF BindingInv, Commit, Saving, RouteJobs
<1>2. PICK l \in Profiles \cup {None}, p \in Policies \cup {None} : l = new.landing /\ p = new.policy
  BY DEF Rows
<1>3. /\ l = None => "use" \notin met
      /\ l # None => /\ Exists(landing[l])
                     /\ "use" \notin met => landing[l].on
                     /\ "picture" \notin met => new.picture = landing[l].picture
      /\ p # None => Exists(policy[p]) /\ ("policy" \notin met => new.set = policy[p])
  BY <1>1, <1>2 DEF BindingInv, RouteOpOK, Saving
<1>4. /\ route'[id] = new /\ (\A r \in Routes \ {id} : route'[r] = route[r])
      /\ route' \in [Routes -> {None, Gone} \cup Rows]
  BY <1>1 DEF BindingInv, TypeOK
<1>5. /\ op' \in [Ops -> {Idle} \cup Jobs] /\ op'[o] = Idle
      /\ \A x \in Ops \ {o} :
              /\ op'[x].stage = op[x].stage
              /\ op[x].stage \in Saving =>
                   /\ op'[x].new = op[x].new /\ op[x].met \subseteq op'[x].met
                   /\ op[x].new.landing = None => op'[x].met = op[x].met
              /\ op[x].stage \in {"save", "toggle"} =>
                   /\ op'[x].id = op[x].id /\ op[x].met \subseteq op'[x].met
                   /\ op[x].id = l => {"use"} \subseteq op'[x].met
              /\ op[x].stage = "save" => op'[x].new = op[x].new
  BY <1>1, <1>2, EndOnLandingEffect DEF BindingInv
<1>6. /\ crossed' \in SUBSET Profiles /\ crossed \subseteq crossed'
      /\ l \notin crossed' => "use" \notin met
      /\ stale' \in SUBSET (Routes \X {"picture", "policy"})
      /\ <<id, "picture">> \notin stale' => "picture" \notin met
      /\ <<id, "policy">> \notin stale' => "policy" \notin met
      /\ \A r \in Routes \ {id} : \A c : <<r, c>> \in stale' <=> <<r, c>> \in stale
  BY <1>1, <1>2, <1>3 DEF BindingInv, TypeOK
<1>7. TypeOK'
  <2>1. \A r \in Routes : Exists(route'[r]) =>
       /\ route'[r].landing # None => Exists(landing[route'[r].landing])
       /\ route'[r].policy # None => Exists(policy[route'[r].policy])
    BY <1>2, <1>3, <1>4 DEF BindingInv, TypeOK
  <2>2. QED
    BY <1>1, <1>4, <1>5, <1>6, <2>1 DEF BindingInv, TypeOK
<1>8. BoundIsEnabled'
  <2>1. ASSUME NEW r \in Routes, Exists(route'[r]), route'[r].landing \notin {None} \cup crossed'
        PROVE  landing[route'[r].landing].on
    BY <1>2, <1>3, <1>4, <1>6, <2>1 DEF BindingInv, BoundIsEnabled
  <2>2. QED
    BY <1>1, <2>1 DEF BoundIsEnabled
<1>9. CopiesFollow'
  <2>1. ASSUME NEW r \in Routes, Exists(route'[r])
        PROVE  /\ route'[r].landing # None /\ <<r, "picture">> \notin stale' =>
                    route'[r].picture = landing[route'[r].landing].picture
               /\ route'[r].policy # None /\ <<r, "policy">> \notin stale' =>
                    route'[r].set = policy[route'[r].policy]
    BY <1>2, <1>3, <1>4, <1>6, <2>1 DEF BindingInv, CopiesFollow
  <2>2. QED
    BY <1>1, <2>1 DEF CopiesFollow
<1>10. ASSUME NEW x \in Ops PROVE RouteOpOK(x)' /\ LandingOpOK(x)'
  <2>1. CASE x = o
    BY <1>5, <2>1 DEF RouteOpOK, LandingOpOK, Idle, Saving
  <2>2. CASE x # o
    <3>1. RouteOpOK(x) /\ LandingOpOK(x) /\ op'[x].stage = op[x].stage
      BY <1>5, <2>2 DEF BindingInv
    <3>2. RouteOpOK(x)'
      <4>1. op[x].stage \in Saving /\ op[x].new.landing = None => "use" \notin op'[x].met
        BY <1>5, <2>2, <3>1 DEF RouteOpOK
      <4>2. QED
        BY <1>1, <1>5, <2>2, <3>1, <4>1, RouteOpStays
    <3>3. LandingOpOK(x)'
      <4>1. ASSUME op[x].stage \in {"save", "toggle"}, op[x].id # l, NEW r \in Routes,
                   Exists(route'[r]), route'[r].landing = op[x].id
            PROVE  Exists(route[r]) /\ route[r].landing = op[x].id
        BY <1>2, <1>4, <4>1
      <4>2. QED
        BY <1>1, <1>5, <2>2, <3>1, <4>1, LandingOpStays
    <3>4. QED
      BY <3>2, <3>3
  <2>3. QED
    BY <2>1, <2>2
<1>11. QED
  BY <1>7, <1>8, <1>9, <1>10 DEF BindingInv

(* The deletion of a route unbinds its profiles.                            *)
LEMMA DeleteRouteStep ==
  ASSUME BindingInv, NEW r \in Routes, DeleteRoute(r)
  PROVE  BindingInv'
<1>1. /\ route'[r] = Gone /\ (\A s \in Routes \ {r} : route'[s] = route[s])
      /\ route' \in [Routes -> {None, Gone} \cup Rows]
      /\ UNCHANGED <<landing, policy, op, history>>
  BY DEF DeleteRoute, BindingInv, TypeOK
<1>2. \A s \in Routes : Exists(route'[s]) => route'[s] = route[s]
  BY <1>1, RowsExist
<1>3. TypeOK' /\ BoundIsEnabled' /\ CopiesFollow'
  BY <1>1, <1>2 DEF BindingInv, TypeOK, BoundIsEnabled, CopiesFollow, history
<1>4. ASSUME NEW x \in Ops PROVE RouteOpOK(x)' /\ LandingOpOK(x)'
  <2>1. RouteOpOK(x) /\ LandingOpOK(x)
    BY DEF BindingInv
  <2>2. RouteOpOK(x)'
    BY <1>1, <2>1 DEF RouteOpOK
  <2>3. LandingOpOK(x)'
    BY <1>1, <1>2, <2>1, LandingOpStays
  <2>4. QED
    BY <2>2, <2>3
<1>5. QED
  BY <1>3, <1>4 DEF BindingInv

-----------------------------------------------------------------------------
(* Landing profiles.                                                        *)

(* A new landing profile is nobody's.                                       *)
LEMMA InsertLandingStep ==
  ASSUME BindingInv, NEW l \in Profiles, NEW new \in Landings, InsertLanding(l, new)
  PROVE  BindingInv'
<1>1. /\ landing[l] = None /\ landing'[l] = new /\ Exists(landing'[l])
      /\ \A k \in Profiles \ {l} : landing'[k] = landing[k]
      /\ landing' \in [Profiles -> {None, Gone} \cup Landings]
      /\ UNCHANGED <<policy, route, op, history>>
  BY RowsExist DEF InsertLanding, BindingInv, TypeOK
<1>2. \A r \in Routes : Exists(route[r]) /\ route[r].landing # None =>
        route[r].landing \in Profiles \ {l}
  BY <1>1, Bound, RowsExist DEF BindingInv
<1>3. TypeOK'
  BY <1>1, <1>2 DEF BindingInv, TypeOK, history
<1>4. BoundIsEnabled' /\ CopiesFollow'
  BY <1>1, <1>2 DEF BindingInv, BoundIsEnabled, CopiesFollow, history
<1>5. ASSUME NEW x \in Ops PROVE RouteOpOK(x)' /\ LandingOpOK(x)'
  <2>1. RouteOpOK(x) /\ LandingOpOK(x) /\ op'[x] = op[x]
    BY <1>1 DEF BindingInv
  <2>2. op[x].stage \in Saving /\ op[x].new.landing # None => op[x].new.landing \in Profiles \ {l}
    BY <1>1, <2>1, JobKinds DEF BindingInv, RouteOpOK, RouteJobs, Rows
  <2>3. op[x].stage \in {"save", "toggle"} => op[x].id \in Profiles
    BY JobKinds DEF BindingInv, SaveJobs, SwitchJobs
  <2>4. op[x].stage = "toggle" => op[x].id \in Profiles \ {l}
    BY <1>1, <2>1, <2>3 DEF RouteOpOK, LandingOpOK
  <2>5. RouteOpOK(x)'
    <3>1. op[x].stage \in Saving /\ op[x].new.landing = None => "use" \notin op[x].met
      BY <2>1 DEF RouteOpOK
    <3>2. QED
      BY <1>1, <2>1, <2>2, <3>1, RouteOpStays
  <2>6. LandingOpOK(x)'
    BY <1>1, <2>1, <2>4, LandingOpStays
  <2>7. QED
    BY <2>5, <2>6
<1>6. QED
  BY <1>3, <1>4, <1>5 DEF BindingInv

(* A landing profile changes: who is bound to it has been asked, or is met; *)
(* the copies of its picture follow, or need not.                           *)
LEMMA BecomesStep ==
  ASSUME BindingInv, NEW o \in Ops, NEW l \in Profiles, NEW new \in Landings,
         NEW change \in SUBSET {"use", "picture"},
         Exists(landing[l]), Becomes(o, l, new), EndOnLanding(o, l, change), "use" \in change,
         new.picture = landing[l].picture \/ "picture" \in change,
         ~new.on /\ "use" \notin op[o].met => BoundTo(l) = {},
         route' \in [Routes -> {None, Gone} \cup Rows],
         stale' \in SUBSET (Routes \X {"picture", "policy"}),
         \A r \in Routes :
           \/ /\ route'[r] = route[r]
              /\ r \in BoundTo(l) => new.picture = landing[l].picture
              /\ <<r, "picture">> \in stale' <=> <<r, "picture">> \in stale
           \/ r \in BoundTo(l) /\ route'[r] = [route[r] EXCEPT !.picture = new.picture],
         \A r \in Routes : <<r, "policy">> \in stale' <=> <<r, "policy">> \in stale
  PROVE  BindingInv'
<1>1. /\ landing'[l] = new /\ Exists(landing'[l]) /\ (\A k \in Profiles \ {l} : landing'[k] = landing[k])
      /\ landing' \in [Profiles -> {None, Gone} \cup Landings] /\ UNCHANGED policy
  BY RowsExist DEF Becomes, BindingInv, TypeOK
<1>2. ASSUME NEW r \in Routes
      PROVE  /\ Exists(route'[r]) <=> Exists(route[r])
             /\ Exists(route[r]) =>
                  /\ route'[r].landing = route[r].landing /\ route'[r].policy = route[r].policy
                  /\ route'[r].set = route[r].set
                  /\ route[r].landing # l => route'[r].picture = route[r].picture
                  /\ route[r].landing = l =>
                       \/ route'[r].picture = new.picture
                       \/ /\ route'[r].picture = route[r].picture
                          /\ new.picture = landing[l].picture
                          /\ <<r, "picture">> \in stale' <=> <<r, "picture">> \in stale
  <2>1. CASE /\ route'[r] = route[r]
             /\ r \in BoundTo(l) => new.picture = landing[l].picture
             /\ <<r, "picture">> \in stale' <=> <<r, "picture">> \in stale
    BY <2>1 DEF BoundTo
  <2>2. CASE r \in BoundTo(l) /\ route'[r] = [route[r] EXCEPT !.picture = new.picture]
    <3>1. route[r] \in Rows /\ new.picture \in Shown /\ route[r].landing = l /\ Exists(route[r])
      BY <2>2, Bound DEF BoundTo, BindingInv, Landings
    <3>2. route'[r] \in Rows /\ Exists(route'[r])
      BY <2>2, <3>1, RowsExist DEF Rows
    <3>3. QED
      BY <2>2, <3>1, <3>2 DEF Rows
  <2>3. QED
    BY <2>1, <2>2
<1>3. /\ op' \in [Ops -> {Idle} \cup Jobs] /\ op'[o] = Idle
      /\ \A x \in Ops \ {o} :
              /\ op'[x].stage = op[x].stage
              /\ op[x].stage \in Saving =>
                   /\ op'[x].new = op[x].new /\ op[x].met \subseteq op'[x].met
                   /\ op[x].new.landing = None => op'[x].met = op[x].met
                   /\ op[x].new.landing = l /\ l # None => change \subseteq op'[x].met
              /\ op[x].stage \in {"save", "toggle"} =>
                   /\ op'[x].id = op[x].id /\ op[x].met \subseteq op'[x].met
                   /\ op[x].id = l => change \subseteq op'[x].met
              /\ op[x].stage = "save" => op'[x].new = op[x].new
  BY EndOnLandingEffect DEF BindingInv
<1>4. /\ crossed' \in SUBSET Profiles /\ crossed \ {l} \subseteq crossed'
      /\ ~new.on /\ "use" \in op[o].met => l \in crossed'
  BY DEF Becomes, BindingInv, TypeOK
<1>5. \A r \in Routes : Exists(route[r]) /\ route[r].landing # None => route[r].landing \in Profiles
  BY Bound DEF BindingInv
<1>6. TypeOK'
  <2>1. \A r \in Routes : Exists(route'[r]) =>
       /\ route'[r].landing # None => Exists(landing'[route'[r].landing])
       /\ route'[r].policy # None => Exists(policy'[route'[r].policy])
    <3>1. ASSUME NEW r \in Routes, Exists(route'[r])
          PROVE  /\ route'[r].landing # None => Exists(landing'[route'[r].landing])
                 /\ route'[r].policy # None => Exists(policy'[route'[r].policy])
      <4>1. /\ Exists(route[r]) /\ route'[r].landing = route[r].landing
            /\ route'[r].policy = route[r].policy /\ policy' = policy
        BY <1>1, <1>2, <3>1
      <4>2. /\ route[r].landing # None => Exists(landing[route[r].landing])
            /\ route[r].policy # None => Exists(policy[route[r].policy])
        BY <4>1 DEF BindingInv, TypeOK
      <4>3. route[r].landing # None => Exists(landing'[route[r].landing])
        <5>1. CASE route[r].landing = l
          BY <1>1, <5>1
        <5>2. CASE route[r].landing # l
          BY <1>1, <1>5, <4>1, <4>2, <5>2
        <5>3. QED
          BY <5>1, <5>2
      <4>4. QED
        BY <4>1, <4>2, <4>3
    <3>2. QED
      BY <3>1
  <2>2. QED
    BY <1>1, <1>3, <1>4, <2>1 DEF Becomes, BindingInv, TypeOK
<1>7. BoundIsEnabled'
  <2>1. ASSUME NEW r \in Routes, Exists(route'[r]), route'[r].landing \notin {None} \cup crossed'
        PROVE  landing'[route'[r].landing].on
    <3>1. Exists(route[r]) /\ route'[r].landing = route[r].landing
      BY <1>2, <2>1
    <3>2. CASE route[r].landing = l
      <4>1. r \in BoundTo(l)
        BY <3>1, <3>2 DEF BoundTo
      <4>2. QED
        BY <1>1, <1>4, <2>1, <3>1, <3>2, <4>1
    <3>3. CASE route[r].landing # l
      BY <1>1, <1>4, <1>5, <2>1, <3>1, <3>3 DEF BindingInv, BoundIsEnabled
    <3>4. QED
      BY <3>2, <3>3
  <2>2. QED
    BY <2>1 DEF BoundIsEnabled
<1>8. CopiesFollow'
  <2>1. ASSUME NEW r \in Routes, Exists(route'[r])
        PROVE  /\ route'[r].landing # None /\ <<r, "picture">> \notin stale' =>
                    route'[r].picture = landing'[route'[r].landing].picture
               /\ route'[r].policy # None /\ <<r, "policy">> \notin stale' =>
                    route'[r].set = policy[route'[r].policy]
    <3>1. Exists(route[r]) /\ route'[r].landing = route[r].landing
      BY <1>2, <2>1
    <3>2. route'[r].policy # None /\ <<r, "policy">> \notin stale' =>
            route'[r].set = policy[route'[r].policy]
      BY <1>2, <3>1 DEF BindingInv, CopiesFollow
    <3>3. CASE route[r].landing = l
      BY <1>1, <1>2, <3>1, <3>2, <3>3 DEF BindingInv, CopiesFollow
    <3>4. CASE route[r].landing # l
      <4>1. <<r, "picture">> \in stale' <=> <<r, "picture">> \in stale
        BY <3>4 DEF BoundTo
      <4>2. QED
        BY <1>1, <1>2, <1>5, <3>1, <3>2, <3>4, <4>1 DEF BindingInv, CopiesFollow
    <3>5. QED
      BY <3>3, <3>4
  <2>2. QED
    BY <1>1, <2>1 DEF CopiesFollow
<1>9. ASSUME NEW x \in Ops PROVE RouteOpOK(x)' /\ LandingOpOK(x)'
  <2>1. CASE x = o
    BY <1>3, <2>1 DEF RouteOpOK, LandingOpOK, Idle, Saving
  <2>2. CASE x # o
    <3>1. RouteOpOK(x) /\ LandingOpOK(x) /\ op'[x].stage = op[x].stage
      BY <1>3, <2>2 DEF BindingInv
    <3>2. RouteOpOK(x)'
      <4>1. op[x].stage \in Saving =>
              /\ op[x].new.landing \in Profiles \cup {None}
              /\ op[x].new.landing = None => "use" \notin op'[x].met
        BY <1>3, <2>2, <3>1, JobKinds DEF BindingInv, RouteOpOK, RouteJobs, Rows
      <4>2. ASSUME op[x].stage \in Saving, op[x].new.landing = l, l # None
            PROVE  /\ "use" \in op'[x].met
                   /\ new.picture = landing[l].picture \/ "picture" \in op'[x].met
        BY <1>3, <2>2, <4>2
      <4>3. QED
        BY <1>1, <1>3, <2>2, <3>1, <4>1, <4>2, RouteOpStays
    <3>3. LandingOpOK(x)'
      <4>1. op[x].stage \in {"save", "toggle"} => op[x].id \in Profiles
        BY JobKinds DEF BindingInv, SaveJobs, SwitchJobs
      <4>2. op[x].stage \in {"save", "toggle"} /\ op[x].id # l => landing'[op[x].id] = landing[op[x].id]
        BY <1>1, <4>1
      <4>3. landing'[l] # None
        BY <1>1 DEF Exists
      <4>4. \A r \in Routes : Exists(route'[r]) => Exists(route[r]) /\ route[r].landing = route'[r].landing
        BY <1>2
      <4>5. QED
        BY <1>3, <2>2, <3>1, <4>2, <4>3, <4>4, LandingOpStays
    <3>4. QED
      BY <3>2, <3>3
  <2>3. QED
    BY <2>1, <2>2
<1>10. QED
  BY <1>6, <1>7, <1>8, <1>9 DEF BindingInv

(* Saving a landing profile, which may switch it off.                       *)
LEMMA SaveLandingStep ==
  ASSUME BindingInv, NEW o \in Ops, SaveLanding(o)
  PROVE  BindingInv'
<1>1. PICK l \in Profiles, new \in Landings :
        /\ l = op[o].id /\ new = op[o].new /\ op[o].stage = "save" /\ Exists(landing[l])
        /\ Becomes(o, l, new) /\ route' = Carried(l, new.picture)
        /\ stale' = stale \ (BoundTo(l) \X {"picture"})
        /\ EndOnLanding(o, l, {"use", "picture"})
  BY JobKinds DEF BindingInv, SaveLanding, SaveJobs
<1>2. ~new.on /\ "use" \notin op[o].met => BoundTo(l) = {}
  BY <1>1 DEF BindingInv, LandingOpOK
<1>3. \A r \in Routes : route'[r] =
        IF r \in BoundTo(l) THEN [route[r] EXCEPT !.picture = new.picture] ELSE route[r]
  BY <1>1 DEF Carried
<1>4. route' \in [Routes -> {None, Gone} \cup Rows]
  <2>1. \A r \in BoundTo(l) : [route[r] EXCEPT !.picture = new.picture] \in Rows
    BY Bound DEF BindingInv, BoundTo, Landings, Rows
  <2>2. QED
    BY <1>1, <2>1 DEF Carried, BindingInv, TypeOK
<1>5. /\ stale' \in SUBSET (Routes \X {"picture", "policy"})
      /\ \A r \in Routes : <<r, "policy">> \in stale' <=> <<r, "policy">> \in stale
      /\ \A r \in Routes \ BoundTo(l) : <<r, "picture">> \in stale' <=> <<r, "picture">> \in stale
  BY <1>1 DEF BindingInv, TypeOK
<1>6. \A r \in Routes :
           \/ /\ route'[r] = route[r]
              /\ r \in BoundTo(l) => new.picture = landing[l].picture
              /\ <<r, "picture">> \in stale' <=> <<r, "picture">> \in stale
           \/ r \in BoundTo(l) /\ route'[r] = [route[r] EXCEPT !.picture = new.picture]
  BY <1>3, <1>5
<1>7. QED
  BY <1>1, <1>2, <1>4, <1>5, <1>6, BecomesStep

(* Switching a landing profile on or off.                                   *)
LEMMA ToggleLandingStep ==
  ASSUME BindingInv, NEW o \in Ops, ToggleLanding(o)
  PROVE  BindingInv'
<1>1. PICK l \in Profiles :
        /\ l = op[o].id /\ op[o].stage = "toggle" /\ Exists(landing[l])
        /\ Becomes(o, l, [landing[l] EXCEPT !.on = ~@])
        /\ EndOnLanding(o, l, {"use"}) /\ UNCHANGED <<route, stale>>
  BY JobKinds DEF BindingInv, ToggleLanding, SwitchJobs
<1>2. PICK new \in Landings :
        new = [landing[l] EXCEPT !.on = ~@] /\ new.picture = landing[l].picture /\ new.on = ~landing[l].on
  <2>1. landing[l] \in Landings
    BY <1>1, RowKinds DEF BindingInv
  <2>2. PICK new : new = [landing[l] EXCEPT !.on = ~@]
    OBVIOUS
  <2>3. new \in Landings
    BY <2>1, <2>2 DEF Landings
  <2>4. new.picture = landing[l].picture /\ new.on = ~landing[l].on
    BY <2>1, <2>2 DEF Landings
  <2>5. QED
    BY <2>2, <2>3, <2>4
<1>3. ~new.on /\ "use" \notin op[o].met => BoundTo(l) = {}
  BY <1>1, <1>2 DEF BindingInv, LandingOpOK
<1>4. route' \in [Routes -> {None, Gone} \cup Rows] /\ stale' \in SUBSET (Routes \X {"picture", "policy"})
  BY <1>1 DEF BindingInv, TypeOK
<1>5. QED
  BY <1>1, <1>2, <1>3, <1>4, BecomesStep

(* A deleted profile leaves no route that refers to it.                     *)
LEMMA DeleteLandingStep ==
  ASSUME BindingInv, NEW o \in Ops, DeleteLanding(o)
  PROVE  BindingInv'
<1>1. PICK l \in Profiles :
        /\ l = op[o].id /\ op[o].stage = "delete" /\ Exists(landing[l])
        /\ \A x \in Ops : op[x].stage = "copied" => op[x].new.landing # l
        /\ landing' = [landing EXCEPT ![l] = Gone] /\ route' = WithoutLanding(l)
        /\ End(o) /\ UNCHANGED <<policy, history>>
  BY JobKinds DEF BindingInv, DeleteLanding, SwitchJobs
<1>2. /\ landing'[l] = Gone /\ (\A k \in Profiles \ {l} : landing'[k] = landing[k])
      /\ landing' \in [Profiles -> {None, Gone} \cup Landings]
  BY <1>1 DEF BindingInv, TypeOK
<1>3. ASSUME NEW r \in Routes
      PROVE  /\ route'[r] \in {None, Gone} \cup Rows
             /\ Exists(route'[r]) <=> Exists(route[r])
             /\ Exists(route[r]) =>
                  /\ route'[r].policy = route[r].policy /\ route'[r].set = route[r].set
                  /\ route'[r].picture = route[r].picture
                  /\ route'[r].landing = IF route[r].landing = l THEN None ELSE route[r].landing
  <2>1. CASE r \in BoundTo(l)
    <3>1. route'[r] = [route[r] EXCEPT !.landing = None]
      BY <1>1, <2>1 DEF WithoutLanding
    <3>2. route[r] \in Rows /\ route[r].landing = l /\ Exists(route[r])
      BY <2>1, Bound DEF BoundTo, BindingInv
    <3>3. route'[r] \in Rows
      BY <3>1, <3>2 DEF Rows
    <3>4. QED
      BY <3>1, <3>2, <3>3, RowsExist DEF Rows
  <2>2. CASE r \notin BoundTo(l)
    BY <1>1, <2>2 DEF WithoutLanding, BoundTo, BindingInv, TypeOK
  <2>3. QED
    BY <2>1, <2>2
<1>4. /\ op'[o] = Idle /\ (\A x \in Ops \ {o} : op'[x] = op[x])
      /\ op' \in [Ops -> {Idle} \cup Jobs]
  BY <1>1 DEF End, BindingInv, TypeOK
<1>5. \A r \in Routes : Exists(route[r]) /\ route[r].landing # None => route[r].landing \in Profiles
  BY Bound DEF BindingInv
<1>6. TypeOK'
  <2>1. \A r \in Routes : Exists(route'[r]) =>
       /\ route'[r].landing # None => Exists(landing'[route'[r].landing])
       /\ route'[r].policy # None => Exists(policy[route'[r].policy])
    BY <1>2, <1>3, <1>5 DEF BindingInv, TypeOK
  <2>2. route' \in [Routes -> {None, Gone} \cup Rows]
    BY <1>1, <1>3 DEF WithoutLanding
  <2>3. QED
    BY <1>1, <1>2, <1>4, <2>1, <2>2 DEF BindingInv, TypeOK, history
<1>7. BoundIsEnabled' /\ CopiesFollow'
  <2>1. /\ \A r \in Routes : Exists(route'[r]) /\ route'[r].landing # None =>
             /\ route'[r].landing = route[r].landing
             /\ landing'[route'[r].landing] = landing[route[r].landing]
        /\ UNCHANGED <<policy, stale, crossed>>
    BY <1>1, <1>2, <1>3, <1>5 DEF history
  <2>2. BoundIsEnabled'
    BY <1>3, <2>1 DEF BindingInv, BoundIsEnabled
  <2>3. CopiesFollow'
    BY <1>3, <2>1 DEF BindingInv, CopiesFollow
  <2>4. QED
    BY <2>2, <2>3
<1>8. ASSUME NEW x \in Ops PROVE RouteOpOK(x)' /\ LandingOpOK(x)'
  <2>1. CASE x = o
    BY <1>4, <2>1 DEF RouteOpOK, LandingOpOK, Idle, Saving
  <2>2. CASE x # o
    <3>1. RouteOpOK(x) /\ LandingOpOK(x) /\ op'[x] = op[x]
      BY <1>4, <2>2 DEF BindingInv
    <3>2. RouteOpOK(x)'
      <4>1. op[x].stage \in Saving =>
              /\ op[x].new.landing \in Profiles \cup {None}
              /\ op[x].new.landing = None => "use" \notin op[x].met
              /\ op[x].stage = "resolved" \/ op[x].new.landing # l
        BY <1>1, <3>1, JobKinds DEF BindingInv, RouteOpOK, RouteJobs, Rows, Saving
      <4>2. QED
        BY <1>1, <1>2, <3>1, <4>1, RouteOpStays
    <3>3. LandingOpOK(x)'
      <4>1. op[x].stage \in {"save", "toggle"} => op[x].id \in Profiles
        BY JobKinds DEF BindingInv, SaveJobs, SwitchJobs
      <4>2. op[x].stage \in {"save", "toggle"} =>
              /\ landing'[op[x].id] = landing[op[x].id] \/ ~Exists(landing'[op[x].id])
              /\ landing[op[x].id] # None => landing'[op[x].id] # None
        BY <1>2, <4>1, RowsExist, BindingAssumption DEF BindingAssumption
      <4>3. ASSUME op[x].stage \in {"save", "toggle"}, NEW r \in Routes,
                   Exists(route'[r]), route'[r].landing = op[x].id
            PROVE  Exists(route[r]) /\ route[r].landing = op[x].id
        BY <1>3, <4>1, <4>3, BindingAssumption DEF BindingAssumption
      <4>4. QED
        BY <3>1, <4>2, <4>3, LandingOpStays
    <3>4. QED
      BY <3>2, <3>3
  <2>3. QED
    BY <2>1, <2>2
<1>9. QED
  BY <1>6, <1>7, <1>8 DEF BindingInv

-----------------------------------------------------------------------------
(* Policies.                                                                *)

(* A new policy, of screening or of Meta, is nobody's.                      *)
LEMMA InsertPolicyStep ==
  ASSUME BindingInv, NEW p \in Policies, NEW new \in Settings, InsertPolicy(p, new)
  PROVE  BindingInv'
<1>1. /\ policy[p] = None /\ policy'[p] = new
      /\ \A k \in Policies \ {p} : policy'[k] = policy[k]
      /\ policy' \in [Policies -> {None, Gone} \cup Settings]
      /\ UNCHANGED <<landing, route, op, history>>
  BY DEF InsertPolicy, BindingInv, TypeOK
<1>2. \A r \in Routes : Exists(route[r]) /\ route[r].policy # None =>
        route[r].policy \in Policies \ {p}
  BY <1>1, Bound, RowsExist DEF BindingInv
<1>3. TypeOK'
  BY <1>1, <1>2 DEF BindingInv, TypeOK, history
<1>4. BoundIsEnabled' /\ CopiesFollow'
  BY <1>1, <1>2 DEF BindingInv, BoundIsEnabled, CopiesFollow, history
<1>5. ASSUME NEW x \in Ops PROVE RouteOpOK(x)' /\ LandingOpOK(x)'
  <2>1. RouteOpOK(x) /\ LandingOpOK(x) /\ op'[x] = op[x]
    BY <1>1 DEF BindingInv
  <2>2. op[x].stage = "copied" /\ op[x].new.policy # None => op[x].new.policy \in Policies \ {p}
    BY <1>1, <2>1, JobKinds, RowsExist DEF BindingInv, RouteOpOK, RouteJobs, Rows, Saving
  <2>3. RouteOpOK(x)'
    <3>1. op[x].stage \in Saving /\ op[x].new.landing = None => "use" \notin op[x].met
      BY <2>1 DEF RouteOpOK
    <3>2. QED
      BY <1>1, <2>1, <2>2, <3>1, RouteOpStays
  <2>4. LandingOpOK(x)'
    BY <1>1, <2>1, LandingOpStays
  <2>5. QED
    BY <2>3, <2>4
<1>6. QED
  BY <1>3, <1>4, <1>5 DEF BindingInv

(* A policy changes together with its copies: those that were right stay    *)
(* so, and a route about to commit an older copy has met the change.        *)
LEMMA ChangePolicyStep ==
  ASSUME BindingInv, NEW p \in Policies, NEW new \in Settings,
         NEW set \in [Settings -> Settings], ChangePolicy(p, new, set),
         stale' \in SUBSET (Routes \X {"picture", "policy"}),
         \A r \in Routes :
           /\ <<r, "picture">> \in stale' <=> <<r, "picture">> \in stale
           /\ IF r \in Screened(p)
                THEN <<r, "policy">> \notin stale' => set[route[r].set] = new
                ELSE <<r, "policy">> \in stale' <=> <<r, "policy">> \in stale
  PROVE  BindingInv'
<1>1. /\ policy'[p] = new /\ Exists(policy'[p])
      /\ \A k \in Policies \ {p} : policy'[k] = policy[k]
      /\ policy' \in [Policies -> {None, Gone} \cup Settings]
      /\ UNCHANGED landing /\ UNCHANGED crossed
  BY RowsExist DEF ChangePolicy, BindingInv, TypeOK
<1>2. ASSUME NEW r \in Routes
      PROVE  /\ route'[r] \in {None, Gone} \cup Rows
             /\ Exists(route'[r]) <=> Exists(route[r])
             /\ Exists(route[r]) =>
                  /\ route'[r].landing = route[r].landing /\ route'[r].policy = route[r].policy
                  /\ route'[r].picture = route[r].picture
                  /\ route'[r].set = IF route[r].policy = p THEN set[route[r].set] ELSE route[r].set
  <2>1. CASE r \in Screened(p)
    <3>1. route'[r] = [route[r] EXCEPT !.set = set[route[r].set]]
      BY <2>1 DEF ChangePolicy
    <3>2. /\ route[r] \in Rows /\ route[r].policy = p /\ Exists(route[r])
          /\ set[route[r].set] \in Settings
      BY <2>1, Bound DEF Screened, BindingInv
    <3>3. route'[r] \in Rows
      BY <3>1, <3>2 DEF Rows
    <3>4. QED
      BY <3>1, <3>2, <3>3, RowsExist DEF Rows
  <2>2. CASE r \notin Screened(p)
    BY <2>2 DEF ChangePolicy, Screened, BindingInv, TypeOK
  <2>3. QED
    BY <2>1, <2>2
<1>3. ASSUME NEW x \in Ops
      PROVE  /\ op'[x] \in {Idle} \cup Jobs /\ op'[x].stage = op[x].stage
             /\ op[x].stage \in Saving =>
                  /\ op'[x].new = op[x].new /\ op[x].met \subseteq op'[x].met
                  /\ "use" \in op'[x].met <=> "use" \in op[x].met
             /\ op[x].stage = "copied" /\ op[x].new.policy = p => "policy" \in op'[x].met
             /\ op[x].stage \notin Saving => op'[x] = op[x]
  <2>1. CASE op[x].stage = "copied" /\ op[x].new.policy = p
    <3>1. op'[x] = [op[x] EXCEPT !.met = @ \cup {"policy"}]
      BY <2>1 DEF ChangePolicy
    <3>2. op[x] \in RouteJobs
      BY <2>1, JobKinds DEF BindingInv, Saving
    <3>3. op'[x] \in RouteJobs
      BY <3>1, <3>2 DEF RouteJobs
    <3>4. QED
      BY <2>1, <3>1, <3>2, <3>3, JobsHold DEF RouteJobs, Saving
  <2>2. CASE ~(op[x].stage = "copied" /\ op[x].new.policy = p)
    <3>1. op'[x] = op[x]
      BY <2>2 DEF ChangePolicy
    <3>2. QED
      BY <2>2, <3>1, JobKinds DEF BindingInv
  <2>3. QED
    BY <2>1, <2>2
<1>4. /\ route' \in [Routes -> {None, Gone} \cup Rows]
      /\ op' \in [Ops -> {Idle} \cup Jobs]
  BY <1>2, <1>3 DEF ChangePolicy
<1>5. \A r \in Routes : Exists(route[r]) /\ route[r].policy # None => route[r].policy \in Policies
  BY Bound DEF BindingInv
<1>6. TypeOK'
  <2>1. ASSUME NEW r \in Routes, Exists(route'[r])
        PROVE  /\ route'[r].landing # None => Exists(landing[route'[r].landing])
               /\ route'[r].policy # None => Exists(policy'[route'[r].policy])
    <3>1. /\ Exists(route[r]) /\ route'[r].landing = route[r].landing
          /\ route'[r].policy = route[r].policy
      BY <1>2, <2>1
    <3>2. /\ route[r].landing # None => Exists(landing[route[r].landing])
          /\ route[r].policy # None => Exists(policy[route[r].policy])
      BY <3>1 DEF BindingInv, TypeOK
    <3>3. route[r].policy # None => Exists(policy'[route[r].policy])
      <4>1. CASE route[r].policy = p
        BY <1>1, <4>1
      <4>2. CASE route[r].policy # p
        BY <1>1, <1>5, <3>1, <3>2, <4>2
      <4>3. QED
        BY <4>1, <4>2
    <3>4. QED
      BY <3>1, <3>2, <3>3
  <2>2. QED
    BY <1>1, <1>4, <2>1 DEF BindingInv, TypeOK
<1>7. BoundIsEnabled'
  BY <1>1, <1>2 DEF BindingInv, BoundIsEnabled
<1>8. CopiesFollow'
  <2>1. ASSUME NEW r \in Routes, Exists(route'[r])
        PROVE  /\ route'[r].landing # None /\ <<r, "picture">> \notin stale' =>
                    route'[r].picture = landing[route'[r].landing].picture
               /\ route'[r].policy # None /\ <<r, "policy">> \notin stale' =>
                    route'[r].set = policy'[route'[r].policy]
    <3>1. /\ Exists(route[r]) /\ route'[r].landing = route[r].landing
          /\ route'[r].policy = route[r].policy /\ route'[r].picture = route[r].picture
          /\ route'[r].set = IF route[r].policy = p THEN set[route[r].set] ELSE route[r].set
      BY <1>2, <2>1
    <3>2. route'[r].landing # None /\ <<r, "picture">> \notin stale' =>
            route'[r].picture = landing[route'[r].landing].picture
      BY <3>1 DEF BindingInv, CopiesFollow
    <3>3. route'[r].policy # None /\ <<r, "policy">> \notin stale' =>
            route'[r].set = policy'[route'[r].policy]
      <4>1. CASE route[r].policy = p
        <5>1. r \in Screened(p)
          BY <3>1, <4>1 DEF Screened
        <5>2. QED
          BY <1>1, <3>1, <4>1, <5>1
      <4>2. CASE route[r].policy # p
        <5>1. r \notin Screened(p)
          BY <4>2 DEF Screened
        <5>2. QED
          BY <1>1, <1>5, <3>1, <4>2, <5>1 DEF BindingInv, CopiesFollow
      <4>3. QED
        BY <4>1, <4>2
    <3>4. QED
      BY <3>2, <3>3
  <2>2. QED
    BY <1>1, <2>1 DEF CopiesFollow
<1>9. ASSUME NEW x \in Ops PROVE RouteOpOK(x)' /\ LandingOpOK(x)'
  <2>1. RouteOpOK(x) /\ LandingOpOK(x)
    BY DEF BindingInv
  <2>2. RouteOpOK(x)'
    <3>1. op[x].stage \in Saving =>
            /\ op[x].new.landing = None => "use" \notin op'[x].met
            /\ op[x].new.policy \in Policies \cup {None}
      BY <1>3, <2>1, JobKinds DEF BindingInv, RouteOpOK, RouteJobs, Rows
    <3>2. op[x].stage = "copied" /\ op[x].new.policy # None =>
            \/ policy'[op[x].new.policy] = policy[op[x].new.policy]
            \/ Exists(policy'[op[x].new.policy]) /\ "policy" \in op'[x].met
      BY <1>1, <1>3, <3>1 DEF Saving
    <3>3. QED
      BY <1>1, <1>3, <2>1, <3>1, <3>2, RouteOpStays
  <2>3. LandingOpOK(x)'
    <3>1. op[x].stage \in {"save", "toggle"} => op'[x] = op[x]
      BY <1>3 DEF Saving
    <3>2. QED
      BY <1>1, <1>2, <1>3, <2>1, <3>1, LandingOpStays
  <2>4. QED
    BY <2>2, <2>3
<1>10. QED
  BY <1>6, <1>7, <1>8, <1>9 DEF BindingInv

(* A copy that is not stale says what the policy says.                      *)
LEMMA FreshCopy ==
  ASSUME BindingInv, NEW p \in Policies, NEW r \in Screened(p), <<r, "policy">> \notin stale
  PROVE  route[r].set = policy[p]
BY BindingAssumption DEF BindingAssumption, BindingInv, CopiesFollow, Screened

(* Saving a policy rewrites the copies of its routes in the same            *)
(* transaction.                                                             *)
LEMMA SavePolicyStep ==
  ASSUME BindingInv, NEW p \in Policies, NEW new \in Settings, SavePolicy(p, new)
  PROVE  BindingInv'
<1> DEFINE set == [old \in Settings |-> new]
<1>1. set \in [Settings -> Settings] /\ ChangePolicy(p, new, set)
  BY DEF SavePolicy
<1>2. stale' = stale \ (Screened(p) \X {"policy"})
  BY DEF SavePolicy
<1>3. \A r \in Screened(p) : set[route[r].set] = new
  BY Bound DEF BindingInv, Screened
<1> HIDE DEF set
<1>4. stale' \in SUBSET (Routes \X {"picture", "policy"})
  BY <1>2 DEF BindingInv, TypeOK
<1>5. QED
  BY <1>1, <1>2, <1>3, <1>4, ChangePolicyStep

(* save_meta_profile without a token, and the switch, leave what they do not*)
(* name as it is, in the policy and in a faithful copy alike.               *)
LEMMA SaveKeepingTokenStep ==
  ASSUME BindingInv, NEW p \in Policies, NEW on \in BOOLEAN, SaveKeepingToken(p, on)
  PROVE  BindingInv'
<1> DEFINE set == [old \in Settings |-> [old EXCEPT !.on = on]]
           new == [policy[p] EXCEPT !.on = on]
<1>1. ChangePolicy(p, new, set) /\ stale' = stale
  BY DEF SaveKeepingToken
<1>2. set \in [Settings -> Settings]
  BY DEF Settings
<1>3. policy[p] \in Settings
  BY <1>1, RowKinds DEF ChangePolicy, BindingInv
<1>4. set[policy[p]] = new
  BY <1>3
<1>5. new \in Settings
  BY <1>3 DEF Settings
<1> HIDE DEF set, new
<1>6. \A r \in Screened(p) : <<r, "policy">> \notin stale => set[route[r].set] = new
  BY <1>4, FreshCopy
<1>7. stale' \in SUBSET (Routes \X {"picture", "policy"})
  BY <1>1 DEF BindingInv, TypeOK
<1>8. QED
  BY <1>1, <1>2, <1>5, <1>6, <1>7, ChangePolicyStep

(* So does switching it on or off.                                          *)
LEMMA TogglePolicyStep ==
  ASSUME BindingInv, NEW p \in Policies, TogglePolicy(p)
  PROVE  BindingInv'
<1>1. policy[p] \in Settings /\ Exists(policy[p])
  BY RowKinds DEF TogglePolicy, ChangePolicy, BindingInv
<1>2. PICK on \in BOOLEAN : on = ~policy[p].on
  BY <1>1 DEF Settings
<1>3. SaveKeepingToken(p, on)
  <2>1. [policy[p] EXCEPT !.on = ~@] = [policy[p] EXCEPT !.on = on]
    BY <1>1, <1>2 DEF Settings
  <2>2. [old \in Settings |-> Switched(old, ~policy[p].on)] = [old \in Settings |-> [old EXCEPT !.on = on]]
    BY <1>2 DEF Switched
  <2>3. QED
    BY <2>1, <2>2 DEF TogglePolicy, SaveKeepingToken
<1>4. QED
  BY <1>3, SaveKeepingTokenStep

(* The same for a deleted policy as for a deleted landing profile.          *)
LEMMA DeletePolicyStep ==
  ASSUME BindingInv, NEW o \in Ops, DeletePolicy(o)
  PROVE  BindingInv'
<1>1. PICK p \in Policies :
        /\ p = op[o].id /\ op[o].stage = "drop" /\ Exists(policy[p])
        /\ \A x \in Ops : op[x].stage = "copied" => op[x].new.policy # p
        /\ policy' = [policy EXCEPT ![p] = Gone]
        /\ route' = [r \in Routes |->
                       IF r \in Screened(p) THEN [route[r] EXCEPT !.policy = None] ELSE route[r]]
        /\ End(o) /\ UNCHANGED <<landing, history>>
  BY JobKinds DEF BindingInv, DeletePolicy
<1>2. /\ policy'[p] = Gone /\ (\A k \in Policies \ {p} : policy'[k] = policy[k])
      /\ policy' \in [Policies -> {None, Gone} \cup Settings]
  BY <1>1 DEF BindingInv, TypeOK
<1>3. ASSUME NEW r \in Routes
      PROVE  /\ route'[r] \in {None, Gone} \cup Rows
             /\ Exists(route'[r]) <=> Exists(route[r])
             /\ Exists(route[r]) =>
                  /\ route'[r].landing = route[r].landing /\ route'[r].set = route[r].set
                  /\ route'[r].picture = route[r].picture
                  /\ route'[r].policy = IF route[r].policy = p THEN None ELSE route[r].policy
  <2>1. CASE r \in Screened(p)
    <3>1. route'[r] = [route[r] EXCEPT !.policy = None]
      BY <1>1, <2>1
    <3>2. route[r] \in Rows /\ route[r].policy = p /\ Exists(route[r])
      BY <2>1, Bound DEF Screened, BindingInv
    <3>3. route'[r] \in Rows
      BY <3>1, <3>2 DEF Rows
    <3>4. QED
      BY <3>1, <3>2, <3>3, RowsExist DEF Rows
  <2>2. CASE r \notin Screened(p)
    BY <1>1, <2>2 DEF Screened, BindingInv, TypeOK
  <2>3. QED
    BY <2>1, <2>2
<1>4. /\ op'[o] = Idle /\ (\A x \in Ops \ {o} : op'[x] = op[x])
      /\ op' \in [Ops -> {Idle} \cup Jobs]
  BY <1>1 DEF End, BindingInv, TypeOK
<1>5. \A r \in Routes : Exists(route[r]) /\ route[r].policy # None => route[r].policy \in Policies
  BY Bound DEF BindingInv
<1>6. TypeOK'
  <2>1. \A r \in Routes : Exists(route'[r]) =>
       /\ route'[r].landing # None => Exists(landing[route'[r].landing])
       /\ route'[r].policy # None => Exists(policy'[route'[r].policy])
    BY <1>2, <1>3, <1>5 DEF BindingInv, TypeOK
  <2>2. route' \in [Routes -> {None, Gone} \cup Rows]
    BY <1>1, <1>3
  <2>3. QED
    BY <1>1, <1>2, <1>4, <2>1, <2>2 DEF BindingInv, TypeOK, history
<1>7. BoundIsEnabled' /\ CopiesFollow'
  <2>1. /\ \A r \in Routes : Exists(route'[r]) /\ route'[r].policy # None =>
             /\ route'[r].policy = route[r].policy
             /\ policy'[route'[r].policy] = policy[route'[r].policy]
        /\ UNCHANGED <<landing, stale, crossed>>
    BY <1>1, <1>2, <1>3, <1>5 DEF history
  <2>2. BoundIsEnabled'
    BY <1>3, <2>1 DEF BindingInv, BoundIsEnabled
  <2>3. CopiesFollow'
    BY <1>3, <2>1 DEF BindingInv, CopiesFollow
  <2>4. QED
    BY <2>2, <2>3
<1>8. ASSUME NEW x \in Ops PROVE RouteOpOK(x)' /\ LandingOpOK(x)'
  <2>1. CASE x = o
    BY <1>4, <2>1 DEF RouteOpOK, LandingOpOK, Idle, Saving
  <2>2. CASE x # o
    <3>1. RouteOpOK(x) /\ LandingOpOK(x) /\ op'[x] = op[x]
      BY <1>4, <2>2 DEF BindingInv
    <3>2. RouteOpOK(x)'
      <4>1. /\ op[x].stage \in Saving /\ op[x].new.landing = None => "use" \notin op[x].met
            /\ op[x].stage = "copied" /\ op[x].new.policy # None =>
                 op[x].new.policy \in Policies \ {p}
        BY <1>1, <3>1, JobKinds DEF BindingInv, RouteOpOK, RouteJobs, Rows, Saving
      <4>2. QED
        BY <1>1, <1>2, <3>1, <4>1, RouteOpStays
    <3>3. LandingOpOK(x)'
      BY <1>1, <1>3, <3>1, LandingOpStays
    <3>4. QED
      BY <3>2, <3>3
  <2>3. QED
    BY <2>1, <2>2
<1>9. QED
  BY <1>6, <1>7, <1>8 DEF BindingInv

(* Settings saved past the policy are known to be.                          *)
LEMMA SaveOwnStep ==
  ASSUME BindingInv, NEW o \in Ops, SaveOwn(o)
  PROVE  BindingInv'
<1>1. PICK r \in Routes, new \in Settings :
        /\ r = op[o].id /\ new = op[o].new /\ op[o].stage = "own" /\ Exists(route[r])
        /\ route' = [route EXCEPT ![r].set = new]
        /\ stale' = stale \cup {<<r, "policy">>}
        /\ End(o) /\ UNCHANGED <<landing, policy, crossed>>
  BY JobKinds DEF BindingInv, SaveOwn
<1>2. /\ route'[r] = [route[r] EXCEPT !.set = new] /\ (\A s \in Routes \ {r} : route'[s] = route[s])
      /\ DOMAIN route' = Routes /\ route' = [s \in Routes |-> route'[s]]
  BY <1>1 DEF BindingInv, TypeOK
<1>3. /\ route'[r] \in Rows /\ Exists(route'[r]) /\ route'[r].landing = route[r].landing
      /\ route'[r].policy = route[r].policy /\ route'[r].picture = route[r].picture
  <2>1. route[r] \in Rows
    BY <1>1, Bound DEF BindingInv
  <2>2. route'[r] \in Rows
    BY <1>2, <2>1 DEF Rows
  <2>3. QED
    BY <1>2, <2>1, <2>2, RowsExist DEF Rows
<1>4. \A s \in Routes :
        /\ route'[s] \in {None, Gone} \cup Rows
        /\ Exists(route'[s]) <=> Exists(route[s])
        /\ Exists(route[s]) =>
             /\ route'[s].landing = route[s].landing /\ route'[s].policy = route[s].policy
             /\ route'[s].picture = route[s].picture
             /\ route'[s].set = route[s].set \/ s = r
  BY <1>1, <1>2, <1>3 DEF BindingInv, TypeOK
<1>5. route' \in [Routes -> {None, Gone} \cup Rows]
  BY <1>2, <1>4
<1>6. /\ op'[o] = Idle /\ (\A x \in Ops \ {o} : op'[x] = op[x])
      /\ op' \in [Ops -> {Idle} \cup Jobs]
  BY <1>1 DEF End, BindingInv, TypeOK
<1>7. /\ stale \subseteq stale' /\ <<r, "policy">> \in stale'
      /\ stale' \in SUBSET (Routes \X {"picture", "policy"})
  BY <1>1 DEF BindingInv, TypeOK
<1>8. TypeOK'
  BY <1>1, <1>4, <1>5, <1>6, <1>7 DEF BindingInv, TypeOK
<1>9. BoundIsEnabled' /\ CopiesFollow'
  <2>1. BoundIsEnabled'
    BY <1>1, <1>4 DEF BindingInv, BoundIsEnabled
  <2>2. CopiesFollow'
    BY <1>1, <1>4, <1>7 DEF BindingInv, CopiesFollow
  <2>3. QED
    BY <2>1, <2>2
<1>10. ASSUME NEW x \in Ops PROVE RouteOpOK(x)' /\ LandingOpOK(x)'
  <2>1. CASE x = o
    BY <1>6, <2>1 DEF RouteOpOK, LandingOpOK, Idle, Saving
  <2>2. CASE x # o
    <3>1. RouteOpOK(x) /\ LandingOpOK(x) /\ op'[x] = op[x]
      BY <1>6, <2>2 DEF BindingInv
    <3>2. RouteOpOK(x)'
      BY <1>1, <3>1 DEF RouteOpOK
    <3>3. LandingOpOK(x)'
      BY <1>1, <1>4, <3>1, LandingOpStays
    <3>4. QED
      BY <3>2, <3>3
  <2>3. QED
    BY <2>1, <2>2
<1>11. QED
  BY <1>8, <1>9, <1>10 DEF BindingInv

-----------------------------------------------------------------------------
(* The invariant.                                                           *)

(* No profiles and no routes at the start.                                  *)
LEMMA InitInv == Init => BindingInv
<1> SUFFICES ASSUME Init PROVE BindingInv
  OBVIOUS
<1>1. \A r \in Routes : ~Exists(route[r])
  BY RowsExist DEF Init
<1>2. TypeOK
  BY <1>1 DEF Init, TypeOK
<1>3. \A o \in Ops : RouteOpOK(o) /\ LandingOpOK(o)
  BY DEF Init, RouteOpOK, LandingOpOK, Idle, Saving
<1>4. QED
  BY <1>1, <1>2, <1>3 DEF BindingInv, BoundIsEnabled, CopiesFollow

(* The invariant is inductive.                                              *)
LEMMA NextInv == BindingInv /\ [Next]_vars => BindingInv'
<1> SUFFICES ASSUME BindingInv, [Next]_vars PROVE BindingInv'
  OBVIOUS
<1>1. ASSUME NEW o \in Ops, Begin(o) PROVE BindingInv'
  BY <1>1, BeginStep
<1>2. ASSUME NEW o \in Ops, Continue(o) PROVE BindingInv'
  <2>1. CASE Copy(o)
    BY <2>1, CopyStep
  <2>2. CASE Commit(o)
    BY <2>2, CommitStep
  <2>3. CASE SaveLanding(o)
    BY <2>3, SaveLandingStep
  <2>4. CASE ToggleLanding(o)
    BY <2>4, ToggleLandingStep
  <2>5. CASE DeleteLanding(o)
    BY <2>5, DeleteLandingStep
  <2>6. CASE DeletePolicy(o)
    BY <2>6, DeletePolicyStep
  <2>7. CASE SaveOwn(o)
    BY <2>7, SaveOwnStep
  <2>8. CASE Fail(o)
    BY <2>8, EndStep DEF Fail
  <2>9. QED
    BY <1>2, <2>1, <2>2, <2>3, <2>4, <2>5, <2>6, <2>7, <2>8 DEF Continue
<1>3. ASSUME AtOnce PROVE BindingInv'
  BY <1>3, DeleteRouteStep, InsertLandingStep, InsertPolicyStep, SavePolicyStep,
     SaveKeepingTokenStep, TogglePolicyStep DEF AtOnce
<1>4. CASE UNCHANGED vars
  BY <1>4 DEF vars, tables, history, BindingInv, TypeOK, BoundIsEnabled, CopiesFollow,
     RouteOpOK, LandingOpOK, BoundTo
<1>5. QED
  BY <1>1, <1>2, <1>3, <1>4 DEF Next

(* In every behaviour a route about to be saved knows the profiles it will  *)
(* bind, or has met the request that changed them, and the same holds of a  *)
(* profile about to be switched off and the routes that bind it.            *)
THEOREM BindingInvariant == Spec => []BindingInv
BY InitInv, NextInv, PTL DEF Spec

(* Every route that exists refers to profiles that exist, whatever deletion *)
(* or saving ran meanwhile (the foreign keys of route_*_configs, with the   *)
(* profiles' rows locked by upsert_route_children until the commit).        *)
THEOREM BindingTypeCorrect == Spec => []TypeOK
<1>1. BindingInv => TypeOK
  BY DEF BindingInv
<1>2. QED
  BY <1>1, BindingInvariant, PTL

(* resolve_route_resources and landing_profile_is_used, between them, keep  *)
(* routes off disabled landing profiles: only a binding and a switching-off *)
(* of the same profile that overlap can leave one there.                    *)
THEOREM BoundProfilesAreOn == Spec => []BoundIsEnabled
<1>1. BindingInv => BoundIsEnabled
  BY DEF BindingInv
<1>2. QED
  BY <1>1, BindingInvariant, PTL

(* The updates of the copies in save_landing_profile, save_cloak_policy,    *)
(* save_meta_profile and the switches keep every copy that no overlapping   *)
(* saving, and no save_route_config past the policy, has written.           *)
THEOREM CopiesAreFaithful == Spec => []CopiesFollow
<1>1. BindingInv => CopiesFollow
  BY DEF BindingInv
<1>2. QED
  BY <1>1, BindingInvariant, PTL

-----------------------------------------------------------------------------
(* Deletion.                                                                *)

(* A landing profile goes by its deletion alone; so does a policy.          *)
LEMMA LandingGoes ==
  ASSUME BindingInv, [Next]_vars, NEW l \in Profiles, Exists(landing[l]), landing'[l] = Gone
  PROVE  \E o \in Ops : DeleteLanding(o) /\ op[o].id = l
<1>1. landing # landing'
  BY RowsExist
<1>2. ASSUME NEW o \in Ops, NEW k \in Profiles, NEW new \in Landings, Becomes(o, k, new)
      PROVE  FALSE
  <2>1. landing' = [landing EXCEPT ![k] = new]
    BY <1>2 DEF Becomes
  <2>2. landing'[l] = landing[l] \/ landing'[l] = new
    BY <2>1 DEF BindingInv, TypeOK
  <2>3. QED
    BY <2>2, RowsExist
<1>3. ASSUME NEW o \in Ops, SaveLanding(o) PROVE FALSE
  BY <1>2, <1>3, JobKinds DEF SaveLanding, SaveJobs, BindingInv
<1>4. ASSUME NEW o \in Ops, ToggleLanding(o) PROVE FALSE
  <2>1. PICK k \in Profiles : k = op[o].id /\ Exists(landing[k])
    BY <1>4, JobKinds DEF ToggleLanding, SwitchJobs, BindingInv
  <2>2. [landing[k] EXCEPT !.on = ~@] \in Landings
    BY <2>1, RowKinds DEF BindingInv, Landings
  <2>3. QED
    BY <1>2, <1>4, <2>1, <2>2 DEF ToggleLanding
<1>5. ASSUME NEW k \in Profiles, NEW new \in Landings, InsertLanding(k, new) PROVE FALSE
  <2>1. landing'[l] = landing[l] \/ landing'[l] = new
    BY <1>5 DEF InsertLanding, BindingInv, TypeOK
  <2>2. QED
    BY <2>1, RowsExist
<1>6. ASSUME NEW o \in Ops, Begin(o) PROVE FALSE
  BY <1>1, <1>6 DEF Begin, StartSave, StartSaveLanding, StartToggleLanding, StartDeleteLanding,
     StartDeletePolicy, StartOwn, Start, tables
<1>7. ASSUME NEW o \in Ops, Continue(o) PROVE DeleteLanding(o)
  BY <1>1, <1>3, <1>4, <1>7 DEF Continue, Copy, Commit, DeletePolicy, SaveOwn, Fail, tables
<1>8. ~AtOnce
  BY <1>1, <1>5 DEF AtOnce, DeleteRoute, InsertPolicy, SavePolicy, SaveKeepingToken, TogglePolicy,
     ChangePolicy
<1>9. PICK o \in Ops : DeleteLanding(o)
  BY <1>1, <1>6, <1>7, <1>8 DEF Next, vars, tables
<1>10. op[o].id = l
  <2>1. landing' = [landing EXCEPT ![op[o].id] = Gone]
    BY <1>9 DEF DeleteLanding
  <2>2. op[o].id # l => landing'[l] = landing[l]
    BY <2>1 DEF BindingInv, TypeOK
  <2>3. QED
    BY <2>2, RowsExist
<1>11. QED
  BY <1>9, <1>10

(* A policy goes only by being deleted.                                     *)
LEMMA PolicyGoes ==
  ASSUME BindingInv, [Next]_vars, NEW p \in Policies, Exists(policy[p]), policy'[p] = Gone
  PROVE  \E o \in Ops : DeletePolicy(o) /\ op[o].id = p
<1>1. policy # policy'
  BY RowsExist
<1>2. ASSUME NEW k \in Policies, NEW new \in Settings, policy' = [policy EXCEPT ![k] = new]
      PROVE  FALSE
  <2>1. policy'[p] = policy[p] \/ policy'[p] = new
    BY <1>2 DEF BindingInv, TypeOK
  <2>2. QED
    BY <2>1, RowsExist
<1>3. ASSUME NEW k \in Policies, NEW new \in Settings, InsertPolicy(k, new) \/ SavePolicy(k, new)
      PROVE  FALSE
  BY <1>2, <1>3 DEF InsertPolicy, SavePolicy, ChangePolicy
<1>4. ASSUME NEW k \in Policies, NEW on, on \in BOOLEAN,
             Exists(policy[k]), policy' = [policy EXCEPT ![k] = [policy[k] EXCEPT !.on = on]]
      PROVE  FALSE
  <2>1. [policy[k] EXCEPT !.on = on] \in Settings
    BY <1>4, RowKinds DEF BindingInv, Settings
  <2>2. QED
    BY <1>2, <1>4, <2>1
<1>5. ASSUME NEW k \in Policies, NEW on \in BOOLEAN, SaveKeepingToken(k, on) PROVE FALSE
  BY <1>4, <1>5 DEF SaveKeepingToken, ChangePolicy
<1>6. ASSUME NEW k \in Policies, TogglePolicy(k) PROVE FALSE
  <2>1. Exists(policy[k]) /\ policy' = [policy EXCEPT ![k] = [policy[k] EXCEPT !.on = ~@]]
    BY <1>6 DEF TogglePolicy, ChangePolicy
  <2>2. PICK on \in BOOLEAN : on = ~policy[k].on
    BY <2>1, RowKinds DEF BindingInv, Settings
  <2>3. [policy[k] EXCEPT !.on = ~@] = [policy[k] EXCEPT !.on = on]
    BY <2>1, <2>2, RowKinds DEF BindingInv, Settings
  <2>4. QED
    BY <1>4, <2>1, <2>2, <2>3
<1>7. ASSUME NEW o \in Ops, Begin(o) PROVE FALSE
  BY <1>1, <1>7 DEF Begin, StartSave, StartSaveLanding, StartToggleLanding, StartDeleteLanding,
     StartDeletePolicy, StartOwn, Start, tables
<1>8. ASSUME NEW o \in Ops, Continue(o) PROVE DeletePolicy(o)
  BY <1>1, <1>8 DEF Continue, Copy, Commit, SaveLanding, ToggleLanding, Becomes, DeleteLanding,
     SaveOwn, Fail, tables
<1>9. ~AtOnce
  BY <1>1, <1>3, <1>5, <1>6 DEF AtOnce, DeleteRoute, InsertLanding
<1>10. PICK o \in Ops : DeletePolicy(o)
  BY <1>1, <1>7, <1>8, <1>9 DEF Next, vars, tables
<1>11. op[o].id = p
  <2>1. policy' = [policy EXCEPT ![op[o].id] = Gone]
    BY <1>10 DEF DeletePolicy
  <2>2. op[o].id # p => policy'[p] = policy[p]
    BY <2>1 DEF BindingInv, TypeOK
  <2>3. QED
    BY <2>2, RowsExist
<1>12. QED
  BY <1>10, <1>11

(* ON DELETE SET NULL, and the copies that COALESCE falls back to: a        *)
(* profile deleted under a route that was bound to it in the meantime takes *)
(* nothing off its pages.                                                   *)
THEOREM DeletedProfilesLeavePages == Spec => DeletionKeepsPage
<1> DEFINE Keeps(r) ==
      Exists(route[r]) /\ Exists(route'[r]) =>
         /\ \A l \in Profiles :
              route[r].landing = l /\ landing'[l] = Gone /\ <<r, "picture">> \notin stale =>
                Picture(r)' = Picture(r)
         /\ \A p \in Policies :
              route[r].policy = p /\ policy'[p] = Gone /\ <<r, "policy">> \notin stale =>
                Screening(r)' = Screening(r)
<1>1. ASSUME BindingInv, [Next]_vars, NEW r \in Routes, Exists(route[r])
      PROVE  Keeps(r)
  <2>1. ASSUME NEW l \in Profiles, route[r].landing = l, landing'[l] = Gone,
               <<r, "picture">> \notin stale
        PROVE  Picture(r)' = Picture(r)
    <3>1. l # None /\ Exists(landing[l]) /\ route[r] \in Rows
      BY <1>1, <2>1, Bound, BindingAssumption DEF BindingAssumption, BindingInv
    <3>2. PICK o \in Ops : DeleteLanding(o) /\ op[o].id = l
      BY <1>1, <2>1, <3>1, LandingGoes
    <3>3. route'[r] = [route[r] EXCEPT !.landing = None]
      BY <1>1, <2>1, <3>2 DEF DeleteLanding, WithoutLanding, BoundTo
    <3>4. route'[r].landing = None /\ route'[r].picture = route[r].picture
      BY <3>1, <3>3 DEF Rows
    <3>5. route[r].picture = landing[l].picture
      BY <1>1, <2>1, <3>1 DEF BindingInv, CopiesFollow
    <3>6. QED
      BY <2>1, <3>1, <3>4, <3>5 DEF Picture
  <2>2. ASSUME NEW p \in Policies, route[r].policy = p, policy'[p] = Gone,
               <<r, "policy">> \notin stale
        PROVE  Screening(r)' = Screening(r)
    <3>1. p # None /\ Exists(policy[p]) /\ route[r] \in Rows
      BY <1>1, <2>2, Bound, BindingAssumption DEF BindingAssumption, BindingInv
    <3>2. PICK o \in Ops : DeletePolicy(o) /\ op[o].id = p
      BY <1>1, <2>2, <3>1, PolicyGoes
    <3>3. route'[r] = [route[r] EXCEPT !.policy = None]
      BY <1>1, <2>2, <3>2 DEF DeletePolicy, Screened
    <3>4. route'[r].policy = None /\ route'[r].set = route[r].set
      BY <3>1, <3>3 DEF Rows
    <3>5. route[r].set = policy[p]
      BY <1>1, <2>2, <3>1 DEF BindingInv, CopiesFollow
    <3>6. QED
      BY <2>2, <3>1, <3>4, <3>5 DEF Screening
  <2>3. QED
    BY <2>1, <2>2
<1>2. BindingInv /\ [Next]_vars => [\A r \in Routes : Keeps(r)]_vars
  BY <1>1
<1>3. QED
  BY <1>2, BindingInvariant, PTL DEF Spec, DeletionKeepsPage

=============================================================================
