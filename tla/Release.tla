---------------------------- MODULE Release ----------------------------
(* A blue-green release (ops/release.ps1) and a deployment (ops/deploy.ps1) *)
(* of the application: the two files that name the active colour, the       *)
(* configuration the running Caddy has read from them, the two containers   *)
(* and their images, the migrations of the shared database, and the line a  *)
(* release leaves in its history.  Windows PowerShell raises no error when  *)
(* a docker command fails; only the cmdlets that write a file raise one.    *)
EXTENDS Naturals

CONSTANTS
    Builds,          \* the versions of the source tree that can be built
    Unsound,         \* the builds that fail while they start
    Embedded,        \* Embedded[b]: how many migrations build b carries
    MaxFaults        \* bound on failed commands, cuts and crashes

ASSUME BuildsAssumption ==
    /\ Builds # {} /\ Unsound \subseteq Builds
    /\ Embedded \in [Builds -> Nat]
    /\ MaxFaults \in Nat

VARIABLES
    oneImage,        \* .env gives both colours one image name, as .env.example does
    proxy, tls,      \* the colours deploy/active_proxy.conf and active_tls_ask.conf name
    caddy,           \* the two colours of the configuration Caddy runs
    app,             \* app[c]: the container of colour c and the build it runs
    image,           \* image[n]: the build that image name n stands for
    schema,          \* how many migrations the database has applied
    job,             \* the release under way, and the step it is at
    outcome,         \* the last line of the history that is not "started"
    faults           \* how many faults have happened

vars == <<oneImage, proxy, tls, caddy, app, image, schema, job, outcome, faults>>

Colors == {"blue", "green"}
Other(c) == CHOOSE d \in Colors : d # c
Files == [proxy |-> proxy, tls |-> tls]
Image(c) == IF oneImage THEN "blue" ELSE c
Running(c) == app[c].state # "stopped"
Fault == faults < MaxFaults /\ faults' = faults + 1
NoFault == UNCHANGED faults

Idle == [step |-> "idle", active |-> "blue", keep |-> FALSE, clean |-> TRUE]
(* job.clean: Caddy and the files agreed when the release began, and no     *)
(* command of it has failed since.                                          *)
To(s) == job' = [job EXCEPT !.step = s]
Spoiled(s) == job' = [job EXCEPT !.step = s, !.clean = FALSE]
Target == Other(job.active)
Named(o) == IF o.status = "completed" THEN Other(o.from) ELSE o.from

TypeOK ==
    /\ oneImage \in BOOLEAN
    /\ proxy \in Colors /\ tls \in Colors
    /\ caddy \in [proxy : Colors, tls : Colors]
    /\ app \in [Colors -> [state : {"stopped", "starting", "ready"}, build : Builds]]
    /\ image \in [Colors -> Builds]
    /\ schema \in Nat
    /\ job \in [step : {"idle", "up", "build", "recreate", "proxy", "tls", "reload",
                        "stop", "record", "undo_proxy", "undo_tls", "undo_reload",
                        "undo_record"},
                active : Colors, keep : BOOLEAN, clean : BOOLEAN]
    /\ outcome \in [status : {"none", "completed", "rolled_back"}, from : Colors]
    /\ faults \in 0..MaxFaults

(* The repository's own files name blue; a first deployment has started     *)
(* both colours from one build.                                             *)
Init ==
    /\ oneImage \in BOOLEAN
    /\ proxy = "blue" /\ tls = "blue"
    /\ caddy = [proxy |-> "blue", tls |-> "blue"]
    /\ \E b \in Builds \ Unsound :
          /\ app = [c \in Colors |-> [state |-> "ready", build |-> b]]
          /\ image = [c \in Colors |-> b]
          /\ schema = Embedded[b]
    /\ job = Idle
    /\ outcome = [status |-> "none", from |-> "blue"]
    /\ faults = 0

------------------------------------------------------------------------
(* The containers.                                                        *)

(* An application starts when its migrations run: the database must hold  *)
(* no migration the build does not know.  Docker restarts it until then.  *)
Boots(b) == b \notin Unsound /\ Embedded[b] >= schema

Boot(c) ==
    /\ app[c].state = "starting" /\ Boots(app[c].build)
    /\ app' = [app EXCEPT ![c].state = "ready"]
    /\ schema' = Embedded[app[c].build]
    /\ UNCHANGED <<oneImage, proxy, tls, caddy, image, job, outcome, faults>>

(* A build that cannot start may still apply the first of its migrations. *)
FailedBoot(c) ==
    /\ app[c].state = "starting" /\ app[c].build \in Unsound
    /\ \E n \in schema .. Embedded[app[c].build] : schema' = n
    /\ UNCHANGED <<oneImage, proxy, tls, caddy, app, image, job, outcome, faults>>

Crash(c) ==
    /\ app[c].state = "ready"
    /\ Fault
    /\ app' = [app EXCEPT ![c].state = "starting"]
    /\ UNCHANGED <<oneImage, proxy, tls, caddy, image, schema, job, outcome>>

CaddyRestart ==
    /\ Fault
    /\ caddy' = Files
    /\ UNCHANGED <<oneImage, proxy, tls, app, image, schema, job, outcome>>

Fresh(c, img) == [state |-> "starting", build |-> img[Image(c)]]

(* "compose up" starts a stopped container and recreates one whose image  *)
(* name stands for another build by now.                                  *)
UpApp(img) ==
    [c \in Colors |->
        IF ~Running(c) \/ app[c].build # img[Image(c)] THEN Fresh(c, img) ELSE app[c]]

------------------------------------------------------------------------
(* release.ps1, one action per command that can fail on its own.          *)

Begin(keep) ==
    /\ job.step = "idle"
    /\ job' = [step |-> "up", active |-> proxy, keep |-> keep, clean |-> caddy = Files]
    /\ UNCHANGED <<oneImage, proxy, tls, caddy, app, image, schema, outcome, faults>>

(* Caddy depends on both colours: "up postgres caddy" brings both up.     *)
UpServices ==
    /\ job.step = "up"
    /\ \/ app' = UpApp(image) /\ To("build") /\ NoFault
       \/ app' = app /\ Spoiled("build") /\ Fault
    /\ UNCHANGED <<oneImage, proxy, tls, caddy, image, schema, outcome>>

BuildTarget ==
    /\ job.step = "build"
    /\ \/ \E b \in Builds : image' = [image EXCEPT ![Image(Target)] = b]
          /\ To("recreate") /\ NoFault
       \/ image' = image /\ Spoiled("recreate") /\ Fault
    /\ UNCHANGED <<oneImage, proxy, tls, caddy, app, schema, outcome>>

(* The health of the target is asked for after this, and not looked at.   *)
RecreateTarget ==
    /\ job.step = "recreate"
    /\ \/ app' = [app EXCEPT ![Target] = Fresh(Target, image)] /\ To("proxy") /\ NoFault
       \/ app' = app /\ Spoiled("proxy") /\ Fault
    /\ UNCHANGED <<oneImage, proxy, tls, caddy, image, schema, outcome>>

WriteProxy ==
    /\ job.step = "proxy"
    /\ \/ proxy' = Target /\ To("tls") /\ NoFault
       \/ proxy' = proxy /\ Spoiled("undo_proxy") /\ Fault
    /\ UNCHANGED <<oneImage, tls, caddy, app, image, schema, outcome>>

(* Variant: the old colour is stopped before Caddy is told.               *)
WriteTlsAskThenStop ==
    /\ job.step = "tls"
    /\ \/ /\ tls' = Target /\ To("reload") /\ NoFault
          /\ app' = [app EXCEPT ![job.active].state = IF job.keep THEN @ ELSE "stopped"]
       \/ tls' = tls /\ app' = app /\ Spoiled("undo_proxy") /\ Fault
    /\ UNCHANGED <<oneImage, proxy, caddy, image, schema, outcome>>

WriteTlsAsk ==
    /\ job.step = "tls"
    /\ \/ tls' = Target /\ To("reload") /\ NoFault
       \/ tls' = tls /\ Spoiled("undo_proxy") /\ Fault
    /\ UNCHANGED <<oneImage, proxy, caddy, app, image, schema, outcome>>

(* The smoke check that follows runs in a process of its own: like that   *)
(* of the reload, its failure is not seen.                                *)
AfterReload == IF job.keep THEN "record" ELSE "stop"

Reload ==
    /\ job.step = "reload"
    /\ \/ caddy' = Files /\ To(AfterReload) /\ NoFault
       \/ caddy' = caddy /\ Spoiled(AfterReload) /\ Fault
    /\ UNCHANGED <<oneImage, proxy, tls, app, image, schema, outcome>>

StopOld ==
    /\ job.step = "stop"
    /\ \/ app' = [app EXCEPT ![job.active].state = "stopped"] /\ To("record") /\ NoFault
       \/ app' = app /\ Spoiled("record") /\ Fault
    /\ UNCHANGED <<oneImage, proxy, tls, caddy, image, schema, outcome>>

RecordCompleted ==
    /\ job.step = "record"
    /\ \/ /\ outcome' = [status |-> "completed", from |-> job.active]
          /\ job' = Idle /\ NoFault
       \/ outcome' = outcome /\ Spoiled("undo_proxy") /\ Fault
    /\ UNCHANGED <<oneImage, proxy, tls, caddy, app, image, schema>>

(* The catch block: an error raised in it ends the script.                *)
UndoProxy ==
    /\ job.step = "undo_proxy"
    /\ \/ proxy' = job.active /\ To("undo_tls") /\ NoFault
       \/ proxy' = proxy /\ job' = Idle /\ Fault
    /\ UNCHANGED <<oneImage, tls, caddy, app, image, schema, outcome>>

(* Variant: the rollback leaves the TLS file as it is.                    *)
UndoTlsAskForgotten ==
    /\ job.step = "undo_tls"
    /\ To("undo_reload") /\ NoFault
    /\ UNCHANGED <<oneImage, proxy, tls, caddy, app, image, schema, outcome>>

UndoTlsAsk ==
    /\ job.step = "undo_tls"
    /\ \/ tls' = job.active /\ To("undo_reload") /\ NoFault
       \/ tls' = tls /\ job' = Idle /\ Fault
    /\ UNCHANGED <<oneImage, proxy, caddy, app, image, schema, outcome>>

UndoReload ==
    /\ job.step = "undo_reload" /\ To("undo_record")
    /\ \/ caddy' = Files /\ NoFault
       \/ caddy' = caddy /\ Fault
    /\ UNCHANGED <<oneImage, proxy, tls, app, image, schema, outcome>>

RecordRolledBack ==
    /\ job.step = "undo_record" /\ job' = Idle
    /\ \/ outcome' = [status |-> "rolled_back", from |-> job.active] /\ NoFault
       \/ outcome' = outcome /\ Fault
    /\ UNCHANGED <<oneImage, proxy, tls, caddy, app, image, schema>>

(* The operator, or the machine, ends the script between two commands.    *)
Cut ==
    /\ job.step # "idle"
    /\ Fault
    /\ job' = Idle
    /\ UNCHANGED <<oneImage, proxy, tls, caddy, app, image, schema, outcome>>

(* deploy.ps1 stops at a docker command that fails: an image, or both, may *)
(* have been built by then and no container started.                       *)
Deploy ==
    /\ job.step = "idle"
    /\ \/ \E rebuilt \in {image} \cup {[n \in Colors |-> b] : b \in Builds} :
             image' = rebuilt /\ app' = UpApp(rebuilt) /\ NoFault
       \/ \E b \in Builds, built \in SUBSET Colors :
             /\ image' = [n \in Colors |-> IF n \in built THEN b ELSE image[n]]
             /\ app' = app /\ Fault
    /\ UNCHANGED <<oneImage, proxy, tls, caddy, schema, job, outcome>>

ReleaseStep ==
    \/ \E keep \in BOOLEAN : Begin(keep)
    \/ UpServices \/ BuildTarget \/ RecreateTarget
    \/ WriteProxy \/ WriteTlsAsk \/ Reload \/ StopOld \/ RecordCompleted
    \/ UndoProxy \/ UndoTlsAsk \/ UndoReload \/ RecordRolledBack
    \/ Cut

Next ==
    \/ ReleaseStep
    \/ Deploy
    \/ \E c \in Colors : Boot(c) \/ FailedBoot(c) \/ Crash(c)
    \/ CaddyRestart

Spec == Init /\ [][Next]_vars

------------------------------------------------------------------------
(* A release that found Caddy and the files in agreement, and no command  *)
(* of which failed so far, touches a ready application that Caddy sends   *)
(* visitors to in one case only: its first "compose up" replaces it when  *)
(* its image name stands for another build by now, which a release that   *)
(* did not complete leaves behind when both colours have one image name.  *)
ServingUndisturbed ==
    [][\A c \in Colors :
          (/\ ReleaseStep /\ job.step # "idle" /\ job.clean
           /\ caddy.proxy = c /\ app[c].state = "ready" /\ app'[c] # app[c])
             => job.step = "up" /\ app[c].build # image[Image(c)]]_vars

(* The line a release adds to the history is true: both files name the    *)
(* colour it says is active, whatever failed on the way and whatever the  *)
(* files were before; when nothing failed, Caddy sends visitors there, it *)
(* is not stopped, and the old colour runs on if that was asked for.      *)
RecordsAreTrue ==
    [][outcome' # outcome =>
          LET active == Named(outcome') IN
          /\ proxy = active /\ tls = active
          /\ job.clean => /\ caddy = Files /\ Running(active)
                          /\ job.keep => Running(Other(active))]_vars

(* ops/README.md:76 says that a release whose target fails its migrations *)
(* stops before it switches traffic: Caddy never leaves a colour for one  *)
(* whose build cannot start.                                              *)
FailedMigrationNotServed ==
    [][job.step = "reload" /\ caddy'.proxy # caddy.proxy
          => app[caddy'.proxy].build \notin Unsound]_vars

=============================================================================
