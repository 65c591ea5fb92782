# TLA+ specifications of AB-Rust

AB-Rust is an administration backend that distributes Android packages: routes
lead a visitor from an *entry* domain to a landing page on an *exit* domain (or
to an external URL), screening bots on the way, counting visits and downloads
and reporting them to Meta.  One Rust binary (axum, `crates/app`) over a service
layer (`crates/services`) and PostgreSQL (`migrations`).  Deployment is
blue-green, so **two processes may run at once**: they share the database and
nothing else; every map in memory exists once per process.

The modules here are translated from the code.  A comment in a module names the
function it models; `PROJECT.json` gives the lines.

## Inventory

| Component | State | Operations | Talks to | What is hard | What makes it correct |
|---|---|---|---|---|---|
| Meta event queue (`services/meta.rs`, `app/main.rs`) | table `meta_event_queue`; a batch in each worker's hands; a configuration cache per process | `enqueue_event`, `process_pending`/`process_event`, `mark_sent/failed/skipped`, `retry_event`, `archive_*`, cascade of a route's deletion | Meta over HTTP; handlers; routes | claims that expire under a slow worker, lost answers, crashes, errors that end a batch, operator clicks at any time | at-least-once with a bound on duplicates; statuses tell the truth; nothing waits forever |
| Download reporting (`web.rs` `downloaded`, `state.rs`, `visits.rs`) | `download_events`, a map of recent reports per process | report, deduplicate, record with its promotion code, send the Lead event | queue, routes, promotion codes | concurrent reports, restarts, errors and lost clients between map and table; pages that outlive the code they carry | one row per download, credited to its first code; no report lost, no key taken for nothing |
| Public configuration caches (`state.rs`, `cloak.rs`, `meta.rs`) | five maps per process | lookup, put, expiry, capacity, clear | database; every administrator's change | old answers stored after a clear; the other process is never told | bounded staleness; own changes visible; agreement in the end |
| Domains, routes, allowlist (`routes.rs`, `resources.rs`) | `domains`, `routes`, `route_targets`, `domain_allowlist` | create/update/toggle/delete a route; add/update/toggle/delete a domain | Caddy asks the allowlist; public pages ask the routes | rules over several tables checked by queries that lock nothing; renames; statements without a transaction | an enabled route has its domains; a name is used once; the allowlist is exact |
| Profiles and bindings (`resources.rs`) | landing, cloak and Meta profiles; copies in `route_*_configs` | save/toggle/delete, `sync_bound_meta_routes` | routes, caches, queue | copies that go stale, "in use" checks that race with binding | a bound profile is neither deleted nor disabled under an enabled route |
| Visits and screening (`web.rs`, `visits.rs`, `cloak.rs`) | `visits`, map of cached visit ids, two cookies | `public_entry`, `cloak_verify`, `resolve_exit_visit`, `collect` | queue, caches | several requests of one browser share a cached visit | a visit never turns from real to fake or back; page events only for real visits |
| Sessions and login (`auth.rs`, `state.rs`) | `users`, `sessions`, login failures per process | login, logout, change password, revoke, cleanup | - | old password used during a change; concurrent failed logins | a change of password ends all other sessions |
| Files (`assets.rs`, `templates.rs`) | rows of `assets`, `landing_templates`; files on disk | upload, delete, orphan cleanup | profiles, routes | file and row are written at different times | every row has its file |
| Release (`ops/release.ps1`, `ops/deploy.ps1`) | two files that name the active colour, the configuration Caddy runs, two containers and their images, the history | deploy, release, roll back | Caddy, Docker, the migrations of the shared database | commands whose failure the script does not see; a failure between the two files; a script cut short; a container that does not start | who serves is not disturbed; the history tells the truth |
| Promotion codes (`promos.rs`) | rows of `promo_codes` | create, edit, toggle, delete | pages carry them, `download_events` refers to them | a code is deleted or given another route while pages are open | a download keeps its credit; see `Downloads` |
| Geography and ASN (`geo.rs`, `cloak.rs` `lookup_asn_org`) | the IP-to-ASN file, parsed twice; `ip_geo_ranges` | two look-ups of one address | screening and visit log | two parsers, two orders of falling back | bisection finds the line; log and screening agree |
| Tokens, statistics, health, HTML, import scripts, `ops/abctl.sh` | - | - | - | - | not modelled, see the end |

## Modules

* `MetaQueue` - the queue with its workers, producers and operator;
  `Outbox` - what the queue promises, an abstract specification;
  `MetaQueue_proofs` - theorems about it; `MCMetaQueue` - instances for TLC.
* `Downloads`, `Downloads_proofs`, `MCDownloads` - download reports up to the Lead event.
* `PublicCache`, `PublicCache_proofs`, `MCPublicCache` -
  the in-memory caches against the database.
* `DomainRegistry`, `DomainRegistry_proofs`, `MCDomainRegistry` -
  routes, domain catalog and allowlist.
* `VisitLifecycle`, `MCVisitLifecycle` - visits from entry page to landing page;
  `VisitLifecycle_proofs` - theorems about it.
* `Screening` - the rules and points by which a client is judged; `GeoLookup` -
  the two look-ups of an address.  Both are functions without state; their
  properties, formulas over all inputs of a bounded set, are stated of every step
  of `MCVisitLifecycle` and checked there.
* `AuthSessions`, `AuthSessions_proofs`, `MCAuthSessions` -
  login limiter, sessions, change of password.
* `ProfileBinding`, `ProfileBinding_proofs`, `MCProfileBinding` - profiles,
  and the routes that refer to them and copy them.
* `FileStore`, `FileStore_proofs`, `MCFileStore` -
  pictures and templates: rows, files, orphan cleanup.
* `Release`, `MCRelease` - blue-green releases and deployments.

The modules meet where one component calls another.  `Downloads` and
`VisitLifecycle` end where `MetaQueue` begins, with `enqueue_event`; `PublicCache`
says how old what they read may be; `DomainRegistry` and `ProfileBinding` are the
two halves of saving a route; a profile of `ProfileBinding` is a holder in
`FileStore`.  What `Screening` computes is the free choice that `VisitLifecycle`
makes, and the organisation of an address it asks for is `GeoLookup!OrgOf`.  The
two processes of every other module are the two colours of `Release`.

A definition that begins with the comment "Variant" is not part of a
specification: it is a plausible mistake in the operator after it, kept to show
that a property would notice it.

### MetaQueue

An action is one SQL statement, one transaction or one HTTP call, because the
worker holds no lock between them.

| Variables | In the code |
|---|---|
| `status`, `attempts`, `archived`, `created` | columns; "absent" before the INSERT, "deleted" after the cascade |
| `due`, `stale` | the two comparisons with `now()` in the claim query; both become true at any time |
| `held`, `cur`, `step` | the rest of `events` in `process_pending`, the row in `process_event` and how far it got |
| `cfg`, `seen` | what the stored configuration of a route says, and what `config()` may return because of its cache |
| `posts`, `accepted`, `lease`, `causes` | history: calls made, calls Meta accepted, claims not broken yet, happenings that can cost a duplicate |

`Claim` is the transaction of `process_pending`; `Begin` and `ConfigError` are
`process_event` up to the call, `PostAccepted`, `PostRefused` and
`PostAnswerLost` the call (which may also end in "hung": it never returns, for
the HTTP client has no timeout, and only a crash frees the worker), `MarkSent`, `MarkFailed` and `MarkSkipped` the
statements after it (they select by id alone: `FinishRow`), `Abort` a failed
statement or a crash, also of a worker that hangs.  The claim of a hung worker
expires like any other (`Stuck`), and another process takes the row over.  `RetryEvent`, `ArchiveEvent`, `ArchiveFinished` and
`DeleteRoute` are the operator's.

`lease` makes "this worker owns this event" precise.  The code has no owner
column: a claim is the status `processing` and an `updated_at` of the last ten
minutes.  A claim is *broken* when ten minutes pass, when the operator retries
the event, or when an earlier holder's late result overwrites the row.  The
properties say that nothing else breaks one, and what follows from a break.

`ImplementsOutbox` maps a row to the outbox's accounts: pending, processing and
failed are "open".  The mapping forgets batches, claims, clocks and archive.

### Downloads

`Check`, `Mark`, `Record`/`RecordRefused`/`RecordFails` and `SendLead` are the
handler `downloaded` cut at its awaits.  `Cancel` is the server dropping the
handler because the client went away, `Crash` a process that loses its map and
its tasks, `HitExpires` the six hours of a key.  A statement that fails may have
been carried out.  `DeleteRoute` sets the route of existing rows to NULL
(`detached`) and cascades to the queue.  `excused` and `abandoned` remember which
downloads a fault touched, so that the properties ask nothing of them that the
code cannot give.

A page carries the promotion code it was opened under (`CodeOf`), and the row
refers to it (`credit`): the foreign key must hold when a new row is inserted, or
when the row has no code yet (`Storable`), and a code once stored is kept
(`Credited`, the COALESCE of the statement).  `DeleteCode`, `MoveCode` and the
cascade of `DeleteRoute` are the administrator's; `home` gives the route each code
is made for, `NoRoute` once it is deleted.  Creating a code is left out, as no page
can carry it before, and the switch of a code, which decides only which pages get
it.

### PublicCache

An entry carries the ticks it has left instead of an instant of expiry.  A lookup
is `Lookup` (hit, or miss and removal of an expired entry), `Read` (the query)
and `Put`; an administrator's request is `Change` (commit) and one `Clear` per
map in the order of the code.  `gone[k][v]` counts the ticks since the database
last said `v` of `k`: it is how staleness is measured.

The handlers clear only after the service has answered Ok (`web.rs:1427` and its
likes).  `Unheard` is the change whose request ends before: the handler dropped at
its await, the answer to the commit lost, or `toggle_domain` failing at its second
statement.  `suspect` remembers the keys of which a process was not told:
those another process changed, those an unheard change of its own has left wrong in
its maps, and those a reader may bring back that had queried before.  A clear of
the map, a restart, or a true answer stored ends the suspicion, so
`OwnChangeVisible` also says that one clear in a process, of whatever change, makes
good what an unheard change left behind.

### DomainRegistry

| Variables | In the code |
|---|---|
| `domains`, `routes`, `allow` | the tables `domains`, `routes` with `route_targets`, `domain_allowlist` |
| `job` | what the checks of each administrator's request let it write |
| `torn` | history: names whose toggle died between its two statements |
| `overtaken`, `doubt` | history: requests whose checks looked at what another wrote since; names that such a request wrote about all the same |

An operation is `Start...` (queries and checks) and `Apply...` (writes and
commit), since PostgreSQL's READ COMMITTED and plain statements on the pool hold
nothing in between; `toggle_domain` has a third step because it uses no
transaction.  UNIQUE constraints, foreign keys and the row lock of a route's
toggle are kept.  Taking all queries of one operation together, and all its
writes, leaves out some interleavings; what the race run finds is possible in the
code.  The landing profile that an internal route needs
is in `ProfileBinding`.  The module starts from an empty database.

Nothing in the code keeps administrators apart, and the model does not either.
`RoutesReady`, the rule the checks are there for, fails when two requests overlap
(`registry_race`).  What does hold is that the damage is theirs alone.  A request
checks what the tables say of some names (`Concerns`); when another one writes the
rows of such a name, or of a route that uses it (`Untouched` is the opposite), the
request is `overtaken`, and if it goes on to write, the names it is about and those
whose rows it changes are in doubt.  Doubt follows a domain to its new name.  A
second statement of `toggle_domain` that finds its id under another name by then
puts the name it was to switch in doubt too.  `ReadyUnlessOvertaken`, `SingleUse`,
`RolesAgree` and `AllowlistExact` are asserted of all names that are not in doubt,
also while others are: neither requests that overlap without touching each other's
names, nor operations on damaged rows, nor failures spread anything.

### VisitLifecycle

A request is cut at its statements: `Enter...`, `Verify...`, `Refuse` and
`ExitAdmitted` are the handlers up to the first one, `Update`, `Insert`, `Accept`
and `Reject...` the statements, `Finish` what follows the last one: the map of
remembered visits, the page events and the reply.  `UpdateFails` may have been
carried out; `Abandon` is a dropped handler, `Crash` a process that loses its map.
A decoy page is one step more (`RenderDecoy`): `render_decoy_landing` waits for the
decoy's settings and only then looks up the remembered visit, which names the token
of the page.  Another request of the browser may have remembered a different one by
then, and there may be one although this request could count none.

| Variables | In the code |
|---|---|
| `variant`, `route`, `live` | `visits.page_variant` and `route_id`, the routes that exist |
| `known` | `SecurityState::public_visits`, per process |
| `probed` | who holds the cookie of a failed probe |
| `announced`, `handed`, `pages` | visits given to `send_meta_page_events`, named in a link, or named by the event token of a page, landing page or decoy |
| `cut` | history: visits made real by a request that was lost right after |

Abstractions.  What the screening answers depends on headers, word lists and
look-ups (`Screening`) and is a free choice.  So is whether it is on: an
administrator may switch it at any time, and a configuration that cannot be read
counts as off.  A client presents what it holds or does not, so cookies need not
expire, and who holds a link with an exit token is not kept.  The cookie of a passed probe only leads to branches that are open
without it and is not kept.  Two branches that record a `fake` visit and show the
decoy are one (`Refuse`), and so are two that record a `real` one and send on
(`EnterTrusted`).  A branch that changes nothing (the probe page for a client
already counted, a verification while screening is off) has no action.
`collect`, which fills in what the browser says of itself, is left out.

`cut` is in `PagesAreAnnounced` because the code does lose page events there: the
UPDATE makes the row `real`, the handler is dropped, and a later exit page takes
the remembered visit as it is.  The property says that nothing else does it.

### AuthSessions

A statement is a step: `login` is `Admit`, `SelectUser`, `Insert` or `Refuse`,
`Welcome`; `change_password` is `StartChange`, `VerifyOld`, `UpdatePassword`,
`Purge`.  Passwords are numbered: each change sets a new one, so a session's
`era` tells which password its client last proved to know.  An entry of the
limiter counts the time it has existed and the time its lock has left.  `late`
marks sessions inserted by a login that was verified before a change and finished
after it; `purged` is the last change whose DELETE was carried out.

The module assumes one user and that `users.enabled` stays true, as no operation
changes it.  `session_valid` and the `current_session` after it are one check.

### ProfileBinding

| Variables | In the code |
|---|---|
| `landing` | `landing_profiles`: switch and picture, a column that may be NULL |
| `policy` | `cloak_policies` and `meta_profiles`, which are bound, copied, switched and deleted alike; the token is a Meta profile's |
| `route` | a route with its ids of profiles and its copies in `route_landing_configs`, `route_cloak_configs`, `route_meta_configs` |
| `op` | requests between their queries and their writes |
| `stale`, `crossed` | history: overlaps of which the code cannot know |

Saving a route is `StartSave` (`resolve_route_resources` reads the landing
profile), `Copy` (`upsert_route_children` writes, and reads the policies) and
`Commit`; the other operations that check first are two steps, those of one
transaction one.  Writes show at their commit (READ COMMITTED).  Two locks of
PostgreSQL matter and are kept: of the rows of a route being saved (`Locked`), and
of the profile a foreign key refers to, for which a DELETE waits.  Ids never come
back (`Gone`).  `SaveOwn` is the older form that saves a route's settings past its
policy.  Domains and the switch of the route are left to `DomainRegistry`.

`BoundIsEnabled` and `CopiesFollow` have exceptions for overlaps: the
code checks before it writes and holds nothing in between, so the exception is
the code's, and the properties say that nothing else breaks the rule.

### FileStore

A picture is a row of `assets` and a file, a template a row of
`landing_templates` and a directory.  An upload is `StartUpload`, `Write`,
`Insert`; a deletion `StartDelete` (the counts), `DeleteRow`, `Remove`; a cleanup
`StartCleanup` (the names in `assets`), `Sweep` for each stranger,
`EndPhase`, then the same for templates.  `Fail` ends any of them with what it
left behind; `Sweep` is what later clears it away.  Rows of other tables that
refer to a picture or a template are `held`: deleting a picture sets them to NULL,
deleting a template then fails, because a CHECK of both tables asks for one in
mode "template".

A cleanup takes the file of an upload in progress for an orphan: the row is
inserted afterwards, and its file is gone.  `risky` marks those uploads;
`RowHasFile` says that all other rows keep their files.

### Screening

Texts are replaced by what the rules ask of them: an agent is empty, a bot's or a
browser's; the WebGL strings are a kind of graphics; the headers are the set of
those that score.  `ServerPasses` is `classify_server` with its four checks and
what each makes of a look-up that fails; `HeaderScore`, `ProbeScore` and
`DeviceScore` are the points; `Admitted` is the verdict of `cloak_verify`.
`DefaultPolicy` and `Thresholds` are what the settings allow.

`HonestBrowsersPass` quantifies over what honest browsers report: kinds of devices
with their sizes, with or without plugins, WebGL, a core count or a sharp screen,
from an address the blacklist may fail to answer about.  It finds their points to
be between 8 and 22, so that the default threshold of 8 leaves nothing to spare,
and a threshold above 22, which the settings take, admits nobody.

### GeoLookup

`OrgOf` is what the screening reads of an address, `GeoOf` what the visit log
looks up.  Each filters and sorts the lines of the same file by itself (`OrgRanges`,
`GeoRanges`) and asks the table `ip_geo_ranges` in its own order: the screening
after the file, the log before it.  `Bisect` is the bisection both carry.
`IspLogged` is what the log takes in the end: a header that names the ISP, nothing
if its query fails (`lookup` then returns before it reads the file), or what was
looked up, with the short name of a carrier (`Normalize`).  The city database is a
parameter of `GeoOf`.

`IspIsWhatWasJudged` says that the log names the organisation the visitor was judged
by, as it is or shortened, with all that the code allows to come between as
exceptions: a header, a failed query, a file replaced between the times the two
readers loaded it (`Loaded`, and only if what it says of this address changed), and
a table that has an ISP for the address while the file names an organisation too or
a closer row leaves the ISP open.

### Release

One action per command of `release.ps1` that can fail on its own, in the order of
the script; the catch block is the `undo_` steps.  The script runs with
`$ErrorActionPreference = "Stop"`, which catches a failing cmdlet (the files are
written by cmdlets) but not a failing `docker` command: such a failure leaves the
script going on, with `clean` false.

| Variables | In the code |
|---|---|
| `oneImage`, `image` | `.env` may give both colours one image name; which build a name stands for |
| `proxy`, `tls` | `deploy/active_proxy.conf`, `deploy/active_tls_ask.conf` |
| `caddy` | the two files as Caddy last read them |
| `app` | the container of each colour: stopped, starting (Docker restarts it until its migrations run) or ready |
| `schema` | migrations applied; a build does not start on a schema it does not know |
| `job`, `outcome` | the release under way; the last line of the history that is not "started" |

`Cut` ends the script between two commands, `Crash` restarts an application,
`CaddyRestart` makes Caddy read the files again, `Deploy` is `deploy.ps1`.  One
release runs at a time.  The history of the model is the file the script appends
to.

## Runs

| Run | Configuration | Question | Answer |
|---|---|---|---|
| `queue` | 2 workers, 2 events of one route, batch of 2, 3 disturbances, `FairSpec` | types; claims exclusive; "sent" only if accepted; duplicates bounded by their causes; "sent" is final; the outbox implemented; does every waiting event get sent or skipped? | all hold; the last if configurations can be read and one worker's calls do end |
| `queue_poison` | 1 worker, 2 routes, one of which may have an unreadable token | the same | **no**, see below |
| `downloads` | 3 reports of one download, under different codes, and 1 of another, 2 processes, 2 codes, 2 faults, deletion of routes and codes | one row; no Lead without a row; keys taken for a reason; nothing lost; the first code keeps the credit | all hold; deleting a code costs the downloads of pages that carry it |
| `cache` | 2 processes, 2 readers, 2 administrators, two maps of two hosts with room for one entry, lifetimes 2 and 1, 2 changes, each heard of or not, `FairSpec` | staleness, visibility, size; do all caches agree with the database in the end? | all hold; a change that was not heard of stays unseen in its own process until the next clear or expiry |
| `registry` | 2 administrators, 2 names, 2 catalog rows, 2 routes | do routes, catalog and allowlist stay consistent over any interleaving of operations and failures? | yes, except for names that an overtaken request wrote about and a toggle that dies half-way |
| `registry_race` | 2 administrators, 2 names, 1 route | are enabled routes ready whoever overlaps? | **no**, see below |
| `visits` | 2 requests at a time and 4 in all, 2 processes, 1 client, 2 routes, 2 visits; all honest browsers; 6 addresses, 2 nested networks, files of up to 3 lines | is a verdict final; do links and Meta name real visits only; do pages speak for announced visits of their route? are honest browsers admitted? does bisection find the line, and does the log name whom the screening judged? | yes, except for a request lost between its UPDATE and its page events; yes up to the default threshold, never above 22 points; yes, but for a header, a failed query, a file replaced meanwhile and addresses about which file and table differ |
| `auth_sessions` | 2 requests at a time, 2 sessions, limit 2, window 1, lockout 2, 2 changes | who is logged in after a change of password; how many guesses pass; does a lock end? | only those who know the new one and logins under way; the limit and one more per request let in before; yes |
| `profiles` | 2 operations at a time on 1 landing profile, 1 policy, 1 route | are bound profiles enabled; do copies say what profiles say; what does a deletion that a binding overtook leave? | yes, and the page as it was, but for overlapping operations |
| `files` | 3 operations at a time on 2 pictures and 1 template, 2 rows that refer to them | does every row have its whole file? can what is in use be deleted? | yes, unless a cleanup overlapped the upload; only a picture taken up after the deletion had counted |
| `release` | 2 colours, 3 builds, 3 faults | is who serves ever disturbed; is what the history says true? | not by a release that began in order and met no failure, but for one `compose up`; yes |
| `release_unhealthy` | the same, 2 faults | does a build whose migrations fail stay out of service? | **no**, see below |

Bounds.  Two workers and two events are the least with which a claim can be
taken over while the first holder still has another row; three disturbances allow
a claim to expire, its late holder to fail and the operator to step in in one
behaviour.  A call that hangs is a disturbance; that its claim expires then is not,
since it must.  Every counter of `MetaQueue` is bounded
by `MaxFaults`, for each event is sent at most once per cause.  Three reports of
one key are the least for "first fails, second was dropped, third comes"; one
report of a second route keeps deletion from emptying the model; two codes are
the least that can compete for a row.  In
`cache` the lifetimes differ and the capacity is below the number of keys,
so expiry, eviction and overwriting all happen; two maps are the least that
`Clear` can reach one after the other, and two changes the least of which the
second may hide the first.  `registry` has the two requests that can overtake
each other, two routes that can compete for a name as entry and exit, and names that
may be in the catalog or not.  Two names let an entry be renamed under its route,
but not an exit: an internal route needs both, and renaming its exit a third.  That
case, and more than two routes, rest on the proof, which has no bound.  `visits` has the two requests that can share a
remembered visit and the two visits that can be confused; four requests are
enough for probe, verdict, exit page and one intruder.  `auth_sessions` has two
changes of password so that two may overlap, and a window shorter than the
lockout so that the reset of an old entry meets a lock.  In `profiles` every
rule relates one profile to one route, and a check is overtaken by one other
operation; a second route would repeat the first.  `files` has an upload, a
deletion and a cleanup at once, and two pictures so that a cleanup knows one and
not the other.  Three faults let a release fail, its rollback fail and Caddy
restart in between; three builds are one that was served, a sound one with a new
migration and one that cannot start.  The honest browsers, the nested networks
and the files of `visits` are finite choices, and thresholds run over all that the
settings take; three lines let bisection go left and right.  Symmetry is used only in runs without temporal
properties other than action properties and the outbox's step formula.
Deadlock is not an error in `MetaQueue` and `Downloads`, where all the work may
be done.

Fairness.  `MetaQueue!FairSpec`: every process runs `process_pending` every 30
seconds and goes on through its batch (`main.rs`), ten minutes and retry delays
pass, a cached configuration expires.  Nothing is assumed of visitors, of
operators, of restarts or of which step a worker takes.  A call may hang for ever,
since the HTTP client is built without a timeout (`meta.rs:194`), and stops its
worker; that some worker does not is a premise of `SettledOnceReadable`, which
fails without it: two hung workers are the end of all deliveries until a restart.
`PublicCache!FairSpec`: time passes and a query that was sent is answered.
`AuthSessions!FairSpec`: time passes; nothing is asked of requests.

### What the violated properties show

* `queue_poison`: in `process_pending` the `?` at `meta.rs:629` ends the whole
  batch when one event's configuration cannot be read (a token that does not
  decrypt, `meta.rs:814`).  The rows not yet reached stay `processing`; after ten
  minutes they are claimed again, together with the row that fails, and abandoned
  again.  The failing row is never marked, so it is never put off.  Events of
  healthy routes in the same batch may wait for ever, against the README's
  "失败重试".
* `registry_race`: the rule that a domain in use is not disabled or deleted, and
  that a route is enabled only on enabled domains, is enforced by queries that
  lock nothing.  Two requests at a time leave an enabled route without an enabled
  domain: `upsert_domain` may overwrite a row that was added after it looked, and
  `toggle_domain` and `delete_domain` may act after a route was created.
* `release_unhealthy`: `ops/README.md:76` says that a release whose migrations fail
  stops before the switch.  `release.ps1` asks the target for its health
  (`release.ps1:146`) with a docker command and never looks at the exit code, and
  Windows PowerShell raises no error for it.  In the run a build that cannot start
  gets both files and the reload, and its release is recorded as completed.

Properties that hold say two more things the documents do not.  `NothingLost` has
an exception for deleted promotion codes: a page that carries one loses its
download, though `templates/promos.html:9` presents a code as a mark of
the channel; the foreign key refuses the row each time, and the handler gives the
key back and answers as if it had counted.  `RecordsAreTrue` speaks of the files; that
Caddy follows them needs a reload whose failure goes unseen.

## Proofs

Each module below has its theorems in the module `<name>_proofs`.  A theorem's
property is the formula a run checks; its invariant was checked by TLC on the
configuration of the run before it was proved.  The proofs go the same way: the
first states satisfy the invariant, each action keeps each part of it (one lemma
or step per action, or one per part with the actions under it), and the property
follows.

### MetaQueue

For all sets of events, routes and workers, any batch limit and any bound on
disturbances, from `QueueAssumption` alone (the route of each event is a route;
events and workers are finite sets; "no event" is not an event):

| Theorem | Property | Argument |
|---|---|---|
| `TypeCorrect` | `TypeOK` | inductive by itself |
| `WorkersConsistent` | `WorkerOK` | with `TypeOK`: a worker is idle exactly when it has no row in hand, and that row is not also waiting in its batch |
| `ClaimsAreExclusive` | `LeaseExclusion` | with both: a leased row is `processing` and fresh, so the claim query takes only rows nobody has leased |
| `AcceptanceIsKnown`, `AttemptsAreCounted`, `SentMeansAccepted` | `SentWasAccepted` | the worker about to write "sent" has seen an acceptance; attempts plus answers not yet recorded never exceed the calls |
| `BudgetKept`, `DuplicatesAreBounded` | `BoundedDuplicates` | see below |
| `SentStaysSent` | `SentIsFinal` | action by action, with `LeaseExclusion` |
| `QueueIsOutbox` | `ImplementsOutbox` | initial states map to initial states, each action to one outbox step or a stutter |

`BoundedDuplicates` (`accepted[e] <= 1 + causes[e]`) is not inductive: it does
not say who may still send `e`.  `DuplicateBudget` adds to the deliveries made
the workers that may still send the event (`Sending`), and one more if the claim
query may hand it out without breaking a claim (`Open`).  A claim moves the last
unit from the queue to the worker, an acceptance moves it from the worker to the
deliveries, a recorded result removes it or gives it back; only a lost answer, an
unrecorded success, an expired claim and a retry create a unit, and each of them
counts a cause.

### VisitLifecycle

For all processes, routes, clients, requests and visits, from `VisitAssumption`
alone (`None` is neither a visit nor a route):

| Theorem | Property | Argument |
|---|---|---|
| `VisitTypeCorrect` | `TypeOK` | part of `VisitInv` |
| `VerdictsStand` | `VerdictIsFinal` | `RowsKept`, action by action |
| `OnlyRealVisitsGoOut` | `HandedOutIsReal` | part of `VisitInv` |
| `PagesSpeakForTheirRoute` | `TokensMatchRoute` | part of `VisitInv`; for a decoy, that a remembered visit is of its slot's route |
| `RealPagesAreAnnounced` | `PagesAreAnnounced` | `VisitInv` and `FollowedInv` |

To `TypeOK`, `VisitInv` adds that a request about to finish holds a visit already
judged as its branch will announce it (`JobOK`), that a remembered visit was
inserted (`MemoryOK`), and that what was given out is real and of its route
(`GivenOK`).  The first is why an announced visit is real: between `Update` and
`Finish` other requests run, and only the WHERE clause of the UPDATE
(`Updatable`) keeps them from judging the row again.  `RowsKept` says so for a
step: rows stay, keep their route or lose it, and keep a verdict; each action is
shown to keep rows first, and the parts of the invariant it does not touch follow.

`PagesAreAnnounced` speaks of visits on pages only, and is not inductive: a visit
comes to a page through memory, through a link, or in the hand of a request that
will say nothing to Meta.  `FollowedInv` asks the same of every real visit that
is `Held` in one of these places: Meta has heard of it, or a request that will
tell Meta has it, or that request was lost (`cut`).  A visit becomes real and
announced-to-be in one step, the UPDATE; no other step gives an unfollowed visit
to anyone.

### Downloads

For all reports, keys, routes, processes and codes and any bound on faults, from
`DownloadsAssumption` (each report has a key, each key a route; the marks for "no
process", "no code" and "no route" are none):

| Theorem | Property | Argument |
|---|---|---|
| `DownloadsAreRows` | `OneRowPerDownload` | `RowsOK`: what is in the table has its route, and a key with a detached row is never inserted again |
| `LeadsAreDownloads` | `LeadHasDownload` | `LeadsOK`: a report past its statement has its row, until the cascade takes row and route |
| `KeysAreTakenForAReason` | `TakenForAReason` | inductive with the two above; each way out of the handler gives the key back or has recorded |
| `ReportsCount` | `NothingLost` | `AnswersOK` |
| `FirstCodeKeepsCredit` | `CreditStays` | the COALESCE, step by step |

`NothingLost` says something once all reports of a download are answered.
`AnswersOK` says it while they run: if no fault touched a download and it is in a
process's map or was answered, then its event is in the queue or some report of
it is still under way.  A dropped duplicate is thereby tied to the report it was
dropped for.

### PublicCache

For all keys, values, readers, administrators and processes, any capacity and any
lifetimes, from `CacheAssumption`:

| Theorem | Property | Argument |
|---|---|---|
| `StalenessIsBounded` | `BoundedStaleness` | `AgeKnown` |
| `OwnChangesShow` | `OwnChangeVisible` | `ReadersOK`: a reader that holds an old answer has its process suspect of the key, so a put cannot bring the answer back unnoticed; a clear ends only a suspicion that no such reader keeps up (`Trusted`), and an unheard change begins one for each key it left wrong |
| `MapsStaySmall` | `BoundedSize` | counting keys: a put adds one and makes room first |

`AgeKnown` bounds, for each stored entry, the time its value has been wrong plus
the time it has left, and for a reader with an answer the time since its query.
A tick moves a unit from the one to the other; a put hands the reader's age on
to the entry.

### AuthSessions

For any number of requests, tokens, keys and processes, any limit, window and
lockout, from `AuthAssumption` (requests are finite, limit and lockout positive):

| Theorem | Property | Argument |
|---|---|---|
| `AuthTypeCorrect` | `TypeOK` | with `RequestsOK` |
| `OldPasswordsGo` | `OldPasswordGone` | `RequestsOK`: a change about to purge keeps a session whose client knows the new password |
| `GuessesAreBounded` | `BoundedGuesses` | `GuessesOK`: failures plus attempts let in and not yet counted stay below limit plus requests |

`BoundedGuesses` alone is not inductive, for it does not see the attempts that
have passed `login_blocked`; `GuessesOK` counts them.  A request let in while the
count is below the limit is one of them; recording its failure moves it to the
count.

### FileStore

For all pictures, templates, holders and operations, from `FileAssumption`
(pictures and templates are different things, and the rows that may refer to them
are finitely many, because the code counts them):

| Theorem | Property | Argument |
|---|---|---|
| `RowsHaveFiles` | `RowHasFile` | an upload about to insert has its whole file or has met a cleanup (`UploadOK`); what a cleanup does not know has met it (`SweepOK`); a file goes only after its row (`DeletionOK`) |
| `UsedRowsStay` | `InUseStays` | `DeletionOK`: who uses a row about to be deleted took it after the count |

### ProfileBinding

For all profiles, policies, routes, settings, tokens and operations, from
`BindingAssumption` and `MarksAreNoRows` (the two marks for rows that do not exist
are not themselves rows; TLA+ does not say so, since the marks are constants):

| Theorem | Property | Argument |
|---|---|---|
| `BindingTypeCorrect` | `TypeOK`, which holds the foreign keys | the rows a route is about to refer to are locked until it commits |
| `BoundProfilesAreOn` | `BoundIsEnabled` | `RouteOpOK` and `LandingOpOK` |
| `CopiesAreFaithful` | `CopiesFollow` | `RouteOpOK` |
| `DeletedProfilesLeavePages` | `DeletionKeepsPage` | `CopiesFollow`, and that a profile goes in two actions only |

Every check of this code is made before the write it guards.  `RouteOpOK` says
what of its checks a route about to be saved may rely on: its landing profile is
on and its copy is the profile's, but for what a concurrent request has changed
(`met`).  `LandingOpOK` is the counterpart: whoever is bound to a profile about to
be switched off has been met since the count.  The two prove each other.

### DomainRegistry

For all names, rows, routes and administrators, from `RegistryAssumption` alone (the
marks for an external target and for "no id" are neither names nor ids):

| Theorem | Property | Argument |
|---|---|---|
| `EnabledRoutesAreReady` | `ReadyUnlessOvertaken` | part of `RegistryInv` |
| `NamesHaveOneUse` | `SingleUse` | part of `RegistryInv` |
| `RolesStayTrue` | `RolesAgree` | part of `RegistryInv` |
| `AllowlistFollows` | `AllowlistExact` | part of `RegistryInv`, with `Listed` |

None of the four is inductive alone: a request carries the result of its checks to
its write, and each check reads what another property keeps true.  `RegistryInv`
asserts that result (`JobOK`) of every request that was not overtaken, and all four
rules (`Served` is three of them, `AllowedRight` the fourth) of every name not in doubt.  A step is shown to keep
it from two sides.  The requests of others: whoever is not overtaken by a write has
its names `Untouched`, and `ChecksStand` and `JobStands` carry its checks over.  The
names: those that the step leaves alone keep what they had (`NameStands`,
`AllowStands`), and those that it writes about are in doubt if the request was
overtaken, and follow from its checks if it was not (`OvertakenSpares` and one lemma
per operation).  The longest is the renaming of a domain (`RenamingServes`), which
needs all four rules at once: a domain that a route uses has the role of that use, so
the rename touches routes on one side only, and the new name is not in use.
`Abandon`, a request that dies between its checks and its write or between two
statements, is a step like the others.

### What is only model-checked

* Liveness (`SettledOnceReadable`, `EventuallyAgree`, `LockEnds`): the provers have
  no rules for fairness and ENABLED.
* `HonestBrowsersPass`, `SearchFindsTheLine` and `IspIsWhatWasJudged`: functions of
  `Screening` and `GeoLookup` over bounded inputs.  The second and third are about
  recursive searches, that is, induction over data.
* `Release` (`ServingUndisturbed`, `RecordsAreTrue`): an operator's script run over
  a handful of commands, with little in it that is a parameter.  `TypeOK` of
  `Release` is not a property of a run either.

`TypeOK` of `Downloads`, `PublicCache`, `DomainRegistry` and `FileStore`, and
`AgeKnown` of `PublicCache`, are parts of the invariants above, and as they are
proved no run spends time on them.

## Plan

Order of work, most important first:

1. `MetaQueue`, `Outbox` and their proofs - done.
2. `Downloads` with promotion codes, `PublicCache`, `DomainRegistry`, and their
   proofs - done.
3. `VisitLifecycle` and its proofs - done, but for `collect`; `Screening` and
   `GeoLookup` - done for TLC.
4. `AuthSessions`, `ProfileBinding`, `FileStore` and their proofs - done.
5. `Release` - done for TLC.
6. What the rules of `DomainRegistry` are worth when requests do overlap - done
   (`doubt`).
7. Next: a statement of
   `RecordsAreTrue` step by step (at each step of a release the files already
   written name what its record will say).

## Not modelled

* Statistics and health (`stats.rs`, `health.rs`): queries that read and change
  nothing, over data that the other modules keep consistent.
* Tokens and cookies (`web.rs`): signed texts.  The modules take a
  valid token as one that was given out, which is what a signature says; formats
  and cryptography are beyond a state machine.
* HTML pages, form parsing, wording: display.
* Import scripts (`ops/*.py`), backups and the other `ops/*.ps1`, and
  `ops/abctl.sh`: tools one operator runs on the side, and an installer that builds
  and restarts but never switches colours.
* `classify`, the risk score an entry page logs, the DNS look-up and the edits of
  the screening's tables: words, names and single statements; the verdict they lead
  to is one of the answers `VisitLifecycle` allows.
* `collect`: one upsert into `visit_client_updates`, which only displays read.
* The MaxMind reader: a library; what it may answer is a parameter of `GeoOf`.
* Creating and toggling promotion codes: single statements on rows nobody refers
  to yet, or on a switch that only decides which pages carry the code.

Known and not a property: an event Meta always refuses is retried every six hours
without limit (`meta.rs:952`), as intended; a failed login recorded after the
window of an older entry begins a new one (`state.rs:165`), which `AuthSessions`
has; the IP-to-ASN file is loaded once per process (`cloak.rs:938`), so that a new
file needs a restart.
