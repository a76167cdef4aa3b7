# Verification of the LLM governance control plane

TLA+ models of the control plane under `src/app`, of the gateway policy in
`src/apim` and of the removal tool in `src/tools`, the TLC runs that check them
on small instances, and the proofs that hold for every instance.  Paths below
are relative to `src/app` unless they begin with `src/`.

## 1. The system

Administrators change what an LLM gateway enforces (who may call, which models,
which budgets).  A change is a *revision* with a stored draft; somebody other
than its author approves it, and a publisher writes it to five live snapshot
documents and one membership index.  A resolver composes a caller's policy from
them; the gateway asks it, caches the answer, serves requests from it and counts
tokens.  Timers beside it project usage from the request log, compare it with
budgets and with the provider's own meter, read the directory, and raise and
deliver notifications; screens show what is stored.  Everything runs in a
function app that may stop between any two calls; all shared state is in one
document store that offers create-if-absent and replace-under-a-tag, one
document at a time.

| Component | State it keeps | Operations | What makes it correct |
|---|---|---|---|
| Lifecycle reducer (`governance-domain/lifecycle/configuration-lifecycle.mjs`) | a revision: state, stamps, outcome per target | eight commands, target reports, what a screen offers | separation of duties on every path; active means every target confirmed; confirmations are never taken back |
| Publication (`functions/handlers/publish-governance.mjs`, `control-api/draft-authoring.mjs`, `proposal-publication.mjs`, `governance-publisher.mjs`) | revision, draft and snapshot documents | publish, import, resume, withdraw, abandon; propose; publish target by target | the approved content is what lands; a withdrawn proposal never lands; an active revision landed everywhere; the screen always leads on |
| Administrator edits and removals (`functions/handlers/admin-*-edit.mjs`, `admin-access.mjs`, `control-api/governance-removal-service.mjs`, `governance-domain/removal/`) | none; they read the published set and propose a whole new one | add, change and remove bindings, assignments, teams, models, budgets and plans; plan a removal and carry it out | every set stored is valid; a removal leaves nothing behind and is possible when it was offered |
| Configuration writer (`control-api/configuration-writer.mjs`, its routes and page) | one revision under a tag; a page keeps a reading and a warning | save, compare, warn, overwrite | nobody's work is overwritten unseen |
| Stores (`persistence/`) | documents with tags | create, replace, delete, query | a precondition is never skipped |
| Schedules (`governance-domain/scheduling/schedule-recovery.mjs`, `control-api/schedule-runner.mjs`) | one checkpoint: origin, position, lease, what was given up | seed, plan, claim, run, complete, release | only windows that ran or were given up in writing are passed; every closed window is settled |
| Notifications (`governance-domain/notification/`, `control-api/notification-*.mjs`, `publish-failure-sweep.mjs`, `webhook-notification-channel.mjs`) | one record per fact; the recipient | raise, dispatch, record, acknowledge, remove; choose a recipient | delivered means accepted; only what was acknowledged is removed; everything raised settles once somebody can receive it |
| Policy resolution (`governance-domain/policy/`, `control-api/policy-resolution-endpoint.mjs`) | none | compose one policy from snapshots and memberships; compile fallbacks | the tightest limit wins; a plan leads only where it may |
| Memberships and identity (`control-api/*-membership-resolver.mjs`, `governance-domain/principal-context/`, `providers/entra-group-membership-query.mjs`) | ages of what was learnt | resolve a caller's groups from the token, the directory or the roster | leaving a group takes effect; nobody is refused on evidence nobody gathered, but users whose tokens list no groups |
| Gateway policy (`src/apim/policies/inference.xml`) | cached policies and token counters | admit, look up, enforce, fall back, count | a published change takes effect within the cache's time; a counter holds its own consumption |
| Usage (`functions/handlers/rollup-projector.mjs`, `governance-domain/usage/`) | rollups (replaced) and records (created once) | project a window; compare a period with its budgets, a window with the provider's meter | complete means exact; no warning and no dispute without cause |
| Directory (`control-api/scheduled-directory-projector.mjs`, `providers/entra-directory-query.mjs`) | one roster snapshot, one cached token | read the governed groups, replace the snapshot | complete means whole; the roster catches up |
| Screens (`control-api/*-read-model-projector.mjs`, `stored-governance-source.mjs`, `functions/handlers/admin-screens.mjs`, `admin-ui/public/app.mjs`) | none | project stored documents | two screens do not contradict each other; what a button sends is accepted |
| Deployment removal (`src/tools/deployment/ownership-contract.mjs`) | manifest, state, previews, approvals, by digest | generate, preview, approve, authorize one phase | only what this deployment created is authorized for deletion, where its removals are recorded |
| Registry, routing, change log, supply chain, templates | none of their own | pure functions, presentation, build-time reports | — |

The parts interact through documents only.  A reducer call decides on what a
request *read*; the store decides on the tag.  What is hard is what happens
between the two: overlapping requests, a lost request, a resume that takes over
from a publisher that is still running, a lease that outlives its runner, a send
whose record is never written, an answer that overtakes another, a set computed
from a reading that is stale or mixed.  `PROJECT.json` lists these hazards at
their lines, with the properties that answer for them.

## 2. Modules

| Module | Models | Checked by | Proved in |
|---|---|---|---|
| `Lifecycle` | the reducer as operators: `Accepts`/`Applied` for commands, `Recordable`/`Recorded` for reports, `AvailableCommands` | every run of the next four modules | `LifecycleTheorems` |
| `RevisionLifecycle` | one revision under any sequence of commands and reports | `RevisionCommands` | `ComponentProofs` |
| `GovernancePublication` | requests of several administrators over the three kinds of document; uses `Lifecycle` for every decision | `PublicationOverlap` | `GovernancePublicationProofs` |
| `LifecycleScreen` | the publication screen as a function of the stored revisions: commands, buttons, and what pressing one sends | `PublicationOverlap` | `GovernancePublicationProofs` |
| `PublicationRegime` | publication with requests that overlap, or one at a time, and what is promised of the second | `PublicationOverlap` | `GovernancePublicationProofs` |
| `ConfigurationWriter` | the pages of an administration server and the writer they save through, over one revision; uses `Lifecycle` | `WriterConflicts` | `ConfigurationWriterProofs` |
| `GovernanceAuthoring` | the import, every edit, planned removals, and revisions that land part by part; the forms of the page | `GovernanceAuthoring` | `AuthoringScheduleProofs` |
| `ScheduleDuty` | what a recovering schedule promises, with no leases or processes | refined by `ScheduleRunner` | — |
| `ScheduleRunner` | the checkpoint, its lease and the runner processes | `ScheduleRecovery` | `AuthoringScheduleProofs` |
| `NotificationLedger` | records, dispatch runs, acknowledgements, retention passes | `NotificationRace` | `NotificationLedgerProofs` |
| `NotificationChannel` | extends it: the recipient, who chooses it and what a run sends where | `NotificationRace` | `NotificationLedgerProofs` |
| `EffectivePolicy` | what a caller may do under a published set, as operators: allowlist, governing plan, chain, composition | every run of the next module | `PolicyGatewayProofs` |
| `PolicyGateway` | the published set under every edit and removal, and the gateway that asks for a policy, caches it and serves from it | `PolicyGateway` | `PolicyGatewayProofs` |
| `PrincipalAdmission` | the token, the directory or the roster as evidence of a caller's groups, and the answer the gateway gets | `PrincipalAdmission` | `ComponentProofs` |
| `BudgetCounters` | budgets from the form to the gateway's counters | `BudgetCounters` | `UsageProjectionProofs` |
| `UsageProjection` | the log, the projector's runs over its windows, rollups and records, and the budget comparison | `UsageProjection` | `UsageProjectionProofs` |
| `UsageScreens` | overview, usage, models and budgets screens as functions of what is stored | `UsageProjection` | `UsageProjectionProofs` |
| `UsageDrift` | the comparison of a window with the provider's meter | `UsageProjection` | `UsageProjectionProofs` |
| `DirectoryReading` | the timer that reads the governed groups, its token, the snapshot | `DirectoryReading` | `ComponentProofs` |
| `RosterScreen` | the users-and-groups screen, and what the gateway would be told of the same caller | `DirectoryReading` | `ComponentProofs` |
| `OwnedRemoval` | records, manifest, readings, approvals and authorizations of one deployment's removal | `OwnedRemoval` | `ComponentProofs` |

The `MC` modules add the symmetry sets and structured constants; the `.cfg` files hold the instances.
Operators whose comment begins with *Fault* or *Mutant* are the faulty variants
each property is shown to notice; no specification uses them.

### State and actions

`GovernancePublication`: `revision[n]`, `draft[n]` and `snapshot[t]` are the
documents, `version[n]` a revision's entity tag (it counts writes, 0 while
absent), `request[a]` what administrator *a*'s running request holds: its phase,
the revision it read, the tag it read it with, its content.  Every `await` on the
store is one action: `Query` (publish-governance.mjs:232), `TakeNumber`,
`PutDraft`, `PutRevision` (draft-authoring.mjs), `Read`, `Approve`, `Begin`,
`Start`, then `ReadVersion`, `WriteTarget`, `ReadBack` per target
(governance-publisher.mjs), `PutOutcomes`, `Finish`; `ReadOwn` and `PutOwn` for
withdrawing and abandoning; `MarkFailed` and `Retry` for a resume of what was
left publishing.  `Lose` drops a request at any point.  `LifecycleScreen` reads
`revision` only: `AvailableCommands` as projected for a viewer, the buttons of
`app.mjs`, and the operation each sends.

`ConfigurationWriter`: `stored` and `version` are the revision and its tag;
`held[p]` is the reading a page's buttons act on, `warning[p]` the warning on its
screen, `arriving` the readings still on their way to a page.  A request goes through the writer's awaits one
by one: read, conditional write, and after a conflict the comparison, the warning
or the forced write under the acknowledged version (configuration-writer.mjs:135).

`GovernanceAuthoring`: `live` holds the five published documents, `revisions` what
was proposed and how far it landed, `request[a]` what an administrator's request
has read, `review[a]` the removal plan on a page.  Every edit function is an
operator with its refusals, and the sets they return are gathered by
`EntitlementChange`, `FallbackChange`, `AssignmentChange`, `BudgetChange`,
`ModelChange` and `TeamChange`.  `ReadPublished`, `LookInFlight` and `Propose` are
an edit's calls; `OpenRemoval`, `ShowPlan` and `ConfirmRemoval` a removal's;
`Land`, `Conclude`, `Resume` and `Withdraw` carry a revision into the published set,
one part at a time.  A list is kept as the set of what it names: stored lists are all in
the order of the validators, and `Misordered` and `MisorderedIds` are the pairs of names
that sorting by code units, as the page and two editors do, puts the other way round;
a list that holds such a pair is then refused (`Agree`, `AgreeIds`).

`ScheduleRunner`: windows are numbered by their start, so an instant between two
boundaries belongs to a window `Passed` computes; `checkpoint.through` stands for
`completedThrough`, or `startedFrom` where nothing completed; `skipped` is the
set of windows in the recorded range.  A tick is `Tick`, `Read`, then `Seed`, or
`Claim` and for each window `RunWindow` or `FailWindow`, then `Record` and
`Release`; the instant a tick began at is kept in `now`, as the code keeps it.

`NotificationLedger`: `record[k]`, its tag `version[k]`, and per worker the batch
it planned, the key it is at, the outcome it heard and the document it is about
to write.  `Send` is the channel call and `ReadOutcome`/`WriteOutcome` the two
store calls of `apply`; `ReadExpired`/`DeleteExpired` those of the sweep, of which several
may overlap; `raises[k]` counts how often a fact was raised, and `planned` what a pass
saw of it when it decided.
`NotificationChannel` adds the stored recipient, the requests that replace it
under the tag they read, and the recipient a run found once and sends its whole
batch to.

`PolicyGateway`: `published` holds the parts of the five snapshots that decide a
policy (bindings, the team catalogue, budgets, fallback plans, the registry).
Every edit function is an action with its refusals as guards and ends in
`Publish`.  `cache` maps the gateway's cache key to a document and its age;
`request[s]` is a lookup in flight: `Ask` sends it, `Answer` is the control
plane reading the published set (policy-resolution-endpoint.mjs:241), `Receive`
stores and uses what came back, `Fail` is a refusal, an unresolvable policy or a
timeout; `Hit` serves from the cache (inference.xml:239).  `served` is the
request this step dispatched, `withdrawn` and `unanswered` are histories the
properties are stated over.

`PrincipalAdmission`: `standing` is the groups the caller is in, `tokens`, `roster`
and `cached` what was learnt about them with its age; `lookup[s]` asks
(`Ask`), gathers evidence by `ReadClaims`, `Enquire` and `ReadDirectory`, or
`ReadRoster`, any of which may be cut off, fail or come late, and ends in
`Establish`, `Decide`, then `Admit`, `Refuse` or `Unresolved`.  `sinceIn`, `sinceOut` and
`sinceUnlisted` are the histories the properties are stated over: for how long the source
has not put the caller in an entitled group, not put them in none, and issued no token
that lists no groups because there are too many.

`BudgetCounters`: `published` budgets with their terms and versions, the set each
administrator's request has read (`base`) and the proposal in flight, the cached
document per caller, `counter` by key and hour, and requests admitted against a
counter (`Admit`) and charged when they end (`Answer`).  `spent` is the history
of what each caller really used, `authored` the budgets that were ever in force, and
`restarted` the ids that came back other than as the next version (`Restarts`).

`UsageProjection`: `requested`, `delivered` and `metered` say how much of each
request the log returns; a run of the projector (`worker[p]`) reads a window,
replaces its rollups one by one and creates its records; `sweep` is what the
budget comparison has read and `raised` what it has raised.  `UsageScreens`
and `UsageDrift` have no state: they are functions of `rollup`, `record` and the
provider's meter at the instant they are asked.

`DirectoryReading`: `member` is the directory itself, `snapshot` the roster with the
version it was read for, `token[h]` and `run[h]` what a host holds: per group one question for the
members and one for their details (entra-directory-query.mjs), any of which may
be refused, fail or be cut off; what is neither ends the run (`Thrown`).

`OwnedRemoval`: `cloud` is what exists and whose it is, `manifest` and `deleted` what
the deployment recorded, `readings` what was read and how long ago, `approval` and
`authorization` what was approved and issued; `FreshFor` and `ApprovalLife` are the
tool's time limits.  Others act through `Remove`, `Restore`, `Redeploy` and `Ripen`.
`since` is the history the properties are stated over: for how long something has
not been there as this deployment's, or not been purgeable; `unrecorded` is what this
deployment made that went without a record of its deletion.  A purge is authorized on a
reading of a name alone, so whose the purgeable thing is cannot be told; the property
says so by counting a purgeable life whoever's it is.

### Abstractions

General.  Texts, `at` stamps beyond presence, response bodies, display codes and
the validation of request bodies are left out.  Every bound is a constant named
`Max…` or listed under "Bounds".

- *Publication.*  A governance set is one model value; a draft is written once,
  so reading it is taken together with its revision; the membership index is one
  more target.  A revision that conflicts on a create-only write ends the
  request, as the handler's error path does.  The screen's viewer may publish and
  is attributable; every other viewer is offered nothing.
- *Writer.*  One revision, two pages with one administrator each.  The server's
  instant is constant, so an audit entry is told from another by who did what,
  from which state to which.
- *Authoring.*  A record is named by what it is about (a binding or plan by its
  target, a grant by holder and scope, a budget by its model, a model by its
  deployment); limits, reasons, validity windows, expiry and record versions are
  left out, and the roles *own* and *administer* are not told apart.  Approval
  and taking up are one step and parts that did not change count as landed then;
  entity tags and overlapping publishers are `GovernancePublication`'s subject.
  Whole-set publication other than the import, and abandoning an import, are left
  out.  A proposal under a number taken meanwhile is dropped.  The content of a
  finished revision is forgotten.
- *Schedules.*  Runner codes are distinct (schedule-configuration.mjs:39 cuts
  them at 32 characters).
- *Notifications.*  Reading what was already raised and raising the rest is one
  step, because the write is create-only.  What an endpoint must look like and
  what is posted are left out.
- *Policies.*  In `PolicyGateway` an edit and its publication are one step, since
  the publication has its own module.  A team is identified with the directory
  group that maps to it; a plan's `enabled` also stands for its record's state.
  Of limits only what decides whether a document composes is kept.  Groups are
  constant per caller (`PrincipalAdmission` changes them), whether a warning
  threshold is reached is an input (`BudgetCounters` counts), and the mode that
  serves ungoverned requests, which every product deployment switches off, is
  off.  Partial edits, the refusal to edit an entry issued for oneself and the refusals
  for the order of names (`GovernanceAuthoring` has both refusals) are left out.
- *Admission.*  One caller on one route, entitlements constant, ages instead of
  instants.
- *Budgets.*  A tick is an hour; a document is cached for less than one, so the
  turn of the hour clears the cache.  Admitting a request is one step.  The
  counter itself is the gateway product's (external).  Per-minute rates, the
  throttling rates of tiers and budgets in money are left out, and a substitute
  is one hop away.
- *Usage.*  Token counts are small numbers, prices are left out, a team stands
  for every keyed grain (team, subject, application), budgets the gateway cannot
  enforce are left out.  Screens are functions of the store at one instant.  The
  provider's meter is external and traffic past the gateway is one request.
- *Directory.*  One host runs the timer (the platform's timer lock), a person is
  a model value and the paging of one answer is left out.  Teams and groups are
  one-to-one.  A person the gateway's own source of memberships does not know is refused
  whatever the roster says (policy-resolution-endpoint.mjs:256), so `RosterShowsPolicy` speaks of those it
  knows.  The users-and-groups screen is read under the version the roster
  was read for: roster and policy are not compared by version in the code, and
  under another version a row shows the old team's models until the next reading.
- *Removal of a deployment.*  What the tool is given is external: the operator
  passes the current state document, a reading lists everything, and two
  readings with equal content at one instant share a digest.  Whatever is gone may be
  created again by anybody, to the letter or not.  The resource group exists before; the role on the vault is
  the secrets user's.  Principals and application links, the model account's
  preflight and the bundle are left out.  An authorization, once issued, has no
  time limit in the code and none in the model.

## 3. Runs

| Run | Instance | Shows |
|---|---|---|
| `RevisionCommands` | two actors, one self-approver, two targets; unbounded sequences | an active revision is confirmed by every target, and a second pair of eyes approved what is published, whatever late report, edit or withdrawal came in between |
| `PublicationOverlap` | two administrators, two revisions, two targets, two contents; four requests that overlap at every store call, or five alone, each of which may be lost | approved content lands, withdrawn content does not, active landed everywhere; without overlap what is served is the active revision and the screen always has a button that leads on |
| `WriterConflicts` | two pages, one target, four requests, four versions | every write lands on the version its sender knows, and an overwrite leaves nothing out that its sender was not shown |
| `GovernanceAuthoring` | two administrators, two teams and groups, one person, two models, three revisions, mixed readings; the models, the teams and two bindings come in another order by code units than by the locale | every set stored resolves; a removal leaves nothing that names what was removed and is possible when it is offered without blockers; what the page's panels for bindings, plans, teams and grants let be sent is accepted, but for the refusals `FormsAreAccepted` lists |
| `ScheduleRecovery` | two runners, interval 2, lag 1, lease 1, batches of two, one failure, one crash up to instant 3 of 7 | the schedule keeps its duty, closed windows are settled |
| `NotificationRace` | one notification raised twice, two dispatch runs, an operator, two retention passes, two choices of the recipient, one lost worker | delivered was accepted, only acknowledged records are removed unless raised again behind a pass that had decided, a recipient takes over, every attempt was a send, everything settles once there is a recipient |
| `PolicyGateway` | one caller in two groups, two models, two contracts, two lookups in flight, cache time 2 and timeout 1; three initial sets, any one edit or removal at any moment | withdrawals take effect within cache time and timeout together, substitutes answer their route, no list names a model that is gone |
| `PrincipalAdmission` | one caller, user or workload, two groups, two lookups, lives of one tick, cache time 2 | leaving a group takes effect within a bound; a refusal is an answer about the caller and not about missing evidence, but for a user with more groups than a token lists |
| `BudgetCounters` | one budget id over five sets of terms (hard, soft and throttled, over a model and over all, hourly and daily), two callers of one application (one of them in two teams), two hours, two edits from one administrator's form that may be stale, two requests at once, one token per request | a counter holds what was spent under its budget as it was authored unless the id came back, a quota is passed only by what was in flight, every soft budget warns when its configured amount, or that share of the limit that displaced it, is spent |
| `UsageProjection` | two rows, two windows, two projector runs in all, log settled after one tick, row limit 2 | complete rollups are exact, warnings are earned, repeated runs agree, screens agree, a dispute with the provider is real |
| `DirectoryReading` | one host, two groups, two people, one change, a token that may be too old | complete is whole, the roster catches up, the screen agrees with the gateway |
| `OwnedRemoval` | one deployment beside a shared account and a second deployment, readings good for the tick they are taken in, approvals for one more, one reading at a time, two disturbances | only what is this deployment's own, seen so in time, is authorized, unless something of its own went unrecorded; what is protected is spared |

`TypeOK` of each module was checked on its run's instance and is no run's property:
where it is proved the proof module says so.  The properties that only theorems state
(`StampsAgree`, `PublicationIsCommitted`, `OnePublisherRecords`, `LeaseHolderKeepsClaim`,
`GrantsOnlyWiden` and others) were model-checked before they were proved.

### Bounds and why they are enough

Two administrators and two revisions are what a race over a number, a draft or a
target needs; a third request acts on what two left behind and a fourth finishes
it.  `PublicationRegime` has two regimes: `alone` false, with at most
`MaxOverlapping` requests, two at once; and `alone` true, with at most `MaxAlone`
requests one after the other, each of which may be lost anywhere.  The second
regime leaves out removals, which skip the in-flight check, and the first leaves
out the import.

`MCUsageProjection` has two regimes as well, chosen once: `comparing`, where the
budget comparison runs beside projector runs that find no catalogue and so keep no
records, and otherwise, where every run is possible and nothing is compared.  The
comparison reads rollups only, so records and comparison never meet.

A third revision lets `GovernanceAuthoring` remove what an edit added over an
import; its `Standing` start is an import that was narrowed and whose team
binding was revoked, so that a revoked record is there to be revived.

Four requests and four versions are a save, a competing save, a confirmed
overwrite and a publication on top of it.

Seven instants with windows of two and a lag of one close three windows, one more
than a batch, so a plan gives windows up, runs a full batch, and can fail or be
lost inside it; a lease of one expires inside a run.  Two attempts are a retry
and a limit, and raising twice lets a record be removed by one retention pass and raised
again before the other removes it.

One publication is what a lookup in flight and one that follows can disagree
about; the three initial sets are what earlier edits leave (a plan and a
suspended binding, a model nobody is allowed, a budget and a team without
binding), so that every edit is possible in one of them, and the second slot lets
an older answer arrive last.  The same holds for admission, where every life is
one tick and the cache's two, so that each kind of evidence can expire before,
with and after the cached policy.

Two rows in two windows with two runs give a window that is empty, partial,
delivered in two parts or truncated beside one that is whole; every run can be
repeated after the log settled.  One hour turns, so a counter is used in two
periods and a request may start in one and end in the other.  Two edits are a removal
and an addition under the same id, or two terms of one budget; an edit from a form that
is out of date needs no second administrator, as the form keeps what it read.

One change while the two groups are read lands before, between or after each
question.  Two disturbances are a removal, recorded or not, and what is put in its place;
an approval that outlives the reading it was given on lets a second reading stand behind
the authorization.

The order of names matters only where two of them disagree, so one pair of each kind of
list is enough: the two models, the two teams, and the bindings of a team and the person.

`CHECK_DEADLOCK FALSE` is set where the bounds on requests, revisions, versions
or time end every behaviour; in the systems themselves nothing has to happen when
nobody calls.  `PolicyGateway`, `PrincipalAdmission` and `OwnedRemoval` keep time
as ages and are checked for deadlock.

### Fairness

Safety runs assume none.  `ScheduleRecovery` assumes that time passes, that
*some* runner's timer keeps firing (the host restarts a lost process;
`functions/index.mjs` registers the timers) and that a process which was not
lost gets on with its tick; it does not assume that a given runner ever returns,
and work fails a bounded number of times.  `NotificationRace` assumes that time
passes and that each dispatch run, once begun, goes on and is begun again by its
timer; nobody has to acknowledge or choose, and the channel may fail for ever:
settling needs only a recipient.  `DirectoryReading` assumes that the timer keeps
firing (`Start`), that a run gets on with its questions (`Step`), and that the
platform's token is replaced when its life is over (`TurnOver`); nothing is assumed about what the directory
answers: the property's premise is that from some point on it does answer.

### Where the code and its words differ

Seen while modelling.  The models do what the code does; the properties above
are stated so that they do not claim otherwise.

*Publication.*
- The read-back compares the top-level keys of two documents only
  (governance-publisher.mjs:51), so a target counts as verified while another
  revision's document is stored.
- While a publication runs, and after it failed part way, callers are served
  parts of two revisions (governance-publisher.mjs:165; docs/02-administration.md:35
  speaks of a set as a whole).
- Two requests that both read "nothing in flight" publish two revisions at once
  (publish-governance.mjs:357), which configuration-lifecycle.mjs:265 means to exclude.
- A request lost between draft and revision leaves a draft that every later
  proposal of that number meets and is refused (draft-authoring.mjs:70).
- A removal proposed beside an import in flight makes the screen's resume button
  refused.  Targets verified in a failed attempt stay verified on retry
  (configuration-lifecycle.mjs:198).  Names carry at least four digits and the handler
  accepts exactly four, so revision 10000 cannot be resumed (draft-authoring.mjs:68).

*Authoring.*
- An edit is proposed from the published set it read; two edits proposed one
  after the other from one reading are kept apart by the in-flight check, but
  check and store are separate queries, and a removal has no such check
  (governance-removal-service.mjs:41): the edit landing later undoes it.
- A plan from a to b and another from b to c are accepted by authoring, and every
  caller allowed all three is then unresolvable: chains are compiled for one hop
  (fallback-plan-compiler.mjs:25) and validated to the end
  (effective-policy-validator.mjs:242).
- The validators require lists in the order of `localeCompare`
  (governance-authorization-validator.mjs:82), and entitlement-edit.mjs:219 and
  team-catalog-edit.mjs:62 say that they apply the order the validator requires; both
  sort by code units (entitlement-edit.mjs:206, 221; team-catalog-edit.mjs:64), and so does
  the page (governance-authoring.mjs:67, 111).  An allowlist of `Kimi-K2` and `grok-4`, a
  team `Beta` beside `alpha` and whatever removes or adds a team beside such a pair are
  refused with a 409; a planned removal of a team is offered and then refused.
- A planned removal is offered and then
  refused when an imported plan carries an inline notice without `preferred`.
  The plan panel lets an inline notice on a pinned plan be sent
  (governance-authoring.mjs:229), which the service refuses
  (fallback-plan-edit.mjs:158); a plan for one person can be added on the page but
  no screen shows it for editing.
  A zero rate is valid in an entitlement and invalid in a composed document
  (effective-policy-validator.mjs:282).
- Removing a team checks bindings only, so plans and assignments naming it come back to
  life when it is added again; removing a model through its own route checks binding allowlists only; adding a
  budget or a plan edge is not checked against the registry, a grant not against
  the catalogue of teams.  Granting a revoked role again is always refused.
  A planned team removal deletes the assignment records whose trail
  assignment-edit.mjs:12–15 says is kept.
- Registry and fallback snapshots expire after 30 days; from then on every edit,
  a recapture included, is refused, and only a whole-set publication leads out
  (docs/02-administration.md:120 describes the recapture).

*Writer.*  The record of an overwrite lists audit entries as discarded although
they remain in the history.  The pages always act as `local-admin`.

*Notifications.*  The tag a removal is written against is read after the decision to
remove (notification-retention-sweep.mjs:48), where its header (11-13) says a removal is written
against the version the sweep read.  With two overlapping passes, which
schedule-recovery.mjs:9-12 reckons with, one removes a record, its cause raises it again,
and the other removes the new one, which nobody has acknowledged or even been sent:
notification-retention.mjs:4-6 calls a warning nobody ever saw exactly the one that must
not disappear.  The screen offers *Acknowledge* on pending records, which is
refused.  Removing a closed record forgets that its cause, which may still stand,
was raised (publish-failure-sweep.mjs:25).  Replacing a recipient first reads the stored
one with validation, so an invalid stored one cannot be replaced.

*Budgets.*
- A budget removed and added again restarts at version 1 (budget-edit.mjs:196) and takes
  over the old counter; one whose edit was written over from an outdated reading shares its
  version with the other.  inference.xml:475-477 says that an authored budget cannot inherit
  consumption from another, and docs/02-administration.md:100 that a new version does not
  inherit the counter of the one before.
- Of the budgets and entitlement limits of one scope over the same models only the one of
  the lowest rate is kept (effective-policy-composer.mjs:107-141), where
  docs/03-operations.md:228, docs/01-deployment.md:704 and docs/02-administration.md:67 give
  every applicable budget a counter of its own.  A soft budget displaced so never warns
  at its own amount, but at the same share of the limit in its place.
- The lowest warning percentage of all budgets applies to every counter; one
  below a full percent means no warning.
- The last window of a period, and hourly budgets altogether, are never
  compared (scheduled-budget-notifications.mjs:60).  An hour without requests has no document and
  leaves the rest of its period unjudged (period-consumption.mjs:130).
- Model pressure, which inference.xml (about line 600) describes, is never passed by the
  resolver.  The header of scheduled-budget-notifications.mjs says an incomplete organization reading stops
  the run; the code compares anyway.

*Usage.*
- Requests refused with 403 or 429 count in a rollup's requests but never reach
  the provider, so every window with a refusal is disputed as critical
  (drift-detector.mjs:112), although composition-root.mjs wants disputes kept rare; a refusal
  and a bypass cancel out; an indeterminate window is not compared again.
- The usage and models screens read `source.state` and `ingestionLagSeconds`,
  which no rollup has (stored-governance-source.mjs:67–106): they always say complete, and stale
  as soon as there is any lag.  A team's overview is complete although windows
  are missing; the overview for oneself adds up every subject's documents; the
  budgets screen never finds an observation of a team, subject or application; a
  partial figure is called a floor although estimates may exceed the provider's
  count.
- A rerun without an answer from the log replaces a complete organization rollup;
  disagreement with a record is only counted before the write.

*Removal of a deployment.*
- The comparison of what stands with what the deployment recorded leaves out who created
  it (ownership-contract.mjs:434-442), and only what is recorded as deleted is asked to be gone
  (852-854).  Something of this deployment that was removed without a record and created
  again by another, to the letter, is authorized for deletion.

*Admission and directory.*
- A user with too many groups is forwarded with the empty list (inference.xml:266) and
  refused 403, though gateway-identity.mjs:16-25 tells absent from empty,
  docs/02-administration.md:47 says overage is never taken for an empty list and
  docs/03-operations.md:219-220 has incomplete data answered with 503;
  several comments still speak of a conservative default where the code answers
  403 or 503.
- A stored snapshot is never stale, its time being the reading's own
  (stored-governance-source.mjs:38).  The role mapping drops `own`
  (admin-role-authorization.mjs:170–186), so `GOVERNANCE_ROLE_MAPPING` cannot grant it.
- People in several teams are shown as denied and vanish from team views although
  the gateway allows them; bindings to a subject never match a roster row.

## 4. Proofs

`tlapm` checks every proof; the constants are only assumed to be what their
`ASSUME`s say (distinct null values, positive lengths and limits, natural
bounds, approvers and owners among the administrators).

- `LifecycleTheorems`: what the operators return and keep, cited by the others.
- `GovernancePublicationProofs`: the stated properties are not inductive, since
  they say nothing of what a request holds between two store calls.  `IInv` adds
  that a stored revision is *lawful* (its stamps agree with its state), that a
  request holding a current tag holds the stored revision up to outcomes not yet
  stored, that one holding an older tag still knows that the publication it saw
  start was reserved, and that no two proposers are about to create one
  revision.  The safety properties are proved for any number of administrators,
  revisions, targets and requests.  The second part is about requests, none of them a
  removal, that come one at a time and may be lost anywhere.  `LoneInv` says that what is in flight is the last revision
  and so the only one, that a running request holds it under its current tag, and that a
  target serves that revision once it was written there and the active one until then
  (`Served`).  What is served at rest is then the active revision, and every button of the
  screen leads on (`AloneServes`, `AloneScreen`).
- `AuthoringScheduleProofs`, schedules: `Held` says what a runner's tag proves about the
  checkpoint, `Planned` what its plan covers.  From them: types, the lease, no
  repetition within a lease, and that `ScheduleRunner` implements
  `ScheduleDuty` (initial states and each step map to a step or a stutter).
- `AuthoringScheduleProofs`, authoring: `LiveInv`, `RevisionsInv` and `WorkInv` say the same
  of the three places a set can be (published part by part, stored as a revision,
  read by a request or shown on a page): each of its parts is one the validators
  accept, and what was computed from a whole set still resolves.  Per editor a
  lemma says which part it writes and that the part it returns is accepted; per removal
  lemmas say what is left that names the target (nothing) and that a plan without
  blockers yields a set.  A part may land beside parts of another revision, so no
  theorem is about the published set alone.  `AuthoringForms` compares the panels'
  conditions with the editors' refusals for every published set and every disagreement of
  the two orders: accepted exactly where none of the named reasons holds.
- `NotificationLedgerProofs`: `LedgerInv` says that what a worker holds under a
  tag that is still current agrees with the record: an outcome is written over a
  pending record, an acknowledgement over the settled record it was computed
  from.  `LedgerFlight` adds what was sent and is not yet recorded, from which the attempts on
  record were sends.  `LedgerRemoval` needs `Decided`: what a pass plans to remove is closed,
  and was long enough ago, for as long as it is not raised again, whichever other pass removes
  it first.
  `ChannelImplementsLedger` shows that the ledger with a recipient
  (`NotificationChannel`) implements the one whose sends are unrestricted, so the ledger's
  theorems carry over; `ChannelRecipient` proves the property only it has.
- `PolicyGatewayProofs`: that every edit and removal publishes a well-formed set
  that names registered models only is proved action by action.  The time bound
  needs what lies in the cache and in flight: `GatewayInv` says that whatever an
  answer of age *n* allows was withdrawn at most *n* ticks ago, and a cached
  document of age *n* at most *n* and the timeout, likewise for the contracts of
  its substitutes, and that a document is stored under the key of the caller and
  contract it was resolved for.  The bound then follows for any number of
  callers, models, lookups and edits.
- `UsageProjectionProofs`: `ProjectionInv` says that what a run holds was
  delivered, and that what it is about to write as complete had settled when it
  began; from it complete rollups are exact and two readings of one request
  disagree only for a cause, for every window length, lag, row limit and
  interleaving.  `ReadersInv` adds what a rollup and a record say of the rows they
  were made from and what a warning was raised on; the screens, the budget
  comparison and the comparison with the meter are then functions of it.  They add
  up over sets of windows and rows: the sum of the community modules is a recursive
  function over finite sets, and the facts about it (taking one member away, unions,
  sums over a partition) are proved by looking at a smallest set that violates them
  (`WFMin` over the cardinality), since induction itself is out of reach.
- `UsageProjectionProofs`, budgets: `CounterHolds` relates the gateway's counters to what was
  in fact spent: for every key and every set of hours both add up to the same, which
  each step keeps because it charges both.  `RoomHolds` says that what was spent on a limit
  in any period, together with what the requests under way may still add in the
  current one, stays below the quota plus one response per slot, as long as
  the budget had no other terms.  `VersionsInv` says that two budgets ever in force under one
  id and version are one and the same unless the id came back, and that whatever was charged
  or is in flight was such a budget's limit.  So a counter's key tells every authored budget
  from every other, which is what makes a counter hold its own consumption; a quota is
  overrun only by what was in flight.  For a soft budget `SomeTightest` finds a limit of its
  scope that the composition kept, `RateOrder` that its rate is no higher, and the arithmetic
  (`Times`, `SameShare`) that the gateway's warning line, a percentage rounded down and the
  lowest of all, lies at or below that share of it.  For any number of callers, models,
  budgets, hours and edits.
- `ConfigurationWriterProofs`: neither property says anything of what a page and a
  request hold between two calls of the store.  `WriterInv` says that whatever was
  read under a tag that is still the store's (a page's reading, a reading on its
  way, the history a warning showed, the base of a request) is what is stored, that a
  request's base is no older than the version it acknowledged, and that what a
  publication is about to deliver continues what it started from.  For any number
  of pages, requests, targets and writes, every write then continues the history it
  replaces, and an overwrite names everything in between.
- `ComponentProofs`, removal: `RemovalInv` says that what the sealed manifest calls created
  was made here and is spared by nothing protected, that whatever stands under one
  of our identifiers and is not ours stands there for something on record as deleted or
  `unrecorded`, and that a
  reading of age *n* that saw something present or purgeable means that it was so at most
  *n* ticks ago (`Witnessed`).  Every authorization was issued on a reading within
  `FreshFor`, which gives both properties for every inventory and any
  number of disturbances.
- `ComponentProofs`, admission: `AdmissionInv` says of each piece of evidence (token,
  cached answer, roster, what a lookup holds) that what it says of the caller was so at most its
  own age plus the age of what it was taken from ago (`SaidWithin`, `Grounded`).  The bound within which
  leaving a group takes effect is the sum of these, and a refusal rests on
  evidence that was gathered, or on a token that listed no groups of too many.
- `ComponentProofs`, one revision: type, confirmation, separation of duties and stamps
  are inductive together (`LifeInv`; a stamp is what tells why a state may be left); the
  action properties follow from them.
- `ComponentProofs`, roster: a group is read by two questions while people come and go.
  `RosterInv` says that each answer of a reading that was not cut off is put together
  from the directory at two moments of that reading (`ToldOf`), and that the groups answered
  and still to ask make up the version's catalogue unless one was refused.  A
  complete snapshot therefore is one, and since an allowlist only grows with the bindings
  that match, no row of the screen promises more than the gateway would have served at
  some moment of the reading; for any catalogue, bindings, hosts and moves.

What the attempts to prove showed, beyond what the runs had found:
- That nothing protected is authorized was stated too strongly: a grant is removed
  beside a protected account when the account's own scope is protected too.  The
  property now speaks of everything that shields a record.
- "Ours when last seen" is false for purge phases once somebody else may act two or
  three times between reading and authorization; one disturbance does not show it.  What is
  true is what the property now says.
- The fallback panel lets an inline notice on a pinned plan be sent, which the service
  refuses (see above); the run's plans had never met it.
- Assumptions on constants the models had used silently are now stated: what an
  inventory can be (`InputAssumption`, `NoneAssumption`), what a catalogue, a document and
  the meter can be (`UsageAssumption`, `DocumentAssumption`, `DriftAssumption`), that a
  deployment in use resolves (`StandingAssumption`), that names of different
  kinds differ (`NamesAssumption`), that no binding names a directory code or the
  absent team (`CodesAssumption`).
- Counters of a team and of a person were told apart by their names alone; the key now
  carries its scope, as the gateway's does.

Several listed theorems state a property no run lists any more (types, leases,
finality, what a screen offers): once proved for every instance, a small
instance adds nothing.

Only model-checked: liveness (`WindowsSettle`, `NotificationSettles`,
`RosterCatchesUp`), which is beyond the prover.  Every safety property a run checks
is also proved, as is `KeepsDuty`.

## 5. Not modelled, and the plan

Written, in this order: the reducer, publication, schedules, notifications,
policies and the gateway's cache, and a proof module for each; then usage from
log to screens and its proofs, the writer and its proofs, the directory and the roster, admission,
the removal of a deployment, budgets and counters, authoring, the lifecycle
screen and the recipient.

Left out, with the reason:
- Rendering, texts and sign-in of the administration page
  (`admin-ui/public/app.mjs`, `i18n.mjs`), most of the local server, and the
  change log: presentation of state that is modelled where it is kept.
- Supply chain evidence, the boundary scan, snapshots, templates and the build:
  scanners and reports over files.
- Endpoint fingerprints, prices and provider quotas: pure comparisons and
  lookups without order or concurrency.
- The fallback and notification screens, the expiry of snapshots, per-minute
  rates, budgets in money, and the streaming of answers at the gateway.

Hazards without a property, because the code does what a property would have to
forbid: the orphan draft, the shallow read-back, the removal without an
in-flight check, and windows whose report of having been given up is overwritten
by a second outage (schedule-recovery.mjs:178).

Next: `PolicyGateway` over `GovernanceAuthoring`'s part-by-part publication.
