# HO-Azure-Lab: TLA+ verification project

HO-Azure-Lab validates the HO-Azure tool against a real Azure lab. Its program,
`labctl`, derives the surface HO-Azure ships, keeps a manifest that accounts for
it, executes the covered checks from several viewpoints, compares what the tool
printed with what Azure shows, and says whether the result may be taken for
release proof. The question this project asks is whether that last answer can
be wrong: after a crash, a rerun, a timeout, a narrowed selection, an edited
manifest.

All paths below are relative to `src/`.

## 1. The system

| component | state it keeps | operations | hard parts | what makes it correct |
|---|---|---|---|---|
| manifest (`internal/lab/manifest.go`, `types.go`, `contracts/`) | the manifest file: required viewpoints, per surface a status, a reason, a status per viewpoint | `scaffold-manifest` (two profiles), edits by hand | goes stale as HO-Azure ships and retires surfaces | it accounts for exactly the shipped surface; nothing is hidden without a reason |
| run profile (`internal/lab/run.go`, `cmd/labctl/main.go`) | selected and skipped checks, a label | flags and profile file merged, selection | zero selections, labels, interplay of selectors and viewpoint | the release gate is the whole plan; no selector is dropped |
| run orchestration (`RunAzureValidation`, `RunValidation`, `ScaffoldRun`) | a run directory: placeholders, run profile, command log, timeline, run result, payloads, summaries | `scaffold-run`, `run-azure-execution`, `run-azure-validation`, `live-validate-run` | killed between writes, failing writes, rerun in the same directory, temporary directories with credentials | reports never contradict each other; "pass" and exit 0 are earned |
| command runner (`executeTask`) | one child process at a time, three invocations, the log entry | start, wait, deadline, inactivity ticker, write the output | exit, deadline and ticker race; descendants hold the pipes | the entry is true; a child is killed for a cause; a check ends |
| viewpoint sessions (`setupViewpointSession`, `setupAdminAmbientSession`) | a temporary `AZURE_CONFIG_DIR` | az login, account set, remove | failure after the directory is made | removed on every way out |
| live validation (`ValidateLiveRun`, `validate_surface_*.go`, loaders) | findings | read log, payloads and contexts, compare | missing payloads, repeated validation | findings stick, the outcome never improves |
| live context captures (`run_live_context_*.go`) | context artifacts | az queries per surface | tolerated and fatal errors of az | a failed capture fails the check |
| completion verifier (`ValidateLab`) | none: reads the directory | `validate` | zero covered checks, stale or foreign files | complete and release-ready only on proof; no clean run turned away |
| Azure setup (`setup.go`) | the lab, its users, an environment file | apply, outputs, users, canaries | failure halfway, rerun, polling limits | a rerun completes what was begun |
| surface derivation (`surface.go`) | none: parses HO-Azure's Go source | `derive-surface` | text shapes | every shipped surface is found once |

`labctl` calls the components one after another in one process. They interact
through files: the manifest goes into a run, the run leaves its directory, live
validation rewrites the run result, and the verifier reads manifest and
directory together. Concurrency is inside `executeTask` (a goroutine waits for
the child while a ticker and the context's deadline run) and between processes
that follow each other in one directory.

`PROJECT.json` lists every hazard at its line, with the properties aimed at it.

## 2. Modules

| module | models | notes |
|---|---|---|
| `LabManifest` | manifest, plan, scope, accounting rules, scaffolding | definitions only |
| `RunProfile` | selection, `BuildRunProfile`, release gate | definitions only |
| `Completion` | the files of a run directory and the verdict on them | definitions only |
| `RunPromise` | what a run result promises its reader | abstract specification |
| `AzureRun` | `labctl` on one run directory | state machine; composes `LabManifest`, `RunProfile` and `Completion`; refines `RunPromise` |
| `CheckPromise` | what one check promises the run | abstract specification |
| `ExecuteTask` | one check: child, deadline, ticker, pipes | state machine with a clock; refines `CheckPromise` |
| `CommandCapture` | `runProgressCommand`: two copiers, one buffer | state machine with a data race |
| `ManifestLife` | a manifest scaffolded, edited, overtaken by HO-Azure | state machine over `RunProfile` |
| `LiveValidation` | which files a check leaves and its validator reads, over reruns and kills | state machine |
| `SurfaceModes` | how a column of a row is compared | definitions only |
| `SurfacesCompute`, `SurfacesPlatform`, `SurfacesData` | per surface: columns and their rules, queries and what they fill | tables |
| `SurfaceCheck` | one surface: tool, capture, comparison, a live Azure | state machine over the tables |
| `PostureFindings` | keyvault, storage and resource-trusts: three validators, one posture | state machine |
| `NetworkExposure` | network-effective and network-ports: one walk for evidence, summed up or row by row | state machine |
| `FootholdRules` | escalation-path, the persistence families and whoami: what is expected of a payload, from its siblings | definitions only |
| `TenantRules` | auth-policies, cross-tenant and role-trusts: what is captured of a directory that shows only parts, and what is expected of a payload | definitions only |
| `Foothold` | the commands of one viewpoint that speak of the signed-in identity and of its tenant, their captures, and their validation | state machine over both rules |
| `AzureSetup` | `setup-azure-environment` with kills and reruns | state machine |
| `MC...` | instances for TLC | modules without one are run directly |
| `AzureRun_proofs`, `ExecuteTask_proofs`, `LiveValidation_proofs`, `SurfaceCheck_proofs`, `PostureFindings_proofs`, `NetworkExposure_proofs` | theorems about the module of that name | checked by TLAPS |
| `Preparation_proofs` | theorems about `AzureSetup` and `ManifestLife`, what a run starts from | checked by TLAPS; the specification of `ManifestLife` is `LifeSpec`, so that one module can extend both |
| `Captures_proofs` | theorems about `CommandCapture` and `Foothold`, how a capture is made and what payloads and captures are held against | checked by TLAPS; the specification of `CommandCapture` is `CommandSpec`, for the same reason |

`RunPromise` is what remains of `AzureRun` for somebody who reads nothing but
`run-result.json` and the selection in the run profile: log, timeline, sessions,
memory and the place in the program are gone. It lets a run stop anywhere,
maybe with half a record, and says in which steps a record may come about.

`AzureRun` takes the execution of a check as one step, `ExecuteTask` is that
step, and `CheckPromise` is what they agree on. `AzureRun` takes a payload as
good or bad, `LiveValidation` says against which files that is found out, and
`SurfaceCheck`, `PostureFindings`, `NetworkExposure` and `Foothold` how.

### State and code

**AzureRun.** `pc` is the place in `RunAzureValidation` / `RunValidation`; each
`os.WriteFile` is a step of its own, because a kill can come between two of
them, and may leave a file torn (`TearFile`): `WriteFile` truncates first. The
memory of the process (`mem` is `runResult`, `entries` the log entries, `todo`
the rest of the loop) is lost by `Return`; the disk (`log`, `timeline`,
`result`, ...) stays for the next command. A file is a record with its form
(absent, torn, placeholder, real) and a stamp: the run that wrote it and whether
`started_at` had been taken, which is all the verifier's comparison of
modification times can see. `passed` is a history variable: what was really
executed and passed. The tool is external: `Execute` lets it pass or fail and
print nothing, a good payload or a bad one. `RecordFail` also stands for a
context capture that fails after the tool passed.

**ExecuteTask.** `stage` is the place in `runInvocation`. os/exec is external
and modelled by what the code relies on: the context's watcher kills a child
not yet reaped (`Deadline`), `Wait` returns an error if the exit code is not
zero or the context was cancelled first, and not before everyone who inherited
the pipes has let go (`WaitReturns`). Select's choice between a ready wait
channel and a tick is the choice between `Receive` and `Tick`.

**ManifestLife.** Scaffold, edit and drift. The run profile and the accounting
rules are evaluated in every state, so that each property is about every
manifest an operator can arrive at.

**CommandCapture.** The library's `Buffer.Write` is three steps, since two
goroutines run it without a lock; an overlapping write may copy into an array
that has been replaced. Undefined behaviour beyond that (a torn slice header)
is not modelled: the properties say nothing once writes overlap.

**LiveValidation.** The runner's chain of `if task.SurfaceName == ...` is
`Captured`, the guards of the validators are `Needed` and `Siblings`: two tables
that only the names connect. A payload is true, drifting or unreadable; a
context belongs to a run and is whole or torn.

**SurfaceModes, Surfaces..., SurfaceCheck.** The validators repeat a few
comparisons (`checkString`, `checkBoolPtr`, sets of ids, ...) for some two
hundred columns. A rule says how lists are related, whether case counts, when
the comparison is skipped, and what a missing value reads as. The tables give
each surface's columns by rule and its capture's queries by the columns they
fill. `SurfaceCheck` then follows one column class of one surface: the tool
reads Azure, the capture lists and shows, somebody edits Azure at any moment,
the validator compares. Surfaces whose rows are derived by longer computations
(inventory, the identity commands) are not in the tables; network-effective and
network-ports have a module of their own. The table of event-grid lists its
routes once; that the capture passes over scopes answered like a 404, and keeps
ids that differ in case apart while it collects them
(`run_live_context_controlplane.go:400`, `:594`), is left out.

**PostureFindings.** The rules for the findings are written three times in the
code; they are three definitions here, compared with each other and with a
reference by reachability. The network condition of a vault alone is one
(`VaultNetworkFinding`), although `validate_surface_data.go` and
`validate_surface_resource_trusts.go` each have a copy: the copies are equal, and
what would happen if one of them changed is not checked.

**NetworkExposure.** `walk` is the place in `collectVMLiveNetworkEvidence`:
interface, its group, its subnet, the subnet's group, and the row that says no
rule is visible. `sight` holds what the viewpoint may read; what it may not is
passed over, any other error ends the capture. Both commands run their own walk,
then the payload is compared with the rows (network-ports) or with their summary
(network-effective). `EvidenceFor` says in one expression what a walk collects
and is the reference the properties compare with. The sources of a rule are
classified twice: `networkEffectiveConfidence` compares whole words (`Open`),
the internet ports look for the same words anywhere in the text of the sources
(`OpenFragment`, `strings.Contains`). `OpenTexts` are the sources with a word in
their text; the words are among them, and so is a service tag such as
`AzureCloud.germanywc`, with its "any". One machine with one address
and one address configuration an interface; container groups have no evidence
and are left out.

**FootholdRules, TenantRules, Foothold.** The validators of escalation-path, of the persistence
families (automation, logic-apps) and of whoami's consistency ask no Azure: they
rebuild what a payload must say from the payloads of permissions, role-trusts,
rbac and the resource command. `told` is what the commands printed, one after
the other, while Azure may change between two of them; `Right` is what a payload
says of Azure, independently of the rules, `Wrong` one error in it. A scope is a
place in the hierarchy and keeps what the code's two comparisons of scopes do to
it, "/" included; columns copied from the resource command are one value, the
capability steps are kept by what they ask for, and one resource stands for the
loop over resources. auth-policies, cross-tenant and role-trusts are compared
with captures (`recorded`) of what Graph shows; `blind` are the parts it refuses,
which a capture lists as issues the tool has to report. What a finding about the
tenant may rest on is defined independently of the code: it may be raised when it
holds of every tenant that looks the same from here (`Known`). The canary's is the
only application, so that no other application has an issue; names, scopes and
related ids of a policy or boundary are left out, the columns a trust's type
determines are one.

**AzureSetup.** A setup is named by its number, and what it draws at random
(key, workspace name, user suffix) carries that number. Applies are external:
one that fails leaves any part of its changes (`PartOf`). The core apply
excludes the lanes that are asked for and the default ones; what a step's
variable does not ask for, an apply that touches it destroys (`Applied`),
because the modules have a count.

## 3. Runs

| run | instance | shows |
|---|---|---|
| `OneRun` | two surfaces, two viewpoints of which one is covered, four selections (whole, one viewpoint, a selector with a forged label, demo), one run, fair | the outcome on disk is honest, exit 0 means proof, a clean run is accepted, findings stick, directories are removed, every command ends |
| `Rerun` | one surface, two viewpoints, two runs, whole or narrowed | the reports of a run agree whenever it dies; a mixture of two runs is never release-ready unearned; a finished run leaves nothing of another; `RunPromise` is implemented |
| `Races` | timeout 3 s, inactivity 1 s, descendants, fair | the log entry is true; kills have a cause; `CheckPromise` is implemented; a check ends if its pipes are released |
| `Manifest` | three surfaces, two viewpoints, one edit between scaffolds, any shipped surface | accounting, release gate, selectors |
| `Setup` | a default step, Azure ML and an add-in, canaries with two polls, users, own key, write-only; two setups with any of ten selections, fair | keys and workspace names survive; exit 0 is this setup's core; the core pass leaves lanes alone; nothing asked for is missing without a warning; recorded users are real; a setup ends |
| `Capture` | three chunks on each stream | output is whole unless writes overlapped; a call ends |
| `Surfaces` | 23 surfaces, all their column classes, two objects, one edit | findings have a cause; a pass means the rows keep what Azure says and nothing else is told |
| `Posture` | one vault, one account, every posture, one edit, one slip of the tool | truth is accepted, the three validators agree, findings are explained by rows |
| `Network` | two interfaces, two groups, six rule lists, four layouts, any rights, one slip of the tool | truth is accepted, a pass keeps every visible rule, the two commands agree as far as their two classifications do, hidden groups never raise the exposure |
| `Live` | each check alone, the groups that are compared with each other, and three campaigns of two runs; kills and failing captures | no truthful tool is blamed, no passed check is unanswered; contexts are the run's own, leftovers do not stop the validation |
| `Foothold` | three principals, eight sets of rights of the identity, eight plans, 36 tenants of which any part may be unreadable, a canary short of one trust, one edit, one slip of the tool | truth is accepted; a pass claims no step, foothold or execution identity that is not so and shows the escalation there is; whoami, principals, permissions and privesc name one identity; what can be read of the tenant is shown, what cannot is said, findings are what the visible part entails |
| `Timeout` | small | a statement of the repository that the program does not keep, see below |

**Bounds.** `MaxRuns` bounds the runs in a directory: two suffice for each way
in which a run meets what an earlier one left, since a third meets the same
kinds of files (theorem `ReleaseEarned` has no such bound). Two tasks suffice
to have a log, a timeline and a result that differ by one check; four (in
`OneRun`, by surfaces and viewpoints) to have selected, skipped, failed and
slow checks together. `MaxEdits` is 1 because a scaffold resets a manifest and
the rules look at one field at a time; the theorems hold for every number of
edits. In `ExecuteTask` the counters stop where no guard can tell them apart
any more; 3 and 1 let the deadline come before, at and after the inactivity
limit, counted from the last output, in every invocation.

`AzureSetup`: two setups let a thing be made or left halfway by one and asked
for, left out or taken away by the next; each setup may be killed anywhere, and
what the first leaves is any part of its resources. What needs a third, a name
soft-deleted between two setups with the Azure ML lane, no property of the run
is about. `Defaults` and `AddIns` give one step of each kind, which differ only in who
excludes them. `PollLimit` 2 instead of 10 has a first, a middle and a last
attempt. `CommandCapture`: three chunks a stream let a write overlap one that
came before and one that comes after. `SurfaceCheck`: the comparison goes
object by object, so two objects show each effect one can have on another
(counting, a listing that fails for one); a list of two values tells order,
case and a missing member apart. The two are symmetric (`MCSymmetry`): Azure may
list them in either order, and nothing chooses among them. One edit suffices, as the properties excuse an
edited object anyway. `LiveValidation`: a campaign says which runs follow each
other in a directory; two runs, for the same reason as in `AzureRun`, of the
checks that write several contexts or read siblings; one viewpoint, since no file is shared between viewpoints.
`NetworkExposure`: rows are collected interface by interface and compared one by
one, so two interfaces and two groups show groups that are apart, shared, and on
both sides of an interface; the rule lists hold each class of source the rating
tells apart, several sources in a rule, a service tag with a word in its text
(alone, and beside a private prefix, where it is rated low), a deny and a rule
without source or port.
`Foothold`: the rights of the identity are none that matter, one at each scope,
two at different scopes with either the nearer or the farther one stronger, and
"/"; trusts lead to a service principal directly, over an application, over a
federated credential, or over one somebody else's application has. A tenant has
security defaults on or off, one of six sets of controls and no, a reporting or an
enforced conditional access policy, and two principals of other tenants with a
sample of one. Each subset of the policies is unreadable in some scenario, and of
the parts of the canary's trusts; the plans of the tenant have one or two commands,
since none of them reads another's files.

**Fairness.** `AzureRun`: weak fairness of the process' own next step (`Work`).
A process that is scheduled takes it, and the programs it waits for end:
`ExecuteTask` shows when they do. Operators, crashes and failing writes are
not fair. `ExecuteTask`: the clock ticks, the runner is scheduled, the kernel
kills and reaps, and a ready wait channel is received in the end (Go's select
chooses at random). Nothing makes the tool exit by itself: without the limits
`TaskEndsOnceReleased` would be false; `TaskEnds`, which does not presume that
descendants let go of the pipes, is. `AzureSetup`: the
process takes its next step, OpenTofu and `az` return; Azure need not settle a
deployment, the poll limit does. `CommandCapture`: `az` ends by itself, since no
limit of the program ends it.

The runs of `AzureRun`, `AzureSetup`, `CommandCapture`, `SurfaceCheck`, `PostureFindings`,
`NetworkExposure`, `Foothold` and `LiveValidation` leave out their type invariants
(`TypeOK`), which hold on the same instances and say less than the other
properties; those of `AzureRun`, `ExecuteTask`, `ManifestLife` and `AzureSetup` are
proved (`TypeCorrect`, `TaskType`, `LifeType`, `SetupType`), and those of `LiveValidation`, `SurfaceCheck`,
`PostureFindings`, `Foothold` and `CommandCapture` as far as their invariants need them.

`CHECK_DEADLOCK FALSE` stands in the configurations of modules whose process
returns and is then still: all but `AzureRun` and `ManifestLife`.

### What the program does not keep

- `Timeout`: after the deadline's or the ticker's kill the runner waits without
  limit for the pipes; `main.go:302` documents a "Per-command timeout in
  seconds".

Fifteen more statements are written as definitions beside the properties the runs
check. No run names them; TLC refutes each one when it is added as an INVARIANT
to the configuration of its module (`GateIsNotEmpty` with `Manifests <- MCStarter`,
`RecordedPayloadWasEmitted` to `AzureRun_Rerun.cfg` with
`Prints = {"nothing", "good"}`, `FreshWorkspaceName` with
`Configs <- MCMachineLearning` and three setups).

- `AzureRun!ReleaseOnRealArtifacts` (in `AzureRun_Rerun.cfg`): a second run that
  stops among its first writes, or is refused by its own selectors or
  credentials, leaves the first run's result release-ready on placeholder
  artifacts; `validate.go:340` calls them "present and fresh".
- `AzureRun!RecordedPayloadWasEmitted`: a check that passes without output in a
  used directory is credited with the earlier run's `stdout.json`;
  `validate.go:2709` says "successful runs should always record the emitted
  payload path".
- `AzureRun!GateIsNotEmpty`: a manifest with nothing covered, which is what
  `scaffold-manifest` writes by default, yields a release-ready run that
  executed nothing; `README.md:557` says the repository is "not pretending a
  release gate passed when it did not".
- `AzureSetup!CreatedUsersAreRecorded`: an error after the first user was created
  leaves users and roles in the tenant and writes no credentials;
  `infra/README.md:87` says the phase "writes those sensitive credentials to a
  generated local file".
- `AzureSetup!FreshWorkspaceName`: a setup without the Azure ML lane deletes the
  workspace, which keeps the name for Azure's soft-delete period, and the next
  setup with the lane applies the same name; `infra/variables.tf:88` says the
  name is generated "so soft-deleted lab workspaces do not block validation
  reruns".
- `SurfaceCheck!RelatedIdsAligned`: `validate_surface_controlplane.go:502`
  compares the sizes of two sets; line 508 calls it "aligned with the Automation
  account and its visible identity IDs".
- `PostureFindings!OpenIsNotOverclaimed`: a finding about a vault Azure does not
  show passes; `validate_surface_data.go:205` says "keyvault should not overclaim
  an open public posture when Azure does not show it".
- `LiveValidation!SiblingsAreOfThisRun`: a family's check is compared with
  whatever payload lies in the sibling's directory; `validate.go:2924` speaks of
  "the same run".
- `NetworkExposure!CollidingRowsAreAccepted`: two interfaces of a machine that
  share a group give rows that `findNetworkPortRow` cannot tell apart, so that a
  right tool is blamed; `validate_surface_network_exposure.go:194` says
  "network-ports should preserve the VM, NIC, NSG, and identity IDs that support
  the visible ingress row".
- `NetworkExposure!StarIsInternet`: a rule for any source, spelled `*` as Azure
  does, is rated medium and is no internet port;
  `validate_surface_network_exposure.go:80` says "network-effective should keep
  broad internet-facing port evidence aligned with the visible Azure NSG rules".
- `NetworkExposure!InternetMeansHigh`: the port of a rule from a service tag with
  "any" in its name (`AzureCloud.germanywc`, `Storage.GermanyWestCentral`) is an
  internet port (`run_live_context_network.go:276`) of a medium exposure, or of a
  low one beside a private prefix; `validate_surface_network_exposure.go:71` says
  "network-effective should keep the exposure priority aligned with the visible
  Azure NSG evidence". `ChecksAgree` says what is left of the agreement.
- `Foothold!NearestDoesNotHide`: the nearest scope's role decides, so that an
  Automation Contributor of the account who is Owner of the subscription must
  show steps as not proven that it can take; with two roles at one scope the
  order of the rbac rows decides. `validate_surface_persistence.go:379` says the
  status should be aligned "with whether the current identity really has
  defended automation control at the relevant scope".
- `Foothold!WorkflowNeedsItsRole`: for workflows the same function is asked, and
  an Automation Contributor counts as in control of a Logic App;
  `validate_surface_persistence.go:715` speaks of "defended control of the
  workflow".
- `Foothold!BlindnessIsSaid`: role-trusts is asked for its issues only when the
  whole census is unreadable; a single part that is refused may be passed over in
  silence. `validate_surface_role_trusts.go:81` says role-trusts "should make
  unreadable trust census paths explicit instead of pretending the tenant has no
  trust edges".
- `Foothold!RootOutranks`: `payloadScopeAppliesToResource` trims "/" to nothing,
  so an identity with Owner on "/" has to show trust rows to identities with less
  than its own rights; `validate_surface_escalation.go:136` speaks of "a stronger
  reachable target". `persistenceControlRank` does take "/" for a scope above the
  resource, and neither knows management groups.

Noticed while reading, without a run of its own: the captures record
`DeveloperPortalStatus` and `LegacyPortalStatus` of api-mgmt, `DisplayName` of
managed identities, `AssetName` of workloads and the backing principal of
application credentials, which no validator compares; the roles of an execution
identity are looked up by its id as printed among ids folded to lower case
(`validate_surface_persistence.go:422`, `:768`);
`validateChainsOverviewPayload` and `validatePersistenceOverviewPayload` are
called by tests only; findings of one kind about two rows have the same id, so
that `MergeFindings` keeps one of them; a rule for a service tag and a private
prefix is rated low, although the tag alone is medium; a group with deny rules
only is reported as "no Azure NSG visible on NIC or subnet"; the captures read the
first page of a Graph collection only; an issue role-trusts reports about another
application than the canary's counts as unexpected.

## 4. Proofs

TLAPS proves the following for every value of the constants, under the named
assumptions of the modules: `AllAssumption` (the word "all" is no viewpoint),
`OrderAssumption` of `AzureRun` (the plan is ordered) and of `PostureFindings`
(each of the three commands runs once), `NicsAssumption`, `GroupsAssumption`,
`LayoutsAssumption`, `RulesAssumption` and `OpenTextsAssumption` of `NetworkExposure`
(interfaces are listed once, rules of a group have names of their own, a word
occurs in its own text), `IdsAssumption` (an Azure id names the
type of its resource, so none is a vault's and an account's),
`PrincipalsAssumption` of `Foothold` (finitely many principals, the signed-in one among
them, and a name for none), `ScenariosAssumption` (a plan holds the siblings of its
commands, the signed-in identity holds a role, the trusts of a lab are finitely many
and an edge has one row, also after an edit), `TenantsAssumption` (a directory that
is only seen in part may be a harmless one),
`ObjectsAssumption` of `SurfaceCheck` (a surface lists finitely many resources),
`CampaignsAssumption` (a plan has a check at most once, as it
is made from the keys of maps), `TimeoutAssumption` (limits are natural numbers); the
rest are types. TLC evaluates each of them in the runs.

- `AzureRun_proofs!TypeCorrect` and `ReleaseEarned`. Neither is inductive as it
  stands. Typing needs `TaskInHand`: executing and recording have a task. That a
  release-ready verdict is earned needs `Earned`: every "pass", in memory or on
  disk, is the pass of a check executed in the run the result is labelled with,
  and while a run works its result in memory carries its own number. Every
  action keeps it: a result is written whole from memory, torn, or has its
  findings merged; a check is settled as passed only where it is recorded passed.
  The last step is about the verifier alone: where the gate holds nothing is
  skipped, so that each covered viewpoint must have passed in that result.
- `AzureRun_proofs`, on the reports of a run: `ReportsAgree`, `PassIsHonest`, `ReportsAreOneRun`,
  `ExitZeroIsProof`, `CleanRunsAreAccepted`, `FindingsAreKept`, `ExitsAreClean`.
  All seven follow from one invariant, `ReportsInv`, which relates the process'
  memory with the directory. `Dated`: nothing there is of a later run than the
  last, so that the files an earlier run left, torn or whole, are told apart by
  their stamp. `InOrder`: the selected checks that are no longer to be done are
  settled alike in the log and in the result in memory, the others are not, and
  the outcome stays "blocked" until the last check. `OnDisk`: what is on disk of
  this run never says more than the memory does, which is what a kill between two
  writes, or a write that fails, leaves true. `Reported`: how log, timeline,
  result, findings, verdict and summary follow from each other once the checks are
  done. `SessionsOfRun` says whose a session directory can be. The properties speak
  of the directory between commands as well, when the memory is gone; there they
  are kept because no command but a run's own touches the files of that run, and
  live validation only merges findings.
- `AzureRun_proofs!RunKeepsRecord`: the commands on a directory implement
  `RunPromise`. Beside `ReportsInv` this takes `Checkpointed`: while a check is
  opened, executed and recorded, the result on disk is the one in memory; while
  the reports are written it is one step behind, and that step is the blank
  record of a new run (`Opens`), one check settled as it went (`SettlesCheck`),
  or the outcome (`Concludes`). So a write of the result is one step of
  `RunPromise`, a kill or a failed write is `Stop`, and what live validation
  merges is of the live checks (`Merging`), which is `Judge`. In `Rerun` the live
  checks find nothing, so that TLC does not see `Judge` there; `KeepsRecord` also
  holds when it is added to `AzureRun_OneRun.cfg`, where they do.
- `ExecuteTask_proofs!TaskType` and `EntriesAreTrue`. The invariant says where
  the three results stand (`Progress`: those before the present invocation
  passed, those after it are untried; once one failed it stays that way) and
  how the wait channel, the child and the deadline go together (`Waited`). The
  latter is needed because the exit code is computed after the race: a wait
  that returned no error belongs to a child that exited with 0, and an error
  with exit code 0 can only come from the deadline.
- `ExecuteTask_proofs!RunnerKeepsPromise`: the runner implements `CheckPromise`,
  the first three results being the count of passes, or the stop, of the
  abstract check. Every step of the runner is a pass, a stop, a close or a
  stutter; that an error text goes with the JSON invocation only, and that no
  entry exists before the end, are the lemmas it needs. `KillsHaveCause` is an
  action property: only `Deadline` and `Tick` set `killed`.
- `Preparation_proofs`, on manifests: `LifeType`, `ScaffoldIsAccountedFor`,
  `NothingIsHidden`, `GateIsWhole`, `SkipReasons`, `SelectorsAreServed`. The
  invariant is `Untouched`: until the first edit every tracked entry is valid
  for the surfaces the scaffold was made from. The last four are facts about the
  definitions that no order of edits can disturb.
- `Preparation_proofs`, on the setup: `WhatIsDrawnIsKept` from two trails. `KeyTrail`: wherever a
  generated key has got to (memory, the variables file, the machines) it came from
  the public key file, and a public key file has its private half beside it, since
  the private one is written first; `NameTrail` is the same for the workspace
  name. `RecordedUsersExist` from `UserTrail`: the users a setup has been through
  exist, hold their role, and have logged in if they count as ready.
  `NothingIsPretended` from `Account`, which carries what exit 0 promises through
  the phases: the plan that is applied is this setup's, a core that failed is on
  record, the lanes already tried landed or were warned of, the canaries stand as
  far as they have got. `CoreTouchesNoLane` is an action property; it needs
  `PlanIsMine`, without which an apply could take down a lane an earlier
  variables file did not ask for. `SetupType` is the type invariant with the order
  in which users are taken.
- `LiveValidation_proofs`: `LiveInvariant`, `ContextsStayOwn`, `NothingStopsIt`,
  `EveryPassIsAnswered`, `TruthfulRunsStand`. The invariant says where each file
  belongs: a context lies with the check that records it (`Placed`), and no check
  that is logged is still to do, so that what was logged is not overwritten
  (`EachOnce`); while a check runs, the contexts it no longer has pending are this
  run's and whole (`Underway`), so that all of them are when it is logged as
  passed (`Backed`); a summary is what the files said, and says it still, as
  nothing changes between a validation and the next run (`Judged`). The lemma
  `NeededIsCaptured` joins the two dispatches: every context a validator reads is
  one its runner writes. Its proof is over every check and context the two tables
  name.
- `SurfaceCheck_proofs`: `SurfaceInvariant`, `NobodyIsBlamedWrongly`,
  `APassVouchesForTheRows`. Of a resource nobody edits, `Caught`: the capture has
  listed it and read the column as Azure has it, or the query that fills the
  column is still to be made (`Due`); so that nothing is missing when the last
  query has answered and the context is written (`Recorded`). That there is such a
  query, and that it is a list inside the containers where resources are listed by
  those, is proved of each of the 23 tables (`EverySurfaceFilled`). `ToldRight`:
  each resource the tool was right about has a row with a spelling of Azure's value.
  The rules of comparison enter through two lemmas about the 18 rules: a spelling
  passes (`SpelledAgrees`), and what passes keeps the value unless only sizes are
  compared (`AgreesKept`). That nothing else is told where rows are counted follows by
  counting. TLC has two resources, the theorems any finite number.
- `PostureFindings_proofs`: `PostureInvariant`, `TruthStands`, `SiblingsStayAgreed`,
  `EveryFindingHasARow`. What a command told and captured without an edit in
  between was told of one Azure (`SawOne`), in a run without edits of the present
  one (`SawThis`), also halfway between the vaults and the accounts (`InHand`).
  The rest is about the three rules: each conclusion of keyvault and storage is
  compared with that of resource-trusts posture by posture. TLC has one vault and
  one account, the theorems any sets of them.
- `Captures_proofs`, on `CommandCapture`: `CaptureInvariant`, `CaptureStaysWhole`. `Alone`: unless
  writes have overlapped, at most one copier is inside `Write`; then what is in
  the buffer up to its length is what the copiers took, nothing else and each
  stream in order, and a copier inside has read the length that still holds
  (`Whole`). `Settled` and `Returned` carry that over the exit of `az` to the output.

- `NetworkExposure_proofs`: `WalkIsEvidence`, `SightIsMonotonic`, `PassIsKept`,
  `TruthPassesChecks`, `PassedChecksAgree`. The invariant `WalkInv` says of every
  place in the walk what has been collected (`Midway`): the rows of all interfaces
  before this one, its own as far as the queries have come, and whether one of its
  rules was seen; of a check that is over, that its context is the evidence of the
  whole machine and its findings those of what was told against it (`Settled`).
  The rest is about data. `EvidenceIs`: no row occurs twice, as Azure names the
  rules of a group apart (`RulesAssumption`) and an interface is listed once
  (`NicsAssumption`), and two interfaces have no row in common. From it
  `OneForOne`: where no rows collide, matching every recorded row with the first
  told one reaches every told row, by counting, so that the rows of both sides
  agree in port, sources and confidence. `HighIsOpen` relates the two
  classifications of a row; where they part, a source has a word in its text
  without being one. The induction this takes over interfaces, rules and
  joined sequences is done over sets of numbers (`StepByStep`, from the least
  element of a set, `Least`), since an induction theorem that takes an operator as
  parameter cannot be instantiated here. TLC has two interfaces and two groups,
  the theorems any number.

- `Captures_proofs`, on `Foothold`: `FootholdInvariant`, `TruthStaysAccepted`,
  `PassStaysProven`. Neither property is inductive, since both speak of Azure as it
  is and of payloads told before. `Placed`: the lab is that of the scenario, or one
  edit of it. `ToldOfAzure`: before an edit a payload is what a right tool prints of
  that lab, or one error away from it in the command that slips; `RecordedOfAzure`
  says the same of the captures, also after an edit when it is the only command.
  `RowsStayKnown` keeps what an edit does not change of an edge. `ReportedOfTold`: the
  findings are those of the payloads and captures, for one of the rows marked as
  current. What remains is about the rules. `TargetsAreLeads`: the targets rebuilt
  from permissions and role-trusts are the identities the foothold can become and
  gain by, whatever the order of the rows; `RoleIsNearest`: the role of the first
  row at the nearest rank is one the identity holds there, and where control is not
  disputed there is no other (`RoleSettlesIt`). Then each rule is taken in both
  directions. A right payload leaves it no finding (`RightFamilyPasses`,
  `EscalationPasses`, `RightWhoAmIPasses`, `RightAuthPoliciesPass`, ...). And when it
  has none although one payload of those it reads may be wrong, the rows it
  passed are still so (`PassedRowIsProven`, `RightEscalationIsProven`,
  `PassedWhoAmIIsOne`, ...): an error in a sibling that would hide one in the row would be a second
  one. TLC has three principals and 36 tenants, the theorems any number.

No safety property of a run is left to TLC alone. Only model-checked: liveness
(`CommandsEnd`, `TaskEndsOnceReleased`, `SetupEnds`, `CaptureEnds`), which needs
fairness and ENABLED, out of the prover's reach.

## 5. Not modelled

Texts, notes, paths, durations and times of day (only their order); the
credentials themselves; parsing of HO-Azure's source (the shipped surface is a
set that changes); container groups in network-effective; the rows that inventory,
env-vars and the credential commands derive from Azure, and the rows of
credential-path and compute-control; the OpenTofu files, which declare resources and have no
transitions of this repository's own (of them `AzureSetup` keeps what a count
does); JSON schemas. Two processes in one run directory at the same time are
not modelled: nothing in the program is meant for it.
`artifacts/live-validation-summary.json` and `completion-summary.txt` are
written and read by nothing, they appear only as writes that may fail.

## 6. Plan

What is left, in this order:

1. The rows of credential-path and compute-control against a reference, as
   `Foothold` does for escalation-path and persistence.
2. `SurfaceDerivation`: groups and overrides in `DeriveSurface`.

## 7. Running

    tlc -workers 2 -config AzureRun_OneRun.cfg MCAzureRun.tla
    tlapm AzureRun_proofs.tla

`PROJECT.json` lists every run with its module and configuration, every
property with a mutant that breaks it (each mutant is a definition beside the
one it replaces), the source lines of every definition, and the theorems.
