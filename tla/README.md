# labelsync in TLA+

labelsync brings the issue labels of many GitHub repositories in line with a configuration file.
This directory holds TLA+ models of its core logic, TLC configurations that check them on small
instances, and proofs that TLAPS checks. Source paths below are relative to `src/`.

## 1. Inventory

A `labelsync sync` loads and resolves its configuration, chooses the repositories, reads their
labels in parallel, computes a plan, asks about removals, and sends the plan's writes one at a time.
Everything it asks of GitHub goes through one client with one limiter. Nothing is persisted but the
ETag cache and the configuration file that `init` or `export` wrote: a run that is killed is
followed by one that knows only what GitHub holds.

| Component | State | Operations | Hard behaviour | What makes it correct |
|---|---|---|---|---|
| Planner (`internal/plan`, `internal/palette`) | none | `Compute`, `Candidates`, `RetainDeletes` | renames, recolours, creates, updates and deletes depend on each other's order and on labels compared without case | a plan carried out leaves the repository as configured; a second plan is empty |
| Executor (`internal/apply`) | the plan left to do, the report | `Apply`, `applyRepo`, `refuseDeletes` | stale plans, a kill between two writes, a repository that fails midway | deletes last and only in prune mode; what is left half done is repaired by the next run |
| Sync command (`internal/cmd/sync.go`, `prune.go`) | the run | `runSync`, `targets`, `coveredRepos`, `selectRemovals`, `applyPlan` | the repositories change while they are listed, planned, asked about | only covered repositories and only chosen labels are touched |
| GitHub client (`internal/github/client.go`, `labels.go`) | recorded failures | `Do`, `Classify`, `CreateLabel`, `PatchLabel`, `DeleteLabel`, `RoundTrip` | lost answers, requests repeated that were served, 404 and 422 from labels that moved | a repository's failure does not end the run; a repeated write does no harm |
| Label reads and ETag cache (`labels.go`, `cache.go`, `store.go`) | entries on disk, a cursor per goroutine | `ReadLabels`, `ListLabels`, `load`, `save`, `Clear` | pages read while labels change, processes that share a directory, a kill while saving, clearing meanwhile | no label that was there throughout is missing; an entry is what its ETag stands for |
| Limiter (`internal/github/ratelimit`) | bucket, budget reading, backoff, time booked, pending writes | `Await`, `Observe`, `Recover`, `Affordable` | readers that wait at once, readings that overtake each other, limits for ever | writes are paced, the budget is not overrun, `--max-wait` is a ceiling, `Do` ends |
| Resolution (`internal/config/resolve.go`) | `done`, `open` | `Resolve`, `flatten`, `Reject`, `Groups`, `Desired` | groups that include groups: diamonds, cycles | a group is what it reaches, each leaf once; an error names something that is wrong |
| Enumeration (`internal/github/repos.go`) | a cursor per goroutine | `Select`, `listRepos`, `Enumerate`, `Union` | pages repeated after a rate limit, owners that cannot be listed, several listings of one owner | the repositories the selectors select, each once |
| Validation (`internal/config/validate.go`, `Parse`) | the names, colours, sources and targets met so far | `normalize`, `Validate` | rules that relate renames, labels and groups; values compared as they will be on GitHub, not as they are written | what is accepted is what the planner relies on; the first thing wrong is what is reported |
| Files (`internal/config/config.go`, `scaffold.go`, `internal/cmd/init.go`) | the files on disk | `Find`, `Load`, `runInit` | two directories, two spellings, `--config`, `--force`, files that are there already | what was written is what is loaded next, and loads |
| Export (`internal/config/export.go`, `internal/cmd/export.go`) | none | `Export`, `runExport` | a repository may hold what a configuration may not | the file loads, and syncing it back changes nothing |
| Exit code (`internal/util/exit`, `outcome` in `sync.go`) | none | `outcome` | dry runs, repositories skipped on the way | 0 means that nothing is outstanding |
| Output, tokens, YAML | none | | | not modelled: formatting and lookups |

They interact by calls, with two shared states: the limiter, which all goroutines of a run go
through, and the labels on GitHub, which runs, restarted runs and people all change.

## 2. Modules

| Module | Models | Extends or uses |
|---|---|---|
| `Labels` | a repository's labels as GitHub keeps them (names unique without case), actions and their order, the answer to a write and its effect | |
| `Planner` | `plan.Compute`, as a function from the labels of a repository to the set of plans | `Labels` |
| `Sync` | `runSync` from the label reads to the exit code, dry or not, for several processes at once, with stops, restarts, lost answers, outages and edits by people | `Planner` |
| `Reconciliation` | abstract: what a sync may do to a label and when, without runs, plans or requests | `Planner` |
| `Limiter` | `ratelimit.Limiter` and `Transport`, `Do`'s loop, `retryTransport`, `Affordable` | |
| `LabelReads` | `ReadLabels`, `ListLabels`, `cache.load` and `save`, `Store.Clear` | |
| `Groups` | `Resolve` with the walk of `flatten`, one call, loop iteration or return at a time; a part of `Loading` | |
| `ConfigFiles` | the files on disk, `Find`, and where `init` and `export` write | |
| `Loading` | `runInit`, `runExport`, `Load`, `normalize` and `Validate`, one group, label or rename at a time | `Labels`, `Groups`, `ConfigFiles` |
| `LoadedPlans` | the labels a loaded configuration asks of a repository, and the plans made from them | `Loading`; an instance of `Planner` |
| `Selection` | `targets`, `Select`, `listRepos`, `Union`, `coveredRepos`, with the membership rules | |
| `MCSync`, `MCLimiter`, `MCLabelReads`, `MCLoading`, `MCSelection` | the instances TLC checks | |
| `PlannerProofs`, `LimiterProofs`, `LabelReadsProofs`, `LoadingProofs`, `SelectionProofs` | the theorems about these components | the component, TLAPS |
| `SyncProofs`, `ConvergenceProofs`, `OutcomeProofs` | the theorems about `Sync`: removals; single steps and convergence; what is left when runs have ended | each the one before it, `PlannerProofs`, TLAPS |

**State and code.** In `Sync`, `store` is GitHub's side; `unread`, `seen`, `todo`, `skipped` and
`tries` are a process's variables (`coveredRepos`' result, `ReadLabels`' result, the plan,
`github.Failures`, the attempt counter of `RoundTrip`), and `pc` is where `runSync` has come to. A
plan is a set of actions whose order is `Before`; the request in flight is its first. A label
carries an `origin`, the key it had when the behaviour began, so that a rename can be told from a
delete and a create. In `Limiter` time is relative: a deadline is the ticks left until it, and a
token is counted as the ticks it takes to arrive, so the bucket holds integers. In `LabelReads` and
`Selection` a task is a goroutine of the errgroup and its local variables. A task of `Selection` is
named by its place, the requested group it works for and its number in that group's selectors; an
owner's repositories have a fixed `Position`, a page is the set of those that share one, and
`Union` keeps of each repository what the first place in order (`Precedes`) has found. `Groups` keeps
`flatten`'s recursion as a stack of calls, which is also `path` and `open`: a call has its group, the
include it is at, how many of that one's selectors it has been through, and the union so far (`out`
and `seen`). `checked` and `resolved` are the groups the two loops of `Resolve` have had, in sorted
order. In `Loading`, `stage` is
where `Load` has come to, `at` the loop variable of `validateLabels` or `validateRenames`, and
`names`, `colors`, `froms` and `tos` are their maps. A file is what YAML decodes it to and the set
of labels that carry the note an export puts on a colour used twice.

Names beginning a comment with "Mutant" are deliberate mistakes: `PROJECT.json` names, for every
property, the mistake that TLC shows to violate it.

**How the modules meet.** `Loading` gives the configuration. What it accepts
(`AcceptedIsWellFormed`, a theorem) is what `Planner` assumes of `Desired` and `Renames`, and
`LoadedPlans` hands it over: a file exported from a repository is loaded, resolved, and planned
against that repository. The groups it resolves are `Resolved` in `Selection`, which gives the
repositories and their labels (`Desired` in `Planner`). `LabelReads` gives the labels a run reads
(one step `Read` in `Sync`), and `Limiter` lies under every request. The seams are assumptions:
`Sync` reads a repository in one step, and every label once or, with `Rereads`, those of a page two
times. `LabelReads` shows when that is right: a repository nobody edits meanwhile is read as it is
(`QuietReadsAreRight`), and a read that was refused behind its first page holds pages twice before
that (`ListsEachLabelOnce`, which fails). `ComputeRepeated` is the plan for such a list:
`compute.go` works on the copies one by one, except where it looks a label up by name. `Sync`'s
`Stop` stands for whatever the limiter ends.

## 3. Runs

`*` marks a property that is a theorem as well.

| Run | Instance | Properties |
|---|---|---|
| `sync_crash` | one append run, dry or not, over two repositories, one of which becomes unreachable and comes back; 1 restart, 1 lost answer a request, a page of labels read twice, 36 starting pairs; fair | `TypeOK`\*, `Converged`\*, `RenameKeepsIdentity`\*, `RecoloursApart`\*, `SkipsOnlyRenames`\*, `ExitIsTrue`\*, `AppendKeepsLabels`\*, `ClaimsClearColour`\*, `EveryRunEnds` |
| `sync_prune` | one prune run with every choice at the prompt, 1 restart, 1 lost answer, a page of labels read twice, 1 edit by a person at any point | `PruneIsExact`\*, `Converged`\*, `RemovesOnlyChosen`\* |
| `sync_overlap` | an append run and a prune run at once, 1 restart | `OverlapConverges`\*, `RemovesAfterRepair`\*, `KeepsPromise`\* (refinement of `Reconciliation`) |
| `sync_retry_rename` | a rename whose answer is lost | `SkipsOnlyUnreachable`: **violated** |
| `limiter` | two readers with a request each, or one writer with four, every answer GitHub and the gateway before it can give, for ever, the budget read at startup or not; fair | `TypeOK`\*, `AsleepWithinMaxWait`\*, `DrawIsBounded`\*, `PacedWrites`\*, `RefusesOnlyPastCeiling`\*, `EveryCallEnds` |
| `reads_cache` | two runs, one restarted, over one cache; 2 edits by people | `QuietReadsAreRight`\*, `SinglePageMissesNothing`\*, `EntriesAreHonest`\* |
| `reads_quiet` | two repositories read one at a time, a rate limit, failures, a restart, `Clear`; fair | `TypeOK`\*, `QuietReadsAreRight`\*, `ClearEmpties`\*, `EveryReadEnds` |
| `reads_repeated` | a list of two pages, and one rate limit | `ListsEachLabelOnce`: **violated** |
| `reads_full_page` | a list that fills its page, and a label added behind it between two runs | `CacheMissesNothing`: **violated** |
| `config_load` | every configuration of three groups, every list of two labels and of three renames, the labels of 48 repositories to export, and up to two files written among any files in five places; fair | `TypeOK`\*, `FlattenedIsReachable`\*, `AcceptedIsWellFormed`\*, `FirstFaultIsReported`\*, `WrittenLoadsClean`\*, `ExportPlansNothing`\*, `LoadEnds` |
| `selection_enumerate` | four command lines, four repositories, five selectors, pages of one, a rate limit, a change to a repository; fair | `TypeOK`\*, `EnumeratesExactly`\*, `UncoveredIsLeftAlone`\*, `JudgedAsSeen`\*, `SelectionEnds` |
| `selection_explicit` | an archived repository with `--repo` | `ExplicitJudgedAsSeen`: **violated** |

**Bounds.** The labels of `MCSync` are one of every role the planner tells apart: configured and
matched in another casing, configured and off-colour, the source of a rename, and two that are in
nobody's configuration, each on a configured colour or not. Two of the last kind are needed for
allocations to collide; the grid has a configured colour, which must not be allocated, and four
others, one more than the other labels can have (`PaletteIsRoomy`). The page that is read twice in
`sync_crash` and `sync_prune` (`PageTwice`) holds the source and the target of the rename, so there
are a rename of one copy of two and, where the rename does not apply, a squatter that is recoloured
and offered for removal two times. It does not hold the other unconfigured label as well: five
colours to hand out at once exhaust that grid, and a colour is repeated. In `sync_crash` both
repositories start alike and differ in what is configured for them, and there are fewer such
repositories: `x`, if there, is on a colour of the grid, and the squatters are `y` and the source of
the rename; the other runs start from all 162 repositories. A restart lets a run start from
what another left anywhere. `MaxTries` is 4 attempts in the code; one lost answer already gives
"served and lost" and "lost before it was served", and more repeat them. In `Limiter` the numbers
are small multiples of a tick: a backoff that doubles once and meets its maximum, a ceiling that a
wait or two reach, and windows that end while requests are in flight. Its budget of three for a
window is more than its two readers spend on repeated 5xx alone, as 5000 is in the code. With a
budget of two TLC finds a loop: the 5xx use the window up, the refusal is read when its reset has
passed, the wait is zero and starts the attempts over (`internal/github/client.go:241`), and nothing
is booked. The jitter of a fifth rounds to nothing on so short a backoff; the theorems have it. In
`LabelReads` a page holds two labels and a list has up to three, so there are empty, partial, full
and second pages. In `Selection` every repository is a page. In `Loading`, three groups give a
diamond and a cycle that is not a loop; two labels and three renames give every rule that compares
entries, with another fault before, beside and behind it; the places are the two spellings in each
directory that is searched and one path elsewhere, with each of the eight values of `--config`; two
writes are an `init` or `export` after another, with one hiding, replacing or standing next to the
other's file. Counters that only bound the instance (`MaxRestarts`, `MaxEdits`, `MaxOutages`,
`MaxLimits`, `MaxChanges`, `MaxWrites`) are constants named so. All passing runs together take every
action of every module.

**Deadlock** is not checked: runs end, and then nothing need happen. That they do end is checked
as liveness instead (`EveryRunEnds`, `EveryCallEnds`, `EveryReadEnds`, `LoadEnds`,
`SelectionEnds`).

**Fairness** is weak throughout and on the program's own steps: a goroutine or process that can go
on does (Go's scheduler, and the timeouts of the HTTP transport), and a request that was sent is
answered in some way. What the answer is, is never fair: `EveryCallEnds` allows GitHub to refuse
every request, and the call ends because every wait is booked against `--max-wait`. `Limiter` also
assumes that time passes. `Loading` is fair to the steps of `Load` and not to `init` and `export`,
which nobody has to run. No fairness is assumed of people, outages, recoveries, kills or restarts.

## 4. Proofs

Each theorem is for all values of the constants, under the named assumptions of the module that
declares them (`NamesAssumption`, `SentinelAssumption`, `DesiredAssumption`, `PaletteAssumption`,
`RenamesAssumption`, `SyncAssumption`, `StoresAssumption`, `LimiterAssumption`,
`LabelReadsAssumption`, `GroupNamesAssumption`, `LoadingAssumption`, `SettingsAssumption`,
`ScaffoldAssumption`, `SelectingAssumption`, `SelectionAssumption`; TLC evaluates them in the runs).
`ScaffoldAssumption`, that nothing is wrong with the file `init` writes, is what
`internal/config/catalogue_test.go` checks of it. What the planner assumes of a configuration (no
two desired labels of one name, no chained renames, no rename of a configured label) is what
`LoadingProofs!AcceptedConfigurations` shows of a configuration that is loaded.

- `PlannerProofs!Idempotent`: the plan for a repository that is as configured, with nothing to
  rename, writes nothing but removals, and those in prune mode only.
- `SyncProofs!Safety`: the inductive invariant `SafeInv`, that is `TypeOK`, every view keyed by its
  labels' lower-cased names, and `DeletesAreChosen`: every delete a run may still send is of an
  unconfigured label, in prune mode, and, once the prompt is past, chosen there. The last conjunct
  is what `TypeOK` lacks: a removal is sent long after it was decided, and by name. `TypeCorrect`,
  `OnlyChosenAreRemoved` (`RemovesOnlyChosen`) and `AppendRemovesNothing` (`AppendKeepsLabels`)
  follow from it, for any number of overlapping runs, restarts, lost answers, edits and labels that
  are listed twice.

**`Sync`, one step and many.** Every safety property of `Sync` that a run checks is a theorem. The
argument is one of rely and guarantee, since a plan is carried out long after it was computed, and
in a repository that other runs, or an earlier life of the same one, change meanwhile.

- What the others may have done is `Since(r, v, s)`, a relation between the labels `v` a run has
  read and the labels `s` there are now: a configured label is as it was or as configured; a rename
  that could be done still can be, or has been; a label becomes
  a squatter only by the renaming of one; nothing has gone but what was
  renamed, or removed from a repository that was as configured. It composes, and each write of a
  plan keeps it (`AllowedSince`).
- What a plan has left to do is `OnTrack(r, todo, s)`: every configured label that is missing or
  wrong in `s` has its action, with the values configured; every squatter has its recolouring or
  its rename; what a create needs out of the way comes before it. A plan is on track for what it
  was computed from (`PlanOnTrack`) and for whatever that becomes under `Since`, and stays on track
  when its first action is carried out, answered 404 or 422, or answered not at all.
- `ConvergenceProofs!Tracking` is the inductive invariant `TrackInv` made of these, of `SafeInv`,
  and of the shapes actions have. It holds of every run that nobody but runs has disturbed.
  `RunsConverge` (`Converged`) reads off its end: with nothing left to do and on track, the labels
  are as configured.
- `RunsKeepPromise` (`KeepsPromise`): `Sync` implements `Reconciliation`. An action of a plan that
  is on track, when its turn comes and GitHub accepts it, is one of `Allowed`, which is
  `PromiseNext` for one repository; a dry run, a restart or a refused write stutters. TLC and the
  proof agreed only once `Reconciliation` said two things more than it used to: a label that a
  rename would make a configured one is not recoloured before it (`MoveColor`), and a configured
  label is not created beside it (`Settle`). `RemovalsComeLast` (`RemovesAfterRepair`) and
  `ColoursAreClaimedClear` (`ClaimsClearColour`) follow step by step.
- `OutcomeProofs!RenamesKeepIdentity` (`RenameKeepsIdentity`): no `Allowed` step lets another label
  than the renamed one take the name (`IdentityInv`). `SkipsAreForRenames` (`SkipsOnlyRenames`):
  a plan that is on track meets 404 only in a rename, for runs of one mode; a prune run may have
  removed what an append run is to recolour.
- `OverlapsConverge` (`OverlapConverges`) is about several runs that each give up on a repository
  when another was faster. The invariant `SomeRunIsGood`: while a repository is not as configured,
  some run has not skipped it and, if it has its plan already, has no rename left in it whose label is
  gone (`Good`). Renames are sent in the order of the configuration by every run
  (`OrderedInv`), so the run whose rename succeeds is good afterwards (`RenamingIsGood`). It is for
  `MaxTries = 0`: a rename that was served, lost and sent again is answered 404, so that every run
  may give up, the only one included.
- `PrunesExactly` (`PruneIsExact`), `ExitTellsTheTruth` (`ExitIsTrue`) and `RecoloursStayApart`
  (`RecoloursApart`) are for a single run (`PruneIsExact` and `RecoloursApart` fail for two: one run
  may rename a label to a name the other has already cleared, and two allocate one colour at the
  same time). The invariant `AloneInv` is the converse of `OnTrack`: not only is what is planned
  right, but what is not planned is not needed. Every label left unconfigured has its removal in
  the plan or was declined, under the name it will have (`RemovalsCovered`); every rename still
  possible is planned (`RenamesCovered`); every colour still to be handed out is nobody's
  (`ColoursFree`). It needs no "unless" for lost answers, because a label written twice is only one
  step ahead of its plan.

What these theorems assume of the constants beyond the named assumptions is in their statements:

- `RoomyPalette`: the grid has a colour left for a label whatever the others have. The code's grid
  has hundreds of colours, and without one left it goes on with a colour that is taken
  (`internal/palette/palette.go:47`), possibly a configured one: `Converged` is false then. `MCSync`
  satisfies it (`PaletteIsRoomy`).
- `SingleReads`: no list holds a label twice, in `ConvergenceProofs` and `OutcomeProofs`. The theorems
  of `SyncProofs` hold for every `Rereads`. For lists that do, the properties of `sync_crash` and
  `sync_prune` are checked by TLC only.
- `MaxEdits = 0`, or a single run, for `Converged`; `MaxEdits = 0` for what `Reconciliation` says.
  Edits by people, between the reads of two runs, defeat even a run that began after them: someone
  removes the target of a rename, the run disturbed by it goes on to recolour the label that the
  later run is to rename. With a single run, edits may come at any time; the property is about runs
  that started after the last one.

**Other components.**

- `LimiterProofs!TypeCorrect`, and `CeilingHolds` (`AsleepWithinMaxWait`) from the invariant
  `Booking`: for every caller asleep, the ticks the run has been asleep and those the caller still
  has to sleep are covered by what is booked. It is needed because callers asleep at once share
  ticks and each has booked its own.
- `LimiterProofs!WritesArePaced` (`PacedWrites`) for a single writer, which is what `apply` is. The
  invariant `Pacing` counts the tokens that went out, the one in hand and those in the bucket
  (`Spent`), with the debt of a bucket that is overdrawn while its writer sleeps (`Overdrawn`).
- `LimiterProofs!RefusalsAreDue` (`RefusesOnlyPastCeiling`), which is about runs with one caller at a
  time, as an apply is. The invariant `Accounted` is `Booking` with equality: what is booked is what
  the run has slept and still has to sleep, so a refusal is for time it would really have slept.
  With several callers the ticks they share are booked more than once, and a refusal may be early.
- `LimiterProofs!DrawsAreBounded` (`DrawIsBounded`), with no hypothesis on callers or margin: once
  GitHub's count is at the threshold, `n` callers get at most `n + (n - 1) + ... + 1` requests
  through before the window ends. That is what a margin has to be for the budget to last: 1 for the
  writer of an apply, 15 for five readers, 36 for the eight of a default run, where the threshold is
  20. The invariant `Margin` weighs what has been drawn against all that may still be sent
  (`Coming`): the requests past their budget wait, one of each caller nothing holds back, and one
  more of all of them each time an answer that is out of date, once it is read, lets them through
  again. Two readers reach the bound in the run. A request that a gateway answers, without a
  reading, is not counted: nothing is known of what it cost.
- `LabelReadsProofs!HonestReads`: the inductive invariant `HonestInv`, from which `TypeCorrect`
  and `HonestEntries` (`EntriesAreHonest`) follow, for any number of runs that share the cache.
  Beside the types it says what a goroutine has in hand (`InHand`): before its first page nothing,
  after it an ETag that stands for just the labels it holds; and that whoever has read a page has
  its ETag (`TagsKept`). An entry is made of these two, often long after they were read, so the
  entry alone says nothing of the goroutine that is about to replace it.
- `LabelReadsProofs!ReadsGoWell` adds `ReadsInv`: of a list that is being read, what is missing
  behind the cursor has been edited since the read began, wherever refusals, restarts and rereads
  have moved the cursor; and the list a 304 answers for has a single page, or is as long as the
  cached one. Of a list nobody has edited since, what has been read ends with the list as far as the
  cursor, and is just that when nothing was refused. `QuietReads` (`QuietReadsAreRight`) and
  `SinglePagesMissNothing` (`SinglePageMissesNothing`) read it off the end of a read. That a read
  holds each label once is not a theorem: `reads_repeated` refutes it.
- `LabelReadsProofs!ClearingEmpties` (`ClearEmpties`, an action property) from `ClearInv`: an entry
  that is neither still to be removed nor gone has been saved since `Clear` listed the directory,
  although runs that are killed and files that are gone may come between any two removals.
- `SelectionProofs`: `TypeCorrect`, `EnumerationIsExact` (`EnumeratesExactly`), `JudgementsAreSeen`
  (`JudgedAsSeen`) and `LabelsAreAskedFor` (`UncoveredIsLeftAlone`). The invariant `RunInv` says of
  every task what it has found so far: nothing its selector does not select (`Sound`) and, behind
  its cursor, everything it does (`Whole`), both up to changes made meanwhile; a page that is listed
  again after a rate limit only repeats. That `Union` covers each repository once, as the first
  place that found it saw it, needs a least place in the order of the command line
  (`LeastElement`). `UncoveredIsLeftAlone` judges all the labels of a repository by one set of
  attributes: those of a state a listing may have seen, or, for a repository that is named, the
  ones a name stands for (`Judgeable`). So it bounds what naming a repository waives: its own
  attributes, and neither another owner's groups, nor a glob, nor a group of private repositories.
- `LoadingProofs!LoopsCheck`: the inductive invariant `PassInv`, which says of `validateLabels` and
  `validateRenames` what a loop that has come to `at` has established of everything before it
  (`LabelsPassed`, `RenamesPassed`), and that names are trimmed by then. `AcceptedConfigurations`
  (`AcceptedIsWellFormed`) follows, for every file, however it was written or exported.
- `LoadingProofs!LoadingGoesWell` adds `LoadInv`: the types, and `WalkInv` for the walk over the
  groups. What is done is closed under includes, stands for just the leaves it reaches and is on no
  cycle; the union of a call under way is what the includes behind it resolve to and the part of
  the one it is at; every call reaches the calls it has made, so that meeting one of them again is
  a cycle. `TypeCorrect` and `GroupsAreFlattened` (`FlattenedIsReachable`) follow, for any graph.
  Reachability is the least closed set, so no induction over paths is needed.
- `LoadingProofs!FirstFault` (`FirstFaultIsReported`) from `ReportInv`: nothing behind the loops is
  at fault, and the rules broken by the label or rename at hand, which `Validate` decides from its
  maps, are the faults the file has there (`LabelAtHand`, `RenameAtHand`), so the first that is
  broken is the first fault.
- `LoadingProofs!WrittenFilesLoad` (`WrittenLoadsClean`) from `WrittenInv`: what was written last is
  on disk as it was written, `Find` comes to it from every `--config` that looks there, and
  nothing is wrong with it but colours an export has flagged. `ExportsPlanNothing`
  (`ExportPlansNothing`) takes it through `Planner!Compute`: the order of an export leaves out no
  label (an injection between finite sets of one size), the file's one group resolves to itself,
  and so the plan is made for just what is there.

Not provable with this prover, and left to TLC: the liveness properties and everything about
`ENABLED`; what a definition by recursion computes for every input (`FlattenSeq` and `FoldLeft` in
`Selection`). Every invariant and action property of the passing runs is a theorem.

## 5. Where code and comments disagree

Four runs show a disagreement (`PROJECT.json`, findings): a rename that is repeated
(`sync_retry_rename`), labels listed twice after a rate limit (`reads_repeated`), a cached list of
exactly one full page that is served although a label was added behind it (`reads_full_page`), and
the attributes of a repository named with `--repo` (`selection_explicit`). The models contain these
as well; each property they touch says what it leaves out.

- *Colours shared after a rename.* `internal/apply/apply.go:17` says a run killed halfway never
  leaves a configured label sharing a colour with a squatter that was to move. A rename goes out
  before the recolours and brings its colour along. `ClaimsClearColour` holds: no write that
  changes a colour does it.
- *Nothing outstanding, but a rename.* A prune run that removes an unconfigured label with the name
  a rename is to give, while the user keeps the label to be renamed, exits with 0, and the next run
  would rename that one. `Outstanding` leaves the case out.
- *Readings that overtake each other.* `internal/github/ratelimit/ratelimit.go:60` says the margin
  absorbs the requests in flight. `Observe` keeps the last reading processed, so an older, higher
  one lets requests through again. `DrawsAreBounded` says what a margin has to absorb then: the
  default of 20 (`internal/github/ratelimit/ratelimit.go:61`) does for up to five readers; the
  eight that `internal/cmd/app.go:32` starts may draw 36, and GitHub refuses the last of them, which
  `Recover` waits out.
- *Time booked twice.* Callers asleep until the same reset each book it, so a wait can be refused
  before the run has slept for `--max-wait` (`docs/content/docs/architecture/rate-limiting.md:79`:
  the total time asleep). `RefusesOnlyPastCeiling` is checked for one caller.
- *The first minute.* A full bucket and what arrives while it drains: up to twice `--write-rate`,
  "maximum label writes per minute" in `docs/content/docs/usage/commands.md:28`. `PacedWrites` is
  the bound the code keeps.
- *Consecutive limits.* `ratelimit.go:141` doubles "per consecutive hit"; a success in between does
  not put the backoff back.
- *Writes still to come.* `ratelimit.go:536` says a retry makes the pending count overstate; it
  takes one off per token, so it understates.
- *Limits only the headers show.* `internal/github/client.go:234` says rate limits are waited out;
  one without a typed error ends the run (`Disguised`).
- *Pages listed again.* A refused request moves the cursor back to the first page
  (`labels.go:125`, `repos.go:240`). Repositories that are listed twice are planned once
  (`EnumeratesExactly`). Labels are kept twice (`reads_repeated`), and `plan.Compute` goes through
  the list as it is (`compute.go:318`): one label is recoloured twice, or removed twice, and the
  second removal is answered 404, so that the repository is abandoned. A rename moves the last copy
  only (`compute.go:236`); the first is recoloured or removed under the name that is gone, with the
  same end. With `Rereads` the runs show that nothing is lost by it: whatever is not reported as
  skipped is as configured, and the next run repairs the rest. Two overlapping runs may then both
  give the repository up, so `OverlapConverges` is only true without.
- *Labels that move up.* A label deleted from a page already read moves another onto it
  (`labels.go:157`, against 54, "every label in the repository").
- *A message nobody sees.* `Validate` checks for chained renames explicitly
  (`internal/config/validate.go:261`) so that the error names the chain
  (`docs/content/docs/architecture/configuration.md:204`). The target of a rename is a configured
  label and its source is not, by the rules before, so the loop never finds one. `Loading` has
  the loop, and `FirstFaultIsReported` says that its error, `chained`, is no file's.
- *Colours two labels share.* `internal/plan/compute.go:277` allows for configured labels of one
  colour. The loader refuses them (`internal/config/validate.go:119`,
  `AcceptedIsWellFormed`). `Planner` allows for them too, and no theorem about it assumes otherwise.
- *Repositories in a `repos` entry* are judged with archived, fork and private false also for
  groups other than the one that names them (`internal/cmd/sync.go:354`, against
  `internal/github/repos.go:188`).
- *Two spellings.* `init` refuses to write a `labels.yml` next to a `labels.yaml`, with `--force`
  as well (`internal/cmd/init.go:106`). `export --out` does not ask (`internal/cmd/export.go:109`),
  and every later run refuses the directory. `WrittenLoadsClean` leaves that case out; for `init` it
  holds as `docs/content/docs/usage/commands.md` says, "init can never hand you a file the next
  command rejects".

## 6. Not modelled

YAML, globs, colour distances, spelling and sorting, the counting of code points and emoji; what is
printed; tokens; cancellation, which ends a run like a kill; the delay before a 5xx is retried (any
time may pass); clocks that differ; other users of the token; a grid that is exhausted; a
configuration file that is written in part, cannot be read or changes while it is looked for; the
pool of connections. GitHub is external and is modelled by how the client uses it: unique names
without case, 404, 422, 5xx, pages, ETags, a budget per window.

## 7. Plan

Done, in this order: the planner and the executor with the runs around them, since a wrong write is
what a user cannot undo; the proofs about removals; the limiter and its proofs; the label reads;
resolution and selection; validation, the files and the export, with the proof that what is accepted
is what the planner assumes; dry runs and the exit code; the proof about the cache; the proofs
about convergence, overlap and outcome of the runs; the proofs about label reads, selection, the
walk over the groups, what `Validate` reports, what is written and loaded again, and the margin of the
primary budget.

Next:

1. `ComputeSteps`: `Compute` as it walks its lists, checked against `Planner!Compute` over the
   starting repositories of `MCSync`; the pass over the renames is the part worth it.
2. A grid that is exhausted: `palette.Allocate` repeating a colour, or landing on a configured one,
   and what later runs make of it.
