# shep-deploy in TLA+

shep-deploy is a "deploy dog" for the shep process manager. For each adopted
sheep (an app) it keeps a tree on disk, watches a git branch, checks a new head
out into a release directory, builds it, repoints the tree's `current` link at
it, asks the shepherd (shep's daemon) to reload the sheep, verifies that the
reload turned the whole flock over, and rolls back when it did not. This
directory models that program in TLA+, checks the model with TLC and proves the
central properties with TLAPS.

Paths below are relative to the repository root; the Rust crate is in `src/`.

## 1. The system

### Who acts, and on what

| actor | what it is | how it acts |
|---|---|---|
| the dog | one supervised process, `poll::run` | ticks every interval over every target, one at a time |
| an operator's command | a process per command, `deploy_once`, `stage_once`, `promote_once`, `set_branch`, `set_watch`, `init` | runs beside the dog and beside other commands |
| the on-remove hook | a process shep starts when the dog is removed, `restore::all` | runs beside everything else, and takes no tree lock |
| the shepherd | shep's daemon, behind `daemon.rs` | holds each sheep's stored config with its `[app.dogs.deploy]` table and the muster roll, runs the instances, carries out one reload of a sheep at a time |
| git, builds, hooks | processes started by `shared/process.rs` and `build/runner.rs`, each in a group of its own | run until they end, or their deadline passes and they are killed |
| the remote | | branches move at any time |
| the operator's hands, the kernel | | repoint `current`, remove a release, put a file in the way, kill a process, give its pid out again |

They share, for one sheep:

| shared state | written by | guarded by |
|---|---|---|
| `current`, a link to a release | `swap::point_at` | the tree lock |
| `deploy.toml`: `deployed`, `failed`, `staged` and the rest | every ending of a deploy, `stage`, `set_branch`, `init` | the record lock, for one read and write |
| `releases/<sha>/` | `checkout_release`, `retention::prune` | the tree lock |
| `complete/<sha>` markers | the same two | the tree lock |
| the sheep's table: `branch`, `watch` | `settings::change`, read and written back whole | nothing |
| the rows of the flock and the roll | the shepherd, on `start`, `delete`, `reload`, `set_config` | each request on its own |

and between the sheep of one remote:

| shared state | written by | guarded by |
|---|---|---|
| the bare clone in `repos/<key>/git` | `git::fetch`, `share_clone`, `release_clone` | the clone lock |
| the clone lock's own file, `repos/<key>/git.lock` | `hold_clone` makes it, `release_clone` removes it | itself |

### Components

What each keeps, does, and must get right, and the module it is in.
`PROJECT.json` has the same list with its sources.

* **Deploy state machine** (`deploy/`). State: `deploy.toml`, `current`, the
  `State` a process holds in memory. `go` takes the lock, fetches and decides
  whether there is anything to attempt; `attempt` checks out, builds and hands
  over to `swap_and_land`; `land` captures the generation, reloads and
  verifies; `undo_swap` and `roll_back`/`restore` put the old release back;
  `record` does the bookkeeping of every ending. Must hold: the record, the
  link and the running release tell one story after every ending; only what a
  verification passed on is called deployed; a held head is not retried; and
  `current` never dangles. *`Deploy`.*
* **Stage and promote** (`stage.rs`). Builds a head without landing it, and
  lands it later. Must hold: what is staged stays recorded and on disk until a
  deploy lands; a stage never undoes another command's write. *`Deploy`.*
* **Settings verbs** (`retarget.rs`, `settings.rs`, `set_watch`). `--branch`
  and `--watch` change the table without the tree lock and `--branch` lifts the
  hold. Must hold: a lifted hold stays lifted. *`Deploy`, without the layering
  of the dog's section under the sheep's table.*
* **Record** (`state.rs`). Must hold: `validate` keeps a sha from being deployed
  and failed at once, and no sequence of writes reaches a record later commands
  refuse. *`Deploy`, without parsing and file modes.*
* **Locks** (`lock.rs`). Tree lock (non-blocking), record lock and clone lock
  (blocking). Must hold: mutual exclusion, survival of kills, no endless wait,
  also for a lock whose file goes with what it guards. *The tree lock in
  `Deploy` and `Adoption`, the clone lock in `Clones`; the record lock is the
  atomicity of the section it guards.*
* **Swap** (`swap.rs`). A temporary link renamed over `current`. Must hold:
  `current` is at every instant the old target or the new one, whatever kill
  interrupts it, and a leftover never wedges later swaps. *`Shelf`, and one step
  of `Deploy`.*
* **Retention** (`retention.rs`). `prune` removes all but the newest `keep`
  releases by mtime, minus the spared; `release_clone` the clone nobody links to.
  Must hold: what serves, what is recorded and what a rollback needs survive;
  one release that will not go strands no other. *`Shelf` with the order of
  mtimes, `Deploy` with that order left open, `Clones`.*
* **Verify** (`verify/`, `window.rs`). Polls the flock until every instance is
  new, then dwells. Must hold: a pass means that a full set of new instances
  stayed up, and a healthy reload is not failed, for taking its time or
  otherwise. *`Verify` has the instances, `Window` the clock and the arithmetic
  of the budget.*
* **Poll loop** (`poll/`). Serial ticks, containment of panics, muting of
  repeated reports. *One target's tick in `Deploy`.*
* **Shepherd protocol** (`daemon.rs`). `describe`, `reload`, `start`, `delete`,
  `set_config`, each of which can be refused or have its answer lost. *As the
  three modules that use it need it: `Deploy`, `Verify`, `Adoption`.*
* **Git driver** (`git.rs`). Fetch, worktree add, remove, prune. *What they
  register and leave behind in `Shelf`, the clone they work in in `Clones`, the
  process they run as in `Runner`.*
* **Opt-in and cutover** (`optin/`). `prepare_with` builds the first release,
  `cut_over` starts the sheep from it beside the old one, watches and deletes
  the old one, or undoes. Must hold: the operator's instances outlive every
  doubt, and the app is handed only to instances that stay up. *`Adoption`.*
* **Restore** (`restore/`, `roll.rs`). Puts every target back as it was before
  adoption. Must hold: a sheep is put back or reported, and one that still runs
  from its tree keeps its clone. *`Adoption`.*
* **Shared clone** (`paths.rs`, `hold_clone`, `share_clone`, `release_clone`).
  Trees of one repository share a clone, removed with its last link. Must hold:
  nothing linked to is ever unmade. *`Clones`.*
* **Build sandbox** (`build/`, `ownership.rs`), **linked paths** (`shared/`,
  `linkcheck.rs`), **hooks** (`hook.rs`). Must hold, of the processes: a deadline
  kills all of a group and nobody else. *`Runner`; the rest is one step that
  succeeds or fails, `Build` and `BuildFails`.*
* **Smits** (`smit.rs`), **configuration** (`config.rs`), **command line**
  (`main.rs`, `route.rs`, `exit.rs`, `survey.rs`, `error.rs`): display text,
  parsing and pure functions of an argv or an outcome. *Not modelled*, except
  the reads of the record that `main.rs` makes before the lock.

### What is hard here

* A deploy holds one copy of the record from before its lock to after its
  build, an hour apart, and writes it back whole (`settings.rs:292`,
  `deploy/record.rs:192`).
* `current`, `deploy.toml` and the running instances change in three steps, and
  a kill, a refusal or a lost answer can come between any two.
* The shepherd restarts a sheep that dies from wherever `current` leads at that
  moment, so a new pid is not yet a new release.
* A checkout or a removal writes files one at a time; a marker vouches for the
  directory, and the two change at different moments.
* A head that fails must not be rebuilt on every tick, and must be tried again
  when it should be.
* A cutover runs two flocks under one name, tells them apart by id, and has to
  stop at any request that is refused with either flock still whole.
* The clone lock's file lies in the directory that the last user removes.
* A process group outlives its leader's pid, and the kernel gives pids out again.
* The budget of a reload has to be shep's own deadline for it: one instance
  short, and every reload of a slow app rolls back.

The full list is `hazards` in `PROJECT.json`, each at its line.

## 2. The modules

| module | role |
|---|---|
| `Deploy.tla` | one sheep's tree, its processes, the shepherd and the environment: state, actions, fairness, properties |
| `DeployProofs.tla`, `TreeProofs.tla` | theorems about `Deploy`: types, exclusion and verdicts; then what is whole, what agrees and what stays staged |
| `Verify.tla`, `VerifyProofs.tla` | one reload of a sheep of several instances and the verdict on it, without a clock |
| `Window.tla`, `WindowProofs.tla` | the same wait with a clock and shep's deadlines, and the arithmetic of its budget, without the instances |
| `Link.tla` | what `swap.rs` promises: one link, moved at once |
| `Shelf.tla`, `ShelfProofs.tla` | one tree's releases file by file: swap, checkout, prune; implements `Link` |
| `CloneRegistry.tla` | what the shared clones promise: nothing linked to is unmade |
| `Clones.tla`, `ClonesProofs.tla` | the clone lock and the system calls under it; implements `CloneRegistry` |
| `Adoption.tla`, `AdoptionProofs.tla` | `init`'s setup, cutover and undo, and the on-remove hook, of one sheep |
| `Runner.tla`, `RunnerProofs.tla` | the process groups of builds, hooks and fetches, over the kernel's table of pids |
| `MCDeploy.tla` and the other `MC*.tla` | budgets, instance counts and symmetry for TLC |
| `MC*.cfg` | one instance per run |

How they fit together. `Deploy` is the middle: one sheep that runs as a unit,
many processes, the whole tree, and every other part as a single step. The other
modules look inside a step, each over the state that step is about:

| in `Deploy` | inside | what `Deploy` takes for granted, and where it is shown |
|---|---|---|
| `Verify` passes only on a full turnover | `Verify` | `PassRunsNew`, `PassFullStrength`, `PassSurvived`: of several instances, whatever passes was spawned after the capture |
| | `Window` | `Verify` in turn takes a budget that is not raised while shep works on a healthy reload: `HealthyIsWaitedFor` |
| `Swap`, `Rollback` move `current` in one step | `Shelf` | `IsRegister`: seen through `current`, inspection, link and rename are one step or none |
| a checkout is refused, without a fault, only once there has been a kill (`CheckoutFails`) | `Shelf` | `RefusedWhereKilled` |
| pruning takes any unspared release | `Shelf` | the order of mtimes is one of those |
| a fetch succeeds or fails | `Clones` | `IsRegistry`, `FetchesWhole`: the tree's clone is there, and whole |
| a build or hook ends, with nothing left of it | `Runner` | `NothingLeft`, `Ends` |
| `Init`: a tree that setup has built, watched only if the cutover landed | `Adoption` | `AutoIsWhole`: `watch = auto` means that the record names a release |

Two of these are refinements stated as such: `Shelf` implements `Link` and
`Clones` implements `CloneRegistry`, both checked by TLC and proved. The others
relate one fact of `Deploy`'s to a property of the other module.

### State and actions of `Deploy`, and the code

`current`, `record`, `release`, `marker` and `lock` are the tree on disk;
`table`, `running`, `inflight` and `fresh` are the shepherd's; `remote` is git's;
`pc` and `job` are a process's place and memory. `job[p].state` is the
`State` the process read: the code passes it by `&mut` through the whole deploy,
and so does the model. `verified` is history, `left` the remaining budgets.

`fresh` stands for the generation. `Generation::of` remembers the pids of an
instant, and a verdict asks whether every present pid is a later one; the model
keeps the answer to that question, for the serving instances and for the
replacement, since the last capture by the one process that holds the lock.

An operation is a path through `pc`:

```
tick, deploy:   adopt -> hold -> check -> checkout -> adding -> build -> swap ...
stage:          hold -> read -> adopt -> check -> checkout -> adding -> build
                     -> stageRead -> stageRecord -> prune
promote:        hold -> read -> adopt -> check -> build -> swap ...
landing:        swap -> capture -> reload -> verify -> landed -> record -> prune
undone:         capture, reload -> undo -> record -> prune
rolled back:    reload, verify -> rollback -> correct -> captureBack
                     -> reloadBack -> verifyBack -> record -> prune
--branch:       change -> lift          --watch: change
```

The order of the first two steps is the code's: a tick and a `deploy` read the
record (`settings::adopted`) before they take the tree lock; `stage` and
`promote` take it and read again.

What an action abstracts:

* **One step per point of interference.** A section under the record lock (a
  read and a rename of a file of a few hundred bytes, blocking lock) is one
  action. Everything longer is cut: `worktree add` is `BeginCheckout` and
  `EndCheckout`, `worktree remove` and its marker `BeginRemoval` and
  `EndRemoval`, a settings change reads in one step and writes in another.
* **A build** succeeds or fails. `Build` and `BuildFails` include the links,
  the sandbox, the artifacts and the release hook, since nothing else observes
  a release before its swap.
* **`State::write`** either writes, or refuses a record `validate` rejects, or
  fails before or after its rename (`Writes`, `WriteFails`).
* **The sheep runs as one unit.** Instances turn over one at a time in shep; a
  verdict passes only when all have, so `TurnedOver` is about a whole set. That
  `verify::wait` gets this right for several instances is what `Verify` is for.
* **Retention's order is left open.** Which unspared releases are older than
  the newest `Keep` depends on mtimes, so pruning may take any unspared release
  while more than `Keep` are present: a superset of what the code does.
* **The environment** pushes, kills, fails a file or git operation, loses or
  refuses a request, repoints `current`, removes a release; each kind has a
  budget in `Bounds`. Two restrictions: a release is removed by hand only while
  nothing holds the tree lock, and `current` is not repointed by hand while
  releases are being removed. `prune` reads `current` once, so without the
  second an operator could repoint it onto a release that is about to go.
* **Nothing is seen of a fetch, a hook's group, a temporary link or a
  registration**: those are `Clones`', `Runner`'s and `Shelf`'s.

A kill (`Crash`) is both a process killed by the kernel and the dog's future
dropped by `tokio::select!`: the locks go, and everything on disk, in the
shepherd and in flight stays. A killed dog is restarted by its supervisor, so
its next tick reads everything again.

### State and actions of `Verify`, and the code

`flock` is the listing `describe` answers: a row has the instance's slot, a pid
or none, a status and, for the properties alone, the release it was spawned
from. `queue` and `swap` are the reload in flight, `before` and `settled` the
two `Generation`s, `late` the budget that has run out.

| action | code |
|---|---|
| `PointAt`, `Capture`, `Request` | `swap_and_land` and `land`, or `restore` and `reload_until`: `current` moves, the generation is taken, the reload asked for, refused, lost or accepted |
| `Turnover` | one look of `turnover`: `has_turned_over`, or the deadline |
| `Probed`, `Alive` | one look of the two dwells |
| `DescribeFails`, `TimeUp` | `describe_within` giving up; the budget running out |
| `BeginSwap`, `SpawnNew`, `FinishSwap`, `AbortSwap` | shep's reload, one instance after another, the replacement beside the old instance or (`serial`) after it |
| `Die`, `Respawn`, `ComeUp`, `Demote`, `StockUp`, `StockDown` | the rest of what shep does to a flock meanwhile |

The shepherd is outside this repository. Its actions are what the comments of
`dwell.rs`, `generation.rs` and `window.rs` record of it: a serial reload leaves
a replacement that never became ready `starting` for good, an overlapping one
keeps the old instance, a post-drain probe demotes under the same pid.

A look and the decision on it are one action, since the decision changes
nothing but the verifier. Looks of the real dwell are `POLL` apart; here one may
come at any moment, which includes those. The budget is a flag that may be
raised at any time once anything has gone wrong, and otherwise only when shep
has nothing left to do; `Window` shows that `window::budget` makes it so.

### State and actions of `Window`, and the code

One reload against a clock, for one setting of the app (`Listen`, `Graceful`,
`Reprobes`), as many rows as the generation counted and as many swaps as the
shepherd makes of it. `queue`, `swapping`, `since`, `probing`, `probeAt` are the
shepherd's, `deadline` and `give_up` the verifier's. Time is a count of ticks,
and `Tick` does not pass what bounds the shepherd.

| definition | code |
|---|---|
| `SaturatingAdd`, `SaturatingMul`, `bounded`, `per_instance`, `budget`, `dwell_for`, `cutover_budget` | the functions of `window.rs`, ceilings included |
| `StartWait`, `Turnover` | `wait` and `turnover` and its `deadline` |
| `ProbedDwell`, `AliveDwell`, `Alive` | the two dwells; `alive` sleeps `DWELL` and then asks until the turnover's time is up, or for one more dwell |
| `Fail`, `RollBack`, `Retry` | a verdict that fails, and `reload_until`'s patience with the reload in flight |
| `BeginSwap`, `EndSwap`, `AbortSwap`, `EndProbe` | the account `window.rs` gives of shep: a deadline per swap, a probe after the drain where the port is reused |

There is no run of it. What it says is arithmetic over a clock, and the theorems
have it for every duration and count; an instance TLC could check would bound
both, and the ceilings with them.

### State and actions of `Shelf`, and the code

`current`, `tmp`, `dir`, `marker`, `registered` and `locked` are the tree and git's list
of its worktrees, with those it has locked; `newer` has, of each release, those whose directory time is later.
One deploy at a time, as the tree lock sees to, so `pc` and `job` are not per
process; the hands need no lock.

| action | code |
|---|---|
| `Begin`, `Reuse`, `Clear`, `Forget`, `Add`, `Added` | `checkout_release`: a finished checkout is used again; anything else is cleared, pruned from git unless it is locked, and added afresh if git lets it, its marker written last |
| `Build`, `Land`, `Back` | what the swap is for, and the ending that decides where `current` goes |
| `Inspect`, `MakeLink`, `Rename` | `point_at`: what is at the temporary name, `symlink`, `rename` |
| `ListReleases`, `BeginRemove`, `RefuseRemove`, `EndRemove`, `Sweep` | `prune`: the listing and `doomed`, `git worktree remove` of one release after another with the files before the marker, the refused ones kept, `git worktree prune` |
| `HandRemove`, `HandRepoint`, `HandPlace`, `HandClear`, `Crash` | the operator in the tree; a kill |

A failed or killed removal, and a failed or killed checkout, leave a directory
that is partly there, or one that is gone and still registered. `git worktree add`
keeps `worktrees/<id>/locked` until the checkout is whole: a git that fails takes back
all it did, and one that is killed leaves its lock with the rest. The dog's own death
need not be its git's, so `Crash` lets the add come to its end too, without the
marker; that it may do so only after the next deploy has begun is left out. A release
without its `.git` is refused by git as one that is not registered, and so counts as
one. A removal that began may have touched the directory's time or
not, according to what it got to, and so may a build.

### State and actions of `Clones`, and the code

`link[t]` is the tree's link to a clone. Of `repos/<key>` there are `root` (the
directory), `git` (absent, partial or whole) and `file`, the inode of `git.lock`
or 0: a process that has opened the file keeps its own inode in `job[p].fd`, and
`flock` is a matter of inodes while everyone else finds files by path.

| action | code |
|---|---|
| `MakeParent`, `OpenLock`, `Flock`, `StatLock` | `hold_clone`: `create_dir_all`, `open`, `flock`, and the comparison of the file it holds with the one at the path, round again if they differ |
| `InitBare`, `LinkClone` | `share_clone` |
| `BeginFetch`, `EndFetch` | `git::fetch` under the clone's lock |
| `Unlink`, `ScanLinks`, `RemoveGit`, `RemoveLock`, `Emptied`, `RemoveRoot` | `release_clone`: the tree's link, the sweep of the other trees' links, and `remove_dir_all`, entry by entry in an order the directory decides |

`LockLast` says which order: with TRUE `git` goes before `git.lock`. The code asks
for no order, so TRUE is an assumption about the file system; `unlinked` shows
what happens without it. A tree with a clone of its own shares nothing and is
left out.

### State and actions of `Adoption`, and the code

`flock` is the shepherd's rows of the sheep, each with an id, the config it was
started from (`own` checkout or `tree`), a life and a count of restarts; a pid is
an id with that count. `roll` is the config the muster roll has for the name.
`watch`, `swapped`, `record` and `linked` are what a setup leaves behind. A process
is one command and runs once: `Command` says whether it is an `init` or the
on-remove hook, and `told` is what it reported, which is what an operator goes by.

| actions | code |
|---|---|
| `StartInit`, `ReadRegistered`, `RepairRecord`, `CheckTree`, `HoldTree`, `BuildFirst`, `SetManual`, `SwapFirst`, `WriteFirst` | `prepare_with`: what is registered and what an interrupted init left, the lock, the first release, `watch = manual`, `current`, the record |
| `DescribeBefore`, `StartBeside`, `Arrive`, `Dwell`, `DeleteOld`, `RecordLanded`, `SetAuto` | `cut_over` and `attempt`: the originals listed, the release started beside them and watched, the originals deleted one by one, the record, `watch = auto` |
| `Undo`, `Drain`, `Repair`, `AwaitRepair`, `DrainRepair` | `undo_start` and `drain`: whatever was not there before is deleted, and the roll repaired by starting the original config and deleting what that spawns |
| `StartRemove`, `ReadRoll`, `ReadForRestore`, `DescribeLive`, `DeleteLive`, `PutBack`, `Fallback`, `LetGo` | `restore::all` and `put_back` for one sheep |
| `Spawn`, `Die`, `Respawn` | the shepherd, one accepted start after another |
| `Crash` | a kill of a command |

Every request can be refused or have its answer lost, and every file, git or
build operation can fail. `Patient` says whether the dog is removed only while
nothing else goes on; `gone` shows what happens otherwise. One sheep stands for
all of a removal, whose targets are put back one after another and share the
clones alone.

### State and actions of `Runner`, and the code

`proc` is the kernel's table: of each pid, whether it is free, alive or a zombie,
its group, whether it holds the write end of the output the dog reads, and the
part it plays, which only properties look at.

| action | code |
|---|---|
| `SpawnHolder`, `SpawnBuild`, `SpawnFails` | `run_in_group`: the holder leads a group, the build joins it |
| `Waited`, `TimedOut`, `KillChild`, `Sweep`, `ReapHolder` | its wait, its deadline, and the kill of the group before the holder is reaped |
| `SpawnGit`, `Collect` | `run_git_within`: git leads its own group, and the wait for its output is bounded too |
| `Fork`, `Setsid`, `Foreign`, `Exit`, `Crash` | what commands and other programs do: fork, leave the group, take a free pid, end; a kill of the dog |

## 3. What is checked

Twelve runs, nine of them expected to pass. Between them these fire every action
and every disjunct of the next-state relations of `Deploy`, `Verify`, `Adoption`,
`Clones`, `Runner` and `Shelf`. The budgets in the second column count the events
of the environment, in the order that the module's `BoundsType` has them:

* `Deploy`: push/crash/fault/reply/repoint/remove/command
* `Adoption`: crash/fault/refuse/lost/death, and of these five together
* `Clones`: share/fetch/release/trouble
* `Runner`: run/fork/leave/fault/crash
* `Shelf`: deploy/crash/fault/hand

| run | instance | properties | what it shows |
|---|---|---|---|
| `unattended` | 3 commits, 2 branches, dog and 1 operator (`stage`, `branch`, `watch`), `Keep` = 2, 2/0/0/1/0/0/2 | `Agreement`, `DeployedVerified`, `NeverHoldsWhatServes`, `HoldRespected`, `HoldOnlyFromAttempt` | while the dog alone lands releases, the record agrees with `current`, only verified releases are called deployed, and holds mean what they say |
| `staging` | 3 commits, dog and 2 operators (`stage`, `promote`), any push skippable, `Keep` = 2, 2/0/0/0/1/1/3 | `RecordedKept`, `ServedIntact`, `StagedUntilLanded` | no interleaving of stages and promotes loses a staged release or what the record names, and `current` is always on a whole release, with hands in the tree as well |
| `crash` | 3 commits, dog and 1 operator (`deploy`, `promote`, `stage`), `Keep` = 3, 2/1/1/1/0/0/1 | `TypeOK`, `Exclusive`, `BuildsWhole`, `VerdictIsOfHead` | one deploy at a time; a kill anywhere, a failed operation and a lost answer never lead to building a partial checkout or to a verdict about another release |
| `settles` | 2 commits, 2 branches, dog and 1 operator (`branch`, `watch`), `Keep` = 2, 1/1/1/1/0/0/1, fairness | `Settles` | a watched target ends on its head, live or held, and is not rebuilt for ever |
| `verdict` | 2 places, both modes, both shapes of reload, an earlier reload perhaps in flight, 1 trouble, fairness | `NoFalseAlarm`, `PassRunsNew`, `PassFullStrength`, `PassSurvived`, `Decides` | what passes is the new release, at full strength and alive; what fails has a reason; every reload gets its verdict |
| `takeover` | 2 setups and 2 removals, 1 instance of the operator's and 2 of the release, `Patient`, 1/1/2/1/1, 2 together, fairness | `TypeOK`, `OriginalsKept`, `AutoIsWhole`, `StaysRegistered`, `CloneKeptForTree`, `HandsOverLiving`, `TellsTheTruth`, `Ends` | a sheep taken over, retried and given back: the originals outlive every doubt, the app is handed only to instances that stayed up, and what is reported is so |
| `shared` | 3 processes, 2 trees, 2 clones, `LockLast`, 2/1/1/1, fairness | `OneInside`, `FetchesWhole`, `LastOneOut`, `IsRegistry`, `Ends` | the lock keeps one process inside although its file goes with the clone; what the trees see is the registry; nobody waits for ever |
| `groups` | 4 pids, 2/3/1/1/1, fairness | `NothingLeft`, `GroupReserved`, `KillsOnlyOurs`, `Ends` | on a host that soon gives pids out again no signal reaches anybody else, and nothing of a build's group outlives it |
| `disturbed` | 4 commits, `Keep` = 2, 4/1/1/1 | `Unwedged`, `RefusedWhereKilled`, `IsRegister`, `StrandsNone`, `JustTriedKept` | a kill, a failure or a hand between any two system calls leaves `current` one link and does not wedge the next swap; a checkout is wedged by nothing but the kill of an earlier one of the same sha |
| `stale` | 3 commits, dog and 1 operator (`deploy`), 3/0/0/0/0/0/1 | `Agreement`, violated | section 4 |
| `gone` | a setup and a removal, not `Patient`, no trouble | `StaysRegistered`, violated | section 4 |
| `unlinked` | 2 processes, 2 trees, 1 clone, not `LockLast`, 2/0/1/0 | `IsRegistry`, violated | section 4 |

Why the bounds are enough for these questions:

* **`Deploy`.** Three commits are the fewest for an old release, the one that
  serves and a new one, and for retention with `Keep` = 2 to have something to
  remove; two pushes give a head that moves during a build and a branch that
  moves back; two branches are what `--branch` needs; a dog and one or two
  operators are every pair of roles.
* **`Verify`.** Two places are the fewest that let one instance be swapped, die
  or be stocked while another is not, and `MaxPid` = 9 is more pids than any
  behaviour uses. A trouble is a death, a replacement that cannot be spawned or
  is not ready, a demotion, a change of stock, a failed `describe` or a lost
  request.
* **`Adoption`.** Two instances of the release, so that one can come up, die or
  be deleted without the other; one of the operator's, so that the two flocks
  differ in size; a second `init`, which finds what the first left, and a second
  removal, which finds what a removal left; two troubles, which is a failure and a
  failure of what repairs it.
* **`Clones`.** Three processes: one inside, one waiting for the file the first
  removes, and one that finds the next file. Two clones, because a tree can move
  from one to another.
* **`Runner`.** Four pids are the holder, the build, something the build starts
  and one for anybody else, so every pid is soon given out again; a second run
  meets what the first left behind.
* **`Shelf`.** Four deploys over four commits with `Keep` = 2 remove a release,
  return to one that is still there and check out one that was removed; four
  releases on the shelf, after a kill or a failed removal, leave a pruning two to
  remove, so that one can refuse to go before the other.

Deadlock is checked in the four runs of `Deploy` that pass: the dog always has a
tick to make. Elsewhere the system stops once the budgets are spent.

What the bounds leave out is deliberate where it would only repeat a
disagreement of section 4. `unattended` has no kills, since with one
`DeployedVerified` fails, and `staging` has none, since with one a removal may
leave part of a release the record names. `crash` prunes nothing, since with
pruning a kill makes `BuildsWhole` fail. `staging` has no `deploy` command and no
`--watch`: a target is watched, and a stage is refused, or it is manual, and the
dog passes it over, so that neither a stage nor a promote meets a tick that read
the record before it. `unattended` has no promotes beside its `--watch` for the
same reason; a manual target that operators promote on is in section 5's theorems.
`unattended` has no `deploy`, whose read is the same. Of
`takeover`'s properties, `HandsOverLiving` and `AutoIsWhole` are about the first
`init`, since a second one takes the first one's instances for the operator's;
`TellsTheTruth` and `StaysRegistered` except a lost answer, since nothing in the
protocol tells a lost answer from a request that was never carried out.

### Fairness

* **`Deploy`** asks for three things. `WF(StartTick(Dog))`: the poll loop sleeps
  an interval and ticks, for ever, and its supervisor restarts it.
  `WF(Proceeds(p))`: an operation that has begun goes on; every wait in the code
  has a deadline (`git_timeout`, `build_timeout`, `verify::MAX_WAIT`,
  `reload_until`'s patience) and the locks it waits for are held for a read and a
  write. `WF(Spawn \/ TurnOver \/ GiveUp)`: shep ends every reload by its own
  deadline. A retry of a rollback's reload, faults, kills, pushes and commands
  are not fair: nothing makes them happen, and budgets end all but the first.
  `Settles` needs the build, the verdict and the reload to be free to fail every
  time, and they are.
* **`Verify`** is fair to the verifier's next look, to time, and to the shepherd:
  a reload ends each swap by shep's deadline, and an instance that died is
  restarted and comes up. Troubles are not fair.
* **`Adoption`** is fair to a command's next step: its waits have deadlines and
  its locks do not block. Nobody has to start a command, and the shepherd owes it
  nothing, no spawn and no restart; `Ends` holds in spite of that.
* **`Clones`** is fair to every step of a process: a fetch has a budget, and the
  others are system calls. `flock` is fair only in the weak sense, to whoever
  could take the lock and goes on being able to.
* **`Runner`** is fair to the function, whose deadline passes in the end, and to
  a spawn that succeeds or fails. Nothing makes a command, or what it started,
  ever exit.

## 4. Where the code and its text disagree

Each of these runs is expected to find its property violated; the finding in
`PROJECT.json` quotes the text.

* `stale` (`Agreement`). An operator's `deploy` reads the record, the dog lands
  another release, the operator's process takes the lock, attempts a newer head
  and fails; `record` writes its copy back whole, with the old `deployed`.
  `landed_elsewhere` guards only against a rival that landed the same sha.
* `gone` (`StaysRegistered`). The on-remove hook takes no tree lock. Beside a
  cutover's undo it deletes the originals and starts the sheep from its checkout
  again; the undo's drain deletes every row it had not listed before, which those
  now are. The sheep is in neither the flock nor the roll, and neither command
  says so.
* `unlinked` (`IsRegistry`). `remove_dir_all` takes `git.lock` and `git` in the
  order the directory lists them. With the lock file gone first, a setup makes a
  new one, takes the clone for its own and links to it while it is removed.

Related, seen with these models under other budgets or in writing them:

*Deploy.*

* A tick reads the record before the lock just as `deploy` does, and its whole
  write (`deploy/record.rs:192`) drops a `staged` written meanwhile.
  `lock.rs:40-41` says each read-modify-write of the record takes the record lock
  so that a later rename does not drop an earlier update; `write_record` takes it
  for the write alone. Where `--watch` makes a target watched between a tick's read
  and its `watch`, the tick may meet a promote as well, and `Agreement` fails as in
  `stale`. In the same way, and with one kill, a whole write of
  `restore`'s brings back a hold that `--branch` lifted (`HoldOnlyFromAttempt`).
* Killed between swap and verdict, the dog leaves `current` on an unverified
  release. When the next head fails, `restore` takes that release as the one to go
  back to and records it as deployed before verifying it (`rollback.rs:271`,
  beside `deploy/mod.rs:120-121`): `DeployedVerified` fails with one kill. The
  pruning that follows then takes the recorded one.
* Killed between swap and record write, the next tick attempts the same sha; if
  that build fails, the sha is held while `current` stays on it, and nothing later
  brings record and link together. `poll/mod.rs:236-237` says that costs one
  rebuild and repairs itself.
* `prune` removes files first and the marker after (`retention.rs:114`). Killed
  between, it leaves a part of a release that counts as finished
  (`deploy/prepare.rs:91`): `BuildsWhole` fails with a kill and a removal. A
  `git worktree remove` that fails half-way leaves the same.

*Verify.* The generation and the reload are two requests. A reload already in
flight (another verb's, or the deploy's own when `restore` asks again) may end
between them (`reload.rs:172-190`); the flock has then turned over when the
accepted reload begins, and the dwell watches instances that are about to be
replaced. Nothing went wrong, and the verdict is that it did not come up.
`NoFalseAlarm` excepts exactly this case, by `stale`.

*Shelf.*

* A kill during `git worktree add` loses the sha. `prepare.rs:93-110` measures such
  kills and has the marker cover "a killed process", and `git.rs:311` has
  `worktree_prune` clean up "for any worktree whose directory is gone"; but git
  prunes no locked worktree, and it holds one locked for as long as it adds it. After
  a kill the directory is cleared, the prune passes over the lock, and the add
  (`git.rs:291`, without `-f -f`) is refused with "missing but locked worktree": at
  every attempt, until somebody unlocks it. In git 2.39 every kill in the middle of an
  add did this. The attempt is recorded as a failure and the head is held, so the poll
  loop stays live (`Settles`), and the part of a release is never pruned either
  (`worktree remove` with one `--force` refuses it). The tests of both functions use
  worktrees whose add had ended. `RefusedWhereKilled` is what is left: one sha for each
  kill, and nothing else does this. Its first conjunct without `\/ job.head \in Wedged`
  fails with one kill.
* `retention.rs:17-20` takes the release just attempted for the newest by mtime.
  Once a kill, a failed removal or a repointed link has left more releases than
  `keep`, a finished checkout that is reused keeps its old mtime and may be the
  first to go.
* A hand that repoints `current` while `prune` works, onto a release `prune` has
  listed as one to remove, loses the release that serves (`retention.rs:65`).

*Adoption.*

* When the newcomers are accepted and not yet spawned at the cutover's deadline,
  and the start that repairs the roll is refused, `undo_start` reports that it
  removed everything, and rows still come (`attempt.rs` drops the ids that the
  start answered; `undo.rs:111-113`).
* A drain's delete that fails, followed by a repair that succeeds, leaves a row of
  the tree behind while the roll is the operator's: a later restore says the sheep
  never moved and lets go of its clone.
* `prepare.rs:164-213` writes `deployed` for a sheep found registered against its
  tree; a comment in `restore/mod.rs` says that only a landed cutover does.
* A start that was carried out and whose answer was lost is `NotStarted`
  (`cutover.rs:41-51`): nothing is undone, and a second flock runs beside the
  first. `put_back`'s fallback has the same.
* Two inits of one sheep: the second looks for a record before it takes the lock.

*Clones.* Between `create_dir_all` and `open` the directory may be removed, and
the setup fails with a missing path. A removal whose last `rmdir` finds a new lock
file reports the clone as kept although it is gone.

*Runner.* A comment in `main.rs:98-106` says that a git the dog leaves behind when
it is stopped is bounded by `git_timeout`; only the dog enforces that. In the same
way a stopped dog's build goes on writing to its release, with no one to end it.

*Settings and poll.* Of two settings verbs that run at once one loses its change,
as `settings.rs:402` itself admits. Two heads that fail one after the other with
the same words are reported once, which is what the muting of repeats is for.

## 5. What is proved

Eight modules of theorems. Each theorem holds for every value of its module's
constants that the named assumptions allow, every budget included; where it
assumes more, its ASSUME says so. Every safety property that a passing run checks,
invariant or action property, is proved, under assumptions that the run's instance
satisfies. `TypeCorrect` stands first in most of them, since the
type invariant is what all the others rest on; of `Deploy` and `Adoption` the runs
check it as well.

**`DeployProofs`** (`Deploy`).

* `TypeCorrect`, `Spec => []TypeOK`. `TypeOK` alone is not inductive: a swap sets
  `current` to `job[p].head`, which may be `None` for a process that has not
  begun. `HeadKnown` adds that where a process is about to check out, build or
  swap in its head, the head is a commit; `TypeInv` is both.
* `MutualExclusion`, `Spec => []Exclusive`, from `TypeInv` and `Exclusive` itself:
  a process enters `Inside` only by taking a free lock, and leaves it in the step
  that releases it, kills included.
* `VerdictCorrect`, `Spec => []VerdictIsOfHead`, assuming `Bounds.repoint = 0`
  (with hands in the tree a restart takes the sheep elsewhere and the property is
  false). The strengthening, `VerdictInv`, says that while a process is between
  its swap and its verdict, `current` is the release under judgement (`Onto`), and
  whatever was spawned since the capture (`running`, `inflight`, when `fresh` names
  them) was spawned from it (`Spawned`). Exclusion is what keeps other processes
  from moving `current` or clearing `fresh` meanwhile; that a capture comes after
  the swap and before the request is what makes it hold at all.

**`TreeProofs`** (`Deploy`), in four parts, each with an invariant over
`TypeInv` and `Exclusive`.

* What is whole. `ServedWhole` (`ServedIntact`) and `BuiltWhole` (`BuildsWhole`)
  assume that nothing is killed and no operation fails. `DiskInv` says that a part
  of a release has somebody writing or removing it (`NoLeftovers`), that a whole one
  has its marker (`WholeMarked`), and what whoever builds, swaps or removes relies
  on (`Cared`). Hands may do what they like. `KilledBuildsWhole` is `BuildsWhole`
  with any number of kills and failures where nothing is ever removed: `MarkInv`,
  the marker vouches for the release. `KilledServesWhole` is `ServedIntact` under the
  same assumption. `ServeInv` has a marker for whatever `current` may yet be pointed
  at: the head between its swap and its verdict, and the link and the record as the
  deploy found them, which is all a rollback chooses from (`Trusted`); and markers are
  only ever added (`MarkerGrows`). Section 4 has what these exclude.
* What stays staged. `StagedStays` (`StagedUntilLanded`) assumes `Steady`: no
  `deploy` and no `--watch` by command. Kills, failures, lost answers and hands are
  all in it. `StageInv`: a watched target has nothing staged, an operator's copy of
  the record is read under the lock and is current there, unless a write of it has
  failed and only the bookkeeping is left (`Current`).
* What agrees. `RecordAgrees` (`Agreement`), `HeldIsNotServed`
  (`NeverHoldsWhatServes`), `DeployedIsVerified` and `HoldsComeFromAttempts` assume
  `Quiet`: releases are landed in turn (`InTurn`), nothing is killed or fails, nobody
  repoints `current`. In turn means that nobody deploys by command, which is the
  disagreement `stale` shows, and that a target operators promote on is not switched
  by `--watch`, since a tick that read the record while the target was manual would
  meet a promote in the same way. Ticks, stages, promotes, branches, pushes,
  removals, refusals and lost answers go on. `AgreeInv` follows whoever is inside
  the tree: between its swap and its ending what the record tells is about the
  release it began at (`Truth`, `Home`), it goes back to that one or lands
  (`Trying`, `Ending`), and what it remembers of the record is what the record says,
  but for a hold that was lifted since (`Remembers`). `StoryIn` is the step of the
  process inside the tree, `StoryOut` and `StoryOther` those of all the others. A
  tick remembers from before it has the lock; `NoneLanding` is why no promote lands
  meanwhile: by `StageInv` one that does has a target that is manual for good, and
  there the tick goes no further (`Waits`).
  `HoldIsRespected` needs only `InTurn`, and so has every kill, failure, lost answer
  and hand: the record's hold is the one the tick read or has been lifted since
  (`Heeds`), since a dog that was killed reads again and what a failed write leaves
  behind is read with it.
* What stays on disk. `RecordedStays` (`RecordedKept`) assumes `Orderly`, which is
  `Steady` with nothing killed or failing: a killed removal leaves part of a release
  that a later stage takes for finished, and a write that fails after its rename
  leaves a name in the record that the pruning after it does not know of. `KeepInv`
  says that while nothing was removed by hand, what the record and the memory of
  whoever may write it name is whole; `StaysWhole` and `NamesSpared` say that
  pruning spares just those.

**`VerifyProofs`** (`Verify`).

* `TypeCorrect`, with the flock finite throughout.
* `PassedRunsNew` (`PassRunsNew`). The verifier sees pids, the property speaks of
  releases. `OldAreHeld` connects them: since the capture, an instance of the old
  release has a captured pid or no process, because `current` moved first and
  everything spawned since comes from the new one; and what settles shares no pid
  with what was captured.
* `PassedSurvived` (`PassSurvived`). `PidsAreNames` says that pids tell instances
  apart, the dead included, and `SettledCounts` that what settled had as many pids
  as rows. A flock of that many rows, all under settled pids, is all of them, so
  none is dead.

* `PassedAtStrength` (`PassFullStrength`). The capture counts rows, the property
  counts the slots that were there. `Tidy`: a slot has one row, and a draining one
  beside it only during its swap. `Strength`: at the capture the two numbers are
  equal, unless it caught a row that is being drained with its replacement still to
  come, and then that row's pid is gone before the reload in flight is over
  (`Replacing`, `Missed`), so a request that finds the captured flock unchanged
  does not find that one.
* `NeverAlarmedFalsely` (`NoFalseAlarm`). `Smooth`, for as long as no trouble was
  spent: outside the swap everything is online; the slots still queued hold captured
  pids and the others fresh ones (`Swapped`); the budget does not run out under a
  reload; and in the dwell the flock is what settled (`Arrived`). `TroublesGrow` is
  why an untroubled state has only untroubled ones before it.

`VerdictInv` is the conjunction of the first three, and is inductive;
`StrengthInv` and `AlarmInv` each add their own. Every step of the shepherd but a
death takes rows out, puts some back under another status and adds at most one
under a fresh pid; `Rearranging` proves `VerdictInv` once for all of those, and
`Shepherding` shows each action to be one.

**`WindowProofs`** (`Window`), from `Sizes` alone. `WaitsAreBounded` and
`BudgetIsShepsDeadline` are about the arithmetic: never above `MAX_WAIT`, and below
the ceilings exactly shep's deadline per row. `HealthyIsWaitedFor` is what `Verify`
takes for granted: a reload whose swaps all end within shep's deadlines is not
failed for taking its time. `PatienceIsEnough` says the same of a rollback that
waits for the failed reload, and `LastWordIsHeard` that a probed release is not
called good before the probe after its drain is answered. The invariant counts the swaps that are done:
while one is under way the clock has not passed what so many may cost (`OnTime`),
and the budget is what all of them may (`Patient`). The two exceptions are in
`Short`: `MAX_WAIT` cuts the budget, or the sheep was stocked up after its rows
were counted.

**`ShelfProofs`** (`Shelf`). `NeverWedged` and `SwapIsRegister`:
`Spec => IsRegister`, a step-by-step refinement of `Link`. The invariant is how far
the swap is (`Progress`): its place is empty of links when it makes one, and holds
its own when it renames it. Any number of kills, failures and hands.
`AddRefusedWhereKilled` (`RefusedWhereKilled`): when an add begins, the path is cleared
and pruned, so that only a lock can still have it registered; and every step that
leaves one more release locked, with no add under way, spends a kill (`Killed`).

`PruneStrandsNone` (`StrandsNone`) and `JustTriedIsKept` (`JustTriedKept`) are about
which releases are newer than which. `Ordered` has that relation finite and the
budgets shrinking. `NoneStranded`: while a pruning goes on, what lies past the newest
`Keep` of the releases that have not been dealt with is in its list. A removal that
fails may make its release the newest, and the shelf without it is then counted
again; `Shrinks` says that this only ever spares. `Routine` has what holds on an
undisturbed shelf: record, `current` and git agree (`Course`, `OnShelf`), and nothing
past the newest `Keep` is there when a deploy begins (`Recent`). That is why a
checkout that is reused, with its old mtime, is one of the newest `Keep` for the
pruning that follows; section 4 has what becomes of it after a disturbance.

**`ClonesProofs`** (`Clones`), where `LockLast`. `LockExcludes` (`OneInside`),
`FetchHasItsClone` (`FetchesWhole`) and `ProtocolIsRegistry`, `Spec => IsRegistry`:
the system calls implement `CloneRegistry`; hence `LinkedIsWhole`, in every state a
tree that links to a clone can fetch into it. Whoever is inside a clone holds the
`flock` of the very file at the path, until the remover unlinks that; two inside one
clone would hold one file, which `Mutex` forbids. `Knows` is then what each has
found out of a clone that nobody else touches. `NoneLeftBehind` (`LastOneOut`) needs
no `LockLast`: a clone that nothing links to is on the mind of a process that is
about to link to it or to look whether anybody does (`Tended`), who knows where its
tree links to (`Sees`) since a setup of a tree meets no other change to it (`Apart`).

**`AdoptionProofs`** (`Adoption`). `TypeCorrect`, whoever does what; and where
`Patient`, every safety property that `takeover` checks: `OriginalsOutlive`
(`OriginalsKept`), `CloneIsKept` (`CloneKeptForTree`), `NotLostUnnoticed`
(`StaysRegistered`), `AutoMeansWhole` (`AutoIsWhole`), `ReportsAreSo`
(`TellsTheTruth`) and `OnlyLivingTakeOver` (`HandsOverLiving`), for any number of
commands, instances and troubles. The lemma all of them rest on is `Alone`: of two
processes that may ask the shepherd for anything, one is still on its way to the
lock. `Undisturbed` says that a removal has the sheep to itself (`Apart`), and that
what a process was told of the originals and the clone is still so (`KeptBy`,
`ClonedFor`). `Reckoning` says the same of every row. `Ordered` has ids unique and
spawned in order, so that a repair whose last row is listed has all of them listed
(`AllSpawned`), which is what makes an undo's report so. `Past` says that no setup
gets past the check once a removal has begun, and that until then the sheep has an
instance; `CutOf` and `RestoreOf` say what a cutover and a removal know at each
step; `Noticed` that who has emptied the flock is still at it or has said so; and
`Whole` what the first setup finds and leaves.

**`RunnerProofs`** (`Runner`). `GroupStaysReserved` (`GroupReserved`),
`BuildsLeaveNothing` (`NothingLeft`), `SignalsReachOnlyOurs` (`KillsOnlyOurs`), for
any number of pids, forks and kills. A group's leader stays a child the dog has not
reaped for as long as the group may be signalled (`Leader`), so nobody else can be
given its pid and lead a group of that id, and whoever is in the group was forked in
it.

Only model-checked: `Settles`, `Decides` and the three `Ends`. Liveness under
fairness is out of the prover's reach.

The assumptions about kills and failures that are left cannot go. The runs'
instances with one kill added, and four commits and three pushes where need be, have
counterexamples to `Agreement`, `DeployedVerified`, `NeverHoldsWhatServes`,
`HoldOnlyFromAttempt`, `RecordedKept` and, where there are removals, `BuildsWhole`;
one failed operation refutes `Agreement` and `RecordedKept`, and two, or a `current`
that is repointed, `HoldOnlyFromAttempt`. Section 4 says what happens in them.

## 6. Not modelled, and what is left

Not modelled:

* **Parsing and formatting**: `config.rs`, the text of `deploy.toml` and of the
  sheep's table, argument parsing, `exit.rs`, `error.rs`, `survey.rs`, `smit.rs`. Pure
  functions of one input, and what the tests of the repository reach best.
* **The layering of settings**, the dog's section under the sheep's table: a
  function of two tables.
* **What a build may see and do**: environment, users, privileges, containment of
  artifacts, `linkcheck.rs`, glob matching and the linking of the operator's files.
  Questions about the operating system inside one process; to everyone else they
  are a step that succeeds or fails.
* **The muting of repeated reports**, and the log: nothing decides by them.
* **Several targets in one poll loop.** They take turns and share only the clones,
  which `Clones` has, and the log.
* **What a repository keeps of refs whose objects went**: `InitBare` takes a clone
  that was removed in part for whole once it has been made again.
* **A sheep that was made with the dog**, with no `origin_cwd` to go back to
  (`restore/mod.rs:269`): it is reported and nothing is done for it.
* **Connections to the shepherd**, and the encoding of requests: a request is
  accepted, refused or loses its answer.

Left, in the order that seems worth it: several sheep of `Deploy` over the clones of
`Clones`, for what a fetch that fails in one does to the next tick of another; a run
of `Adoption` with two sheep in one removal; and a sheep that is given back while
the dog is in a deploy of it, which is `Deploy` and `Adoption` at once.
