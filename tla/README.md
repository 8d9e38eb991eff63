# Verification of agentfork

agentfork pairs two halves under one branch id: a branch of an LLM server's KV cache and a sandbox (a process or a
microVM). A fork makes both, a kill releases both, and its README promises "no orphan processes and no leaked KV
pages". This directory holds TLA+ models of the control plane and of its backends, the TLC runs that check them on
small instances, and TLAPS proofs that hold for every value of the constants.

Contents: [inventory](#inventory) · [modules](#modules) · [runs](#runs) · [bounds and fairness](#bounds-and-fairness) ·
[proofs](#proofs) · [what was found](#what-was-found) · [what is not modelled](#what-is-not-modelled) · [plan](#plan)

## Inventory

| Component | Source | State | Operations | What makes it correct |
|---|---|---|---|---|
| Orchestrator | `agentfork/orchestrator.py` | `_branches` (mirrored in the registry file), `_spawning`, `_killing`, `_loaded_branch_ids`, lease expiries, the reaper thread, open/closing/closed | `create_parent`, `fork`, `kill`, `kill_losers`, `renew_lease`, `reap_expired`, `reconcile`, `start_reaper`, `close`, load at start | a half exists only under a row; a live row has both halves; one worker per id; crashes leave only what the next owner's reconcile finds; close leaves nothing running |
| KV tree cache | `agentfork/kv/tree_cache.py` | a radix tree per namespace with reference counts, counters, a capacity and per-tree budgets | `create_tree`, `fork_branch`, `extend`, `kill`, `match_prefix`, `match_tree_prefix` | a live branch's tokens are resident; references and counters are exact; lookups find the longest prefix |
| SGLang over HTTP | `agentfork/kv/sglang_http_backend.py`, server in `patches/0002` | `_active`, `_closing_branches`, `_namespaces`, `_parents`; the server's branches | `create_tree`, `fork_branch`, `generate`, `kill` with retries and timeouts | a kill overtakes no request in flight; client and server agree; calls return |
| Firecracker sandbox | `agentfork/sandbox/firecracker_backend.py`, `MicroVM` in `fc_bench.py` | `_vms`, `_pending`, `_parent_forks`, snapshot generations; `fc.pid`, `netns.idx`, `mem`/`state` on disk; VMM processes | `spawn`, `kill`, `checkpoint`, `restart`, `sweep_dead`, exec, bundles | whatever runs can be killed through its branch, in this life or by the next one; a killed branch leaves nothing; a fork inherits the state its parent was in |
| Network namespaces | `agentfork/sandbox/netns.py` | free list and cursor of /30 indices; kernel namespaces and veths | `setup`, `teardown`, `reserve` | an index is in one hand; indices are not lost |
| Process reaper | `agentfork/kill/` | Popen objects and pidfds; the processes, each with the thread its death signal is tied to | `spawn`, `kill`, `close`, the launcher | every process has a row on disk; none outlives the supervisor |
| Vsock and guest agent | `agentfork/sandbox/vsock.py`, `guest_agent.py` | connections, timers on both sides, commands in the guest | exec, detached exec, readiness probes | the guest's timeout answers before the host's; a returned exec has left nothing running; timed calls return |
| Tree agent harness | `agentfork/harness/` | `_prefix`, the token prefix each branch was committed with | `prepare_root`, `fan_out`, `select_winner`, `kill_losers`, `run_round`, `solve` | the ledger is what the KV backend holds; winners extend their line; a sweep spares the line and nothing else |
| In-process SGLang adapter | `agentfork/kv/sglang_backend.py` | token lengths per branch | as the KV cache | lengths follow the engine |

Interaction. The orchestrator calls a KV backend and a sandbox backend, always outside its lock, from caller threads, a
thread pool for fan-outs and the reaper thread. `_spawning` and `_killing` are its only protection for the time of
those calls. Rows are journaled before anything is acquired and forgotten after everything is released, so that the
registry file tells a successor what to collect. Backends have locks of their own and, for Firecracker, records on disk
of their own.

What is hard here: forks, kills, sweeps, restarts and `close` of several threads on the same ids; backend calls that
raise after having had their effect; a supervisor that dies between any two steps while microVMs survive it; requests
that are given up and served later; snapshot files rewritten while another thread restores from them; a death signal
that belongs to a thread and not to a process; ids used again. `PROJECT.json` lists each hazard at its line.

## Modules

| Module | Models | Used by |
|---|---|---|
| `Orchestrator` | `orchestrator.py` | `OrchestratorRefinement`, the proofs |
| `BranchLedger` | the abstract promise: per id, halves are acquired under a "forking" row, released under a row, and a row goes last | `OrchestratorRefinement` (INSTANCE) |
| `OrchestratorRefinement` | the mapping from the one to the other, `ImplementsLedger` | `MCOrchestrator`, proofs |
| `TreeKVCache` | `tree_cache.py` | `MCTreeKVCache` |
| `FirecrackerSandbox` | `firecracker_backend.py` (processes, records, networks), `netns.py`, `MicroVM` | `MCFirecrackerSandbox` |
| `FirecrackerSnapshots` | `firecracker_backend.py` (guest state, snapshot files, overlays, parent locks) | `MCFirecrackerSnapshots` |
| `Supervisor` | `kill/reaper.py`, `kill/_pdeathsig.py`, `ReaperSandbox`, `_persist` and its callers | `MCSupervisor` |
| `GuestExec` | `vsock.py`, `guest_agent.py`, `wait_ready` | `MCGuestExec` |
| `TreeAgent` | `harness/agent.py` over the orchestrator as it sees it | `MCTreeAgent` |
| `SGLangHTTPBackend` | `sglang_http_backend.py` and the server of the patches | `MCSGLangHTTPBackend` |
| `OrchestratorProofs`, `SupervisorProofs`, `TreeKVCacheProofs`, `FirecrackerSandboxProofs`, `FirecrackerSnapshotsProofs`, `GuestExecProofs`, `TreeAgentProofs`, `SGLangHTTPBackendProofs` | inductive invariants and theorems of the module each is named after | |

`Mutant:` definitions are plausible bugs; each is substituted for the definition it follows to see that a property
notices. They are no part of the specifications.

### Orchestrator

A step is one block under the registry lock, or one backend call between two blocks. `branches` is `_branches` and the
registry file together: `_persist` runs under the lock and memory is rolled back when it raises, which
`MemoryMatchesFile` of module `Supervisor` shows step by step. Each journaled
`create_parent` or `fork` has a number, which also names the incarnation of the branches it made (`branches[b].call`,
`made`). `pc[c][b]` says where call `c` stands with child `b`:

- `kv`, `sandbox`, `ready`, `golive`: `KvFork`, `SandboxSpawn`, `Ready`, `GoLive` (`create_parent` 425-437, `spawn_one` 488-513);
- `rb_kv`, `rb_sandbox`, `rb_stuck`, `rb_forget`: `_rollback_branch` (353-372), in which each cleanup may raise;
- `unmark`: the finally block that leaves `_spawning`.

`kpc[b]` does the same for a kill (`sandbox`, `kv`, `failed`, `forget`), and `kby[b]` names the sweep on whose behalf it
runs. Sweeps (`reap`, `reconcile`, `losers`, `close`, `dead`) list ids under the lock and kill them one at a time in
any order, which covers the fan-out. A backend call that raises may or may not have had its effect. `Crash` forgets
threads and markers, and `Restart` loads the registry: in-process KV branches are gone with the process, sandboxes stay.

### TreeKVCache

Nodes are identified by the token path from the namespace root to them, so that an edge is the difference of two
paths. `Walk` is `_walk` (greedy descent, stopping inside an edge), `Split` is `_split`. Public methods take the lock
for their whole length and are one action each. Eviction removes unreferenced leaves in any order, of which LRU is one.

### FirecrackerSandbox

`pc[b]` walks through `spawn` (begin, netns, journal, source, start, load, record, register; undo, clean; unpend) and
`kill` (reap or recover, teardown, remove), `restarting[b]` through `restart()`. Memory (`vms`, `pending`, `forks`,
`index`), disk (`pidfile`, `idxfile`, `dirs`, `saved`) and kernel (`procs`, `spaces`, `veths`) are separate variables:
`Crash` loses the first and keeps the others, and `Recover` rebuilds the index allocator from the files, as
`_recover_netns_indices` does. Namespaces are named after branches and veths after indices, so a setup fails on a taken
name and a teardown may hit somebody else's veth; `NetworkKept` says that it does not.

`spawn` and `kill` of one id exclude each other (the orchestrator's markers), but the reaper calls `restart()` with no
marker, and `kill()` waits only for `_parent_forks` and `_pending`. So `restarting[b]` runs beside `pc[b]`: the reaper
has listed a dead branch and found it live (`SweepDead`, stage `called`), and from there on a kill of it, and a spawn of
the id made again, interleave with `Restart`, `RestartPaths` and the rest at every step. `_setup_netns` and
`_teardown_netns` of the two calls have local variables of their own (`idx`, `newidx`, the stages `unlink` and `clear`
of a teardown that knew an index and one that knew none).

History variables: `lost` (processes that a failed restart or a crash before the pid record left unknown, and those of
a raced id), `stray` (namespaces a crash left without an index file), `shared` (indices that a crash left in two files),
`raced` (ids for which a kill or a spawn ran beside a restart that had found its checkpoint and was not done) and
`tangled` (the indices of such ids). They name the known windows, so that the properties say that there is no other: a
kill that is through before `restart()` looks for the checkpoint, or comes after it registered its VMM, is not excepted,
and neither is any branch but the raced one.

### SGLangHTTPBackend

A request is sent, may be served at any time, and is answered. `GiveUp` is the client's timeout or a broken connection:
the request may be lost, may have been served with its answer lost, or may still be served later. `kill` is tried again
up to `max_retries` times, nothing else is; on some errors the code raises before its attempts are used up, which leaves
the state that a smaller number of attempts does. The server's abort of a generate is not modelled: one that is given up
is served or lost. The server makes a branch that a `generate` names and it does not know
(`prepare_request` in `patches/0002`). `late` collects the ids that abandoned requests changed, and the forks of such
ids: a branch forked from one that a late request made has its name from there.

### FirecrackerSnapshots

A guest's memory is a record: the last write made in it (`data`), the last one it knows to be on its disk (`flushed`),
whether something runs on in it after its exec (`left`) and whether its last sync worked (`synced`). A snapshot is such
a record, and whoever is restored from it inherits all four: a child or a restarted branch goes on running what its
parent left running. `exec` ends by moving `_gen`; a fork (`ForkBegin`, `ForkLock`, `ForkSync`,
`ForkPause`, `ForkWrite`, `ForkCopy`, `ForkResume`, `ForkLoad`, `ForkRegister`, `ForkUndo`) is `_fork_source` under
the parent's lock and then `restore` outside it; `checkpoint`, `kill` and `restart` go step by step beside it. The
files are mapped, not read, by the children, so that rewriting them changes children that run.

A VMM serves API requests one at a time, and each has a timeout of 5 seconds (`fc_bench.py:101`). One that raises may
have been refused or may be served after its caller gave up: `late[b]` holds the pauses and resumes that `b`'s VMM has
still to serve, and `ServeLate` serves the next one. A request made meanwhile is answered only after them, or raises
too. A write that raises leaves torn files whether or not the VMM completes it.

The variables `cut`, `disturbed`, `broken`, `rolled` and `stuck` name the ids that met one of the windows
the code has: an exec that lost its VMM, a child whose parent's files were rewritten under it, a checkpoint that failed
after it marked the snapshot, a memory restored to an older moment than its disk, a pause or resume that raised and left
the guest paused or may yet. A kill and a restart of one id do not overlap in this module; that window is
`FirecrackerSandbox`'s `raced`. `synced` is
FALSE in an image written after a failed sync, which the code accepts. The properties except these by name and say that
there are no others.

### Supervisor

`branches` and `file` are separate here. A writer changes memory, writes (`Save`), renames (`SaveRename`) and syncs
(`SaveEnd`); the steps before the rename may raise, and the caller puts the old rows back. `Popen`, `PopenReturns` and
`PidfdOpen` are `spawn` under the reaper's lock in its three modes: `preexec` (the default, a hook between fork and
exec), `shim` (the launcher) and `off`. The child's side is `ChildArm` (prctl) and `ChildCheck` (getppid, then exec).
`proc[e][b]` is the process that supervisor number `e` forked for `b`, and `thread[e][b]` the thread whose end sends it
its signal; `PoolEnds` is the end of the fan-out's `with ThreadPoolExecutor`, `Crash` the end of all threads.

### GuestExec

One connection carries one command. `host[c]` is the caller's thread (connect, send, wait), `agent[c]` the agent's
`handle_connection` of it, `cmd[c]` the command. Time is a `Tick` that may happen only when nothing is left to do
without waiting; timers count down. The guest may stop (a fork pauses it) or lose its VMM at any moment, and a command
may leave a process behind that holds its pipes. `delayed`, `gaveUp` and `clung` name the calls whose guest was stopped,
whose host timeout fired, and whose pipes were still held when their command was killed.

### TreeAgent

Callers share one agent and one orchestrator, which is here a ledger of rows with a token sequence each. `PrepareRoot`
and `Round` journal children, `Spawn` makes them one at a time, `CommitExtend` and `CommitRecord` are the extend and
the entry in `_prefix` of each branch, `Select` is `select_winner`, `SweepFirst` and `SweepAgain` are `kill_losers` with
its retries, `Forget` is `_forget`. `Lapse` collects a root whose lease ran out, behind the agent's back. `line[c]` is
the history of the roots and winners of a caller.

## Runs

Passing runs:

| Run | Shows |
|---|---|
| `orch_core` | forks of up to two children, kills, rollbacks, a failing call, and a crash at every step with a successor that reconciles: `NoLeak`, `OneWorkerPerId`, `LiveIsWhole`, `KillIsFinal`, the inductive invariant `Agreement`, and refinement of the ledger |
| `orch_close` | `close` and `kill_losers` against work in flight: close drains and returns, nothing is left that could write the registry of a successor; kill_losers returns, and without an exception its losers are gone |
| `orch_reaper` | the reaper with restarts, leases, a crash and two faults: dead sandboxes are restarted or collected, lapsed leases renewed or collected, leftovers settle, and even where a kill races a restart only a sandbox, never a KV branch, loses its row |
| `kv_core` | the radix cache: residency (`PrefixResident`), reference counts (`RefsExact`), accounts and limits (`BooksKept`), tree shape and longest match (`LookupsSound`) |
| `fc_lifecycle` | microVM life cycle, with a crash of the supervisor or a restart beside a kill of its branch and a spawn of the id made again: `OnlyKnownOrphans`, `KilledIsGone`, `NetworkKept`, and no /30 index shared or lost (`IndicesKept`) |
| `fc_snapshots` | what a fork inherits: a current snapshot is the branch's state (`CurrentIsSaved`), a child starts from a state no older than the call with memory and disk of one moment (`ForkInherits`), and a guest is frozen only by a pause or resume that raised (`NeverFrozen`) |
| `supervisor` | memory equals file between writes (`MemoryMatchesFile`), every process has a row on disk (`EveryProcessJournaled`), and with a death signal no process outlives its supervisor (`NoneOutlives`, `OrphansEnd`) |
| `guest_exec` | the guest's timeout comes before the host's and a returned exec is over (`TimeoutsHold`), and calls return (`TimedCallsReturn`), with stops and deaths of the guest |
| `tree_agent` | two callers and their trees: the ledger is the KV backend's (`LedgerSound`), winners were committed and extend their line (`WinnerExtends`), sweeps spare the line and leave nothing else (`LineSpared`, `SoleLeaf`), calls end (`CallsEnd`) |
| `http_core` | the HTTP adapter: requests in flight are counted (`ActiveExact`), kills wait for them (`KillWaits`), client and server agree but for abandoned requests (`SidesAgree`), calls return (`CallsReturn`) |

A property that is a conjunction has its parts, the module's type invariant among them, defined and explained beside it.

The violation runs `namespace_reused` and `shim_fanout`, each a disagreement of the code with a line of the repository,
are described under [what was found](#what-was-found).

## Bounds and fairness

Two or three branch ids are enough for a parent, a child and a sibling or a second user of the same id; every property
relates at most two ids. `MaxCalls` allows an id to be made again after a kill. `orch_core` has one fault, because its
properties are proved for any number; `orch_reaper` and `fc_lifecycle` have two, which allow a failure during the
handling of a failure. One crash is enough because `Restart`, `Recover` and `Start` begin from what any crash leaves.
Three VMM processes allow a fork, a restart and a further spawn; a subnet of two /30 networks makes exhaustion and reuse
happen. A race of `restart()` with a kill counts as a fault (the other is the death that makes the reaper restart) and
takes the place of a crash, so that `fc_lifecycle` has one or the other; the theorems cover both together. In
`fc_snapshots` three ids are a parent, a child and a child of either, four lives a fork of a fork and a kill or the use
of an id again, two execs a command and a checkpoint or an export against it; one write is enough to tell an old state
from a new one. In `supervisor` two ids are the fan-out that takes a pool, and two calls let an id be forked again. In
`guest_exec` the timers differ so that each may be the first to fire, and `Never` is beyond any sum of them. In
`tree_agent` one caller runs two rounds (so that a winner is forked again) of up to two continuations and the other one,
which may also be of none; five ids per tree are all that these can make. Four HTTP requests cover create, fork or
generate, kill and its retry, and a creation of the same id after a retried kill. Runs over model values use symmetry,
except where liveness is checked. Deadlock checking is off where the bounds, or an idle system, end behaviours.

Fairness. In `Orchestrator`, weak fairness of every step of a call in progress: Python threads run on and backend calls
return or raise; of the reaper's passes while it runs, which its timer starts; of the waking of `close`, which every
ending fork and kill notifies; of `Restart` after a crash where a run is about what a successor does. New calls, faults,
crashes and lapses of leases are not fair. In `SGLangHTTPBackend`, weak fairness of a thread's next step and of the
server for requests somebody waits for, strong fairness of `KillEnter`, whose waiters the condition variable wakes each
time a kill ends. Timeouts are not fair: `CallsReturn` holds without their help. In `Supervisor`, weak fairness of the
child's own steps between fork and exec: nothing in them waits for the supervisor. In `GuestExec`, weak fairness of the
host's steps, of the agent's while the guest runs, and of time; a stopped guest need not be resumed, and a command need
not end. In `TreeAgent`, weak fairness of each caller's next step.

## Proofs

All theorems hold for every value of the constants. Each component's inductive invariant is defined at the head of its
proof module, was checked by TLC on the instance of the component's run before it was proved, and is proved with one
lemma per action or group of actions; the safety properties follow from it.

| Module | Theorems | Hypotheses |
|---|---|---|
| `OrchestratorProofs` | `TypeCorrect`, `LosersAreGone` (`LosersGone`) | none |
| | `KvNeverOrphaned` (`OnlySandboxOrphans`) | `~RacingReuse` |
| | `AgreementHolds`, `NothingLeaks`, `LiveBranchesAreWhole`, `WorkersExclude`, `CloseStopsEverything` (`ClosedIsQuiet`), `RefinesLedger` (`ImplementsLedger`), `KillsAreFinal` (`KillIsFinal`) | `Settled` |
| `SupervisorProofs` | `InvariantHolds`, `MemoryIsFile`, `ProcessesAreJournaled`, `NothingOutlives` | none |
| `TreeKVCacheProofs` | `CacheInvariant`, `PrefixesStay` (`PrefixResident`), `ReferencesExact` (`RefsExact`), `LookupsFind` (`LookupsSound`), `BooksBalance` (`BooksKept`) | `~ReuseNamespace`, finitely many ids |
| `FirecrackerSandboxProofs` | `SandboxInvariant`, `OrphansAreKnown` (`OnlyKnownOrphans`), `KillLeavesNothing` (`KilledIsGone`), `IndicesNeverLost` (`IndicesKept`), `RunningKeepNetwork` (`NetworkKept`) | none |
| `FirecrackerSnapshotsProofs` | `SnapshotInvariant`, `CurrentSnapshotsHold` (`CurrentIsSaved`), `ForksInherit` (`ForkInherits`), `NobodyFrozen` (`NeverFrozen`) | none |
| `GuestExecProofs` | `ExecInvariant`, `TimeoutsWorkTogether` (`TimeoutsHold`) | none |
| `TreeAgentProofs` | `AgentInvariant`, `LedgerIsSound` (`LedgerSound`), `WinnersExtend` (`WinnerExtends`), `LinesSpared` (`LineSpared`), `SoleLeafLeft` (`SoleLeaf`) | `~Reuse` |
| `SGLangHTTPBackendProofs` | `HTTPInvariant`, `ClientAndServerAgree` (`SidesAgree`), `RequestsCounted` (`ActiveExact`), `KillsComeLast` (`KillWaits`) | none |

The hypotheses. `Settled` assumes that callers do not reuse an explicit id before the call that failed on it has
returned (`~RacingReuse`) and that the reaper is not started with `restart_dead`. Both are needed: TLC violates
`NoOrphan` with `RacingReuse = TRUE`, and with `RestartDead = TRUE`. `~ReuseNamespace` assumes that an id is not created
again while the forks of its former tree live; the run `namespace_reused` shows what happens otherwise. `~Reuse` assumes
that the ids of branches are the orchestrator's own, which are never used twice; with `Reuse = TRUE` TLC violates
`DroppedIsGone`.

The arguments:

- **Orchestrator.** That whatever is held has a row depends on which thread is where. `Agreement` adds that a fork at
  work is in `_spawning`, owns its "forking" row and is alone on its id (`JobsMarked`, `JobsRecorded`, `JobsAlone`);
  that a kill at work is in `_killing`, not in `_spawning`, and its row says "killing" (`KillsMarked`); and what each
  stage still holds or has released (`HalvesThere`, `HalvesGone`). With `restart_dead` the sandbox half of this fails,
  but the KV half survives on its own: `KvAgreement` has `KvGone` in place of the two. `RefinesLedger` maps each step
  to a step of `BranchLedger` or a stutter. For sweeps, `Sweeping` says that a kill and its marker come and go together
  (`KillsPaired`), that call numbers are ahead of every row (`CallsCounted`), that a listed loser with a row is
  unattempted, kept for the wait loop or being killed (`LosersTracked`), and that from its sweep on `close` has no spawn
  and no kill beside its own (`CloseAlone`).
- **Supervisor.** That memory is the file between writes needs to know what the file holds during one (`SaveSound`: the
  rows from before until the rename, those in memory after it). That every process has a row needs the order of the
  calls: no row, no handle and no call at work (`RowsFirst`), no handle, no process but one about to get its handle
  (`HandlesSound`). That nothing outlives a supervisor needs only that successors start empty (`DownIsEmpty`).
- **TreeKVCache.** `KVInv` says of every namespace that its nodes form a radix tree, that a tree's tokens end at a node,
  and that a node's owners are the trees that go through it, counted (`Well`); and that `resident` and `logical` are the
  distinct prefixes and the lengths of the live trees (`Booked`). What the recursive definitions compute is shown
  without an induction scheme, from closed forms: the descent of `_walk` reaches the longest common prefix with any node
  (`WalkIs`), because each edge it follows is the first node below the next token (`ChildIs`) and there is no last
  position from which it would not; the sums are cardinalities of sets of marks (`Total`), as the recursion of
  `MapThenSumSet` agrees with them on the smallest set where it could differ (`AddsIs`). The sizes of edges are counted
  by the paths that end on them (`SizeIs`), so that kill gives back what only its tree needed (`FreedTokens`) and extend
  is charged for what nobody had (`MoreTokens`).
- **FirecrackerSandbox.** `FCInv`: `_parent_forks` counts the spawns under way (`ForksExact`); what the stage of a call
  says of its own variables (`CallOf`); and of every id that is not raced (`Sound`), that one call at a time works on
  what it has (`OneCall`), which process handle, pid file and call name at every stage (`ProcsOf`), where the index is
  recorded (`IndexOf`), and that without a row it has left nothing (`GoneOf`). Of a raced id it says only that whatever
  it names is `lost` or `tangled` (`Entangled`), which is enough to show that its teardowns reach nobody else. Every
  index below the cursor is free, tangled or held by one branch, whose veth it is (`IndicesSound`). `Recover`
  re-establishes the last from the files alone. That one call at a time works on an id is no hypothesis and no guard:
  it is proved up to the step at which `Kill` or `RestartPaths` makes the id raced.
- **FirecrackerSnapshots.** `SnapInv` follows who holds a parent's lock (`ExecLocks`, `CkptLocks`, `ForkLocks`), what a
  generation says of the files (`Entry`, `Saved`), that overlay, image and copy are of one moment from the sync to the
  child's start (`DiskFits`, `CopyFits`), where the state the caller saw is at each stage (`FloorHeld`), and who will
  resume a paused guest (`Thawed`). Beside it, `LateInv` says of requests whose callers gave up that only a running VMM has
  any, that one with a pause among them is `stuck`, and that while there are any no fork and no checkpoint is in the
  middle of its work on the paused guest (`Waits`): otherwise a late resume would let the guest run under a snapshot.
- **GuestExec.** `ExecInv`: the two timers of an undisturbed call run down together, the host's with the grace to spare
  (`TimersInStep`), and what has happened to the command at every stage of its call (`OneRequest`, `MachineSound`).
- **TreeAgent.** Callers share one set of rows and sweep and wait for one another, so the invariant is stated caller by
  caller. `AgentInv`: numbers not handed out are unused (`Fresh`); what the call's own variables hold at each stage
  (`Shape`); whose branches there are, and that children are newer than the line they hang on (`Owned`); along the line,
  each branch has the one before it as its parent as long as it has a row (`Chained`); what the ledger knows (`Known`);
  what the branches hold, children first what their parent had and then their target (`Held`); and that the lists of a
  sweep spare the line and miss nothing beside it (`Swept`). What anybody else does can only let a tree decay, rows and
  entries going and none changing (`Decays`), and a decayed tree keeps its invariant (`Bystander`). The recursions are
  handled without an induction scheme, from the least position at which they could go wrong: a comprehension yields what
  it selects, in order (`Stepwise`), and the parent walk stays within the line and covers it (`KeptWithin`,
  `KeptCovers`); that a first best child exists is `FirstOfBest`.
- **SGLangHTTPBackend.** `HTTPInv`: a call is in a stage of its operation (`CallShape`); request numbers tell attempts
  apart and a request says what its caller asked (`Numbered`); a kill past its first wait is marked and alone
  (`KillsMarked`); whoever makes a branch is alone on its row, and requests in flight name branches that stay tracked as
  they were (`RowsHeld`); what the server has while an answer is under way (`ServerSound`).

Three models were corrected on the way. In `SGLangHTTPBackend` the agreement of client and server is not inductive
unless `late` goes from a parent to the forks served from it. In `FirecrackerSnapshots`, what runs on after an exec and
whether a sync failed were sets of ids; a child and a restarted branch inherit both through the image, so they are
fields of the image now. In `TreeAgent` a round of no continuations went on to commit, where it waited for ever; it goes
to the selection now, which raises, as in the code. `Only` selects from a sequence there by a recursive function,
because the provers cannot look into `SelectSeq`. A by-product for the cache: while namespaces are not reused, every
node has a reference (`NothingIdle`), so `_maybe_evict` never finds a leaf to evict, and an extend over capacity always
raises.

Only model-checked: liveness everywhere (`CallsReturn`, `TimedCallsReturn`, `CallsEnd`, `OrphansEnd`, and `WaitsEnd`,
`DeadHandled`, `LapsedCollected`, `LeftoversSettle` of the orchestrator), because TLAPS proves nothing here about fairness
or ENABLED. Every other property of a passing run is a theorem. Induction schemes and RECURSIVE operators are out of the
prover's reach as well; nothing above needs them.

## What was found

With a run:

- `namespace_reused`: creating a killed root's id again replaces the namespace its surviving forks live in.
- `shim_fanout`: in shim mode a fork of two or more children runs in a pool whose threads end when the fork returns, and
  the death signal the launcher asks for is tied to the thread that forked it. A child that has asked by then is killed
  although its branch is live. (A single fork has the same exposure to the end of the thread that called it.)

Without a run of their own. The first group is reached by giving a module other constants than its run does and
checking the property named; the rest is excluded from a property by name.

- `NoOrphan`, `RacingReuse = TRUE` (`Orchestrator`): an explicit id is reused between the rollback that forgot its row
  and the finally block that leaves `_spawning`; the first call's discard takes away the second call's marker.
- `NoOrphan`, `RestartDead = TRUE`: the reaper calls `restart()` with no marker that would hold off a kill, and the
  restarted sandbox has no row.
- `WinnerLineKept`, `Sweeps = {"losers"}`: `kill_losers` walks `parent_id` only as far as rows exist, so after the
  winner's parent was killed the grandparent counts as a loser. `LineSpared` of `TreeAgent` is about lines all of whose
  rows are live and does not cover this.
- When `vm.restore` raises in `restart()`, the VMM that was just started is neither killed nor recorded
  (`FirecrackerSandbox`, excepted through `lost`).
- A kill of a branch whose `restart()` is past its look for the checkpoint removes the branch, its row is forgotten, and
  the restart then registers a running VMM under the forgotten id; both may release the same index, and a spawn of the
  id may tear down what the restart set up (`raced`, `tangled`).
- `pause()` is sent before the `try` that resumes (`firecracker_backend.py:376` and `704`). When the VMM takes longer
  than 5 seconds to serve it, the fork or checkpoint raises, and the guest is paused afterwards with nobody to resume it
  until the next fork or checkpoint (`stuck`).
- `ReconcileCollects`, `Modes = {"off"}` (`Supervisor`): without a death signal branch processes survive the supervisor,
  and a successor's reconcile forgets their rows, because `ReaperSandbox.kill` swallows the KeyError of an id it holds
  no handle for; `reaper.py:61-63` describes the mode without that.
- `TimeoutEnforced` (`GuestExec`): after the guest's timeout the command is killed but `communicate()` waits for its
  pipes again, so a process that holds them delays the answer; the host's grace ends the call.
- `SnapshotsReadOnly` (`FirecrackerSnapshots`): a second snapshot of a parent rewrites the files from which its running
  children's memory is mapped.
- With `Background = TRUE` a process that an exec left behind makes a snapshot old that the generations call current;
  `CurrentIsSaved` and `ForkInherits` except guests in which something runs on.
- `DroppedIsGone`, `Reuse = TRUE` (`TreeAgent`): with `child_ids` given by the caller, an id used again between a sweep
  and its `_forget` loses its new entry in the ledger.
- A checkpoint that fails in the middle of writing leaves torn files that count as the branch's snapshot.
- `reap_expired` and `kill_losers` list ids and kill later without looking again: a lease renewed in between, or a
  branch made anew under the id, does not save it.
- A sandbox kill that fails in every pass keeps the reaper from reaching `sweep_dead()` for all branches, because
  `reconcile()` raises first.
- `spawn_one` compares parent ids, not incarnations: a parent killed and made again under the same id passes the check.
- A crash between the start of a VMM and the writing of `fc.pid` loses the process; one between `ip netns add` and
  `netns.idx` leaves a namespace (until the id is used again, when the failing setup removes it).
- `_teardown_netns` releases the index before it unlinks `netns.idx`: with a crash in between and a spawn that took the
  index, two files name it, and killing the first branch unplugs the second.
- A fork that comes after its parent's kill makes the parent's directory back (`_host_dir`), empty.
- A fork, create or generate that timed out at the client and is served after the kill leaves a branch on the server
  that nobody knows; a late first attempt of a retried kill removes a branch made anew under the id.

## What is not modelled

- Metrics, logging, and generate/exec/export of the orchestrator, which look a live branch up and call a backend.
- KV statistics (charged, saved, evicted) and LRU order. Tokens of the HTTP backend, `reserve`, `telemetry`,
  authentication and URL validation.
- Firecracker: `export_bundle` and `import_bundle`, the reseed thread and the jailer's files; what guests compute. A
  process number stands for pid and start time, so identity checks always tell.
- Exec frames: encodings, size limits and truncated lines are one way for a call to fail.
- The harness's text path over generate, and `adapter.py`, which builds prompts and parses model output.
- The in-process SGLang adapter: per method one call of an engine that is not in the repository, and one length.
- Benchmarks, the cost model, demos, GPU validation scripts: measurements with no state to protect. The engine patches
  are modelled only as far as the HTTP backend meets them.

## Plan

1. Action properties of the backends (what a restart, a late answer or a checkpoint may never undo).
2. Modelling: bundles of the Firecracker backend, and the stock cache that the pressure benchmark compares with.
