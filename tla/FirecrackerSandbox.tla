------------------------- MODULE FirecrackerSandbox -------------------------
(***************************************************************************)
(* agentfork/sandbox/firecracker_backend.py and netns.py: the life of       *)
(* microVM processes, of what is recorded about them on disk, and of their  *)
(* network namespaces.  A step is one block under the adapter's lock or one *)
(* piece of work outside it.                                                *)
(*                                                                         *)
(* The adapter is called the way ForkOrchestrator calls it: spawn for an id *)
(* that is not journaled, kill for one that is, never two of them at once   *)
(* for one id (Orchestrator, OneWorkerPerId).  restart is the reaper's, for *)
(* a branch that sweep_dead listed and that was live when it looked; it     *)
(* holds no marker, so a kill, and a spawn of the id made again, may run    *)
(* beside it.  raced records the ids for which they did after restart had   *)
(* found a checkpoint and before it was done, tangled their indices.        *)
(* VMM processes outlive the supervisor.  Left out: what the guests compute *)
(* and the snapshots hold, the jailer, overlays and the reseed thread.  A   *)
(* process number stands for pid plus start time, so a recycled pid is a    *)
(* process that does not run any more.  A teardown is one step up to the    *)
(* release of the index; only a thread racing on the same id could tell.    *)
(***************************************************************************)
EXTENDS Naturals, FiniteSets

CONSTANTS
    ID,             \* branch ids
    NoBranch,
    MaxVMs,         \* bound: VMM processes started
    Capacity,       \* NetnsManager._capacity: /30 networks in the subnet
    MaxFaults,      \* bound: steps that raise, VMMs that die by themselves, and races
    MaxCrashes      \* bound: supervisor crashes; races take the place of one

ASSUME FCAssumption ==
    /\ NoBranch \notin ID
    /\ MaxVMs \in Nat /\ Capacity \in Nat /\ MaxFaults \in Nat /\ MaxCrashes \in Nat

VARIABLES
    rows,       \* the orchestrator's journal: ids that may have something
    vms,        \* _vms: per id the process of its handle, 0 for none
    pending,    \* _pending
    forks,      \* _parent_forks
    procs,      \* the VMM processes that run
    started,    \* processes started so far
    pidfile,    \* fc.pid: per id the recorded process, 0 for none
    dirs,       \* branch directories that exist
    saved,      \* branches whose mem and state files exist
    index,      \* _netns_index: per id, or NoIndex
    idxfile,    \* netns.idx
    free,       \* NetnsManager._free
    next,       \* NetnsManager._next
    spaces,     \* the kernel's network namespaces, named after branches
    veths,      \* per index: the namespace its veth pair leads into
    pc,         \* per id: where its spawn or kill stands
    vm,         \* per id: that call's local variable vm
    parent,     \* per id: the parent argument of its spawn
    restarting, \* per id: where restart() of it stands
    newvm,      \* per id: restart()'s local variable vm
    idx,        \* per id: _setup_netns's local variable index, in spawn
    newidx,     \* and in restart
    lost,       \* processes nobody knows of any more and those of a raced id,
    stray,      \* namespaces nobody knows of any more,
    shared,     \* indices two netns.idx name after a crash,
    raced,      \* ids whose restart and kill ran at once, and
    tangled,    \* the indices such an id had (all five read by properties only)
    up,         \* the supervisor runs
    faults, crashes

registry == <<rows, up, crashes>>
handles  == <<vms, pending, forks>>
vmm      == <<procs, started>>
history  == <<lost, shared, raced, tangled>>
files    == <<pidfile, dirs, saved, idxfile>>
network  == <<index, free, next, spaces, stray, veths>>
calls    == <<pc, vm, parent, idx>>
restarts == <<restarting, newvm, newidx>>
fcVars == <<registry, handles, vmm, history, files, network, calls, restarts, faults>>

Proc == 1 .. MaxVMs
NoIndex == Capacity
Index == 0 .. Capacity - 1

SpawnStage == {"begin", "netns", "journal", "source", "start", "load", "record",
               "register", "undo", "clean", "unpend"}
KillStage == {"reap", "recover", "teardown", "remove"}
RestartStage == {"none", "called", "paths", "drop", "unlink", "clear", "netns", "journal",
                 "start", "load", "abort", "record", "register"}

\* Every variable has its type.
FCTypeOK ==
    /\ rows \subseteq ID /\ pending \subseteq ID /\ dirs \subseteq ID /\ saved \subseteq dirs
    /\ vms \in [ID -> 0 .. MaxVMs] /\ forks \in [ID -> Nat]
    /\ procs \subseteq 1 .. started /\ lost \subseteq 1 .. started /\ started \in 0 .. MaxVMs
    /\ pidfile \in [ID -> 0 .. MaxVMs]
    /\ index \in [ID -> 0 .. Capacity] /\ idxfile \in [ID -> 0 .. Capacity]
    /\ free \subseteq Index /\ shared \subseteq Index /\ next \in 0 .. Capacity
    /\ raced \subseteq ID /\ tangled \subseteq Index
    /\ spaces \subseteq ID /\ stray \subseteq ID /\ veths \in [Index -> ID \cup {NoBranch}]
    /\ pc \in [ID -> {"none"} \cup SpawnStage \cup KillStage]
    /\ vm \in [ID -> 0 .. MaxVMs] /\ parent \in [ID -> ID \cup {NoBranch}]
    /\ restarting \in [ID -> RestartStage] /\ newvm \in [ID -> 0 .. MaxVMs]
    /\ idx \in [ID -> 0 .. Capacity] /\ newidx \in [ID -> 0 .. Capacity]
    /\ up \in BOOLEAN /\ faults \in 0 .. MaxFaults /\ crashes \in 0 .. MaxCrashes

FCInit ==
    /\ rows = {} /\ pending = {} /\ dirs = {} /\ saved = {}
    /\ vms = [b \in ID |-> 0] /\ forks = [b \in ID |-> 0]
    /\ procs = {} /\ lost = {} /\ started = 0
    /\ pidfile = [b \in ID |-> 0]
    /\ index = [b \in ID |-> NoIndex] /\ idxfile = [b \in ID |-> NoIndex]
    /\ free = {} /\ next = 0 /\ shared = {} /\ raced = {} /\ tangled = {}
    /\ spaces = {} /\ stray = {} /\ veths = [i \in Index |-> NoBranch]
    /\ pc = [b \in ID |-> "none"] /\ vm = [b \in ID |-> 0]
    /\ parent = [b \in ID |-> NoBranch]
    /\ restarting = [b \in ID |-> "none"] /\ newvm = [b \in ID |-> 0]
    /\ idx = [b \in ID |-> NoIndex] /\ newidx = [b \in ID |-> NoIndex]
    /\ up = TRUE /\ faults = 0 /\ crashes = 0

Fault == faults < MaxFaults /\ faults' = faults + 1
Goto(b, stage) == pc' = [pc EXCEPT ![b] = stage]
RGoto(b, stage) == restarting' = [restarting EXCEPT ![b] = stage]

\* From now on restart and a kill (or a new spawn) of b work on the same handle,
\* records and namespace.
Race(b) ==
    /\ IF b \in raced THEN UNCHANGED faults ELSE Fault /\ crashes < MaxCrashes
    /\ raced' = raced \cup {b}
    /\ lost' = lost \cup ({vms[b], pidfile[b], vm[b], newvm[b]} \ {0})
    /\ tangled' = tangled \cup ({index[b], idxfile[b], idx[b], newidx[b]} \ {NoIndex})
    /\ UNCHANGED shared

-----------------------------------------------------------------------------
\* NetnsManager

\* The indices _allocate may return: any freed one, else the cursor.
Allocatable == IF free # {} THEN free ELSE IF next < Capacity THEN {next} ELSE {}

\* Mutant: the cursor stays where it is.
CursorStays(i) == next

Cursor(i) == IF i \in free THEN next ELSE next + 1

\* teardown_cmds(b, i): the veth of index i goes, whoever uses it, and the
\* namespace named after b with the veths that lead into it.
Unplug(b, i) ==
    /\ spaces' = spaces \ {b} /\ stray' = stray \ {b}
    /\ veths' = [j \in Index |-> IF j = i \/ veths[j] = b THEN NoBranch ELSE veths[j]]

\* setup(): the commands fail where the name of the namespace or of the veth is
\* taken; then, as on a fault, (b, i) is torn down and i is released.
SetupOk(b, i) ==
    /\ b \notin spaces /\ veths[i] = NoBranch
    /\ spaces' = spaces \cup {b} /\ veths' = [veths EXCEPT ![i] = b]
    /\ free' = free \ {i} /\ next' = Cursor(i)
    /\ index' = [index EXCEPT ![b] = i]
    /\ tangled' = IF b \in raced THEN tangled \cup {i} ELSE tangled
    /\ UNCHANGED <<stray, faults>>

SetupFails(b) ==
    \/ Allocatable = {} /\ UNCHANGED <<network, tangled, faults>>
    \/ \E i \in Allocatable :
          /\ IF b \in spaces \/ veths[i] # NoBranch THEN UNCHANGED faults ELSE Fault
          /\ Unplug(b, i)
          /\ free' = free \cup {i} /\ next' = Cursor(i)
          /\ UNCHANGED <<index, tangled>>

\* _teardown_netns up to the release: by the index in memory, else by the one on
\* disk; _netns_idx_path makes the directory.  The file itself goes in the caller's
\* next step.
KnownIndex(b) == IF index[b] # NoIndex THEN index[b] ELSE idxfile[b]

\* Mutant: the index on disk is not consulted.
TeardownFromMemory(b) ==
    /\ index' = [index EXCEPT ![b] = NoIndex]
    /\ IF index[b] = NoIndex
         THEN UNCHANGED <<spaces, veths, stray, free>>
         ELSE Unplug(b, index[b]) /\ free' = free \cup {index[b]}
    /\ dirs' = dirs \cup {b} /\ UNCHANGED next

Teardown(b) ==
    /\ index' = [index EXCEPT ![b] = NoIndex]
    /\ IF KnownIndex(b) = NoIndex
         THEN UNCHANGED <<spaces, veths, stray, free>>
         ELSE Unplug(b, KnownIndex(b)) /\ free' = free \cup {KnownIndex(b)}
    /\ dirs' = dirs \cup {b} /\ UNCHANGED next

\* _cleanup_artifacts: the directory and every file in it.
RemoveDir(b) ==
    /\ dirs' = dirs \ {b} /\ saved' = saved \ {b}
    /\ pidfile' = [pidfile EXCEPT ![b] = 0]
    /\ idxfile' = [idxfile EXCEPT ![b] = NoIndex]

-----------------------------------------------------------------------------
\* spawn

\* create_parent or fork has found b free and p live, and journals b.
Request(b, p) ==
    /\ up /\ b \notin rows /\ (p # NoBranch => p \in rows /\ pc[p] = "none")
    /\ rows' = rows \cup {b}
    /\ parent' = [parent EXCEPT ![b] = p]
    /\ Goto(b, "begin")
    /\ UNCHANGED <<up, crashes, handles, vmm, history, files, network, vm, idx, restarts,
                   faults>>

\* By now p may have been killed.  A handle that a racing restart left under b makes
\* spawn raise before its try; the row stays for the rollback's kill.
SpawnBegin(b) ==
    LET p == parent[b]
    IN  /\ pc[b] = "begin"
        /\ \/ /\ vms[b] = 0 /\ b \notin pending
              /\ pending' = pending \cup {b}
              /\ forks' = IF p = NoBranch THEN forks ELSE [forks EXCEPT ![p] = @ + 1]
              /\ Goto(b, "netns") /\ UNCHANGED parent
           \/ /\ vms[b] # 0 \/ b \in pending
              /\ Goto(b, "none") /\ parent' = [parent EXCEPT ![b] = NoBranch]
              /\ UNCHANGED <<pending, forks>>
        /\ UNCHANGED <<registry, vms, vmm, history, files, network, vm, idx, restarts, faults>>

SpawnNetns(b) ==
    /\ pc[b] = "netns"
    /\ \/ /\ \E i \in Allocatable : SetupOk(b, i) /\ idx' = [idx EXCEPT ![b] = i]
          /\ Goto(b, "journal")
       \/ SetupFails(b) /\ Goto(b, "undo") /\ UNCHANGED idx
    /\ UNCHANGED <<registry, handles, vmm, lost, shared, raced, files, vm, parent, restarts>>

\* The index goes to disk after the namespace exists, the memory knows it already.
SpawnJournal(b) ==
    /\ pc[b] = "journal"
    /\ dirs' = dirs \cup {b}
    /\ \/ /\ idxfile' = [idxfile EXCEPT ![b] = idx[b]]
          /\ Goto(b, IF parent[b] = NoBranch THEN "start" ELSE "source")
          /\ UNCHANGED faults
       \/ Fault /\ Goto(b, "undo") /\ UNCHANGED idxfile
    /\ idx' = [idx EXCEPT ![b] = NoIndex]
    /\ UNCHANGED <<registry, handles, vmm, history, pidfile, saved, network, vm, parent,
                   restarts>>

\* _fork_source: snapshot a live parent; without a live one, or when the snapshot
\* is current, use the files there are.  _host_dir makes the parent's directory.
SpawnSource(b) ==
    LET p == parent[b]
    IN  /\ pc[b] = "source"
        /\ dirs' = dirs \cup {p}
        /\ \/ /\ vms[p] \in procs
              /\ saved' = saved \cup {p}
              /\ Goto(b, "start") /\ UNCHANGED faults
           \/ /\ vms[p] \notin procs /\ p \in saved
              /\ Goto(b, "start") /\ UNCHANGED <<saved, faults>>
           \/ /\ IF vms[p] \in procs THEN Fault
                  ELSE (vms[p] # 0 \/ p \notin saved) /\ UNCHANGED faults
              /\ Goto(b, "undo") /\ UNCHANGED saved
        /\ UNCHANGED <<registry, handles, vmm, history, pidfile, idxfile, network, vm, parent,
                       idx, restarts>>

\* MicroVM(...): a process runs, or the constructor raises and leaves none.
Start(b, m) ==
    /\ started < MaxVMs
    /\ started' = started + 1
    /\ procs' = procs \cup {started + 1}
    /\ m = started + 1
    /\ lost' = IF b \in raced THEN lost \cup {m} ELSE lost

SpawnStart(b) ==
    /\ pc[b] = "start"
    /\ \/ /\ \E n \in Proc : Start(b, n) /\ vm' = [vm EXCEPT ![b] = n]
          /\ Goto(b, "load") /\ UNCHANGED faults
       \/ Fault /\ Goto(b, "undo") /\ UNCHANGED <<vmm, lost, vm>>
    /\ UNCHANGED <<registry, handles, shared, raced, tangled, files, network, parent, idx,
                   restarts>>

\* boot(), or restore() from the parent's files if they are still there.
SpawnLoad(b) ==
    /\ pc[b] = "load"
    /\ \/ /\ vm[b] \in procs /\ (parent[b] # NoBranch => parent[b] \in saved)
          /\ Goto(b, "record") /\ UNCHANGED faults
       \/ /\ vm[b] \notin procs \/ (parent[b] # NoBranch /\ parent[b] \notin saved)
          /\ Goto(b, "undo") /\ UNCHANGED faults
       \/ Fault /\ Goto(b, "undo")
    /\ UNCHANGED <<registry, handles, vmm, history, files, network, vm, parent, idx, restarts>>

SpawnRecord(b) ==
    /\ pc[b] = "record"
    /\ \/ /\ pidfile' = [pidfile EXCEPT ![b] = vm[b]]
          /\ Goto(b, "register") /\ UNCHANGED faults
       \/ Fault /\ Goto(b, "undo") /\ UNCHANGED pidfile
    /\ UNCHANGED <<registry, handles, vmm, history, dirs, saved, idxfile, network, vm, parent,
                   idx, restarts>>

SpawnRegister(b) ==
    /\ pc[b] = "register"
    /\ vms' = [vms EXCEPT ![b] = vm[b]]
    /\ Goto(b, "unpend")
    /\ UNCHANGED <<registry, pending, forks, vmm, history, files, network, vm, parent, idx,
                   restarts, faults>>

\* The except block: drop the handle and kill the VMM if one was started, tear the
\* namespace down, remove the directory.
SpawnUndo(b) ==
    /\ pc[b] = "undo"
    /\ procs' = procs \ {vm[b]}
    /\ vms' = IF vm[b] # 0 THEN [vms EXCEPT ![b] = 0] ELSE vms
    /\ Teardown(b)
    /\ Goto(b, "clean")
    /\ UNCHANGED <<registry, pending, forks, started, history, pidfile, saved, idxfile, vm,
                   parent, idx, restarts, faults>>

\* netns.idx is unlinked, then the directory goes, or rmtree raises.
SpawnClean(b) ==
    /\ pc[b] = "clean"
    /\ \/ RemoveDir(b) /\ UNCHANGED faults
       \/ /\ Fault
          /\ idxfile' = [idxfile EXCEPT ![b] = NoIndex]
          /\ UNCHANGED <<pidfile, dirs, saved>>
    /\ Goto(b, "unpend")
    /\ UNCHANGED <<registry, handles, vmm, history, network, vm, parent, idx, restarts>>

\* The finally block.
SpawnUnpend(b) ==
    LET p == parent[b]
    IN  /\ pc[b] = "unpend"
        /\ pending' = pending \ {b}
        /\ forks' = IF p = NoBranch THEN forks ELSE [forks EXCEPT ![p] = @ - 1]
        /\ Goto(b, "none")
        /\ vm' = [vm EXCEPT ![b] = 0] /\ parent' = [parent EXCEPT ![b] = NoBranch]
        /\ UNCHANGED <<registry, vms, vmm, history, files, network, idx, restarts, faults>>

SpawnStep(b) ==
    \/ SpawnBegin(b) \/ SpawnNetns(b) \/ SpawnJournal(b) \/ SpawnSource(b)
    \/ SpawnStart(b) \/ SpawnLoad(b) \/ SpawnRecord(b) \/ SpawnRegister(b) \/ SpawnUndo(b)
    \/ SpawnClean(b) \/ SpawnUnpend(b)

-----------------------------------------------------------------------------
\* kill

\* Forks of b and a spawn of b are waited out, a restart of b is not; then the handle
\* is taken.
Kill(b) ==
    /\ up /\ b \in rows /\ pc[b] = "none"
    /\ forks[b] = 0 /\ b \notin pending
    /\ vm' = [vm EXCEPT ![b] = vms[b]]
    /\ vms' = [vms EXCEPT ![b] = 0]
    /\ Goto(b, IF vms[b] # 0 THEN "reap" ELSE "recover")
    /\ IF restarting[b] \in {"none", "called", "paths"} THEN UNCHANGED <<history, faults>>
                                                      ELSE Race(b)
    /\ UNCHANGED <<registry, pending, forks, vmm, files, network, parent, idx, restarts>>

KillReap(b) ==
    /\ pc[b] = "reap"
    /\ procs' = procs \ {vm[b]}
    /\ Goto(b, "teardown")
    /\ UNCHANGED <<registry, handles, started, history, files, network, vm, parent, idx,
                   restarts, faults>>

\* Mutant: without a handle there is nothing to kill.
KillRecoverNothing(b) ==
    /\ pc[b] = "recover"
    /\ Goto(b, "teardown")
    /\ UNCHANGED <<registry, handles, vmm, history, files, network, vm, parent, idx, restarts,
                   faults>>

\* No handle: kill the process that the pid record identifies, if it still runs.
KillRecover(b) ==
    /\ pc[b] = "recover"
    /\ procs' = procs \ {pidfile[b]}
    /\ Goto(b, "teardown")
    /\ UNCHANGED <<registry, handles, started, history, files, network, vm, parent, idx,
                   restarts, faults>>

KillTeardown(b) ==
    /\ pc[b] = "teardown"
    /\ Teardown(b)
    /\ Goto(b, "remove")
    /\ UNCHANGED <<registry, handles, vmm, history, pidfile, saved, idxfile, vm, parent, idx,
                   restarts, faults>>

\* Unlink netns.idx and fc.pid and remove the directory; the orchestrator then
\* forgets the row.  If rmtree raises, the row stays for another kill.
KillRemove(b) ==
    /\ pc[b] = "remove"
    /\ \/ RemoveDir(b) /\ rows' = rows \ {b} /\ UNCHANGED faults
       \/ /\ Fault
          /\ pidfile' = [pidfile EXCEPT ![b] = 0]
          /\ idxfile' = [idxfile EXCEPT ![b] = NoIndex]
          /\ UNCHANGED <<rows, dirs, saved>>
    /\ Goto(b, "none") /\ vm' = [vm EXCEPT ![b] = 0]
    /\ UNCHANGED <<up, crashes, handles, vmm, history, network, parent, idx, restarts>>

KillStep(b) == KillReap(b) \/ KillRecover(b) \/ KillTeardown(b) \/ KillRemove(b)

-----------------------------------------------------------------------------
\* restart, called by the reaper for a branch of sweep_dead()

Dead(b) == vms[b] # 0 /\ vms[b] \notin procs

\* The reaper has b from sweep_dead() and finds it live and not being killed; by the
\* time it calls restart(), b may have been killed and made again.
SweepDead(b) ==
    /\ up /\ b \in rows /\ Dead(b) /\ pc[b] = "none"
    /\ \A c \in ID : restarting[c] = "none"       \* the reaper is one thread
    /\ RGoto(b, "called")
    /\ UNCHANGED <<registry, handles, vmm, history, files, network, calls, newvm, newidx,
                   faults>>

\* Mutant: the handle is dropped without a look at its process.
RestartUnchecked(b) ==
    /\ restarting[b] = "called"
    /\ RGoto(b, "paths") /\ vms' = [vms EXCEPT ![b] = 0]
    /\ UNCHANGED <<registry, pending, forks, vmm, history, files, network, calls, newvm,
                   newidx, faults>>

\* A running VMM is left alone, the handle of a dead one is dropped.
Restart(b) ==
    /\ restarting[b] = "called"
    /\ IF vms[b] \in procs
         THEN RGoto(b, "none") /\ UNCHANGED vms
         ELSE RGoto(b, "paths") /\ vms' = [vms EXCEPT ![b] = 0]
    /\ UNCHANGED <<registry, pending, forks, vmm, history, files, network, calls, newvm,
                   newidx, faults>>

\* Mutant: the checkpoint is not looked for.
RestartPathsAssumed(b) ==
    /\ restarting[b] = "paths"
    /\ dirs' = dirs \cup {b}
    /\ RGoto(b, "drop")
    /\ IF b \in saved /\ (pc[b] # "none" \/ vms[b] # 0) THEN Race(b)
                                                      ELSE UNCHANGED <<history, faults>>
    /\ UNCHANGED <<registry, handles, vmm, pidfile, saved, idxfile, network, calls, newvm,
                   newidx>>

\* _restore_paths makes the directory and looks for mem and state.  When they are
\* there, restart goes on whatever happened to b since.
RestartPaths(b) ==
    /\ restarting[b] = "paths"
    /\ dirs' = dirs \cup {b}
    /\ RGoto(b, IF b \in saved THEN "drop" ELSE "none")
    /\ IF b \in saved /\ (pc[b] # "none" \/ vms[b] # 0) THEN Race(b)
                                                      ELSE UNCHANGED <<history, faults>>
    /\ UNCHANGED <<registry, handles, vmm, pidfile, saved, idxfile, network, calls, newvm,
                   newidx>>

RestartDrop(b) ==
    /\ restarting[b] = "drop"
    /\ Teardown(b)
    /\ RGoto(b, IF KnownIndex(b) # NoIndex THEN "unlink" ELSE "clear")
    /\ UNCHANGED <<registry, handles, vmm, history, pidfile, saved, idxfile, calls, newvm,
                   newidx, faults>>

\* Mutant: netns.idx stays.
RestartUnlinkPidOnly(b) ==
    /\ restarting[b] \in {"unlink", "clear"}
    /\ pidfile' = [pidfile EXCEPT ![b] = 0]
    /\ dirs' = dirs \cup {b}
    /\ RGoto(b, "netns")
    /\ UNCHANGED <<registry, handles, vmm, history, saved, idxfile, network, calls, newvm,
                   newidx, faults>>

\* The end of _teardown_netns, unless it knew no index; then fc.pid goes, and
\* _host_dir makes the directory.
RestartUnlink(b) ==
    /\ restarting[b] \in {"unlink", "clear"}
    /\ pidfile' = [pidfile EXCEPT ![b] = 0]
    /\ idxfile' = IF restarting[b] = "unlink" THEN [idxfile EXCEPT ![b] = NoIndex] ELSE idxfile
    /\ dirs' = dirs \cup {b}
    /\ RGoto(b, "netns")
    /\ UNCHANGED <<registry, handles, vmm, history, saved, network, calls, newvm, newidx,
                   faults>>

RestartNetns(b) ==
    /\ restarting[b] = "netns"
    /\ \/ /\ \E i \in Allocatable : SetupOk(b, i) /\ newidx' = [newidx EXCEPT ![b] = i]
          /\ RGoto(b, "journal")
       \/ SetupFails(b) /\ RGoto(b, "none") /\ UNCHANGED newidx
    /\ UNCHANGED <<registry, handles, vmm, lost, shared, raced, files, calls, newvm>>

RestartJournal(b) ==
    /\ restarting[b] = "journal"
    /\ dirs' = dirs \cup {b}
    /\ \/ /\ idxfile' = [idxfile EXCEPT ![b] = newidx[b]]
          /\ RGoto(b, "start") /\ UNCHANGED faults
       \/ Fault /\ RGoto(b, "none") /\ UNCHANGED idxfile
    /\ newidx' = [newidx EXCEPT ![b] = NoIndex]
    /\ UNCHANGED <<registry, handles, vmm, history, pidfile, saved, network, calls, newvm>>

\* The except block: the namespace goes; netns.idx too, if an index was known.
RestartFails(b) ==
    /\ Teardown(b)
    /\ RGoto(b, IF KnownIndex(b) # NoIndex THEN "abort" ELSE "none")

RestartStart(b) ==
    /\ restarting[b] = "start"
    /\ \/ /\ \E n \in Proc : Start(b, n) /\ newvm' = [newvm EXCEPT ![b] = n]
          /\ RGoto(b, "load")
          /\ dirs' = dirs \cup {b}
          /\ UNCHANGED <<network, faults>>
       \/ Fault /\ RestartFails(b) /\ UNCHANGED <<vmm, lost, newvm>>
    /\ UNCHANGED <<registry, handles, shared, raced, tangled, pidfile, saved, idxfile, calls,
                   newidx>>

\* restore() raises: the namespace goes, the process that was started stays.
RestartLoad(b) ==
    /\ restarting[b] = "load"
    /\ \/ /\ newvm[b] \in procs /\ b \in saved
          /\ RGoto(b, "record")
          /\ UNCHANGED <<network, lost, dirs, newvm, faults>>
       \/ /\ IF newvm[b] \in procs /\ b \in saved THEN Fault ELSE UNCHANGED faults
          /\ RestartFails(b)
          /\ lost' = lost \cup {newvm[b]}
          /\ newvm' = [newvm EXCEPT ![b] = 0]
    /\ UNCHANGED <<registry, handles, vmm, shared, raced, tangled, pidfile, saved, idxfile,
                   calls, newidx>>

\* The end of the except block: netns.idx is unlinked.
RestartAbort(b) ==
    /\ restarting[b] = "abort"
    /\ idxfile' = [idxfile EXCEPT ![b] = NoIndex]
    /\ RGoto(b, "none")
    /\ UNCHANGED <<registry, handles, vmm, history, pidfile, dirs, saved, network, calls, newvm,
                   newidx, faults>>

\* Writing the pid record raises when the directory is gone.
RestartRecord(b) ==
    /\ restarting[b] = "record"
    /\ \/ /\ b \in dirs
          /\ pidfile' = [pidfile EXCEPT ![b] = newvm[b]]
          /\ RGoto(b, "register")
          /\ UNCHANGED <<lost, newvm, faults>>
       \/ /\ IF b \in dirs THEN Fault ELSE UNCHANGED faults
          /\ lost' = lost \cup {newvm[b]}
          /\ newvm' = [newvm EXCEPT ![b] = 0]
          /\ RGoto(b, "none")
          /\ UNCHANGED pidfile
    /\ UNCHANGED <<registry, handles, vmm, shared, raced, tangled, dirs, saved, idxfile,
                   network, calls, newidx>>

RestartRegister(b) ==
    /\ restarting[b] = "register"
    /\ vms' = [vms EXCEPT ![b] = newvm[b]]
    /\ newvm' = [newvm EXCEPT ![b] = 0]
    /\ RGoto(b, "none")
    /\ UNCHANGED <<registry, pending, forks, vmm, history, files, network, calls, newidx,
                   faults>>

RestartStep(b) ==
    \/ Restart(b) \/ RestartPaths(b) \/ RestartDrop(b) \/ RestartUnlink(b) \/ RestartNetns(b)
    \/ RestartJournal(b) \/ RestartStart(b) \/ RestartLoad(b) \/ RestartRecord(b)
    \/ RestartAbort(b) \/ RestartRegister(b)

\* checkpoint(): mem and state of a live branch are written.
Checkpoint(b) ==
    /\ up /\ vms[b] \in procs
    /\ dirs' = dirs \cup {b}
    /\ saved' = saved \cup {b}
    /\ UNCHANGED <<registry, handles, vmm, history, pidfile, idxfile, network, calls, restarts,
                   faults>>

-----------------------------------------------------------------------------
\* Processes die; the supervisor crashes and a new one starts

VMMDies(n) ==
    /\ n \in procs
    /\ Fault
    /\ procs' = procs \ {n}
    /\ UNCHANGED <<registry, handles, started, history, files, network, calls, restarts>>

\* Handles, counters and threads go; VMMs, files and namespaces stay.
Crash ==
    /\ up /\ crashes < MaxCrashes /\ (raced # {} => crashes + 1 < MaxCrashes)
    /\ crashes' = crashes + 1 /\ up' = FALSE
    /\ vms' = [b \in ID |-> 0] /\ pending' = {} /\ forks' = [b \in ID |-> 0]
    /\ index' = [b \in ID |-> NoIndex] /\ free' = {} /\ next' = 0
    /\ pc' = [b \in ID |-> "none"] /\ vm' = [b \in ID |-> 0]
    /\ parent' = [b \in ID |-> NoBranch]
    /\ restarting' = [b \in ID |-> "none"] /\ newvm' = [b \in ID |-> 0]
    /\ idx' = [b \in ID |-> NoIndex] /\ newidx' = [b \in ID |-> NoIndex]
    /\ lost' = lost \cup (procs \ {pidfile[b] : b \in ID})
    /\ stray' = stray \cup {b \in spaces : idxfile[b] = NoIndex}
    /\ shared' = shared \cup {i \in Index : \E b, c \in ID : b # c /\ idxfile[b] = i
                                                         /\ idxfile[c] = i}
    /\ UNCHANGED <<rows, vmm, raced, tangled, files, spaces, veths, faults>>

\* Mutant: the cursor skips to the first unused index; gaps are not recycled.
RecoverCursorOnly ==
    /\ ~up /\ up' = TRUE
    /\ LET used == {idxfile[b] : b \in ID} \ {NoIndex}
       IN  next' = IF used = {} THEN 0 ELSE (CHOOSE m \in used : \A i \in used : i <= m) + 1
    /\ free' = {}
    /\ UNCHANGED <<rows, crashes, handles, vmm, history, files, index, spaces, stray, veths,
                   calls, restarts, faults>>

\* Mutant: the indices on disk are not reserved.
RecoverAfresh ==
    /\ ~up /\ up' = TRUE
    /\ UNCHANGED <<rows, crashes, handles, vmm, history, files, network, calls, restarts,
                   faults>>

\* Mutant: the cursor is moved one too far.
RecoverSkipsOne ==
    /\ ~up /\ up' = TRUE
    /\ LET used == {idxfile[b] : b \in ID} \ {NoIndex}
       IN  /\ next' = IF used = {} THEN 0
                      ELSE (CHOOSE m \in used : \A i \in used : i <= m) + 2
           /\ free' = (0 .. next' - 1) \ used
    /\ UNCHANGED <<rows, crashes, handles, vmm, history, files, index, spaces, stray, veths,
                   calls, restarts, faults>>

\* __init__ with _recover_netns_indices: reserve() every index found on disk.
Recover ==
    /\ ~up /\ up' = TRUE
    /\ LET used == {idxfile[b] : b \in ID} \ {NoIndex}
       IN  /\ next' = IF used = {} THEN 0
                      ELSE (CHOOSE m \in used : \A i \in used : i <= m) + 1
           /\ free' = (0 .. next' - 1) \ used
    /\ UNCHANGED <<rows, crashes, handles, vmm, history, files, index, spaces, stray, veths,
                   calls, restarts, faults>>

FCNext ==
    \/ \E b \in ID, p \in ID \cup {NoBranch} : Request(b, p)
    \/ \E b \in ID : \/ SpawnStep(b) \/ Kill(b) \/ KillStep(b)
                     \/ SweepDead(b) \/ RestartStep(b) \/ Checkpoint(b)
    \/ \E n \in Proc : VMMDies(n)
    \/ Crash \/ Recover

FCSpec == FCInit /\ [][FCNext]_fcVars

-----------------------------------------------------------------------------
\* Correctness

\* What a handle, a pid record or a call in flight can still kill.
Reachable ==
    {vms[b] : b \in ID} \cup {pidfile[b] : b \in ID}
      \cup {vm[b] : b \in ID} \cup {newvm[b] : b \in ID}

\* The ways to lose a VMM are a restart that fails after the process was started, a
\* restart that a kill of its branch overtook, and a crash before the process was
\* recorded; kill, failed spawns, forks of killed parents and recovery by pid record
\* lose none.
OnlyKnownOrphans == procs \subseteq Reachable \cup lost

\* A killed branch is gone: under an id that is not journaled there is no process
\* (but a lost one), no record, no snapshot and no namespace (but a stray one).  The
\* exception is an id whose restart found a checkpoint and worked on beside a kill or
\* a new spawn: kill() waits for forks and spawns, not for restart(), which registers
\* its VMM after the row is forgotten.  A kill that is through before restart() looks
\* for the checkpoint is no exception, nor one that comes after restart() is done.
KilledIsGone ==
    \A b \in ID \ (rows \cup raced) :
        /\ vms[b] = 0 /\ pidfile[b] = 0 /\ idxfile[b] = NoIndex /\ b \notin saved
        /\ b \in spaces => b \in stray

\* A /30 index is never in two hands, and one in use is not free, across crashes
\* and recoveries too.  The exceptions are an index that a crash left in two files:
\* released by the teardown of one branch, given to another, and only then
\* unlinked (_teardown_netns releases before it removes netns.idx); and one of a
\* raced id, which kill and restart may both have released.
IndexExclusive ==
    up => \A b \in ID, i \in Index \ (shared \cup tangled) :
             /\ KnownIndex(b) = i
             /\ pc[b] \notin {"clean", "remove"} /\ restarting[b] \notin {"unlink", "abort"}
             => i \notin free /\ \A c \in ID \ {b} : index[c] # i

\* Indices do not leak: below the cursor every one is free or some branch's, so
\* that fork/kill churn cannot exhaust the subnet; but for one of a raced id.
IndexConserved ==
    up => \A i \in (0 .. next - 1) \ tangled : i \in free \/ \E b \in ID : KnownIndex(b) = i

\* The allocator's free list, its cursor and the netns.idx files agree on who has
\* which index, whatever setups failed and whoever died (_allocate, release,
\* reserve, _recover_netns_indices).
IndicesKept == FCTypeOK /\ IndexExclusive /\ IndexConserved

\* A running VMM that has a handle keeps its network: teardowns of other branches
\* do not reach it, unless its index is or was in two hands (IndexExclusive).
NetworkKept ==
    \A b \in ID : vms[b] \in procs /\ b \notin raced /\ index[b] \notin shared \cup tangled
                 => veths[index[b]] = b

=============================================================================
