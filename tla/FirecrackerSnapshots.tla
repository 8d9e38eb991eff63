------------------------ MODULE FirecrackerSnapshots ------------------------
(***************************************************************************)
(* agentfork/sandbox/firecracker_backend.py: what a fork inherits.  A fork  *)
(* restores the child from the parent's mem and state files and from a copy *)
(* of its overlay disk.  The files are written when generation counters say *)
(* that the parent has moved on since they were, under a lock per parent;   *)
(* the restore itself runs after that lock is released.                     *)
(*                                                                         *)
(* A guest's state is a number, the last write made in it (numbers grow, so *)
(* of two states of one guest the larger is the later), and the number that *)
(* its memory knows to be on its disk.  The adapter's handle of a VMM is    *)
(* the path of its API socket: a request goes to whichever VMM serves the   *)
(* branch now, which serves one at a time and in order.  One that raises    *)
(* after its 5 seconds may yet be served.  Processes, pid records and       *)
(* networks are FirecrackerSandbox.  Callers are as there, except that a    *)
(* kill and a restart of one id do not overlap here: that window is         *)
(* FirecrackerSandbox's raced, and the branch has no row in it, so nobody   *)
(* forks it or runs a command in it.  An id is used again only after its    *)
(* kill and the end of any exec or checkpoint of it.                        *)
(***************************************************************************)
EXTENDS Naturals, Sequences, FiniteSets

CONSTANTS
    ID,           \* branch ids
    NoBranch,
    Overlay,      \* overlay_mib is set: guests have a disk of their own
    Background,   \* commands leave processes behind in the guest: exec_detached,
                  \*   or an exec that the host gave up
    MaxWrites,    \* bound: writes made in guests
    MaxExecs,     \* bound: execs, exports and checkpoints
    MaxLives,     \* bound: spawns and kills
    MaxFaults     \* bound: steps that raise, and VMMs that die by themselves

ASSUME SnapAssumption ==
    /\ IsFiniteSet(ID) /\ NoBranch \notin ID /\ ID \cap {"free", "exec", "checkpoint"} = {}
    /\ Overlay \in BOOLEAN /\ Background \in BOOLEAN
    /\ MaxWrites \in Nat /\ MaxExecs \in Nat /\ MaxLives \in Nat /\ MaxFaults \in Nat

VARIABLES
    vms,        \* _vms: ids with a handle
    running,    \* ids whose VMM runs
    paused,     \* ids whose guest is paused
    late,       \* per id: pauses and resumes that raised and that its VMM has yet to serve
    mem,        \* per id: the guest's memory
    disk,       \* per id: the last write its overlay file holds
    snaps,      \* _snapshots
    gen,        \* _gen
    snapGen,    \* _snap_gen, NoGen for no entry
    files,      \* per id: what its mem and state files hold
    lock,       \* _parent_locks: per id the holder
    pc,         \* per id: where its own spawn as a fork stands
    source,     \* per id: the branch whose mem file its memory is mapped from
    sawGen,     \* per fork: its local variable gen
    stale,      \* forks whose local variable stale is true
    floor,      \* per fork: the parent's state when the fork was asked for
    exec,       \* per id: the guest command that is running for a caller
    ckpt,       \* per id: where checkpoint() of it stands
    ckptGen,    \* per id: checkpoint()'s local variable gen
    ending,     \* per id: where kill() of it stands
    reviving,   \* ids whose restart() has dropped the dead handle
    writes, execs, lives, faults,
    \* What the properties except by name:
    cut,        \* ids whose running exec has lost the VMM it talked to
    disturbed,  \* children whose parent's files were rewritten under them
    broken,     \* ids whose entry in _snapshots a checkpoint left wrong
    rolled,     \* ids whose memory is not of one moment with their disk: restored from
                \*   files without a handle, or a fork of one that is rolled or disturbed
    stuck       \* ids that a pause or resume that raised left paused, or may yet

guests   == <<mem, disk, writes>>
vmms     == <<vms, running, paused, late>>
marks    == <<snaps, gen, snapGen>>
forks    == <<pc, source, sawGen, stale, floor, lives>>
commands == <<exec, execs, cut>>
ckpts    == <<ckpt, ckptGen>>
ends     == <<ending, reviving>>
notes    == <<disturbed, broken, rolled, stuck>>
snapVars == <<guests, vmms, marks, files, lock, forks, commands, ckpts, ends, faults, notes>>

\* A guest's memory: its last write and the last one known to be on disk, whether
\* something runs on in it after its exec, and whether the last sync for a
\* snapshot of it was done.  A snapshot holds all of it.
Memory == [data : 0 .. MaxWrites, flushed : 0 .. MaxWrites, left : BOOLEAN, synced : BOOLEAN]
Fresh  == [data |-> 0, flushed |-> 0, left |-> FALSE, synced |-> TRUE]
NoFile == [data |-> MaxWrites + 1, flushed |-> 0, left |-> FALSE, synced |-> FALSE]
Torn   == [data |-> MaxWrites + 2, flushed |-> 0, left |-> FALSE, synced |-> FALSE]
NoGen  == MaxExecs + 1

ForkStage == {"lock", "sync", "pause", "write", "copy", "resume", "failing",
              "load", "register", "undo"}
CkptStage == {"sync", "pause", "write", "mark", "resume", "failing"}

\* The requests that a VMM has yet to serve, the first one first.
Requests == Seq({"pause", "resume"})

\* Every variable has its type.
SnapTypeOK ==
    /\ vms \subseteq ID /\ running \subseteq ID /\ paused \subseteq running
    /\ late \in [ID -> Requests]
    /\ mem \in [ID -> Memory \cup {Torn}] /\ disk \in [ID -> 0 .. MaxWrites]
    /\ writes \in 0 .. MaxWrites
    /\ snaps \subseteq ID /\ gen \in [ID -> 0 .. MaxExecs] /\ snapGen \in [ID -> 0 .. NoGen]
    /\ files \in [ID -> Memory \cup {NoFile, Torn}]
    /\ lock \in [ID -> ID \cup {"free", "exec", "checkpoint"}]
    /\ pc \in [ID -> ForkStage \cup {"none"}] /\ source \in [ID -> ID \cup {NoBranch}]
    /\ sawGen \in [ID -> 0 .. MaxExecs] /\ stale \subseteq ID
    /\ floor \in [ID -> 0 .. MaxWrites]
    /\ exec \in [ID -> {"none", "command", "tar"}] /\ cut \subseteq ID
    /\ ckpt \in [ID -> CkptStage \cup {"none"}] /\ ckptGen \in [ID -> 0 .. MaxExecs]
    /\ ending \in [ID -> {"none", "reap", "remove"}] /\ reviving \subseteq ID
    /\ execs \in 0 .. MaxExecs /\ lives \in 0 .. MaxLives /\ faults \in 0 .. MaxFaults
    /\ disturbed \subseteq ID /\ broken \subseteq ID /\ rolled \subseteq ID /\ stuck \subseteq ID

SnapInit ==
    /\ vms = {} /\ running = {} /\ paused = {} /\ late = [b \in ID |-> <<>>]
    /\ mem = [b \in ID |-> Fresh] /\ disk = [b \in ID |-> 0]
    /\ writes = 0
    /\ snaps = {} /\ gen = [b \in ID |-> 0] /\ snapGen = [b \in ID |-> NoGen]
    /\ files = [b \in ID |-> NoFile] /\ lock = [b \in ID |-> "free"]
    /\ pc = [b \in ID |-> "none"] /\ source = [b \in ID |-> NoBranch]
    /\ sawGen = [b \in ID |-> 0] /\ stale = {} /\ floor = [b \in ID |-> 0]
    /\ exec = [b \in ID |-> "none"] /\ cut = {}
    /\ ckpt = [b \in ID |-> "none"] /\ ckptGen = [b \in ID |-> 0]
    /\ ending = [b \in ID |-> "none"] /\ reviving = {}
    /\ execs = 0 /\ lives = 0 /\ faults = 0
    /\ disturbed = {} /\ broken = {} /\ rolled = {} /\ stuck = {}

Fault == faults < MaxFaults /\ faults' = faults + 1
Goto(c, stage) == pc' = [pc EXCEPT ![c] = stage]
CGoto(b, stage) == ckpt' = [ckpt EXCEPT ![b] = stage]

\* Forks of p in flight: _parent_forks[p].
ForksOf(p) == {c \in ID : pc[c] # "none" /\ source[c] = p}

\* No spawn, kill or restart of b is under way.
Idle(b) == pc[b] = "none" /\ ending[b] = "none" /\ b \notin reviving

Release(p, holder) == lock' = [lock EXCEPT ![p] = IF @ = holder THEN "free" ELSE @]

\* The snapshot of b counts as current: the negation of _fork_source's stale.
Current(b) == b \in snaps /\ snapGen[b] = gen[b]

\* Children whose memory comes from p's mem file: those that load it now, and
\* those that run on a mapping of it.
MappedFrom(p) == {c \in ID : source[c] = p /\ (pc[c] = "load" \/ c \in running)}

-----------------------------------------------------------------------------
\* Inside the guests

\* A command, or what one left behind, changes the guest.
GuestWrite(b) ==
    /\ b \in running \ paused /\ mem[b] # Torn
    /\ (exec[b] = "command" /\ b \notin cut) \/ mem[b].left
    /\ writes < MaxWrites
    /\ writes' = writes + 1
    /\ mem' = [mem EXCEPT ![b].data = writes + 1]
    /\ UNCHANGED <<disk, vmms, marks, files, lock, forks, commands, ckpts, ends,
                   faults, notes>>

\* The guest's dirty pages reach the overlay.
Flushed(b) ==
    IF b \in running \ paused /\ Overlay /\ mem[b] # Torn
      THEN /\ disk' = [disk EXCEPT ![b] = mem[b].data]
           /\ mem' = [mem EXCEPT ![b].flushed = mem[b].data, ![b].synced = TRUE]
      ELSE UNCHANGED <<disk, mem>>

\* The guest kernel's own writeback, whenever it likes.
Writeback(b) ==
    /\ b \in running \ paused /\ Overlay /\ mem[b] # Torn /\ mem[b].data # mem[b].flushed
    /\ Flushed(b)
    /\ UNCHANGED <<writes, vmms, marks, files, lock, forks, commands, ckpts, ends,
                   faults, notes>>

\* The VMM of b is gone, and with it every request it was serving.
Gone(b) ==
    /\ running' = running \ {b} /\ paused' = paused \ {b}
    /\ stuck' = stuck \ {b} /\ late' = [late EXCEPT ![b] = <<>>]
    /\ mem' = [mem EXCEPT ![b] = Fresh]
    /\ cut' = IF exec[b] # "none" THEN cut \cup {b} ELSE cut
    /\ pc' = [c \in ID |-> IF c \in ForksOf(b) /\ pc[c] = "write" THEN "failing" ELSE pc[c]]
    /\ ckpt' = [ckpt EXCEPT ![b] = IF @ = "write" THEN "failing" ELSE @]
    /\ broken' = IF ckpt[b] = "write" /\ Current(b) THEN broken \cup {b} ELSE broken

VMMDies(b) ==
    /\ b \in running \cap vms
    /\ Fault
    /\ Gone(b)
    /\ floor' = [c \in ID |-> IF c \in ForksOf(b) THEN 0 ELSE floor[c]]
    /\ UNCHANGED <<disk, writes, vms, marks, files, lock, source, sawGen, stale, lives,
                   exec, execs, ckptGen, ends, disturbed, rolled>>

-----------------------------------------------------------------------------
\* exec, exec_detached and export_artifact hold the branch's lock.  The reseed
\* of a new clone does not, and neither do the probes of wait_ready; both
\* leave the generation alone.

\* A request goes to the guest of b, if its VMM still runs.
Ask(b, what) ==
    /\ b \in vms /\ exec[b] = "none" /\ execs < MaxExecs
    /\ exec' = [exec EXCEPT ![b] = what]
    /\ execs' = execs + 1
    /\ cut' = IF b \in running THEN cut ELSE cut \cup {b}
    /\ UNCHANGED <<guests, vmms, marks, files, forks, ckpts, ends, faults, notes>>

\* exec and exec_detached
Exec(b) ==
    /\ lock[b] = "free" /\ lock' = [lock EXCEPT ![b] = "exec"]
    /\ Ask(b, "command")

\* Mutant: the branch's lock is not taken.
UnlockedExport(b) == Ask(b, "tar") /\ UNCHANGED lock

ExportArtifact(b) ==
    /\ lock[b] = "free" /\ lock' = [lock EXCEPT ![b] = "exec"]
    /\ Ask(b, "tar")

\* Mutant: the tar of export_artifact and a command end alike, and only success counts.
LossyExecEnd(b) ==
    /\ exec[b] # "none"
    /\ exec' = [exec EXCEPT ![b] = "none"] /\ cut' = cut \ {b}
    /\ gen' \in {gen, IF exec[b] = "command" /\ b \in vms THEN [gen EXCEPT ![b] = @ + 1] ELSE gen}
    /\ Release(b, "exec")
    /\ UNCHANGED <<mem, disk, writes, vmms, snaps, snapGen, files, forks, execs,
                   ckpts, ends, faults, notes>>

\* The answer, an error, or the host's timeout: a command moves the generation
\* on either way, the tar of export_artifact never does.
ExecEnd(b) ==
    /\ exec[b] # "none"
    /\ exec' = [exec EXCEPT ![b] = "none"] /\ cut' = cut \ {b}
    /\ gen' = IF exec[b] = "command" /\ b \in vms THEN [gen EXCEPT ![b] = @ + 1] ELSE gen
    /\ \/ UNCHANGED mem
       \/ /\ Background /\ exec[b] = "command" /\ b \in running \ cut /\ mem[b] # Torn
          /\ mem' = [mem EXCEPT ![b].left = TRUE]
    /\ Release(b, "exec")
    /\ UNCHANGED <<disk, writes, vmms, snaps, snapGen, files, forks, execs,
                   ckpts, ends, faults, notes>>

-----------------------------------------------------------------------------
\* An id that a caller may spawn.
Unused(b) == /\ Idle(b) /\ b \notin vms \cup running /\ files[b] = NoFile
             /\ exec[b] = "none" /\ ckpt[b] = "none" /\ ForksOf(b) = {}

\* spawn of a root: boot, with a fresh overlay
SpawnRoot(b) ==
    /\ Unused(b) /\ lives < MaxLives
    /\ vms' = vms \cup {b} /\ running' = running \cup {b}
    /\ mem' = [mem EXCEPT ![b] = Fresh]
    /\ disk' = [disk EXCEPT ![b] = 0]
    /\ source' = [source EXCEPT ![b] = NoBranch]
    /\ lives' = lives + 1
    /\ UNCHANGED <<writes, paused, late, marks, files, lock, pc, sawGen, stale, floor,
                   commands, ckpts, ends, faults, notes>>

\* spawn of c as a fork of p
ForkBegin(c, p) ==
    /\ c # p /\ Unused(c)
    /\ p \in vms \/ files[p] # NoFile
    /\ pc[p] = "none" /\ lives < MaxLives
    /\ Goto(c, "lock")
    /\ source' = [source EXCEPT ![c] = p]
    /\ floor' = [floor EXCEPT ![c] = IF p \in vms \cap running /\ mem[p] # Torn
                                         THEN mem[p].data ELSE 0]
    /\ lives' = lives + 1
    /\ UNCHANGED <<guests, vmms, marks, files, lock, sawGen, stale, commands, ckpts, ends,
                   faults, notes>>

\* Mutant: a snapshot is current as soon as there is one.
AnySnapshot(c) ==
    LET p == source[c]
        old == p \notin snaps
    IN
    /\ pc[c] = "lock" /\ lock[p] = "free" /\ p \in vms
    /\ sawGen' = [sawGen EXCEPT ![c] = gen[p]]
    /\ stale' = IF old THEN stale \cup {c} ELSE stale \ {c}
    /\ IF ~old /\ ~Overlay
         THEN Goto(c, "load") /\ UNCHANGED lock
         ELSE /\ lock' = [lock EXCEPT ![p] = c]
              /\ Goto(c, IF old /\ Overlay THEN "sync" ELSE "pause")
    /\ UNCHANGED <<guests, vmms, marks, files, source, floor, lives, commands, ckpts, ends,
                   faults, notes>>

\* _fork_source under the parent's lock, with a handle of the parent.
ForkLock(c) ==
    LET p == source[c]
        old == ~Current(p)
    IN
    /\ pc[c] = "lock" /\ lock[p] = "free" /\ p \in vms
    /\ sawGen' = [sawGen EXCEPT ![c] = gen[p]]
    /\ stale' = IF old THEN stale \cup {c} ELSE stale \ {c}
    /\ IF ~old /\ ~Overlay
         THEN Goto(c, "load") /\ UNCHANGED lock
         ELSE /\ lock' = [lock EXCEPT ![p] = c]
              /\ Goto(c, IF old /\ Overlay THEN "sync" ELSE "pause")
    /\ UNCHANGED <<guests, vmms, marks, files, source, floor, lives, commands, ckpts, ends,
                   faults, notes>>

\* The same without a handle: whatever files there are, and a copy of the overlay.
ForkLockFiles(c) ==
    LET p == source[c] IN
    /\ pc[c] = "lock" /\ lock[p] = "free" /\ p \notin vms
    /\ Goto(c, IF files[p] = NoFile THEN "undo" ELSE "load")
    /\ disk' = IF Overlay THEN [disk EXCEPT ![c] = disk[p]] ELSE disk
    /\ rolled' = rolled \cup {c}
    /\ UNCHANGED <<mem, writes, vmms, marks, files, lock, source, sawGen, stale, floor,
                   lives, commands, ckpts, ends, faults, disturbed, broken, stuck>>

\* The sync before the pause: done, or given up with a VsockError, which is ignored.
Sync(b) ==
    \/ /\ b \in running \ paused
       /\ Flushed(b)
       /\ UNCHANGED faults
    \/ /\ IF b \in running \ paused THEN Fault ELSE UNCHANGED faults
       /\ mem' = IF b \in running /\ mem[b] # Torn THEN [mem EXCEPT ![b].synced = FALSE] ELSE mem
       /\ UNCHANGED disk

\* Its connection breaks: an OSError, which goes to the caller.
SyncBreaks(b) ==
    /\ IF b \in running THEN Fault ELSE UNCHANGED faults
    /\ UNCHANGED <<disk, mem>>

\* Mutant: a fork snapshots without the sync.
NoSync(c) ==
    /\ pc[c] = "sync"
    /\ Goto(c, "pause")
    /\ UNCHANGED <<guests, vmms, marks, files, lock, source, sawGen, stale, floor, lives,
                   commands, ckpts, ends, faults, notes>>

ForkSync(c) ==
    /\ pc[c] = "sync"
    /\ \/ Sync(source[c]) /\ Goto(c, "pause") /\ UNCHANGED lock
       \/ SyncBreaks(source[c]) /\ Goto(c, "undo") /\ Release(source[c], c)
    /\ UNCHANGED <<writes, vmms, marks, files, source, sawGen, stale, floor, lives,
                   commands, ckpts, ends, disturbed, broken, rolled, stuck>>

\* The VMM starts to write the files of b; those who map them see them change.
Rewrite(b) ==
    /\ files' = [files EXCEPT ![b] = Torn]
    /\ disturbed' = disturbed \cup MappedFrom(b)

\* An API request of b answers after those before it were served.
Answers(b) == b \in running /\ late[b] = <<>> /\ UNCHANGED <<late, faults>>

\* Or it raises: refused, or not answered in time, then it will be served yet.
Raises(b, request) ==
    /\ IF b \in running THEN Fault ELSE UNCHANGED faults
    /\ \/ UNCHANGED late
       \/ b \in running /\ late' = [late EXCEPT ![b] = Append(@, request)]

PauseRaises(b) ==
    /\ Raises(b, "pause")
    /\ stuck' = IF late' # late THEN stuck \cup {b} ELSE stuck
    /\ UNCHANGED paused

\* The VMM of b serves a request nobody waits for any more.
ServeLate(b) ==
    /\ b \in running /\ late[b] # <<>>
    /\ late' = [late EXCEPT ![b] = Tail(@)]
    /\ \/ Head(late[b]) = "pause" /\ paused' = paused \cup {b} /\ UNCHANGED stuck
       \/ /\ Head(late[b]) = "resume" /\ paused' = paused \ {b}
          /\ stuck' = IF Tail(late[b]) = <<>> THEN stuck \ {b} ELSE stuck
    /\ UNCHANGED <<guests, vms, running, marks, files, lock, forks, commands, ckpts, ends,
                   faults, disturbed, broken, rolled>>

\* The parent is paused and, for a stale snapshot, asked to write one.  pause()
\* raises outside the try that would resume.
ForkPause(c) ==
    LET p == source[c] IN
    /\ pc[c] = "pause"
    /\ \/ /\ Answers(p)
          /\ paused' = paused \cup {p}
          /\ IF c \in stale THEN Rewrite(p) /\ Goto(c, "write")
                            ELSE Goto(c, "copy") /\ UNCHANGED <<files, disturbed>>
          /\ UNCHANGED <<lock, stuck>>
       \/ /\ PauseRaises(p)
          /\ Goto(c, "undo") /\ Release(p, c)
          /\ UNCHANGED <<files, disturbed>>
    /\ UNCHANGED <<guests, vms, running, marks, source, sawGen, stale, floor, lives, commands,
                   ckpts, ends, broken, rolled>>

\* The snapshot is written and recorded with the generation read before, or the request
\* raises: the files count as torn, also if the VMM writes on and completes them.
ForkWrite(c) ==
    LET p == source[c] IN
    /\ pc[c] = "write"
    /\ \/ /\ files' = [files EXCEPT ![p] = mem[p]]
          /\ snaps' = snaps \cup {p}
          /\ snapGen' = [snapGen EXCEPT ![p] = sawGen[c]]
          /\ broken' = broken \ {p}
          /\ Goto(c, IF Overlay THEN "copy" ELSE "resume")
          /\ UNCHANGED faults
       \/ Fault /\ Goto(c, "failing") /\ UNCHANGED <<files, snaps, snapGen, broken>>
    /\ UNCHANGED <<guests, vmms, gen, lock, source, sawGen, stale, floor, lives, commands, ckpts,
                   ends, disturbed, rolled, stuck>>

\* The overlay is copied while the parent is paused.
ForkCopy(c) ==
    LET p == source[c] IN
    /\ pc[c] = "copy"
    /\ \/ /\ disk' = [disk EXCEPT ![c] = disk[p]]
          /\ rolled' = IF p \in rolled \cup disturbed THEN rolled \cup {c} ELSE rolled \ {c}
          /\ Goto(c, "resume")
          /\ UNCHANGED faults
       \/ Fault /\ Goto(c, "failing") /\ UNCHANGED <<disk, rolled>>
    /\ UNCHANGED <<mem, writes, vmms, marks, files, lock, source, sawGen, stale, floor,
                   lives, commands, ckpts, ends, disturbed, broken, stuck>>

\* resume() of b answers, or raises and leaves the guest paused, for now.
Resumed(b) == Answers(b) /\ paused' = paused \ {b} /\ stuck' = stuck \ {b}
NotResumed(b) ==
    /\ Raises(b, "resume")
    /\ stuck' = IF b \in paused THEN stuck \cup {b} ELSE stuck
    /\ UNCHANGED paused

\* The finally: resume, and out of the lock.
ForkResume(c) ==
    LET p == source[c] IN
    /\ pc[c] \in {"resume", "failing"}
    /\ \/ Resumed(p) /\ Goto(c, IF pc[c] = "resume" THEN "load" ELSE "undo")
       \/ NotResumed(p) /\ Goto(c, "undo")
    /\ Release(p, c)
    /\ UNCHANGED <<guests, vms, running, marks, files, source, sawGen, stale, floor, lives,
                   commands, ckpts, ends, disturbed, broken, rolled>>

\* The child's VMM loads the parent's files, outside the lock.
ForkLoad(c) ==
    LET p == source[c] IN
    /\ pc[c] = "load"
    /\ \/ /\ files[p] # NoFile
          /\ mem' = [mem EXCEPT ![c] = files[p]]
          /\ running' = running \cup {c}
          /\ disturbed' = IF files[p] = Torn THEN disturbed \cup {c} ELSE disturbed
          /\ Goto(c, "register")
          /\ UNCHANGED faults
       \/ /\ IF files[p] \in {NoFile, Torn} THEN UNCHANGED faults ELSE Fault
          /\ Goto(c, "undo")
          /\ UNCHANGED <<mem, running, disturbed>>
    /\ UNCHANGED <<disk, writes, vms, paused, late, marks, files, lock, source, sawGen, stale,
                   floor, lives, commands, ckpts, ends, broken, rolled, stuck>>

\* The handle is registered.
ForkRegister(c) ==
    /\ pc[c] = "register"
    /\ vms' = vms \cup {c}
    /\ Goto(c, "none") /\ floor' = [floor EXCEPT ![c] = 0]
    /\ sawGen' = [sawGen EXCEPT ![c] = 0] /\ stale' = stale \ {c}
    /\ UNCHANGED <<guests, running, paused, late, marks, files, lock, source, lives, commands,
                   ckpts, ends, faults, notes>>

\* Mutant: the wrong VMM is reaped, the parent's.
UndoReapsParent(c) ==
    /\ pc[c] = "undo"
    /\ running' = running \ {c, source[c]}
    /\ mem' = [mem EXCEPT ![c] = Fresh] /\ disk' = [disk EXCEPT ![c] = 0]
    /\ Goto(c, "none") /\ floor' = [floor EXCEPT ![c] = 0]
    /\ source' = [source EXCEPT ![c] = NoBranch]
    /\ sawGen' = [sawGen EXCEPT ![c] = 0] /\ stale' = stale \ {c}
    /\ disturbed' = disturbed \ {c} /\ rolled' = rolled \ {c}
    /\ UNCHANGED <<writes, vms, paused, late, marks, files, lock, lives, commands, ckpts, ends,
                   faults, broken, stuck>>

\* spawn's except and finally: the VMM, the directory and the pending mark go.
ForkUndo(c) ==
    /\ pc[c] = "undo"
    /\ running' = running \ {c}
    /\ mem' = [mem EXCEPT ![c] = Fresh] /\ disk' = [disk EXCEPT ![c] = 0]
    /\ Goto(c, "none") /\ floor' = [floor EXCEPT ![c] = 0]
    /\ source' = [source EXCEPT ![c] = NoBranch]
    /\ sawGen' = [sawGen EXCEPT ![c] = 0] /\ stale' = stale \ {c}
    /\ disturbed' = disturbed \ {c} /\ rolled' = rolled \ {c}
    /\ UNCHANGED <<writes, vms, paused, late, marks, files, lock, lives, commands, ckpts, ends,
                   faults, broken, stuck>>

-----------------------------------------------------------------------------
\* checkpoint

Checkpoint(b) ==
    /\ b \in vms /\ lock[b] = "free" /\ ckpt[b] = "none" /\ execs < MaxExecs
    /\ lock' = [lock EXCEPT ![b] = "checkpoint"]
    /\ ckptGen' = [ckptGen EXCEPT ![b] = gen[b]]
    /\ CGoto(b, "sync")
    /\ execs' = execs + 1
    /\ UNCHANGED <<guests, vmms, marks, files, forks, exec, cut, ends, faults,
                   notes>>

\* The call is over: the lock is released and the locals are gone.
CkptOver(b) ==
    /\ CGoto(b, "none") /\ Release(b, "checkpoint")
    /\ ckptGen' = [ckptGen EXCEPT ![b] = 0]

CkptSync(b) ==
    /\ ckpt[b] = "sync"
    /\ \/ Sync(b) /\ CGoto(b, "pause") /\ UNCHANGED <<lock, ckptGen>>
       \/ SyncBreaks(b) /\ CkptOver(b)
    /\ UNCHANGED <<writes, vmms, marks, files, forks, commands, ends,
                   disturbed, broken, rolled, stuck>>

CkptPause(b) ==
    /\ ckpt[b] = "pause"
    /\ \/ /\ Answers(b)
          /\ paused' = paused \cup {b}
          /\ Rewrite(b)
          /\ CGoto(b, "write")
          /\ UNCHANGED <<lock, ckptGen, stuck>>
       \/ /\ PauseRaises(b)
          /\ CkptOver(b)
          /\ UNCHANGED <<files, disturbed>>
    /\ UNCHANGED <<guests, vms, running, marks, forks, commands, ends, broken, rolled>>

\* A failure leaves torn files behind; an entry that was current still says so.
CkptWrite(b) ==
    /\ ckpt[b] = "write"
    /\ \/ /\ files' = [files EXCEPT ![b] = mem[b]]
          /\ CGoto(b, "mark")
          /\ UNCHANGED <<faults, broken>>
       \/ /\ Fault
          /\ broken' = IF Current(b) THEN broken \cup {b} ELSE broken
          /\ CGoto(b, "failing")
          /\ UNCHANGED files
    /\ UNCHANGED <<guests, vmms, marks, lock, forks, commands, ckptGen, ends, disturbed,
                   rolled, stuck>>

CkptMark(b) ==
    /\ ckpt[b] = "mark"
    /\ snaps' = snaps \cup {b}
    /\ snapGen' = [snapGen EXCEPT ![b] = ckptGen[b]]
    /\ broken' = IF ending[b] # "none" \/ files[b] = NoFile THEN broken \cup {b} ELSE broken \ {b}
    /\ CGoto(b, "resume")
    /\ UNCHANGED <<guests, vmms, gen, files, lock, forks, commands, ckptGen, ends, faults,
                   disturbed, rolled, stuck>>

CkptResume(b) ==
    /\ ckpt[b] \in {"resume", "failing"}
    /\ Resumed(b) \/ NotResumed(b)
    /\ CkptOver(b)
    /\ UNCHANGED <<guests, vms, running, marks, files, forks, commands, ends, disturbed, broken,
                   rolled>>

-----------------------------------------------------------------------------
\* kill

\* It waits for the forks of b, then pops the handle and all that is known of b.
KillTake(b) ==
    /\ b \in vms \/ files[b] # NoFile
    /\ Idle(b) /\ ForksOf(b) = {} /\ lives < MaxLives
    /\ lives' = lives + 1
    /\ vms' = vms \ {b} /\ snaps' = snaps \ {b}
    /\ gen' = [gen EXCEPT ![b] = 0] /\ snapGen' = [snapGen EXCEPT ![b] = NoGen]
    /\ ending' = [ending EXCEPT ![b] = "reap"]
    /\ UNCHANGED <<guests, running, paused, late, files, lock, pc, source, sawGen, stale, floor,
                   commands, ckpts, reviving, faults, notes>>

KillReap(b) ==
    /\ ending[b] = "reap"
    /\ Gone(b)
    /\ ending' = [ending EXCEPT ![b] = "remove"]
    /\ UNCHANGED <<disk, writes, vms, marks, files, lock, source, sawGen, stale, floor, lives,
                   exec, execs, ckptGen, reviving, faults, disturbed,
                   rolled>>

\* rmtree, and the lock is forgotten, held or not.
KillRemove(b) ==
    /\ ending[b] = "remove"
    /\ files' = [files EXCEPT ![b] = NoFile]
    /\ lock' = [lock EXCEPT ![b] = "free"]
    /\ ending' = [ending EXCEPT ![b] = "none"]
    /\ source' = [source EXCEPT ![b] = NoBranch]
    /\ disk' = [disk EXCEPT ![b] = 0]
    /\ disturbed' = disturbed \ {b} /\ rolled' = rolled \ {b}
    /\ broken' = IF b \in snaps THEN broken ELSE broken \ {b}
    /\ UNCHANGED <<mem, writes, vmms, marks, pc, sawGen, stale, floor, lives, commands, ckpts,
                   reviving, faults, stuck>>

-----------------------------------------------------------------------------
\* restart of a branch whose VMM has died

Restart(b) ==
    /\ b \in vms \/ files[b] # NoFile
    /\ Idle(b) /\ b \notin running
    /\ vms' = vms \ {b}
    /\ reviving' = IF files[b] = NoFile THEN reviving ELSE reviving \cup {b}
    /\ UNCHANGED <<guests, running, paused, late, marks, files, lock, forks, commands, ckpts,
                   ending, faults, notes>>

RestartLoad(b) ==
    /\ b \in reviving
    /\ reviving' = reviving \ {b}
    /\ \/ /\ files[b] # NoFile
          /\ mem' = [mem EXCEPT ![b] = files[b]]
          /\ running' = running \cup {b} /\ vms' = vms \cup {b}
          /\ source' = [source EXCEPT ![b] = b]
          /\ rolled' = rolled \cup {b}
          /\ disturbed' = IF files[b] = Torn THEN disturbed \cup {b} ELSE disturbed \ {b}
          /\ UNCHANGED faults
       \/ /\ IF files[b] = Torn THEN UNCHANGED faults ELSE Fault
          /\ UNCHANGED <<mem, vms, running, source, rolled, disturbed>>
    /\ UNCHANGED <<disk, writes, paused, late, marks, files, lock, pc, sawGen, stale, floor,
                   lives, commands, ckpts, ending, broken, stuck>>

-----------------------------------------------------------------------------
ForkStep(c) ==
    \/ ForkLock(c) \/ ForkLockFiles(c) \/ ForkSync(c) \/ ForkPause(c)
    \/ ForkWrite(c) \/ ForkCopy(c) \/ ForkResume(c) \/ ForkLoad(c) \/ ForkRegister(c) \/ ForkUndo(c)
CkptStep(b) ==
    CkptSync(b) \/ CkptPause(b) \/ CkptWrite(b) \/ CkptMark(b) \/ CkptResume(b)
EndStep(b) == KillReap(b) \/ KillRemove(b) \/ RestartLoad(b)

SnapNext ==
    \E b \in ID :
        \/ GuestWrite(b) \/ Writeback(b) \/ ServeLate(b) \/ VMMDies(b)
        \/ Exec(b) \/ ExportArtifact(b) \/ ExecEnd(b)
        \/ SpawnRoot(b) \/ (\E p \in ID : ForkBegin(b, p)) \/ ForkStep(b)
        \/ Checkpoint(b) \/ CkptStep(b)
        \/ KillTake(b) \/ Restart(b) \/ EndStep(b)

SnapSpec == SnapInit /\ [][SnapNext]_snapVars

-----------------------------------------------------------------------------
\* Properties

\* A snapshot that the generation counters call current is the state its branch
\* has: with no command running and nobody writing the files, they hold the
\* guest's memory.  The exceptions are entries that a checkpoint left wrong and
\* guests in which something runs on after its exec (exec, _fork_source,
\* checkpoint, restart).
CurrentIsSaved ==
    \A b \in (vms \cap running) \ broken :
        (~mem[b].left /\ Current(b) /\ exec[b] = "none" /\ ckpt[b] \notin {"write", "mark"}
         /\ \A c \in ForksOf(b) : pc[c] # "write")
        => files[b].data = mem[b].data

\* A child starts from a state of its parent that is no older than the fork call:
\* whatever the parent wrote before is there, whichever of snapshot, reuse and
\* concurrent exec, fork or restart came in between.  The exception is a child
\* whose parent's files were rewritten while it loaded them.
InheritsCurrent ==
    \A c \in ID : (pc[c] = "register" /\ c \notin disturbed /\ ~mem[c].left)
                  => mem[c].data >= floor[c]

\* Memory and disk of a new child are of one moment: its overlay holds what its
\* memory takes to be on disk, also when the memory file was written for an
\* earlier fork and the overlay is copied now.  The exceptions: a parent without
\* a handle or restarted, files written after a failed sync, and files rewritten
\* during the load.
Coherent ==
    \A c \in ID : (/\ Overlay /\ pc[c] = "register" /\ c \notin disturbed \cup rolled
                   /\ mem[c].synced /\ ~mem[c].left)
                  => disk[c] = mem[c].flushed

\* A new child is one moment of its parent's life, and not an earlier one than
\* the fork call (_fork_source, spawn).
ForkInherits == SnapTypeOK /\ InheritsCurrent /\ Coherent

\* A guest is paused only while a fork or a checkpoint of it is at work, or by a
\* pause or resume that raised: pause() is sent outside the try that resumes, and
\* both may be served after the caller has given up; a command that holds the
\* branch's lock never meets a paused guest, except such a one.  No other failure
\* (of a sync, a snapshot, a copy of the overlay, a VMM) leaves a guest frozen.
NeverFrozen ==
    /\ \A b \in paused : \/ b \in stuck
                         \/ ckpt[b] \in {"write", "mark", "resume", "failing"}
                         \/ \E c \in ForksOf(b) :
                                pc[c] \in {"write", "copy", "resume", "failing"}
    /\ \A b \in ID : (exec[b] # "none" /\ b \notin cut \cup stuck) => b \notin paused

\* The mem file that running or loading children map is not written to.
SnapshotsReadOnly == disturbed = {}

=============================================================================
