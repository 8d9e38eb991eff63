----------------------------- MODULE Supervisor -----------------------------
(***************************************************************************)
(* A supervisor process with its branch processes: agentfork/kill/reaper.py *)
(* and _pdeathsig.py (BranchReaper and the death-signal launcher) under     *)
(* agentfork/orchestrator.py's ReaperSandbox, with the registry file as it  *)
(* is written to disk (_persist and its three callers).  The supervisor     *)
(* may die between any two steps and be started again on the same file.    *)
(*                                                                         *)
(* Module Orchestrator has all lifecycle calls, with a registry that is     *)
(* written in one step and a sandbox that answers; here are the steps of a  *)
(* write and of a spawn, and the branch processes outlive the supervisor.   *)
(* The kernel is external: a death signal goes to the children of the       *)
(* THREAD that ends, and getppid() names the process that thread belonged   *)
(* to.  A process is known by its branch and by the supervisor (a number,   *)
(* counted from one start to the next) that forked it.                      *)
(***************************************************************************)
EXTENDS Naturals, FiniteSets

CONSTANTS
    ID,           \* branch ids
    Modes,        \* values of BranchReaper's pdeathsig to try
    MaxFan,       \* bound: children of one fork
    MaxCalls,     \* bound: forks asked for
    MaxFaults,    \* bound: steps that raise, and branch processes that exit
    MaxCrashes    \* bound: deaths of the supervisor

ASSUME SupAssumption ==
    /\ IsFiniteSet(ID)
    /\ Modes \subseteq {"preexec", "shim", "off"}
    /\ MaxFan \in Nat /\ MaxCalls \in Nat /\ MaxFaults \in Nat /\ MaxCrashes \in Nat

VARIABLES
    mode,       \* BranchReaper.pdeathsig: True, "shim" or False
    up,         \* the supervisor runs
    epoch,      \* which supervisor it is
    branches,   \* _branches of the orchestrator: per id its row
    handles,    \* _branches of the reaper: ids with a Popen and a pidfd
    call,       \* per id: where the call at work on it stands
    saving,     \* the write of the registry in progress
    file,       \* the registry file: per id its row
    pool,       \* ids whose spawn runs in a thread of the current pool
    proc,       \* per supervisor and id: the process it forked
    thread,     \* per supervisor and id: the thread that counts as its parent
    quit,       \* ids whose process exited by itself
    calls, faults

supVars == <<mode, up, epoch, branches, handles, call, saving, file, pool, proc, thread, quit,
             calls, faults>>
volatile == <<branches, handles, call, saving, pool>>

Epoch == 0 .. MaxCrashes
Row   == {"absent", "forking", "live", "killing"}
Rows  == [ID -> Row]
Phase == {"none", "forked", "armed", "running"}
Stage == {"idle", "saving", "spawn", "exec", "pidfd", "golive", "rollback", "unrecord",
          "reap", "forget"}

NoSave == [for |-> {}, old |-> [b \in ID |-> "absent"], renamed |-> FALSE, good |-> "idle",
           bad |-> "idle"]

\* Every variable has its type.
SupTypeOK ==
    /\ mode \in Modes /\ up \in BOOLEAN /\ epoch \in Epoch
    /\ branches \in Rows /\ file \in Rows
    /\ handles \subseteq ID /\ pool \subseteq ID /\ quit \subseteq ID
    /\ call \in [ID -> Stage]
    /\ saving \in [for : SUBSET ID, old : Rows, renamed : BOOLEAN, good : Stage, bad : Stage]
    /\ proc \in [Epoch -> [ID -> Phase]]
    /\ thread \in [Epoch -> [ID -> {"none", "caller", "pool"}]]
    /\ calls \in 0 .. MaxCalls /\ faults \in 0 .. MaxFaults

SupInit ==
    /\ mode \in Modes /\ up = TRUE /\ epoch = 0
    /\ branches = [b \in ID |-> "absent"] /\ file = [b \in ID |-> "absent"]
    /\ handles = {} /\ pool = {} /\ quit = {}
    /\ call = [b \in ID |-> "idle"] /\ saving = NoSave
    /\ proc = [e \in Epoch |-> [b \in ID |-> "none"]]
    /\ thread = [e \in Epoch |-> [b \in ID |-> "none"]]
    /\ calls = 0 /\ faults = 0

Fault == faults < MaxFaults /\ faults' = faults + 1
Goto(b, stage) == call' = [call EXCEPT ![b] = stage]
Own(b) == proc[epoch][b]
SetOwn(b, phase) == proc' = [proc EXCEPT ![epoch][b] = phase]

-----------------------------------------------------------------------------
\* _persist: memory is changed first, then written; only the steps before the
\* rename may raise, and the caller then puts the old rows back.

\* A caller of _persist has set the rows of S; the lock keeps other writers out.
Save(S, row, good, bad) ==
    /\ saving = NoSave
    /\ branches' = [b \in ID |-> IF b \in S THEN row ELSE branches[b]]
    /\ saving' = [for |-> S, old |-> branches, renamed |-> FALSE, good |-> good, bad |-> bad]
    /\ call' = [b \in ID |-> IF b \in S THEN "saving" ELSE call[b]]

Settle(stage) ==
    /\ call' = [b \in ID |-> IF b \in saving.for THEN stage ELSE call[b]]
    /\ saving' = NoSave

SaveFails ==
    /\ up /\ saving # NoSave /\ ~saving.renamed
    /\ Fault
    /\ branches' = saving.old
    /\ Settle(saving.bad)
    /\ pool' = IF saving.good = "spawn" THEN {} ELSE pool
    /\ UNCHANGED <<mode, up, epoch, handles, file, proc, thread, quit, calls>>

SaveRename ==
    /\ up /\ saving # NoSave /\ ~saving.renamed
    /\ file' = branches
    /\ saving' = [saving EXCEPT !.renamed = TRUE]
    /\ UNCHANGED <<mode, up, epoch, branches, handles, call, pool, proc, thread, quit, calls, faults>>

\* Mutant: an error of the directory fsync reaches the caller.
SaveMayRaise ==
    /\ up /\ saving.renamed
    /\ \/ Settle(saving.good) /\ UNCHANGED <<branches, faults>>
       \/ Fault /\ branches' = saving.old /\ Settle(saving.bad)
    /\ UNCHANGED <<mode, up, epoch, handles, file, pool, proc, thread, quit, calls>>

\* The directory is synced, or not: an error there is swallowed.
SaveEnd ==
    /\ up /\ saving.renamed
    /\ Settle(saving.good)
    /\ UNCHANGED <<mode, up, epoch, branches, handles, file, pool, proc, thread, quit, calls, faults>>

-----------------------------------------------------------------------------
\* create_parent and fork, the sandbox half

\* More than one child goes to a pool of threads when the reaper is thread_safe.
Parallel(S) == Cardinality(S) > 1 /\ mode # "preexec"

\* Rows are journaled before anything is spawned.  The parent's row and the KV
\* half are Orchestrator's; one fork with a pool at a time.
Fork(S) ==
    /\ up /\ calls < MaxCalls
    /\ S # {} /\ Cardinality(S) <= MaxFan
    /\ \A b \in S : branches[b] = "absent" /\ call[b] = "idle"
    /\ pool = {}
    /\ Save(S, "forking", "spawn", "idle")
    /\ pool' = IF Parallel(S) THEN S ELSE {}
    /\ calls' = calls + 1
    /\ UNCHANGED <<mode, up, epoch, handles, file, proc, thread, quit, faults>>

\* BranchReaper is @locked from one end of spawn and kill to the other.
ReaperFree == \A b \in ID : call[b] \notin {"exec", "pidfd"}

\* Popen forks.  Without preexec_fn the child execs at once: the launcher of
\* "shim", or the command itself.
Popen(b) ==
    /\ up /\ call[b] = "spawn" /\ ReaperFree
    /\ \/ /\ b \notin handles
          /\ SetOwn(b, IF mode = "off" THEN "running" ELSE "forked")
          /\ thread' = [thread EXCEPT ![epoch][b] = IF b \in pool THEN "pool" ELSE "caller"]
          /\ quit' = quit \ {b}
          /\ Goto(b, IF mode = "preexec" THEN "exec" ELSE "pidfd")
          /\ UNCHANGED faults
       \/ /\ IF b \in handles THEN UNCHANGED faults ELSE Fault
          /\ Goto(b, "rollback")
          /\ UNCHANGED <<proc, thread, quit>>
    /\ UNCHANGED <<mode, up, epoch, branches, handles, saving, file, pool, calls>>

\* With preexec_fn, Popen returns when the child has exec'ed or is gone.
PopenReturns(b) ==
    /\ up /\ call[b] = "exec" /\ Own(b) \in {"running", "none"}
    /\ Goto(b, IF Own(b) = "running" THEN "pidfd" ELSE "rollback")
    /\ UNCHANGED <<mode, up, epoch, branches, handles, saving, file, pool, proc, thread, quit, calls,
                   faults>>

\* pidfd_open; when it raises, the child is killed and waited for.
PidfdOpen(b) ==
    /\ up /\ call[b] = "pidfd"
    /\ \/ handles' = handles \cup {b} /\ Goto(b, "golive") /\ UNCHANGED <<proc, faults>>
       \/ Fault /\ SetOwn(b, "none") /\ Goto(b, "rollback") /\ UNCHANGED handles
    /\ UNCHANGED <<mode, up, epoch, branches, saving, file, pool, thread, quit, calls>>

GoLive(b) ==
    /\ up /\ call[b] = "golive"
    /\ Save({b}, "live", "idle", "rollback")
    /\ UNCHANGED <<mode, up, epoch, handles, file, pool, proc, thread, quit, calls, faults>>

\* ReaperSandbox.kill: signal, wait, close; a KeyError is swallowed.
Reap(b) ==
    /\ ReaperFree
    /\ proc' = IF b \in handles THEN [proc EXCEPT ![epoch][b] = "none"] ELSE proc
    /\ handles' = handles \ {b}

Rollback(b) ==
    /\ up /\ call[b] = "rollback"
    /\ Reap(b)
    /\ Goto(b, "unrecord")
    /\ UNCHANGED <<mode, up, epoch, branches, saving, file, pool, thread, quit, calls, faults>>

\* When the write fails the row stays, in state forking.
Unrecord(b) ==
    /\ up /\ call[b] = "unrecord"
    /\ Save({b}, "absent", "idle", "idle")
    /\ UNCHANGED <<mode, up, epoch, handles, file, pool, proc, thread, quit, calls, faults>>

\* The with block of the ThreadPoolExecutor ends when every child has settled,
\* and its threads end.  Their children get the death signal they have asked
\* for; one that has not is from now on a child of another thread.
PoolEnds ==
    /\ up /\ pool # {} /\ \A b \in pool : call[b] = "idle"
    /\ pool' = {}
    /\ proc' = [proc EXCEPT ![epoch] = [b \in ID |->
          IF thread[epoch][b] = "pool" /\ mode = "shim" /\ @[b] \in {"armed", "running"}
            THEN "none" ELSE @[b]]]
    /\ thread' = [thread EXCEPT ![epoch] = [b \in ID |->
          IF @[b] = "pool" THEN "caller" ELSE @[b]]]
    /\ UNCHANGED <<mode, up, epoch, branches, handles, call, saving, file, quit, calls, faults>>

-----------------------------------------------------------------------------
\* kill, alone or replayed by reconcile for the rows of an earlier supervisor

Kill(b) ==
    /\ up /\ branches[b] # "absent" /\ call[b] = "idle"
    /\ Save({b}, "killing", "reap", "idle")
    /\ UNCHANGED <<mode, up, epoch, handles, file, pool, proc, thread, quit, calls, faults>>

\* Mutant: the row goes first.
ForgetFirst(b) ==
    /\ up /\ call[b] = "reap"
    /\ Save({b}, "absent", "forget", "idle")
    /\ UNCHANGED <<mode, up, epoch, handles, file, pool, proc, thread, quit, calls, faults>>

KillReap(b) ==
    /\ up /\ call[b] = "reap"
    /\ Reap(b)
    /\ Goto(b, "forget")
    /\ UNCHANGED <<mode, up, epoch, branches, saving, file, pool, thread, quit, calls, faults>>

KillForget(b) ==
    /\ up /\ call[b] = "forget"
    /\ Save({b}, "absent", "idle", "idle")
    /\ UNCHANGED <<mode, up, epoch, handles, file, pool, proc, thread, quit, calls, faults>>

-----------------------------------------------------------------------------
\* The branch processes

\* _preexec_pdeathsig, or main of the launcher: prctl, which may fail.
ChildArm(e, b) ==
    /\ proc[e][b] = "forked"
    /\ \/ proc' = [proc EXCEPT ![e][b] = "armed"] /\ UNCHANGED <<faults, quit>>
       \/ Fault /\ proc' = [proc EXCEPT ![e][b] = "none"] /\ quit' = quit \cup {b}
    /\ UNCHANGED <<mode, up, epoch, volatile, file, thread, calls>>

\* Mutant: no look at getppid().
ChildTrusts(e, b) ==
    /\ proc[e][b] = "armed"
    /\ proc' = [proc EXCEPT ![e][b] = "running"]
    /\ UNCHANGED <<mode, up, epoch, volatile, file, thread, quit, calls, faults>>

\* getppid() is still the supervisor, and the command is exec'ed; or the child ends.
ChildCheck(e, b) ==
    /\ proc[e][b] = "armed"
    /\ proc' = [proc EXCEPT ![e][b] = IF up /\ e = epoch THEN "running" ELSE "none"]
    /\ UNCHANGED <<mode, up, epoch, volatile, file, thread, quit, calls, faults>>

\* The branch's command ends by itself.
ChildExits(b) ==
    /\ up /\ Own(b) = "running"
    /\ Fault
    /\ SetOwn(b, "none") /\ quit' = quit \cup {b}
    /\ UNCHANGED <<mode, up, epoch, volatile, file, thread, calls>>

-----------------------------------------------------------------------------
\* The supervisor dies: every armed child with it, memory and flock are gone.
Crash ==
    /\ up /\ epoch < MaxCrashes
    /\ up' = FALSE
    /\ proc' = [proc EXCEPT ![epoch] = [b \in ID |->
          IF mode # "off" /\ @[b] \in {"armed", "running"} THEN "none" ELSE @[b]]]
    /\ branches' = [b \in ID |-> "absent"] /\ handles' = {} /\ pool' = {}
    /\ call' = [b \in ID |-> "idle"] /\ saving' = NoSave /\ quit' = {}
    /\ UNCHANGED <<mode, epoch, file, thread, calls, faults>>

\* The next one takes the flock and loads the file.
Start ==
    /\ ~up
    /\ up' = TRUE /\ epoch' = epoch + 1
    /\ branches' = file
    /\ UNCHANGED <<mode, handles, call, saving, file, pool, proc, thread, quit, calls, faults>>

-----------------------------------------------------------------------------
WriteStep == SaveFails \/ SaveRename \/ SaveEnd
CallStep(b) ==
    \/ Popen(b) \/ PopenReturns(b) \/ PidfdOpen(b) \/ GoLive(b) \/ Rollback(b) \/ Unrecord(b)
    \/ KillReap(b) \/ KillForget(b)
ChildStep(e, b) == ChildArm(e, b) \/ ChildCheck(e, b)

SupNext ==
    \/ \E S \in SUBSET ID : Fork(S)
    \/ \E b \in ID : Kill(b) \/ CallStep(b) \/ ChildExits(b)
    \/ \E e \in Epoch, b \in ID : ChildStep(e, b)
    \/ WriteStep \/ PoolEnds \/ Crash \/ Start

SupSpec == SupInit /\ [][SupNext]_supVars

\* A forked child comes to its check: nothing in it waits for the supervisor.
SupFairSpec == SupSpec /\ \A e \in Epoch, b \in ID : WF_supVars(ChildStep(e, b))

-----------------------------------------------------------------------------
\* Properties

\* Between writes the registry in memory is the one on disk, whatever steps of
\* earlier writes failed and whichever callers rolled their rows back (_persist,
\* _record, _forget, _replace_branch, fork).
MemoryMatchesFile == (up /\ saving = NoSave) => branches = file

\* Whatever the supervisor has forked and not yet reaped has a row on disk, so
\* that a crash at any moment leaves its successor a record of it (fork,
\* rollback, kill: journal first, forget last).
EveryProcessJournaled ==
    up => \A b \in ID : Own(b) # "none" => file[b] # "absent"

\* With a death signal no branch process outlives its supervisor: what is left
\* of an earlier one has yet to come to its getppid() check (spawn,
\* _preexec_pdeathsig, _pdeathsig.main).
NoneOutlives ==
    mode # "off" => \A e \in Epoch, b \in ID :
        (e < epoch \/ ~up) => proc[e][b] \in {"none", "forked", "armed"}

\* And the check comes: with a death signal every process of a dead supervisor
\* ends (spawn, _preexec_pdeathsig, _pdeathsig.main).
OrphansEnd ==
    \A e \in Epoch, b \in ID :
        (mode # "off" /\ (e < epoch \/ ~up)) ~> (proc[e][b] = "none")

\* A process that a dead supervisor left is ended before its row is forgotten.
ReconcileCollects ==
    up => \A e \in Epoch, b \in ID :
        (e < epoch /\ proc[e][b] = "running") => file[b] # "absent"

\* A branch whose fork has returned runs until it is killed or exits by itself.
ForkedStaysUp ==
    \A b \in ID : (up /\ branches[b] = "live" /\ call[b] = "idle" /\ pool = {} /\ b \in handles
                   /\ b \notin quit)
                  => Own(b) # "none"

=============================================================================
