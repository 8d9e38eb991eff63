---------------------------- MODULE Orchestrator ----------------------------
(***************************************************************************)
(* agentfork/orchestrator.py: ForkOrchestrator, the control plane that      *)
(* gives one branch id to a KV-cache branch and to a sandbox.               *)
(*                                                                         *)
(* The registry lock covers bookkeeping only; every backend call runs       *)
(* outside it.  So a step of this module is either one block of code under  *)
(* the lock or one backend call, and the steps of concurrent create_parent, *)
(* fork, kill, sweep and close calls interleave freely.                     *)
(*                                                                         *)
(* Data left out: tokens, the wall clock (a lease is none, held or lapsed), *)
(* metrics, receipts beyond their "reaped" bit, and log lines.  The backend *)
(* calls extend, generate, exec, exec_detached and export_artifact read the *)
(* registry and change nothing here (generate's branch_end is a Kill).      *)
(***************************************************************************)
EXTENDS Naturals, FiniteSets

CONSTANTS
    ID,           \* branch ids
    NoBranch,     \* the parent of a root (None in the code)
    MaxCalls,     \* bound: create_parent and fork calls that get journaled
    MaxFan,       \* bound: children of one fork call
    MaxFaults,    \* bound: backend calls and registry writes that raise, and
                  \*        sandboxes that exit by themselves
    MaxCrashes,   \* bound: supervisor crashes
    Leases,       \* the lease states a new branch may start in; callers who use
                  \*        no leases ({"none"}) do not renew any
    RacingReuse,  \* TRUE: callers reuse an explicit id before the call that
                  \*       failed on it has returned
    RestartDead,  \* start_reaper(restart_dead=...)
    Sweeps        \* the multi-branch operations that are used

Kind == {"reap", "reconcile", "losers", "close", "dead"}

\* Call numbers: the n-th journaled create_parent or fork.  A number doubles as
\* the incarnation of every branch that the call made.
Call == 1 .. MaxCalls

ASSUME IDAssumption == IsFiniteSet(ID) /\ NoBranch \notin ID
ASSUME BoundAssumption ==
    /\ MaxCalls \in Nat /\ MaxFan \in Nat
    /\ MaxFaults \in Nat /\ MaxCrashes \in Nat
ASSUME ConfigAssumption ==
    /\ Leases \subseteq {"none", "held"} /\ Leases # {}
    /\ RacingReuse \in BOOLEAN /\ RestartDead \in BOOLEAN
    /\ Sweeps \subseteq Kind

VARIABLES
    branches,   \* _branches and the registry file, which mirror each other
                \* whenever the lock is free
    loaded,     \* _loaded_branch_ids
    spawning,   \* _spawning
    killing,    \* _killing
    phase,      \* _closing, _closed and where close() stands; "down" after a crash
    kv,         \* ids that hold a KV branch in the backend
    sandbox,    \* per id: no sandbox, a running one, or one that exited by
                \* itself and still holds its directory, pid record, netns
    ncalls,     \* calls journaled so far
    made,       \* per call: the parent id and the parent's incarnation
    pc,         \* per call and id: where spawn_one / create_parent stands
    kpc,        \* per id: where the _kill of that id stands
    kby,        \* per id: the operation that kill runs for
    active,     \* the sweeps that are running
    todo,       \* per sweep: listed ids that its fan-out has not attempted
    seen,       \* per sweep: the incarnations it listed (read by properties)
    retry,      \* kill_losers: losers whose kill was a no-op
    winner,     \* kill_losers: the incarnation it keeps (read by properties)
    raised,     \* the sweeps in which some kill raised
    reviving,   \* the id whose sandbox.restart() is in flight, or NoBranch
    faults, crashes

registryVars == <<branches, loaded>>
backendVars  == <<kv, sandbox>>
jobVars      == <<spawning, pc, ncalls, made>>
killVars     == <<killing, kpc, kby>>
sweepVars    == <<active, todo, seen, retry, winner, raised, reviving>>
vars == <<registryVars, backendVars, jobVars, killVars, sweepVars, phase,
          faults, crashes>>

-----------------------------------------------------------------------------
\* Types

Absent == [state |-> "absent", parent |-> NoBranch, lease |-> "none", call |-> 0]

Branch == [state : {"absent", "forking", "live", "killing"},
           parent : ID \cup {NoBranch},
           lease : {"none", "held", "lapsed"},
           call : 0 .. MaxCalls]

Stage == {"none", "kv", "sandbox", "ready", "golive",
          "rb_kv", "rb_sandbox", "rb_stuck", "rb_forget", "unmark"}

KillStage == {"none", "sandbox", "kv", "forget", "fail"}

Phase == {"open", "joining", "closing", "waiting", "sweeping", "closed", "down"}

\* Every variable has its type.
TypeOK ==
    /\ branches \in [ID -> Branch]
    /\ loaded \subseteq ID /\ spawning \subseteq ID /\ killing \subseteq ID
    /\ phase \in Phase
    /\ kv \subseteq ID
    /\ sandbox \in [ID -> {"none", "up", "dead"}]
    /\ ncalls \in 0 .. MaxCalls
    /\ made \in [Call -> [parent : ID \cup {NoBranch}, of : 0 .. MaxCalls]]
    /\ pc \in [Call -> [ID -> Stage]]
    /\ kpc \in [ID -> KillStage]
    /\ kby \in [ID -> Kind \cup {"user"}]
    /\ active \subseteq Kind
    /\ todo \in [Kind -> SUBSET ID]
    /\ seen \in [Kind -> SUBSET (ID \X (0 .. MaxCalls))]
    /\ retry \subseteq ID
    /\ winner \in (ID \cup {NoBranch}) \X (0 .. MaxCalls)
    /\ raised \subseteq Kind
    /\ reviving \in ID \cup {NoBranch}
    /\ faults \in 0 .. MaxFaults /\ crashes \in 0 .. MaxCrashes

-----------------------------------------------------------------------------
\* Reading the state

Recorded == {b \in ID : branches[b].state # "absent"}
Live(b) == b \in ID /\ branches[b].state = "live"
Incarnation(b) == <<b, branches[b].call>>

\* _ensure_open() passes: close() has not taken the lock yet.
IsOpen == phase \in {"open", "joining"}

\* _ensure_open(allow_closing) as the kills of sweep k call it.
MayKill(k) == IF k = "close" THEN phase = "sweeping" ELSE IsOpen

\* Mutant: _kill forgets to look at _spawning.
KillableWhileForking(b) == b \in Recorded /\ b \notin killing

\* _kill goes ahead: the branch is recorded and nobody is forking or killing it.
Killable(b) == b \in Recorded /\ b \notin killing /\ b \notin spawning

\* A create_parent or spawn_one is at work on b for call c.
Busy(c, b) == pc[c][b] # "none"

\* Kills of sweep k in flight.
KillsOf(k) == {b \in ID : kpc[b] # "none" /\ kby[b] = k}

-----------------------------------------------------------------------------
\* Changing the state

\* One backend call or registry write raises.
Fault == faults < MaxFaults /\ faults' = faults + 1

\* _lifecycle_changed.notify_all(): close() wakes if it is in its wait().
Notify == phase' = IF phase = "waiting" THEN "closing" ELSE phase

\* _forget after a successful _persist.
Forget(b) ==
    /\ branches' = [branches EXCEPT ![b] = Absent]
    /\ loaded' = loaded \ {b}

\* Mutant: a state name that no reader of the registry knows.
SetUnknownState(b, s) ==
    branches' = [branches EXCEPT ![b].state = IF s = "killing" THEN "killed" ELSE s]

\* _replace_branch(b, state=s) after a successful _persist.
SetState(b, s) == branches' = [branches EXCEPT ![b].state = s]

\* The ids a new branch may take.  create_parent and fork look at _branches
\* only; that callers wait for a failed call to return before they reuse its id
\* is an assumption on them (automatic ids count up and never repeat), which
\* RacingReuse drops.
Fresh == IF RacingReuse THEN ID \ Recorded ELSE ID \ (Recorded \cup spawning)

\* The registry with a "forking" row for every id of C, made by the next call.
Journaled(C, p, l) ==
    [b \in ID |-> IF b \in C THEN [state |-> "forking", parent |-> p,
                                   lease |-> l, call |-> ncalls + 1]
                             ELSE branches[b]]

-----------------------------------------------------------------------------
Init ==
    /\ branches = [b \in ID |-> Absent]
    /\ loaded = {} /\ spawning = {} /\ killing = {}
    /\ phase = "open"
    /\ kv = {} /\ sandbox = [b \in ID |-> "none"]
    /\ ncalls = 0
    /\ made = [c \in Call |-> [parent |-> NoBranch, of |-> 0]]
    /\ pc = [c \in Call |-> [b \in ID |-> "none"]]
    /\ kpc = [b \in ID |-> "none"] /\ kby = [b \in ID |-> "user"]
    /\ active = {} /\ raised = {}
    /\ todo = [k \in Kind |-> {}] /\ seen = [k \in Kind |-> {}]
    /\ retry = {} /\ winner = <<NoBranch, 0>>
    /\ reviving = NoBranch
    /\ faults = 0 /\ crashes = 0

-----------------------------------------------------------------------------
\* create_parent and fork

\* The block under the lock: check, journal every child, mark it in flight.
\* When the write raises, the rows are popped again and nothing has changed.
Journal(C, p, l) ==
    /\ IsOpen
    /\ ncalls < MaxCalls
    /\ branches' = Journaled(C, p, l)
    /\ spawning' = spawning \cup C
    /\ ncalls' = ncalls + 1
    /\ made' = [made EXCEPT ![ncalls + 1] =
                   [parent |-> p,
                    of |-> IF p = NoBranch THEN 0 ELSE branches[p].call]]
    /\ pc' = [pc EXCEPT ![ncalls + 1] =
                   [b \in ID |-> IF b \in C THEN "kv" ELSE "none"]]
    /\ UNCHANGED <<loaded, backendVars, killVars, sweepVars, phase, faults, crashes>>

CreateParent(b, l) == b \in Fresh /\ Journal({b}, NoBranch, l)

Fork(p, C, l) ==
    /\ Live(p)
    /\ C # {} /\ C \subseteq Fresh /\ Cardinality(C) <= MaxFan
    /\ Journal(C, p, l)

Goto(c, b, stage) == pc' = [pc EXCEPT ![c][b] = stage]

\* kv.create_tree / kv.fork_branch.  It raises when the parent's branch is gone
\* or the id is taken; a fault may strike before or after it took effect.
KvFork(c, b) ==
    LET p == made[c].parent
        refused == b \in kv \/ (p # NoBranch /\ p \notin kv)
    IN  /\ pc[c][b] = "kv"
        /\ \/ /\ ~refused
              /\ kv' = kv \cup {b}
              /\ Goto(c, b, "sandbox")
              /\ UNCHANGED faults
           \/ /\ refused
              /\ Goto(c, b, "rb_kv")
              /\ UNCHANGED <<kv, faults>>
           \/ /\ ~refused
              /\ Fault
              /\ kv' \in {kv, kv \cup {b}}
              /\ Goto(c, b, "rb_kv")
        /\ UNCHANGED <<registryVars, sandbox, spawning, ncalls, made, killVars,
                       sweepVars, phase, crashes>>

\* Mutant: an exception of spawn is swallowed.
SandboxSpawnUnchecked(c, b) ==
    /\ pc[c][b] = "sandbox"
    /\ \E s \in {sandbox[b], "up"} : sandbox' = [sandbox EXCEPT ![b] = s]
    /\ Goto(c, b, "golive")
    /\ UNCHANGED <<registryVars, kv, spawning, ncalls, made, killVars, sweepVars,
                   phase, faults, crashes>>

\* sandbox.spawn.  A backend may refuse to fork a parent whose sandbox is gone.
SandboxSpawn(c, b) ==
    LET p == made[c].parent
    IN  /\ pc[c][b] = "sandbox"
        /\ \/ /\ sandbox[b] = "none"
              /\ sandbox' = [sandbox EXCEPT ![b] = "up"]
              /\ Goto(c, b, IF p = NoBranch THEN "ready" ELSE "golive")
              /\ UNCHANGED faults
           \/ /\ \/ sandbox[b] # "none"
                 \/ p # NoBranch /\ sandbox[p] # "up"
              /\ Goto(c, b, "rb_kv")
              /\ UNCHANGED <<sandbox, faults>>
           \/ /\ sandbox[b] = "none"
              /\ Fault
              /\ \E s \in {"none", "up"} : sandbox' = [sandbox EXCEPT ![b] = s]
              /\ Goto(c, b, "rb_kv")
        /\ UNCHANGED <<registryVars, kv, spawning, ncalls, made, killVars,
                       sweepVars, phase, crashes>>

\* create_parent only: sandbox.wait_ready and kv.extend.
Ready(c, b) ==
    /\ pc[c][b] = "ready"
    /\ \/ Goto(c, b, "golive") /\ UNCHANGED faults
       \/ sandbox[b] # "up" /\ Goto(c, b, "rb_kv") /\ UNCHANGED faults
       \/ Fault /\ Goto(c, b, "rb_kv")
    /\ UNCHANGED <<registryVars, backendVars, spawning, ncalls, made, killVars,
                   sweepVars, phase, crashes>>

\* Under the lock again: fork wants its parent still live, _replace_branch wants
\* the row to exist, and the write must succeed.
ParentStillLive(c) == made[c].parent = NoBranch \/ Live(made[c].parent)

GoLive(c, b) ==
    /\ pc[c][b] = "golive"
    /\ \/ /\ ParentStillLive(c) /\ b \in Recorded
          /\ SetState(b, "live")
          /\ Goto(c, b, "unmark")
          /\ UNCHANGED faults
       \/ /\ ~ParentStillLive(c) \/ b \notin Recorded
          /\ Goto(c, b, "rb_kv")
          /\ UNCHANGED <<branches, faults>>
       \/ /\ ParentStillLive(c) /\ b \in Recorded
          /\ Fault
          /\ Goto(c, b, "rb_kv")
          /\ UNCHANGED branches
    /\ UNCHANGED <<loaded, backendVars, spawning, ncalls, made, killVars,
                   sweepVars, phase, crashes>>

\* _rollback_branch: kv.kill, then sandbox.kill whether or not kv.kill raised.
RollbackKv(c, b) ==
    /\ pc[c][b] = "rb_kv"
    /\ \/ kv' = kv \ {b} /\ Goto(c, b, "rb_sandbox") /\ UNCHANGED faults
       \/ Fault /\ kv' \in {kv, kv \ {b}} /\ Goto(c, b, "rb_stuck")
    /\ UNCHANGED <<registryVars, sandbox, spawning, ncalls, made, killVars,
                   sweepVars, phase, crashes>>

\* sandbox.kill(b) returns; it raises on a fault.
SandboxKilled(b) ==
    sandbox' = [sandbox EXCEPT ![b] = "none"] /\ UNCHANGED faults

SandboxKillRaises(b) ==
    /\ Fault
    /\ \E s \in {sandbox[b], "none"} : sandbox' = [sandbox EXCEPT ![b] = s]

\* Mutant: the rollback forgets the row although kv.kill raised.
RollbackForgetsAnyway(c, b) ==
    /\ pc[c][b] \in {"rb_sandbox", "rb_stuck"}
    /\ \/ SandboxKilled(b) /\ Goto(c, b, "rb_forget")
       \/ SandboxKillRaises(b) /\ Goto(c, b, "unmark")
    /\ UNCHANGED <<registryVars, kv, spawning, ncalls, made, killVars,
                   sweepVars, phase, crashes>>

RollbackSandbox(c, b) ==
    /\ \/ /\ pc[c][b] = "rb_sandbox" /\ SandboxKilled(b)
          /\ Goto(c, b, "rb_forget")
       \/ /\ pc[c][b] = "rb_stuck" /\ SandboxKilled(b)
          /\ Goto(c, b, "unmark")
       \/ /\ pc[c][b] \in {"rb_sandbox", "rb_stuck"} /\ SandboxKillRaises(b)
          /\ Goto(c, b, "unmark")
    /\ UNCHANGED <<registryVars, kv, spawning, ncalls, made, killVars,
                   sweepVars, phase, crashes>>

\* Both halves are gone: drop the row.  If the write raises, the row stays.
RollbackForget(c, b) ==
    /\ pc[c][b] = "rb_forget"
    /\ \/ Forget(b) /\ UNCHANGED faults
       \/ Fault /\ UNCHANGED registryVars
    /\ Goto(c, b, "unmark")
    /\ UNCHANGED <<backendVars, spawning, ncalls, made, killVars, sweepVars,
                   phase, crashes>>

\* The finally block: _spawning.discard and notify_all.
Unmark(c, b) ==
    /\ pc[c][b] = "unmark"
    /\ spawning' = spawning \ {b}
    /\ Goto(c, b, "none")
    /\ Notify
    /\ UNCHANGED <<registryVars, backendVars, ncalls, made, killVars, sweepVars,
                   faults, crashes>>

Job(c, b) ==
    \/ KvFork(c, b) \/ SandboxSpawn(c, b) \/ Ready(c, b) \/ GoLive(c, b)
    \/ RollbackKv(c, b) \/ RollbackSandbox(c, b) \/ RollbackForget(c, b)
    \/ Unmark(c, b)

-----------------------------------------------------------------------------
\* kill

\* Mutant: the kill reaps without journaling its intent.
StartKillUnjournaled(b, k) ==
    /\ killing' = killing \cup {b}
    /\ kpc' = [kpc EXCEPT ![b] = "sandbox"]
    /\ kby' = [kby EXCEPT ![b] = k]
    /\ UNCHANGED branches

\* The block under the lock that journals "killing" before anything is reaped.
StartKill(b, k) ==
    /\ killing' = killing \cup {b}
    /\ SetState(b, "killing")
    /\ kpc' = [kpc EXCEPT ![b] = "sandbox"]
    /\ kby' = [kby EXCEPT ![b] = k]

\* A caller's kill(b), or the branch_end of generate().  When b is unknown or
\* busy it is a no-op, and when the write raises it changes nothing.
Kill(b) ==
    /\ IsOpen /\ Killable(b)
    /\ StartKill(b, "user")
    /\ UNCHANGED <<loaded, backendVars, jobVars, sweepVars, phase, faults, crashes>>

KillSandbox(b) ==
    /\ kpc[b] = "sandbox"
    /\ \/ SandboxKilled(b) /\ kpc' = [kpc EXCEPT ![b] = "kv"]
       \/ SandboxKillRaises(b) /\ kpc' = [kpc EXCEPT ![b] = "fail"]
    /\ UNCHANGED <<registryVars, kv, jobVars, killing, kby, sweepVars, phase, crashes>>

KillKv(b) ==
    /\ kpc[b] = "kv"
    /\ \/ /\ kv' = kv \ {b} /\ UNCHANGED faults
          /\ kpc' = [kpc EXCEPT ![b] = "forget"]
       \/ /\ Fault /\ kv' \in {kv, kv \ {b}}
          /\ kpc' = [kpc EXCEPT ![b] = "fail"]
    /\ UNCHANGED <<registryVars, sandbox, jobVars, killing, kby, sweepVars,
                   phase, crashes>>

\* An exception leaves a kill of sweep k: the fan-out notes it and goes on; the
\* reaper's loop over swept-dead branches ends.
RaiseIn(k) ==
    /\ raised' = raised \cup ({k} \cap Kind)
    /\ todo' = IF k = "dead" THEN [todo EXCEPT !["dead"] = {}] ELSE todo

\* Mutant: a kill ends without notify_all.
EndKillSilently(b) ==
    /\ killing' = killing \ {b}
    /\ kpc' = [kpc EXCEPT ![b] = "none"]
    /\ kby' = [kby EXCEPT ![b] = "user"]
    /\ UNCHANGED phase

EndKill(b) ==
    /\ killing' = killing \ {b}
    /\ kpc' = [kpc EXCEPT ![b] = "none"]
    /\ kby' = [kby EXCEPT ![b] = "user"]
    /\ Notify

\* Mutant: a failed kill drops its row.
KillFailedForgets(b) ==
    /\ kpc[b] = "fail"
    /\ EndKill(b)
    /\ RaiseIn(kby[b])
    /\ Forget(b)
    /\ UNCHANGED <<backendVars, jobVars, active, seen, retry, winner, reviving,
                   faults, crashes>>

\* A half raised: the row stays "killing" for reconcile.
KillFailed(b) ==
    /\ kpc[b] = "fail"
    /\ EndKill(b)
    /\ RaiseIn(kby[b])
    /\ UNCHANGED <<registryVars, backendVars, jobVars, active, seen, retry, winner,
                   reviving, faults, crashes>>

\* Both halves are gone: unmark and forget in one block.
KillForget(b) ==
    /\ kpc[b] = "forget"
    /\ EndKill(b)
    /\ \/ Forget(b) /\ UNCHANGED <<raised, todo, faults>>
       \/ Fault /\ RaiseIn(kby[b]) /\ UNCHANGED registryVars
    /\ UNCHANGED <<backendVars, jobVars, active, seen, retry, winner, reviving, crashes>>

KillStep(b) == KillSandbox(b) \/ KillKv(b) \/ KillFailed(b) \/ KillForget(b)

-----------------------------------------------------------------------------
\* Sweeps: the operations that list branches under the lock and then kill them
\* by id, each kill taking the lock again.

\* Sweep k starts with the ids of L.  (A call that lists nothing returns at once.)
StartSweep(k, L) ==
    /\ k \in Sweeps /\ k \notin active
    /\ active' = active \cup {k}
    /\ todo' = [todo EXCEPT ![k] = L]
    /\ seen' = [seen EXCEPT ![k] = {Incarnation(b) : b \in L}]

Lapsed == {b \in Recorded : branches[b].lease = "lapsed"}

ReapExpired ==
    LET expired == Lapsed \ spawning
    IN  /\ IsOpen /\ expired # {}
        /\ StartSweep("reap", expired)
        /\ UNCHANGED <<registryVars, backendVars, jobVars, killVars, retry, winner,
                       raised, reviving, phase, faults, crashes>>

\* Mutants: reconcile overlooks failed rollbacks, or lapsed leases.
StaleWithoutForking ==
    LET stuck == {b \in ID : branches[b].state = "killing"}
    IN  (stuck \cup loaded \cup Lapsed) \ (spawning \cup killing)
StaleWithoutLapsed ==
    LET stuck == {b \in ID : branches[b].state \in {"forking", "killing"}}
    IN  (stuck \cup loaded) \ (spawning \cup killing)

\* What reconcile() lists: rows left mid-fork or mid-kill, rows loaded from a
\* previous owner, lapsed leases; never one with work in flight here.
Stale ==
    LET stuck == {b \in ID : branches[b].state \in {"forking", "killing"}}
    IN  (stuck \cup loaded \cup Lapsed) \ (spawning \cup killing)

\* The background reaper runs exactly when "dead" is among the Sweeps; the
\* reconcile passes are then its own, one at a time, until close() stops it.
Reaper == "dead" \in Sweeps

Reconcile ==
    /\ IsOpen
    /\ IF Reaper THEN phase = "open" /\ "dead" \notin active ELSE Stale # {}
    /\ StartSweep("reconcile", Stale)
    /\ UNCHANGED <<registryVars, backendVars, jobVars, killVars, retry, winner,
                   raised, reviving, phase, faults, crashes>>

\* The winner and the ids its rows name as ancestors; the walk ends at an id
\* that has no row any more.
Keep(w) ==
    LET up[n \in 0 .. Cardinality(ID)] ==
          IF n = 0 THEN {w}
          ELSE up[n - 1] \cup ({branches[b].parent : b \in up[n - 1] \cap ID} \ {NoBranch})
    IN  up[Cardinality(ID)]

KillLosers(w) ==
    LET losers == Recorded \ Keep(w)
    IN  /\ IsOpen /\ Live(w) /\ losers # {}
        /\ StartSweep("losers", losers)
        /\ winner' = Incarnation(w)
        /\ UNCHANGED <<registryVars, backendVars, jobVars, killVars, retry, raised,
                       reviving, phase, faults, crashes>>

\* Mutant: kill_losers takes a no-op receipt for a kill.
KillForOnce(k, b) ==
    \/ /\ ~MayKill(k)
       /\ raised' = raised \cup {k}
       /\ UNCHANGED <<branches, killVars, retry, faults>>
    \/ /\ MayKill(k) /\ ~Killable(b)
       /\ UNCHANGED <<branches, killVars, retry, raised, faults>>
    \/ /\ MayKill(k) /\ Killable(b)
       /\ StartKill(b, k)
       /\ UNCHANGED <<retry, raised, faults>>

\* One kill of a fan-out: refused, a no-op, started, or its journaling raises.
KillFor(k, b) ==
    \/ /\ ~MayKill(k)
       /\ raised' = raised \cup {k}
       /\ UNCHANGED <<branches, killVars, retry, faults>>
    \/ /\ MayKill(k) /\ ~Killable(b)
       /\ retry' = IF k = "losers" THEN retry \cup {b} ELSE retry
       /\ UNCHANGED <<branches, killVars, raised, faults>>
    \/ /\ MayKill(k) /\ Killable(b)
       /\ StartKill(b, k)
       /\ UNCHANGED <<retry, raised, faults>>
    \/ /\ MayKill(k) /\ Killable(b)
       /\ Fault
       /\ raised' = raised \cup {k}
       /\ UNCHANGED <<branches, killVars, retry>>

Attempt(k, b) ==
    /\ k \in active \ {"dead"} /\ b \in todo[k]
    /\ KillFor(k, b)
    /\ todo' = [todo EXCEPT ![k] = @ \ {b}]
    /\ UNCHANGED <<loaded, backendVars, jobVars, active, seen, winner, reviving,
                   phase, crashes>>

\* Mutant: the wait loop does not notice that another killer was faster.
LosersRetryBlindly(b) ==
    /\ "losers" \in active \ raised
    /\ todo["losers"] = {} /\ KillsOf("losers") = {}
    /\ b \in retry
    /\ Killable(b) /\ IsOpen
    /\ StartKill(b, "losers")
    /\ retry' = retry \ {b}
    /\ UNCHANGED <<raised, faults>>
    /\ UNCHANGED <<loaded, backendVars, jobVars, active, todo, seen, winner,
                   reviving, phase, crashes>>

\* kill_losers after its fan-out, if nothing raised: a loser that has no row any
\* more is done, a busy one is waited for, any other one is killed again.
LosersRetry(b) ==
    /\ "losers" \in active \ raised
    /\ todo["losers"] = {} /\ KillsOf("losers") = {}
    /\ b \in retry
    /\ \/ /\ b \notin Recorded
          /\ retry' = retry \ {b}
          /\ UNCHANGED <<branches, killVars, raised, faults>>
       \/ /\ Killable(b) /\ IsOpen
          /\ StartKill(b, "losers")
          /\ retry' = retry \ {b}
          /\ UNCHANGED <<raised, faults>>
       \/ /\ Killable(b)
          /\ IF IsOpen THEN Fault ELSE UNCHANGED faults
          /\ raised' = raised \cup {"losers"}
          /\ UNCHANGED <<branches, killVars, retry>>
    /\ UNCHANGED <<loaded, backendVars, jobVars, active, todo, seen, winner,
                   reviving, phase, crashes>>

\* The sweep's call returns or raises.  A reconcile pass of the reaper that did
\* not raise goes on to sandbox.sweep_dead().
SweepReturn(k) ==
    LET next == k = "reconcile" /\ Reaper /\ k \notin raised
        dead == IF next THEN {b \in ID : sandbox[b] = "dead"} ELSE {}
    IN  /\ k \in active \ {"close"}
        /\ todo[k] = {} /\ KillsOf(k) = {}
        /\ k = "losers" => retry = {} \/ k \in raised
        /\ k = "dead" => reviving = NoBranch
        /\ active' = (active \ {k}) \cup (IF dead # {} THEN {"dead"} ELSE {})
        /\ todo' = IF next THEN [todo EXCEPT !["dead"] = dead] ELSE todo
        /\ seen' = IF next THEN [seen EXCEPT ![k] = {},
                                             !["dead"] = {Incarnation(b) : b \in dead}]
                           ELSE [seen EXCEPT ![k] = {}]
        /\ raised' = raised \ {k}
        /\ IF k = "losers" THEN retry' = {} /\ winner' = <<NoBranch, 0>>
                           ELSE UNCHANGED <<retry, winner>>
        /\ UNCHANGED <<registryVars, backendVars, jobVars, killVars, reviving, phase,
                       faults, crashes>>

-----------------------------------------------------------------------------
\* The reaper's walk over swept-dead branches, one at a time

DeadIdle == "dead" \in active /\ reviving = NoBranch /\ KillsOf("dead") = {}

CollectDead(b, rest) ==
    /\ KillFor("dead", b)
    /\ todo' = [todo EXCEPT !["dead"] = IF "dead" \in raised' THEN {} ELSE rest]
    /\ reviving' = NoBranch
    /\ UNCHANGED <<loaded, backendVars, jobVars, active, seen, winner, phase, crashes>>

SweepDead(b) ==
    /\ DeadIdle /\ b \in todo["dead"]
    /\ IF RestartDead /\ Live(b) /\ b \notin killing
         THEN /\ reviving' = b
              /\ todo' = [todo EXCEPT !["dead"] = @ \ {b}]
              /\ UNCHANGED <<registryVars, backendVars, jobVars, killVars, active,
                             seen, retry, winner, raised, phase, faults, crashes>>
         ELSE CollectDead(b, todo["dead"] \ {b})

\* sandbox.restart(b) returns True: a new sandbox runs under the id.
ReviveOk ==
    /\ reviving # NoBranch
    /\ sandbox' = [sandbox EXCEPT ![reviving] = "up"]
    /\ reviving' = NoBranch
    /\ UNCHANGED <<registryVars, kv, jobVars, killVars, active, todo, seen, retry,
                   winner, raised, phase, faults, crashes>>

\* Mutant: the answer of restart() is ignored.
ReviveFailsUnnoticed ==
    /\ reviving # NoBranch
    /\ reviving' = NoBranch
    /\ UNCHANGED <<registryVars, backendVars, jobVars, killVars, active, todo, seen,
                   retry, winner, raised, phase, faults, crashes>>

\* It returns False (no checkpoint) or raises: collect the branch.
ReviveFails == reviving # NoBranch /\ CollectDead(reviving, todo["dead"])

-----------------------------------------------------------------------------
\* Leases and the sandboxes' own behaviour

RenewLease(b) ==
    /\ IsOpen /\ Live(b) /\ "held" \in Leases
    /\ branches' = [branches EXCEPT ![b].lease = "held"]
    /\ UNCHANGED <<loaded, backendVars, jobVars, killVars, sweepVars, phase,
                   faults, crashes>>

\* The clock passes lease_expires_at.
LeaseLapses(b) ==
    /\ b \in Recorded /\ branches[b].lease = "held"
    /\ branches' = [branches EXCEPT ![b].lease = "lapsed"]
    /\ UNCHANGED <<loaded, backendVars, jobVars, killVars, sweepVars, phase,
                   faults, crashes>>

\* A sandbox process exits without a kill.
SandboxDies(b) ==
    /\ sandbox[b] = "up"
    /\ Fault
    /\ sandbox' = [sandbox EXCEPT ![b] = "dead"]
    /\ UNCHANGED <<registryVars, kv, jobVars, killVars, sweepVars, phase, crashes>>

-----------------------------------------------------------------------------
\* close

\* stop_reaper(): the reaper starts no pass any more and is joined.
StopReaper ==
    /\ "close" \in Sweeps /\ phase = "open"
    /\ phase' = "joining"
    /\ UNCHANGED <<registryVars, backendVars, jobVars, killVars, sweepVars,
                   faults, crashes>>

\* Mutant: close() waits for kills in flight, not for spawns.
DrainKillsOnly ==
    /\ IF killing # {}
         THEN phase' = "waiting" /\ UNCHANGED <<active, todo, seen>>
         ELSE phase' = "sweeping" /\ StartSweep("close", Recorded)
    /\ UNCHANGED <<registryVars, backendVars, jobVars, killVars, retry, winner,
                   raised, reviving, faults, crashes>>

\* Under the lock: wait while anything is in flight, then list every row.
Drain ==
    /\ IF spawning \cup killing # {}
         THEN phase' = "waiting" /\ UNCHANGED <<active, todo, seen>>
         ELSE phase' = "sweeping" /\ StartSweep("close", Recorded)
    /\ UNCHANGED <<registryVars, backendVars, jobVars, killVars, retry, winner,
                   raised, reviving, faults, crashes>>

\* The reaper thread is gone: set _closing.
CloseBegin ==
    /\ phase = "joining"
    /\ Reaper => active \cap {"reconcile", "dead"} = {}
    /\ Drain

\* wait() returned.
CloseWakes == phase = "closing" /\ Drain

\* Closed either way; the registry lock is released.
CloseEnd ==
    /\ phase = "sweeping" /\ todo["close"] = {} /\ KillsOf("close") = {}
    /\ phase' = "closed"
    /\ active' = active \ {"close"}
    /\ seen' = [seen EXCEPT !["close"] = {}]
    /\ UNCHANGED <<registryVars, backendVars, jobVars, killVars, todo, retry, winner,
                   raised, reviving, faults, crashes>>

-----------------------------------------------------------------------------
\* The supervisor process

\* Everything in memory and every thread is gone.  A process-local KV cache and
\* subprocesses with a death signal go too; remote ones and microVMs may stay.
ForgetThreads ==
    /\ spawning' = {} /\ killing' = {}
    /\ pc' = [c \in Call |-> [b \in ID |-> "none"]]
    /\ kpc' = [b \in ID |-> "none"] /\ kby' = [b \in ID |-> "user"]
    /\ active' = {} /\ raised' = {}
    /\ todo' = [k \in Kind |-> {}] /\ seen' = [k \in Kind |-> {}]
    /\ retry' = {} /\ winner' = <<NoBranch, 0>>
    /\ reviving' = NoBranch
    /\ UNCHANGED <<ncalls, made>>

Crash ==
    /\ phase \notin {"down", "closed"} /\ crashes < MaxCrashes
    /\ crashes' = crashes + 1
    /\ phase' = "down"
    /\ loaded' = {}
    /\ ForgetThreads
    /\ kv' \in SUBSET kv
    /\ \E lost \in SUBSET {b \in ID : sandbox[b] # "none"} :
          sandbox' = [b \in ID |-> IF b \in lost THEN "none" ELSE sandbox[b]]
    /\ UNCHANGED <<branches, faults>>

\* Mutant: the successor adopts the rows instead of marking them as loaded.
RestartAdopting ==
    /\ phase \in {"down", "closed"}
    /\ phase' = "open"
    /\ loaded' = {}
    /\ ForgetThreads
    /\ UNCHANGED <<branches, backendVars, faults, crashes>>

\* A new orchestrator on the same registry: __init__ loads every row.
Restart ==
    /\ phase \in {"down", "closed"}
    /\ phase' = "open"
    /\ loaded' = Recorded
    /\ ForgetThreads
    /\ UNCHANGED <<branches, backendVars, faults, crashes>>

-----------------------------------------------------------------------------
SweepStep(k) == (\E b \in ID : Attempt(k, b)) \/ SweepReturn(k)

Caller ==
    \/ \E b \in ID, l \in Leases : CreateParent(b, l)
    \/ \E p \in ID, C \in SUBSET ID, l \in Leases : Fork(p, C, l)
    \/ \E b \in ID : Kill(b) \/ KillLosers(b) \/ RenewLease(b)
    \/ ReapExpired
    \/ StopReaper

Environment ==
    \/ \E b \in ID : LeaseLapses(b) \/ SandboxDies(b)
    \/ Crash

Next ==
    \/ Caller
    \/ Environment
    \/ \E c \in Call, b \in ID : Job(c, b)
    \/ \E b \in ID : KillStep(b) \/ LosersRetry(b) \/ SweepDead(b)
    \/ \E k \in Kind : SweepStep(k)
    \/ Reconcile
    \/ ReviveOk \/ ReviveFails
    \/ CloseBegin \/ CloseWakes \/ CloseEnd
    \/ Restart

Spec == Init /\ [][Next]_vars

\* Threads keep running, the reaper (or the operator) keeps reconciling, and a
\* successor opens the registry.  Nothing obliges a caller to call.
Fairness ==
    /\ \A c \in Call, b \in ID : WF_vars(Job(c, b))
    /\ \A b \in ID : WF_vars(KillStep(b))
    /\ \A k \in Kind : WF_vars(SweepStep(k))
    /\ \A b \in ID : WF_vars(LosersRetry(b))
    /\ WF_vars(\E b \in ID : SweepDead(b)) /\ WF_vars(ReviveOk \/ ReviveFails)
    /\ WF_vars(Reconcile)
    /\ WF_vars(CloseBegin) /\ WF_vars(CloseWakes) /\ WF_vars(CloseEnd)
    /\ WF_vars(Restart)

FairSpec == Spec /\ Fairness

-----------------------------------------------------------------------------
\* Safety

\* Nothing leaks: an id that holds a KV branch or a sandbox, running or dead,
\* has a registry row, so that some kill, reconcile or successor can reach it.
\* (fork journals before it acquires; _rollback_branch and _kill forget last.)
NoLeak == \A b \in ID : b \in kv \/ sandbox[b] # "none" => b \in Recorded

\* The lasting kind of leak: held, without a row, and nobody at work on it.
NoOrphan ==
    \A b \in ID : b \in kv \/ sandbox[b] # "none"
                   => \/ b \in Recorded
                      \/ b = reviving
                      \/ \E c \in Call : Busy(c, b)

\* What a restart that races a kill can leave behind is a sandbox.  The KV half
\* of a branch always has a row: reviving a sandbox acquires no KV branch, and
\* forks, kills and successors forget the row last.
OnlySandboxOrphans == \A b \in kv : b \in Recorded

\* No id is worked on twice: at most one fork or create_parent is unwinding on
\* it, and no kill runs while one does (the point of _spawning and _killing).
OneWorkerPerId ==
    \A b \in ID :
        /\ \A c, d \in Call : Busy(c, b) /\ Busy(d, b) => c = d
        /\ kpc[b] # "none" => \A c \in Call : ~Busy(c, b)

\* A branch that reads "live" has both halves ("a branch never exists
\* half-created"); rows loaded from a previous owner promise nothing.
LiveIsWhole ==
    phase # "down" =>
      \A b \in ID \ loaded : Live(b) => b \in kv /\ sandbox[b] # "none"

\* A journaled kill is final: a "killing" row only ever disappears.
KillIsFinal ==
    [][\A b \in ID : branches[b].state = "killing"
                       => branches'[b].state \in {"killing", "absent"}]_vars

\* When kill_losers returns without raising, every branch it listed is gone (the
\* process does not end in the middle of it).
LosersGone ==
    [][(/\ "losers" \in active \ active' /\ "losers" \notin raised
        /\ phase' # "down" /\ ~(phase = "closed" /\ phase' = "open"))
         => \A p \in seen["losers"] : p[1] \in Recorded => Incarnation(p[1]) # p]_vars

\* A kill of sweep k begins.
Begins(b, k) == kpc[b] = "none" /\ kpc'[b] # "none" /\ kby'[b] = k

\* The incarnation p and the ones it was really forked from, back to the root.
Lineage(p) ==
    LET up[n \in 0 .. MaxCalls] ==
          IF n = 0 THEN {p}
          ELSE up[n - 1] \cup {<<made[q[2]].parent, made[q[2]].of>> :
                                  q \in {r \in up[n - 1] : r[2] # 0}}
    IN  up[MaxCalls]

\* kill_losers spares the winner and every ancestor of it that is recorded.
WinnerLineKept ==
    [][\A b \in ID : Begins(b, "losers") => Incarnation(b) \notin Lineage(winner)]_vars

\* A closed orchestrator has stopped: no fork, kill or restart of its own is left
\* that could write the registry a successor now owns or acquire anything (a
\* kill_losers may still be polling, but it can only raise); and unless close()
\* raised, nothing is recorded or held.
ClosedIsQuiet ==
    phase = "closed" =>
      /\ spawning = {} /\ killing = {} /\ reviving = NoBranch
      /\ \A c \in Call, b \in ID : ~Busy(c, b)
      /\ "close" \notin raised =>
           \A b \in ID : b \notin Recorded \cup kv /\ sandbox[b] = "none"

-----------------------------------------------------------------------------
\* Liveness (under FairSpec)

\* A row left mid-fork or mid-kill settles: collected, or the fork went live.
LeftoversSettle ==
    \A b \in ID : branches[b].state \in {"forking", "killing"}
                    ~> branches[b].state \in {"absent", "live"}

\* close() returns: every notify it needs is sent, and every drained kill ends.
CloseReturns == phase = "joining" ~> phase \in {"closed", "down"}

\* A lapsed lease is renewed in time or its branch is collected.
LapsedCollected ==
    \A b \in ID : branches[b].lease = "lapsed" ~> branches[b].lease # "lapsed"

\* The reaper handles every branch whose sandbox died out from under it: the
\* sandbox is restarted or the branch is not offered as live any more.
Stricken(b) == Live(b) /\ sandbox[b] = "dead"
DeadHandled == \A b \in ID : Stricken(b) ~> ~Stricken(b)

\* Every sweep returns; in particular kill_losers does not wait for ever.
SweepsReturn == \A k \in Kind : k \in active ~> k \notin active

\* Whoever waits for the end of other threads' forks and kills comes to an end
\* itself: close() on its condition, the sweeps by polling.
WaitsEnd == CloseReturns /\ SweepsReturn

-----------------------------------------------------------------------------
\* The inductive invariant behind the safety properties.  It holds when callers
\* wait for a failed call before reusing its id and the reaper does not restart
\* sandboxes; TLC violates NoOrphan with RacingReuse and with RestartDead.

Settled == ~RacingReuse /\ ~RestartDead

\* A job at work has its marker, and until it has only its marker left to drop,
\* its own "forking" row; no two jobs share an id.
JobsMarked == \A c \in Call, b \in ID : Busy(c, b) => b \in spawning
JobsRecorded ==
    \A c \in Call, b \in ID :
        pc[c][b] \notin {"none", "unmark"}
          => branches[b].state = "forking" /\ branches[b].call = c
JobsAlone == \A c, d \in Call, b \in ID : Busy(c, b) /\ Busy(d, b) => c = d

\* A kill at work has its marker and a "killing" row, and no fork beside it.
KillsMarked ==
    \A b \in ID : kpc[b] # "none"
        => b \in killing \ spawning /\ branches[b].state = "killing"

\* What a job holds before it goes live, and what rollbacks and kills have
\* released at each stage.
HalvesThere ==
    \A c \in Call, b \in ID :
        /\ pc[c][b] \in {"sandbox", "ready", "golive"} => b \in kv
        /\ pc[c][b] \in {"ready", "golive"} => sandbox[b] # "none"
HalvesGone ==
    /\ \A c \in Call, b \in ID :
          /\ pc[c][b] \in {"rb_sandbox", "rb_forget"} => b \notin kv
          /\ pc[c][b] = "rb_forget" => sandbox[b] = "none"
    /\ \A b \in ID :
          /\ kpc[b] \in {"kv", "forget"} => sandbox[b] = "none"
          /\ kpc[b] = "forget" => b \notin kv

\* The registry and the threads agree, and with them what each half holds.
Agreement ==
    /\ JobsMarked /\ JobsRecorded /\ JobsAlone /\ KillsMarked
    /\ HalvesThere /\ HalvesGone /\ NoLeak /\ LiveIsWhole
    /\ reviving = NoBranch
=============================================================================
