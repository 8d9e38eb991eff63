------------------------- MODULE OrchestratorProofs -------------------------
(***************************************************************************)
(* Theorems about Orchestrator, for any set of ids and any bounds, the last *)
(* of them that it implements BranchLedger.                                 *)
(***************************************************************************)
EXTENDS OrchestratorRefinement, TLAPS

USE DEF Call

-----------------------------------------------------------------------------
\* Types of the parts that steps build

\* An EXCEPT on one id's stage keeps the table of jobs well typed.
LEMMA GotoType ==
    ASSUME TypeOK, NEW c \in Call, NEW b \in ID, NEW s \in Stage, Goto(c, b, s)
    PROVE  pc' \in [Call -> [ID -> Stage]]
BY DEF TypeOK, Goto

\* Writing a state into a row, or dropping the row, keeps the registry well typed.
LEMMA SetStateType ==
    ASSUME TypeOK, NEW b \in ID, NEW s \in {"forking", "live", "killing"}, SetState(b, s)
    PROVE  branches' \in [ID -> Branch]
BY DEF TypeOK, SetState, Branch

LEMMA SetLeaseType ==
    ASSUME TypeOK, NEW b \in ID, NEW l \in {"held", "lapsed"},
           branches' = [branches EXCEPT ![b].lease = l]
    PROVE  branches' \in [ID -> Branch]
<1>1. branches[b] \in Branch
  BY DEF TypeOK
<1>2. [branches[b] EXCEPT !.lease = l] \in Branch
  BY <1>1 DEF Branch
<1> QED
  BY <1>2 DEF TypeOK

LEMMA ForgetType ==
    ASSUME TypeOK, NEW b \in ID, Forget(b)
    PROVE  branches' \in [ID -> Branch] /\ loaded' \subseteq ID
BY BoundAssumption DEF TypeOK, Forget, Branch, Absent

\* A notify changes the phase to a phase.
LEMMA NotifyType ==
    ASSUME TypeOK, Notify
    PROVE  phase' \in Phase
BY DEF TypeOK, Notify, Phase

\* A fault stays within its bound.
LEMMA FaultType ==
    ASSUME TypeOK, Fault \/ UNCHANGED faults
    PROVE  faults' \in 0 .. MaxFaults
BY BoundAssumption DEF TypeOK, Fault

LEMMA JournalType ==
    ASSUME TypeOK, NEW C \in SUBSET ID, NEW p \in ID \cup {NoBranch}, NEW l \in Leases,
           Journal(C, p, l)
    PROVE  TypeOK'
<1>1. ncalls + 1 \in Call /\ ncalls' \in 0 .. MaxCalls
  BY BoundAssumption DEF TypeOK, Journal
<1>2. l \in {"none", "held", "lapsed"}
  BY ConfigAssumption
<1>3. branches' \in [ID -> Branch]
  BY <1>1, <1>2, BoundAssumption DEF TypeOK, Journal, Journaled, Branch
<1>4. made' \in [Call -> [parent : ID \cup {NoBranch}, of : 0 .. MaxCalls]]
  <2>1. (IF p = NoBranch THEN 0 ELSE branches[p].call) \in 0 .. MaxCalls
    BY BoundAssumption DEF TypeOK, Branch
  <2> QED
    BY <1>1, <2>1 DEF TypeOK, Journal
<1>5. pc' \in [Call -> [ID -> Stage]]
  BY <1>1 DEF TypeOK, Journal, Stage
<1> QED
  BY <1>1, <1>3, <1>4, <1>5
  DEF TypeOK, Journal, backendVars, killVars, sweepVars

-----------------------------------------------------------------------------
\* Types along every step

USE DEF registryVars, backendVars, jobVars, killVars, sweepVars

\* Every step of create_parent and spawn_one keeps the types.
LEMMA JobType ==
    ASSUME TypeOK, NEW c \in Call, NEW b \in ID, Job(c, b)
    PROVE  TypeOK'
<1>1. CASE KvFork(c, b)
  <2>1. pc' \in [Call -> [ID -> Stage]]
    BY <1>1, GotoType DEF KvFork, Stage
  <2>2. faults' \in 0 .. MaxFaults
    BY <1>1, FaultType DEF KvFork
  <2> QED
    BY <1>1, <2>1, <2>2 DEF TypeOK, KvFork
<1>2. CASE SandboxSpawn(c, b)
  <2>1. pc' \in [Call -> [ID -> Stage]]
    BY <1>2, GotoType DEF SandboxSpawn, Stage
  <2>2. faults' \in 0 .. MaxFaults
    BY <1>2, FaultType DEF SandboxSpawn
  <2>3. sandbox' \in [ID -> {"none", "up", "dead"}]
    BY <1>2 DEF TypeOK, SandboxSpawn
  <2> QED
    BY <1>2, <2>1, <2>2, <2>3 DEF TypeOK, SandboxSpawn
<1>3. CASE Ready(c, b)
  <2>1. pc' \in [Call -> [ID -> Stage]]
    BY <1>3, GotoType DEF Ready, Stage
  <2>2. faults' \in 0 .. MaxFaults
    BY <1>3, FaultType DEF Ready
  <2> QED
    BY <1>3, <2>1, <2>2 DEF TypeOK, Ready
<1>4. CASE GoLive(c, b)
  <2>1. pc' \in [Call -> [ID -> Stage]]
    BY <1>4, GotoType DEF GoLive, Stage
  <2>2. faults' \in 0 .. MaxFaults
    BY <1>4, FaultType DEF GoLive
  <2>3. branches' \in [ID -> Branch]
    BY <1>4, SetStateType DEF GoLive, TypeOK
  <2> QED
    BY <1>4, <2>1, <2>2, <2>3 DEF TypeOK, GoLive
<1>5. CASE RollbackKv(c, b)
  <2>1. pc' \in [Call -> [ID -> Stage]]
    BY <1>5, GotoType DEF RollbackKv, Stage
  <2>2. faults' \in 0 .. MaxFaults
    BY <1>5, FaultType DEF RollbackKv
  <2> QED
    BY <1>5, <2>1, <2>2 DEF TypeOK, RollbackKv
<1>6. CASE RollbackSandbox(c, b)
  <2>1. pc' \in [Call -> [ID -> Stage]]
    BY <1>6, GotoType DEF RollbackSandbox, Stage
  <2>2. faults' \in 0 .. MaxFaults
    BY <1>6, FaultType DEF RollbackSandbox, SandboxKilled, SandboxKillRaises
  <2>3. sandbox' \in [ID -> {"none", "up", "dead"}]
    BY <1>6 DEF TypeOK, RollbackSandbox, SandboxKilled, SandboxKillRaises
  <2> QED
    BY <1>6, <2>1, <2>2, <2>3 DEF TypeOK, RollbackSandbox
<1>7. CASE RollbackForget(c, b)
  <2>1. pc' \in [Call -> [ID -> Stage]]
    BY <1>7, GotoType DEF RollbackForget, Stage
  <2>2. faults' \in 0 .. MaxFaults
    BY <1>7, FaultType DEF RollbackForget
  <2>3. branches' \in [ID -> Branch] /\ loaded' \subseteq ID
    BY <1>7, ForgetType DEF RollbackForget, TypeOK
  <2> QED
    BY <1>7, <2>1, <2>2, <2>3 DEF TypeOK, RollbackForget
<1>8. CASE Unmark(c, b)
  <2>1. pc' \in [Call -> [ID -> Stage]]
    BY <1>8, GotoType DEF Unmark, Stage
  <2>2. phase' \in Phase
    BY <1>8, NotifyType DEF Unmark
  <2> QED
    BY <1>8, <2>1, <2>2 DEF TypeOK, Unmark
<1> QED
  BY <1>1, <1>2, <1>3, <1>4, <1>5, <1>6, <1>7, <1>8 DEF Job

\* Starting a kill keeps the types of what it writes.
LEMMA StartKillType ==
    ASSUME TypeOK, NEW b \in ID, NEW k \in Kind \cup {"user"}, StartKill(b, k)
    PROVE  /\ branches' \in [ID -> Branch] /\ killing' \subseteq ID
           /\ kpc' \in [ID -> KillStage] /\ kby' \in [ID -> Kind \cup {"user"}]
BY SetStateType DEF TypeOK, StartKill, KillStage

LEMMA EndKillType ==
    ASSUME TypeOK, NEW b \in ID, EndKill(b)
    PROVE  /\ killing' \subseteq ID /\ kpc' \in [ID -> KillStage]
           /\ kby' \in [ID -> Kind \cup {"user"}] /\ phase' \in Phase
BY NotifyType DEF TypeOK, EndKill, KillStage

LEMMA RaiseInType ==
    ASSUME TypeOK, NEW k \in Kind \cup {"user"}, RaiseIn(k)
    PROVE  raised' \subseteq Kind /\ todo' \in [Kind -> SUBSET ID]
BY DEF TypeOK, RaiseIn

\* Every step of _kill keeps the types.
LEMMA KillStepType ==
    ASSUME TypeOK, NEW b \in ID, Kill(b) \/ KillStep(b)
    PROVE  TypeOK'
<1>1. CASE Kill(b)
  BY <1>1, StartKillType DEF TypeOK, Kill
<1>2. CASE KillSandbox(b)
  <2>1. faults' \in 0 .. MaxFaults
    BY <1>2, FaultType DEF KillSandbox, SandboxKilled, SandboxKillRaises
  <2>2. sandbox' \in [ID -> {"none", "up", "dead"}]
    BY <1>2 DEF TypeOK, KillSandbox, SandboxKilled, SandboxKillRaises
  <2>3. kpc' \in [ID -> KillStage]
    BY <1>2 DEF TypeOK, KillSandbox, KillStage
  <2> QED
    BY <1>2, <2>1, <2>2, <2>3 DEF TypeOK, KillSandbox
<1>3. CASE KillKv(b)
  <2>1. faults' \in 0 .. MaxFaults
    BY <1>3, FaultType DEF KillKv
  <2>2. kpc' \in [ID -> KillStage]
    BY <1>3 DEF TypeOK, KillKv, KillStage
  <2> QED
    BY <1>3, <2>1, <2>2 DEF TypeOK, KillKv
<1>4. CASE KillFailed(b)
  <2>1. kby[b] \in Kind \cup {"user"}
    BY DEF TypeOK
  <2> QED
    BY <1>4, <2>1, EndKillType, RaiseInType DEF TypeOK, KillFailed
<1>5. CASE KillForget(b)
  <2>1. kby[b] \in Kind \cup {"user"}
    BY DEF TypeOK
  <2>2. raised' \subseteq Kind /\ todo' \in [Kind -> SUBSET ID]
    BY <1>5, <2>1, RaiseInType DEF KillForget, TypeOK
  <2>3. branches' \in [ID -> Branch] /\ loaded' \subseteq ID
    BY <1>5, ForgetType DEF KillForget, TypeOK
  <2>4. faults' \in 0 .. MaxFaults
    BY <1>5, FaultType DEF KillForget
  <2> QED
    BY <1>5, <2>2, <2>3, <2>4, EndKillType DEF TypeOK, KillForget
<1> QED
  BY <1>1, <1>2, <1>3, <1>4, <1>5 DEF KillStep

\* Listing ids for a sweep keeps the types.
LEMMA StartSweepType ==
    ASSUME TypeOK, NEW k \in Kind, NEW L \in SUBSET ID, StartSweep(k, L)
    PROVE  /\ active' \subseteq Kind /\ todo' \in [Kind -> SUBSET ID]
           /\ seen' \in [Kind -> SUBSET (ID \X (0 .. MaxCalls))]
<1>1. {Incarnation(b) : b \in L} \subseteq ID \X (0 .. MaxCalls)
  BY DEF TypeOK, Incarnation, Branch
<1> QED
  BY <1>1 DEF TypeOK, StartSweep

LEMMA KillForType ==
    ASSUME TypeOK, NEW k \in Kind, NEW b \in ID, KillFor(k, b)
    PROVE  /\ branches' \in [ID -> Branch] /\ killing' \subseteq ID
           /\ kpc' \in [ID -> KillStage] /\ kby' \in [ID -> Kind \cup {"user"}]
           /\ raised' \subseteq Kind /\ retry' \subseteq ID
           /\ faults' \in 0 .. MaxFaults
<1>1. faults' \in 0 .. MaxFaults
  BY FaultType DEF KillFor
<1> QED
  BY <1>1, StartKillType DEF TypeOK, KillFor

LEMMA CollectDeadType ==
    ASSUME TypeOK, NEW b \in ID, NEW rest \in SUBSET ID, CollectDead(b, rest)
    PROVE  TypeOK'
BY KillForType DEF TypeOK, CollectDead, Kind

\* Every step of a sweep keeps the types.
LEMMA SweepType ==
    ASSUME TypeOK,
           \/ ReapExpired \/ Reconcile \/ ReviveOk \/ ReviveFails
           \/ \E b \in ID : KillLosers(b) \/ LosersRetry(b) \/ SweepDead(b)
           \/ \E k \in Kind : SweepStep(k)
    PROVE  TypeOK'
<1>1. CASE ReapExpired
  <2>1. Lapsed \ spawning \in SUBSET ID
    BY DEF Lapsed, Recorded
  <2> QED
    BY <1>1, <2>1, StartSweepType DEF TypeOK, ReapExpired, Kind
<1>2. CASE Reconcile
  <2>1. Stale \in SUBSET ID
    BY DEF TypeOK, Stale, Lapsed, Recorded
  <2> QED
    BY <1>2, <2>1, StartSweepType DEF TypeOK, Reconcile, Kind
<1>3. CASE ReviveOk
  BY <1>3 DEF TypeOK, ReviveOk
<1>4. CASE ReviveFails
  <2>1. reviving \in ID /\ todo["dead"] \in SUBSET ID
    BY <1>4 DEF TypeOK, ReviveFails, Kind
  <2> QED
    BY <1>4, <2>1, CollectDeadType DEF ReviveFails
<1>5. ASSUME NEW b \in ID, KillLosers(b)  PROVE TypeOK'
  <2>1. Recorded \ Keep(b) \in SUBSET ID
    BY DEF Recorded
  <2>2. winner' \in (ID \cup {NoBranch}) \X (0 .. MaxCalls)
    BY <1>5 DEF TypeOK, KillLosers, Incarnation, Branch
  <2> QED
    BY <1>5, <2>1, <2>2, StartSweepType DEF TypeOK, KillLosers, Kind
<1>6. ASSUME NEW b \in ID, LosersRetry(b)  PROVE TypeOK'
  <2>1. faults' \in 0 .. MaxFaults
    BY <1>6, FaultType DEF LosersRetry
  <2>2. /\ branches' \in [ID -> Branch] /\ killing' \subseteq ID
        /\ kpc' \in [ID -> KillStage] /\ kby' \in [ID -> Kind \cup {"user"}]
    BY <1>6, StartKillType DEF TypeOK, LosersRetry, Kind
  <2> QED
    BY <1>6, <2>1, <2>2 DEF TypeOK, LosersRetry, Kind
<1>7. ASSUME NEW b \in ID, SweepDead(b)  PROVE TypeOK'
  <2>1. todo["dead"] \ {b} \in SUBSET ID
    BY DEF TypeOK, Kind
  <2>2. CASE RestartDead /\ Live(b) /\ b \notin killing
    <3>1. /\ reviving' = b
          /\ todo' = [todo EXCEPT !["dead"] = todo["dead"] \ {b}]
          /\ UNCHANGED <<registryVars, backendVars, jobVars, killVars, active,
                         seen, retry, winner, raised, phase, faults, crashes>>
      BY <1>7, <2>2 DEF SweepDead
    <3> QED
      BY <2>1, <3>1 DEF TypeOK
  <2>3. CASE ~(RestartDead /\ Live(b) /\ b \notin killing)
    <3>1. CollectDead(b, todo["dead"] \ {b})
      BY <1>7, <2>3 DEF SweepDead
    <3> QED
      BY <2>1, <3>1, CollectDeadType
  <2> QED
    BY <2>2, <2>3
<1>8. ASSUME NEW k \in Kind, NEW b \in ID, Attempt(k, b)  PROVE TypeOK'
  BY <1>8, KillForType DEF TypeOK, Attempt
<1>9. ASSUME NEW k \in Kind, SweepReturn(k)  PROVE TypeOK'
  <2> DEFINE dead == {b \in ID : sandbox[b] = "dead"}
  <2>1. {Incarnation(b) : b \in dead} \subseteq ID \X (0 .. MaxCalls)
    BY DEF TypeOK, Incarnation, Branch
  <2>2. todo' \in [Kind -> SUBSET ID]
    BY <1>9 DEF TypeOK, SweepReturn
  <2>3. seen' \in [Kind -> SUBSET (ID \X (0 .. MaxCalls))]
    <3>1. CASE k = "reconcile" /\ Reaper /\ k \notin raised
      <4>1. seen' = [seen EXCEPT ![k] = {}, !["dead"] = {Incarnation(b) : b \in dead}]
        BY <1>9, <3>1 DEF SweepReturn
      <4> HIDE DEF dead
      <4> QED
        BY <2>1, <4>1 DEF TypeOK
    <3>2. CASE ~(k = "reconcile" /\ Reaper /\ k \notin raised)
      BY <1>9, <3>2 DEF TypeOK, SweepReturn
    <3> QED
      BY <3>1, <3>2
  <2>4. active' \subseteq Kind /\ raised' \subseteq Kind
    BY <1>9 DEF TypeOK, SweepReturn, Kind
  <2>5. winner' \in (ID \cup {NoBranch}) \X (0 .. MaxCalls) /\ retry' \subseteq ID
    BY <1>9, BoundAssumption DEF TypeOK, SweepReturn
  <2> QED
    BY <1>9, <2>2, <2>3, <2>4, <2>5 DEF TypeOK, SweepReturn
<1> QED
  BY <1>1, <1>2, <1>3, <1>4, <1>5, <1>6, <1>7, <1>8, <1>9 DEF SweepStep

LEMMA ForgetThreadsType ==
    ASSUME TypeOK, ForgetThreads
    PROVE  /\ spawning' \subseteq ID /\ killing' \subseteq ID
           /\ pc' \in [Call -> [ID -> Stage]]
           /\ kpc' \in [ID -> KillStage] /\ kby' \in [ID -> Kind \cup {"user"}]
           /\ active' \subseteq Kind /\ raised' \subseteq Kind
           /\ todo' \in [Kind -> SUBSET ID]
           /\ seen' \in [Kind -> SUBSET (ID \X (0 .. MaxCalls))]
           /\ retry' \subseteq ID
           /\ winner' \in (ID \cup {NoBranch}) \X (0 .. MaxCalls)
           /\ reviving' \in ID \cup {NoBranch}
           /\ ncalls' = ncalls /\ made' = made
BY BoundAssumption DEF ForgetThreads, Stage, KillStage

\* Leases, sandbox deaths, close, crashes and restarts keep the types.
LEMMA LifeType ==
    ASSUME TypeOK,
           \/ \E b \in ID : RenewLease(b) \/ LeaseLapses(b) \/ SandboxDies(b)
           \/ StopReaper \/ CloseBegin \/ CloseWakes \/ CloseEnd
           \/ Crash \/ Restart
    PROVE  TypeOK'
<1>1. ASSUME NEW b \in ID, RenewLease(b) \/ LeaseLapses(b)  PROVE TypeOK'
  <2>1. branches' \in [ID -> Branch]
    BY <1>1, SetLeaseType DEF RenewLease, LeaseLapses
  <2> QED
    BY <1>1, <2>1 DEF TypeOK, RenewLease, LeaseLapses
<1>2. ASSUME NEW b \in ID, SandboxDies(b)  PROVE TypeOK'
  BY <1>2, FaultType DEF TypeOK, SandboxDies
<1>3. CASE StopReaper
  BY <1>3 DEF TypeOK, StopReaper, Phase
<1>4. CASE Drain
  <2>1. Recorded \in SUBSET ID
    BY DEF Recorded
  <2>2. CASE spawning \cup killing # {}
    BY <1>4, <2>2 DEF TypeOK, Drain, Phase
  <2>3. CASE spawning \cup killing = {}
    <3>1. StartSweep("close", Recorded) /\ phase' = "sweeping"
      BY <1>4, <2>3 DEF Drain
    <3>2. /\ active' \subseteq Kind /\ todo' \in [Kind -> SUBSET ID]
          /\ seen' \in [Kind -> SUBSET (ID \X (0 .. MaxCalls))]
      BY <2>1, <3>1, StartSweepType DEF Kind
    <3> QED
      BY <1>4, <3>1, <3>2 DEF TypeOK, Drain, Phase
  <2> QED
    BY <2>2, <2>3
<1>5. CASE CloseEnd
  BY <1>5 DEF TypeOK, CloseEnd, Kind, Phase
<1>6. CASE Crash
  <2>1. crashes' \in 0 .. MaxCrashes
    BY <1>6, BoundAssumption DEF TypeOK, Crash
  <2>2. sandbox' \in [ID -> {"none", "up", "dead"}] /\ kv' \subseteq ID
    BY <1>6 DEF TypeOK, Crash
  <2> QED
    BY <1>6, <2>1, <2>2, ForgetThreadsType DEF TypeOK, Crash, Phase
<1>7. CASE Restart
  BY <1>7, ForgetThreadsType DEF TypeOK, Restart, Phase, Recorded
<1> QED
  BY <1>1, <1>2, <1>3, <1>4, <1>5, <1>6, <1>7 DEF CloseBegin, CloseWakes

LEMMA TypeStep == TypeOK /\ [Next]_vars => TypeOK'
<1> SUFFICES ASSUME TypeOK, [Next]_vars  PROVE TypeOK'
  OBVIOUS
<1>1. ASSUME NEW b \in ID, NEW l \in Leases, CreateParent(b, l)  PROVE TypeOK'
  BY <1>1, JournalType DEF CreateParent
<1>2. ASSUME NEW p \in ID, NEW C \in SUBSET ID, NEW l \in Leases, Fork(p, C, l)
      PROVE  TypeOK'
  BY <1>2, JournalType DEF Fork
<1>3. CASE UNCHANGED vars
  BY <1>3 DEF TypeOK, vars
<1> QED
  BY <1>1, <1>2, <1>3, JobType, KillStepType, SweepType, LifeType
  DEF Next, Caller, Environment

\* Every reachable state of every instance is well typed: no operation writes a
\* row, a marker or a list of the wrong kind.
THEOREM TypeCorrect == Spec => []TypeOK
<1>1. Init => TypeOK
  BY BoundAssumption
  DEF Init, TypeOK, Branch, Absent, Stage, KillStage, Phase
<1> QED
  BY <1>1, TypeStep, PTL DEF Spec

-----------------------------------------------------------------------------
\* The inductive invariant Agreement, one lemma per kind of step

\* Steps that only list branches or move close() on touch nothing it speaks of.
LEMMA QuietStep ==
    ASSUME Agreement, phase' # "down" => phase # "down",
           UNCHANGED <<registryVars, backendVars, spawning, pc, killing, kpc, reviving>>
    PROVE  Agreement'
BY DEF Agreement, JobsMarked, JobsRecorded, JobsAlone, KillsMarked, HalvesThere,
       HalvesGone, NoLeak, LiveIsWhole, Busy, Live, Recorded

\* Journaling: the ids are fresh, so they hold nothing and nobody works on them.
LEMMA JournalKeeps ==
    ASSUME Settled, TypeOK, Agreement,
           NEW C \in SUBSET ID, NEW p \in ID \cup {NoBranch}, NEW l \in Leases,
           C \subseteq Fresh, Journal(C, p, l)
    PROVE  Agreement'
<1>0. \A b \in C : b \notin spawning /\ branches[b].state = "absent"
  BY DEF Settled, Fresh, Recorded
<1>1. ncalls + 1 \in Call
  BY BoundAssumption DEF TypeOK, Journal
<1>2. \A c \in Call, b \in ID :
         pc'[c][b] = IF c # ncalls + 1 THEN pc[c][b]
                     ELSE IF b \in C THEN "kv" ELSE "none"
  BY <1>1 DEF TypeOK, Journal
<1>3. \A b \in ID :
         /\ b \in C => branches'[b].state = "forking" /\ branches'[b].call = ncalls + 1
         /\ b \notin C => branches'[b] = branches[b]
  BY DEF Journal, Journaled
<1>4. JobsMarked' /\ JobsAlone'
  BY <1>0, <1>2 DEF Agreement, JobsMarked, JobsAlone, Busy, Journal
<1>5. JobsRecorded'
  BY <1>0, <1>2, <1>3 DEF Agreement, JobsMarked, JobsRecorded, Busy
<1>6. KillsMarked'
  BY <1>0, <1>3 DEF Agreement, KillsMarked, Journal
<1>7. HalvesThere' /\ HalvesGone'
  BY <1>2 DEF Agreement, HalvesThere, HalvesGone, Journal
<1>8. NoLeak' /\ LiveIsWhole'
  BY <1>3 DEF Agreement, NoLeak, LiveIsWhole, Live, Recorded, Journal
<1> QED
  BY <1>4, <1>5, <1>6, <1>7, <1>8 DEF Agreement, Journal

\* A kill starts on a branch that nobody is forking or killing.
LEMMA StartKillKeeps ==
    ASSUME TypeOK, Agreement, NEW b \in ID, NEW k \in Kind \cup {"user"},
           Killable(b), StartKill(b, k),
           UNCHANGED <<loaded, backendVars, spawning, pc, phase, reviving>>
    PROVE  Agreement'
<1>1. \A d \in ID : branches'[d].state = (IF d = b THEN "killing" ELSE branches[d].state)
                 /\ branches'[d].call = branches[d].call
  BY DEF TypeOK, StartKill, SetState, Branch
<1>2. \A d \in ID : kpc'[d] = IF d = b THEN "sandbox" ELSE kpc[d]
  BY DEF TypeOK, StartKill
<1>3. b \notin spawning /\ branches[b].state # "absent"
  BY DEF Killable, Recorded
<1>4. JobsMarked' /\ JobsAlone' /\ JobsRecorded'
  BY <1>1, <1>3 DEF Agreement, JobsMarked, JobsAlone, JobsRecorded, Busy
<1>5. KillsMarked'
  BY <1>1, <1>2, <1>3 DEF Agreement, KillsMarked, StartKill
<1>6. HalvesThere' /\ HalvesGone'
  BY <1>2 DEF Agreement, HalvesThere, HalvesGone
<1>7. NoLeak' /\ LiveIsWhole'
  BY <1>1, <1>3 DEF Agreement, NoLeak, LiveIsWhole, Live, Recorded
<1> QED
  BY <1>4, <1>5, <1>6, <1>7 DEF Agreement

\* Leases and sandbox deaths change neither a row's state nor what is held.
LEMMA LeaseKeeps ==
    ASSUME TypeOK, Agreement, NEW b \in ID, RenewLease(b) \/ LeaseLapses(b)
    PROVE  Agreement'
<1>1. \A d \in ID : /\ branches'[d].state = branches[d].state
                    /\ branches'[d].call = branches[d].call
  <2>1. PICK l \in {"held", "lapsed"} : branches' = [branches EXCEPT ![b].lease = l]
    BY DEF RenewLease, LeaseLapses
  <2> QED
    BY <2>1 DEF TypeOK, Branch
<1>2. UNCHANGED <<loaded, backendVars, spawning, pc, killing, kpc, phase, reviving>>
  BY DEF RenewLease, LeaseLapses
<1> QED
  BY <1>1, <1>2
  DEF Agreement, JobsMarked, JobsRecorded, JobsAlone, KillsMarked, HalvesThere,
      HalvesGone, NoLeak, LiveIsWhole, Busy, Live, Recorded

LEMMA DeathKeeps ==
    ASSUME TypeOK, Agreement, NEW b \in ID, SandboxDies(b)
    PROVE  Agreement'
<1>1. \A d \in ID : sandbox'[d] = "none" <=> sandbox[d] = "none"
  BY DEF TypeOK, SandboxDies
<1>2. UNCHANGED <<registryVars, kv, spawning, pc, killing, kpc, phase, reviving>>
  BY DEF SandboxDies
<1> QED
  BY <1>1, <1>2
  DEF Agreement, JobsMarked, JobsRecorded, JobsAlone, KillsMarked, HalvesThere,
      HalvesGone, NoLeak, LiveIsWhole, Busy, Live, Recorded

\* A crash ends every thread and may lose halves; a restart marks every row as
\* loaded, so that nothing is promised about it.
LEMMA CrashKeeps ==
    ASSUME TypeOK, Agreement, Crash
    PROVE  Agreement'
<1>1. /\ \A c \in Call, b \in ID : pc'[c][b] = "none"
      /\ \A b \in ID : kpc'[b] = "none"
      /\ reviving' = NoBranch
  BY DEF Crash, ForgetThreads
<1>2. /\ kv' \subseteq kv
      /\ \A b \in ID : sandbox[b] = "none" => sandbox'[b] = "none"
      /\ branches' = branches /\ phase' = "down"
  BY DEF Crash
<1> QED
  BY <1>1, <1>2
  DEF Agreement, JobsMarked, JobsRecorded, JobsAlone, KillsMarked, HalvesThere,
      HalvesGone, NoLeak, LiveIsWhole, Busy, Live, Recorded

LEMMA RestartKeeps ==
    ASSUME TypeOK, Agreement, Restart
    PROVE  Agreement'
<1>1. /\ \A c \in Call, b \in ID : pc'[c][b] = "none"
      /\ \A b \in ID : kpc'[b] = "none"
      /\ reviving' = NoBranch
  BY DEF Restart, ForgetThreads
<1>2. UNCHANGED <<branches, backendVars>> /\ loaded' = Recorded
  BY DEF Restart
<1> QED
  BY <1>1, <1>2
  DEF Agreement, JobsMarked, JobsRecorded, JobsAlone, KillsMarked, HalvesThere,
      HalvesGone, NoLeak, LiveIsWhole, Busy, Live, Recorded

\* What a job may rely on: it is alone on its id, and no kill is beside it.
LEMMA JobFacts ==
    ASSUME TypeOK, Agreement, NEW c \in Call, NEW b \in ID, Busy(c, b)
    PROVE  /\ b \in spawning /\ kpc[b] = "none"
           /\ \A d \in Call : d # c => pc[d][b] = "none"
           /\ pc[c][b] # "unmark" => branches[b].state = "forking" /\ branches[b].call = c
BY DEF Agreement, JobsMarked, JobsAlone, JobsRecorded, KillsMarked, Busy

\* A job's move from one stage to the next, as a table.
LEMMA GotoTable ==
    ASSUME TypeOK, NEW c \in Call, NEW b \in ID, NEW s \in Stage, Goto(c, b, s)
    PROVE  \A d \in Call, e \in ID : pc'[d][e] = IF d = c /\ e = b THEN s ELSE pc[d][e]
BY DEF TypeOK, Goto

\* Acquiring, waiting, and releasing halves under the job's own "forking" row.
LEMMA JobBackendKeeps ==
    ASSUME TypeOK, Agreement, NEW c \in Call, NEW b \in ID,
           \/ KvFork(c, b) \/ SandboxSpawn(c, b) \/ Ready(c, b)
           \/ RollbackKv(c, b) \/ RollbackSandbox(c, b)
    PROVE  Agreement'
<1>1. Busy(c, b) /\ pc[c][b] # "unmark"
  BY DEF KvFork, SandboxSpawn, Ready, RollbackKv, RollbackSandbox, Busy
<1>2. /\ b \in spawning /\ kpc[b] = "none"
      /\ \A d \in Call : d # c => pc[d][b] = "none"
      /\ branches[b].state = "forking" /\ branches[b].call = c
  BY <1>1, JobFacts
<1>3. UNCHANGED <<registryVars, spawning, killing, kpc, phase, reviving>>
  BY DEF KvFork, SandboxSpawn, Ready, RollbackKv, RollbackSandbox
<1>4. PICK s \in Stage \ {"none"} : Goto(c, b, s)
  BY DEF KvFork, SandboxSpawn, Ready, RollbackKv, RollbackSandbox, Stage
<1>5. \A d \in Call, e \in ID : pc'[d][e] = IF d = c /\ e = b THEN s ELSE pc[d][e]
  BY <1>4, GotoTable
<1>6. \A e \in ID : e # b => (e \in kv' <=> e \in kv) /\ sandbox'[e] = sandbox[e]
  BY DEF TypeOK, KvFork, SandboxSpawn, Ready, RollbackKv, RollbackSandbox,
         SandboxKilled, SandboxKillRaises
<1>7. JobsMarked' /\ JobsAlone' /\ JobsRecorded' /\ KillsMarked'
  BY <1>1, <1>2, <1>3, <1>5
  DEF Agreement, JobsMarked, JobsAlone, JobsRecorded, KillsMarked, Busy
<1>8. NoLeak' /\ LiveIsWhole'
  BY <1>2, <1>3, <1>6 DEF Agreement, NoLeak, LiveIsWhole, Live, Recorded
<1>9. /\ s \in {"sandbox", "ready", "golive"} => b \in kv'
      /\ s \in {"ready", "golive"} => sandbox'[b] # "none"
      /\ s \in {"rb_sandbox", "rb_forget"} => b \notin kv'
      /\ s = "rb_forget" => sandbox'[b] = "none"
  <2>0. \A x \in Stage : Goto(c, b, x) => x = s
    BY <1>5, GotoTable
  <2>1. CASE KvFork(c, b)
    BY <2>0, <2>1 DEF KvFork, Stage
  <2>2. CASE SandboxSpawn(c, b)
    <3>1. b \in kv' /\ (sandbox'[b] # "none" \/ s = "rb_kv")
      BY <2>0, <2>2 DEF TypeOK, SandboxSpawn, Agreement, HalvesThere, Stage
    <3>2. s \in {"ready", "golive", "rb_kv"}
      BY <2>0, <2>2 DEF SandboxSpawn, Stage
    <3> QED
      BY <3>1, <3>2
  <2>3. CASE Ready(c, b)
    BY <2>0, <2>3 DEF Ready, Agreement, HalvesThere, Stage
  <2>4. CASE RollbackKv(c, b)
    BY <2>0, <2>4 DEF RollbackKv, Stage
  <2>5. CASE RollbackSandbox(c, b)
    BY <2>0, <2>5
    DEF TypeOK, RollbackSandbox, Agreement, HalvesGone, SandboxKilled, Stage
  <2> QED
    BY <2>1, <2>2, <2>3, <2>4, <2>5
<1>10. HalvesThere' /\ HalvesGone'
  BY <1>2, <1>3, <1>5, <1>6, <1>9 DEF Agreement, HalvesThere, HalvesGone
<1> QED
  BY <1>3, <1>7, <1>8, <1>10 DEF Agreement

\* Going live, dropping the row, dropping the marker.
LEMMA JobRegistryKeeps ==
    ASSUME TypeOK, Agreement, NEW c \in Call, NEW b \in ID,
           GoLive(c, b) \/ RollbackForget(c, b) \/ Unmark(c, b)
    PROVE  Agreement'
<1>1. Busy(c, b)
  BY DEF GoLive, RollbackForget, Unmark, Busy
<1>2. /\ b \in spawning /\ kpc[b] = "none"
      /\ \A d \in Call : d # c => pc[d][b] = "none"
      /\ pc[c][b] # "unmark" => branches[b].state = "forking" /\ branches[b].call = c
  BY <1>1, JobFacts
<1>3. UNCHANGED <<backendVars, killing, kpc, reviving>> /\ loaded' \subseteq loaded
  BY DEF GoLive, RollbackForget, Unmark, Forget
<1>4. CASE GoLive(c, b)
  <2>1. PICK s \in {"unmark", "rb_kv"} :
          /\ Goto(c, b, s)
          /\ s = "rb_kv" => UNCHANGED branches
          /\ s = "unmark" => SetState(b, "live")
    BY <1>4 DEF GoLive
  <2>2. \A d \in Call, e \in ID : pc'[d][e] = IF d = c /\ e = b THEN s ELSE pc[d][e]
    BY <2>1, GotoTable DEF Stage
  <2>3. /\ \A e \in ID : e # b => branches'[e] = branches[e]
        /\ branches'[b].call = branches[b].call
        /\ branches'[b].state = IF s = "unmark" THEN "live" ELSE "forking"
    BY <1>2, <1>4, <2>1 DEF TypeOK, SetState, Branch, GoLive
  <2>4. UNCHANGED <<loaded, spawning, phase>> /\ pc[c][b] = "golive"
    BY <1>4 DEF GoLive
  <2>5. b \in kv /\ sandbox[b] # "none"
    BY <2>4 DEF Agreement, HalvesThere
  <2>6. JobsMarked' /\ JobsAlone'
    BY <1>2, <2>2, <2>4 DEF Agreement, JobsMarked, JobsAlone, Busy
  <2>7. JobsRecorded' /\ KillsMarked'
    BY <1>2, <1>3, <2>2, <2>3, <2>4 DEF Agreement, JobsRecorded, KillsMarked, Busy
  <2>8. HalvesThere' /\ HalvesGone'
    BY <1>3, <2>2 DEF Agreement, HalvesThere, HalvesGone
  <2>9. NoLeak' /\ LiveIsWhole'
    BY <1>3, <2>3, <2>4, <2>5 DEF Agreement, NoLeak, LiveIsWhole, Live, Recorded
  <2> QED
    BY <1>3, <2>6, <2>7, <2>8, <2>9 DEF Agreement
<1>5. CASE RollbackForget(c, b)
  <2>1. Goto(c, b, "unmark") /\ pc[c][b] = "rb_forget" /\ UNCHANGED <<spawning, phase>>
    BY <1>5 DEF RollbackForget
  <2>2. \A d \in Call, e \in ID :
          pc'[d][e] = IF d = c /\ e = b THEN "unmark" ELSE pc[d][e]
    BY <2>1, GotoTable DEF Stage
  <2>3. /\ \A e \in ID : e # b => branches'[e] = branches[e] /\ (e \in loaded' <=> e \in loaded)
        /\ branches'[b].state \in {"absent", "forking"}
    BY <1>2, <1>5, <2>1 DEF TypeOK, RollbackForget, Forget, Absent
  <2>4. b \notin kv /\ sandbox[b] = "none"
    BY <2>1 DEF Agreement, HalvesGone
  <2>5. JobsMarked' /\ JobsAlone'
    BY <1>2, <2>1, <2>2 DEF Agreement, JobsMarked, JobsAlone, Busy
  <2>6. JobsRecorded' /\ KillsMarked'
    BY <1>2, <1>3, <2>1, <2>2, <2>3 DEF Agreement, JobsRecorded, KillsMarked, Busy
  <2>7. HalvesThere' /\ HalvesGone'
    BY <1>3, <2>2 DEF Agreement, HalvesThere, HalvesGone
  <2>8. NoLeak' /\ LiveIsWhole'
    BY <1>3, <2>1, <2>3, <2>4 DEF Agreement, NoLeak, LiveIsWhole, Live, Recorded
  <2> QED
    BY <1>3, <2>5, <2>6, <2>7, <2>8 DEF Agreement
<1>6. CASE Unmark(c, b)
  <2>1. Goto(c, b, "none") /\ spawning' = spawning \ {b} /\ UNCHANGED registryVars
    BY <1>6 DEF Unmark
  <2>2. \A d \in Call, e \in ID :
          pc'[d][e] = IF d = c /\ e = b THEN "none" ELSE pc[d][e]
    BY <2>1, GotoTable DEF Stage
  <2>3. phase' # "down" => phase # "down"
    BY <1>6 DEF Unmark, Notify
  <2>4. JobsMarked' /\ JobsAlone' /\ JobsRecorded' /\ KillsMarked'
    BY <1>2, <1>3, <2>1, <2>2
    DEF Agreement, JobsMarked, JobsAlone, JobsRecorded, KillsMarked, Busy
  <2>5. HalvesThere' /\ HalvesGone'
    BY <1>3, <2>2 DEF Agreement, HalvesThere, HalvesGone
  <2>6. NoLeak' /\ LiveIsWhole'
    BY <1>3, <2>1, <2>3 DEF Agreement, NoLeak, LiveIsWhole, Live, Recorded
  <2> QED
    BY <1>3, <2>4, <2>5, <2>6 DEF Agreement
<1> QED
  BY <1>4, <1>5, <1>6

\* A kill releases the halves under its "killing" row and drops the row last.
LEMMA KillStepKeeps ==
    ASSUME TypeOK, Agreement, NEW b \in ID, KillStep(b)
    PROVE  Agreement'
<1>1. /\ b \notin spawning /\ branches[b].state = "killing"
      /\ \A c \in Call : pc[c][b] = "none"
  BY DEF Agreement, KillsMarked, JobsMarked, Busy, KillStep, KillSandbox, KillKv,
         KillFailed, KillForget
<1>2. UNCHANGED <<spawning, pc, reviving>>
  BY DEF KillStep, KillSandbox, KillKv, KillFailed, KillForget
<1>3. CASE KillSandbox(b) \/ KillKv(b)
  <2>1. UNCHANGED <<registryVars, killing, phase>>
    BY <1>3 DEF KillSandbox, KillKv
  <2>2. PICK s \in {"kv", "forget", "fail"} : kpc' = [kpc EXCEPT ![b] = s]
    BY <1>3 DEF KillSandbox, KillKv
  <2>3. \A e \in ID : kpc'[e] = IF e = b THEN s ELSE kpc[e]
    BY <2>2 DEF TypeOK
  <2>4. \A e \in ID : e # b => (e \in kv' <=> e \in kv) /\ sandbox'[e] = sandbox[e]
    BY <1>3 DEF TypeOK, KillSandbox, KillKv, SandboxKilled, SandboxKillRaises
  <2>5. JobsMarked' /\ JobsAlone' /\ JobsRecorded'
    BY <1>2, <2>1 DEF Agreement, JobsMarked, JobsAlone, JobsRecorded, Busy
  <2>6. KillsMarked'
    BY <1>2, <1>3, <2>1, <2>3 DEF Agreement, KillsMarked, KillSandbox, KillKv
  <2>7. /\ s \in {"kv", "forget"} => sandbox'[b] = "none"
        /\ s = "forget" => b \notin kv'
    BY <1>3, <2>3 DEF TypeOK, Agreement, HalvesGone, KillSandbox, KillKv, SandboxKilled
  <2>8. HalvesThere' /\ HalvesGone'
    BY <1>1, <1>2, <2>3, <2>4, <2>7 DEF Agreement, HalvesThere, HalvesGone
  <2>9. NoLeak' /\ LiveIsWhole'
    BY <1>1, <2>1, <2>4 DEF Agreement, NoLeak, LiveIsWhole, Live, Recorded
  <2> QED
    BY <1>2, <2>5, <2>6, <2>8, <2>9 DEF Agreement
<1>4. CASE KillFailed(b) \/ KillForget(b)
  <2>1. UNCHANGED backendVars /\ EndKill(b)
    BY <1>4 DEF KillFailed, KillForget
  <2>2. /\ \A e \in ID : kpc'[e] = IF e = b THEN "none" ELSE kpc[e]
        /\ killing' = killing \ {b}
        /\ phase' # "down" => phase # "down"
    BY <2>1 DEF TypeOK, EndKill, Notify
  <2>3. /\ \A e \in ID : e # b => branches'[e] = branches[e] /\ (e \in loaded' <=> e \in loaded)
        /\ \/ branches'[b].state = "killing"
           \/ branches'[b].state = "absent" /\ b \notin kv /\ sandbox[b] = "none"
    <3>1. CASE UNCHANGED registryVars
      BY <1>1, <3>1
    <3>2. CASE KillForget(b) /\ Forget(b)
      BY <3>2 DEF TypeOK, KillForget, Forget, Absent, Agreement, HalvesGone
    <3> QED
      BY <1>4, <3>1, <3>2 DEF KillFailed, KillForget
  <2>4. JobsMarked' /\ JobsAlone' /\ JobsRecorded'
    BY <1>1, <1>2, <2>3 DEF Agreement, JobsMarked, JobsAlone, JobsRecorded, Busy
  <2>5. KillsMarked'
    BY <1>2, <2>2, <2>3 DEF Agreement, KillsMarked
  <2>6. HalvesThere' /\ HalvesGone'
    BY <1>2, <2>1, <2>2 DEF Agreement, HalvesThere, HalvesGone
  <2>7. NoLeak' /\ LiveIsWhole'
    BY <2>1, <2>2, <2>3 DEF Agreement, NoLeak, LiveIsWhole, Live, Recorded
  <2> QED
    BY <1>2, <2>4, <2>5, <2>6, <2>7 DEF Agreement
<1> QED
  BY <1>3, <1>4 DEF KillStep

\* A sweep's kill either starts or leaves the registry alone.
LEMMA KillForKeeps ==
    ASSUME TypeOK, Agreement, NEW k \in Kind, NEW b \in ID, KillFor(k, b),
           UNCHANGED <<loaded, backendVars, spawning, pc, phase, reviving>>
    PROVE  Agreement'
<1>1. CASE Killable(b) /\ StartKill(b, k)
  BY <1>1, StartKillKeeps
<1>2. CASE UNCHANGED <<branches, killVars>>
  BY <1>2, QuietStep
<1> QED
  BY <1>1, <1>2 DEF KillFor

LEMMA SweepKeeps ==
    ASSUME Settled, TypeOK, Agreement,
           \/ ReapExpired \/ Reconcile \/ ReviveOk \/ ReviveFails
           \/ \E b \in ID : KillLosers(b) \/ LosersRetry(b) \/ SweepDead(b)
           \/ \E k \in Kind : SweepStep(k)
    PROVE  Agreement'
<1>0. reviving = NoBranch
  BY DEF Agreement
<1>1. CASE ReapExpired \/ Reconcile
  BY <1>1, QuietStep DEF ReapExpired, Reconcile
<1>2. ~ReviveOk /\ ~ReviveFails
  BY <1>0 DEF ReviveOk, ReviveFails
<1>3. ASSUME NEW b \in ID, KillLosers(b)  PROVE Agreement'
  BY <1>3, QuietStep DEF KillLosers
<1>4. ASSUME NEW b \in ID, LosersRetry(b)  PROVE Agreement'
  <2>1. UNCHANGED <<loaded, backendVars, spawning, pc, phase, reviving>>
    BY <1>4 DEF LosersRetry
  <2>2. CASE Killable(b) /\ StartKill(b, "losers")
    BY <2>1, <2>2, StartKillKeeps DEF Kind
  <2>3. CASE UNCHANGED <<branches, killVars>>
    BY <2>1, <2>3, QuietStep
  <2> QED
    BY <1>4, <2>2, <2>3 DEF LosersRetry
<1>5. ASSUME NEW b \in ID, SweepDead(b)  PROVE Agreement'
  <2>1. CollectDead(b, todo["dead"] \ {b})
    BY <1>5 DEF Settled, SweepDead
  <2> QED
    BY <1>0, <2>1, KillForKeeps DEF CollectDead, Kind
<1>6. ASSUME NEW k \in Kind, NEW b \in ID, Attempt(k, b)  PROVE Agreement'
  BY <1>6, KillForKeeps DEF Attempt
<1>7. ASSUME NEW k \in Kind, SweepReturn(k)  PROVE Agreement'
  <2>1. UNCHANGED <<registryVars, backendVars, jobVars, killVars, reviving, phase>>
    BY <1>7 DEF SweepReturn
  <2> QED
    BY <2>1, QuietStep
<1> QED
  BY <1>1, <1>2, <1>3, <1>4, <1>5, <1>6, <1>7 DEF SweepStep

LEMMA CloseKeeps ==
    ASSUME TypeOK, Agreement, StopReaper \/ CloseBegin \/ CloseWakes \/ CloseEnd
    PROVE  Agreement'
<1>1. /\ UNCHANGED <<registryVars, backendVars, jobVars, killVars, reviving>>
      /\ phase # "down"
  BY DEF StopReaper, CloseBegin, CloseWakes, CloseEnd, Drain
<1> QED
  BY <1>1, QuietStep

LEMMA AgreementStep == Settled /\ TypeOK /\ Agreement /\ [Next]_vars => Agreement'
<1> SUFFICES ASSUME Settled, TypeOK, Agreement, [Next]_vars  PROVE Agreement'
  OBVIOUS
<1>1. ASSUME NEW b \in ID, NEW l \in Leases, CreateParent(b, l)  PROVE Agreement'
  BY <1>1, JournalKeeps DEF CreateParent
<1>2. ASSUME NEW p \in ID, NEW C \in SUBSET ID, NEW l \in Leases, Fork(p, C, l)
      PROVE  Agreement'
  BY <1>2, JournalKeeps DEF Fork
<1>3. ASSUME NEW b \in ID, Kill(b)  PROVE Agreement'
  BY <1>3, StartKillKeeps DEF Kill
<1>4. CASE UNCHANGED vars
  BY <1>4, QuietStep DEF vars
<1>5. ASSUME NEW c \in Call, NEW b \in ID, Job(c, b)  PROVE Agreement'
  BY <1>5, JobBackendKeeps, JobRegistryKeeps DEF Job
<1> QED
  BY <1>1, <1>2, <1>3, <1>4, <1>5, KillStepKeeps, SweepKeeps, CloseKeeps,
     LeaseKeeps, DeathKeeps, CrashKeeps, RestartKeeps
  DEF Next, Caller, Environment

-----------------------------------------------------------------------------
\* The theorems

\* For any ids, bounds, faults and crashes: the registry, the in-flight markers
\* and the backends agree in every reachable state.
THEOREM AgreementHolds == Settled => (Spec => []Agreement)
<1> SUFFICES ASSUME Settled  PROVE Spec => []Agreement
  OBVIOUS
<1>1. Init => Agreement
  BY DEF Init, Agreement, JobsMarked, JobsRecorded, JobsAlone, KillsMarked,
         HalvesThere, HalvesGone, NoLeak, LiveIsWhole, Busy, Live, Recorded, Absent
<1>2. TypeOK /\ Agreement /\ [Next]_vars => Agreement'
  BY AgreementStep
<1> QED
  BY <1>1, <1>2, TypeCorrect, PTL DEF Spec

\* No KV branch and no sandbox is ever without a registry row: fork journals
\* before it acquires, rollback and kill forget last, crashes lose no rows.
THEOREM NothingLeaks == Settled => (Spec => []NoLeak)
<1>1. Agreement => NoLeak
  BY DEF Agreement
<1> QED
  BY <1>1, AgreementHolds, PTL

\* A branch that reads "live" is never half-created.
THEOREM LiveBranchesAreWhole == Settled => (Spec => []LiveIsWhole)
<1>1. Agreement => LiveIsWhole
  BY DEF Agreement
<1> QED
  BY <1>1, AgreementHolds, PTL

\* Two operations never work on one branch id at the same time.
THEOREM WorkersExclude == Settled => (Spec => []OneWorkerPerId)
<1>1. Agreement => OneWorkerPerId
  BY DEF Agreement, JobsMarked, JobsAlone, KillsMarked, OneWorkerPerId, Busy
<1> QED
  BY <1>1, AgreementHolds, PTL

-----------------------------------------------------------------------------
\* The KV half alone.  With RestartDead the reaper may revive the sandbox of a
\* branch that is killed meanwhile, and Agreement does not hold; what it says of
\* the registry, the markers and the KV branches does.

\* What rollbacks and kills have released of the KV half at each stage.
KvGone ==
    /\ \A c \in Call, b \in ID : pc[c][b] \in {"rb_sandbox", "rb_forget"} => b \notin kv
    /\ \A b \in ID : kpc[b] = "forget" => b \notin kv

KvAgreement ==
    /\ JobsMarked /\ JobsRecorded /\ JobsAlone /\ KillsMarked
    /\ KvGone /\ OnlySandboxOrphans

\* Steps that leave the rows' states, the markers and the KV branches alone.
LEMMA QuietKv ==
    ASSUME KvAgreement, UNCHANGED <<kv, spawning, pc, killing, kpc>>,
           \A b \in ID : /\ branches'[b].state = branches[b].state
                         /\ branches'[b].call = branches[b].call
    PROVE  KvAgreement'
BY DEF KvAgreement, JobsMarked, JobsRecorded, JobsAlone, KillsMarked, KvGone,
       OnlySandboxOrphans, Busy, Recorded

\* Journaling takes ids that hold no KV branch and that nobody works on.
LEMMA JournalKv ==
    ASSUME ~RacingReuse, TypeOK, KvAgreement,
           NEW C \in SUBSET ID, NEW p \in ID \cup {NoBranch}, NEW l \in Leases,
           C \subseteq Fresh, Journal(C, p, l)
    PROVE  KvAgreement'
<1>0. \A b \in C : b \notin spawning /\ branches[b].state = "absent"
  BY DEF Fresh, Recorded
<1>1. ncalls + 1 \in Call
  BY BoundAssumption DEF TypeOK, Journal
<1>2. \A c \in Call, b \in ID :
         pc'[c][b] = IF c # ncalls + 1 THEN pc[c][b]
                     ELSE IF b \in C THEN "kv" ELSE "none"
  BY <1>1 DEF TypeOK, Journal
<1>3. \A b \in ID :
         /\ b \in C => branches'[b].state = "forking" /\ branches'[b].call = ncalls + 1
         /\ b \notin C => branches'[b] = branches[b]
  BY DEF Journal, Journaled
<1>4. JobsMarked' /\ JobsAlone'
  BY <1>0, <1>2 DEF KvAgreement, JobsMarked, JobsAlone, Busy, Journal
<1>5. JobsRecorded'
  BY <1>0, <1>2, <1>3 DEF KvAgreement, JobsMarked, JobsRecorded, Busy
<1>6. KillsMarked'
  BY <1>0, <1>3 DEF KvAgreement, KillsMarked, Journal
<1>7. KvGone' /\ OnlySandboxOrphans'
  BY <1>2, <1>3 DEF TypeOK, KvAgreement, KvGone, OnlySandboxOrphans, Recorded, Journal
<1> QED
  BY <1>4, <1>5, <1>6, <1>7 DEF KvAgreement

LEMMA StartKillKv ==
    ASSUME TypeOK, KvAgreement, NEW b \in ID, NEW k \in Kind \cup {"user"},
           Killable(b), StartKill(b, k), UNCHANGED <<kv, spawning, pc>>
    PROVE  KvAgreement'
<1>1. \A d \in ID : branches'[d].state = (IF d = b THEN "killing" ELSE branches[d].state)
                 /\ branches'[d].call = branches[d].call
  BY DEF TypeOK, StartKill, SetState, Branch
<1>2. \A d \in ID : kpc'[d] = IF d = b THEN "sandbox" ELSE kpc[d]
  BY DEF TypeOK, StartKill
<1>3. b \notin spawning /\ branches[b].state # "absent"
  BY DEF Killable, Recorded
<1>4. JobsMarked' /\ JobsAlone' /\ JobsRecorded'
  BY <1>1, <1>3 DEF KvAgreement, JobsMarked, JobsAlone, JobsRecorded, Busy
<1>5. KillsMarked' /\ KvGone'
  BY <1>1, <1>2, <1>3 DEF KvAgreement, KillsMarked, KvGone, StartKill
<1>6. OnlySandboxOrphans'
  BY <1>1, <1>3 DEF TypeOK, KvAgreement, OnlySandboxOrphans, Recorded
<1> QED
  BY <1>4, <1>5, <1>6 DEF KvAgreement

\* A job acquires and releases its KV branch under its own row, and drops the
\* row after the KV branch is gone.
LEMMA JobKv ==
    ASSUME TypeOK, KvAgreement, NEW c \in Call, NEW b \in ID, Job(c, b)
    PROVE  KvAgreement'
<1>1. Busy(c, b)
  BY DEF Job, KvFork, SandboxSpawn, Ready, GoLive, RollbackKv, RollbackSandbox,
         RollbackForget, Unmark, Busy
<1>2. /\ b \in spawning /\ kpc[b] = "none"
      /\ \A d \in Call : d # c => pc[d][b] = "none"
      /\ pc[c][b] # "unmark" => branches[b].state = "forking" /\ branches[b].call = c
  BY <1>1 DEF KvAgreement, JobsMarked, JobsAlone, JobsRecorded, KillsMarked, Busy
<1>3. UNCHANGED <<killing, kpc>>
  BY DEF Job, KvFork, SandboxSpawn, Ready, GoLive, RollbackKv, RollbackSandbox,
         RollbackForget, Unmark
<1>4. PICK s \in Stage : Goto(c, b, s)
  BY DEF Job, KvFork, SandboxSpawn, Ready, GoLive, RollbackKv, RollbackSandbox,
         RollbackForget, Unmark, Stage
<1>5. \A d \in Call, e \in ID : pc'[d][e] = IF d = c /\ e = b THEN s ELSE pc[d][e]
  BY <1>4, GotoTable
<1>6. \A x \in Stage : Goto(c, b, x) => x = s
  BY <1>5, GotoTable
<1>7. \A e \in ID : e # b => /\ e \in kv' <=> e \in kv
                             /\ e \in spawning' <=> e \in spawning
                             /\ branches'[e] = branches[e]
  BY DEF TypeOK, Job, KvFork, SandboxSpawn, Ready, GoLive, RollbackKv, RollbackSandbox,
         RollbackForget, Unmark, Forget, SetState
<1>8. /\ s # "none" => b \in spawning'
      /\ s \notin {"none", "unmark"} => branches'[b].state = "forking" /\ branches'[b].call = c
  <2>1. CASE Unmark(c, b)
    BY <1>6, <2>1 DEF Unmark, Stage
  <2>2. CASE RollbackForget(c, b)
    BY <1>2, <1>6, <2>2 DEF RollbackForget, Stage
  <2>3. CASE GoLive(c, b)
    BY <1>2, <1>6, <2>3 DEF GoLive, Stage
  <2>4. CASE KvFork(c, b) \/ SandboxSpawn(c, b) \/ Ready(c, b) \/ RollbackKv(c, b)
             \/ RollbackSandbox(c, b)
    BY <1>2, <2>4 DEF KvFork, SandboxSpawn, Ready, RollbackKv, RollbackSandbox
  <2> QED
    BY <2>1, <2>2, <2>3, <2>4 DEF Job
<1>9. s \in {"rb_sandbox", "rb_forget"} => b \notin kv'
  BY <1>6 DEF TypeOK, KvAgreement, KvGone, Job, KvFork, SandboxSpawn, Ready, GoLive,
              RollbackKv, RollbackSandbox, RollbackForget, Unmark, Stage
<1>10. b \in kv' => branches'[b].state # "absent"
  <2>1. CASE Unmark(c, b)
    BY <2>1 DEF Unmark, KvAgreement, OnlySandboxOrphans, Recorded
  <2>2. CASE RollbackForget(c, b)
    BY <1>2, <2>2 DEF RollbackForget, KvAgreement, KvGone
  <2>3. CASE GoLive(c, b)
    BY <1>2, <2>3 DEF TypeOK, GoLive, SetState, Branch
  <2>4. CASE KvFork(c, b) \/ SandboxSpawn(c, b) \/ Ready(c, b) \/ RollbackKv(c, b)
             \/ RollbackSandbox(c, b)
    BY <1>2, <2>4 DEF KvFork, SandboxSpawn, Ready, RollbackKv, RollbackSandbox
  <2> QED
    BY <2>1, <2>2, <2>3, <2>4 DEF Job
<1>11. JobsMarked' /\ JobsAlone' /\ JobsRecorded'
  BY <1>2, <1>5, <1>7, <1>8 DEF KvAgreement, JobsMarked, JobsAlone, JobsRecorded, Busy
<1>12. KillsMarked' /\ KvGone'
  BY <1>2, <1>3, <1>5, <1>7, <1>9 DEF KvAgreement, KillsMarked, KvGone
<1>13. OnlySandboxOrphans'
  <2>1. kv' \subseteq ID
    BY JobType DEF TypeOK
  <2> QED
    BY <1>7, <1>10, <2>1 DEF KvAgreement, OnlySandboxOrphans, Recorded
<1> QED
  BY <1>11, <1>12, <1>13 DEF KvAgreement

\* A kill drops the row only after the KV branch is gone.
LEMMA KillStepKv ==
    ASSUME TypeOK, KvAgreement, NEW b \in ID, KillStep(b)
    PROVE  KvAgreement'
<1>1. /\ b \notin spawning /\ branches[b].state = "killing"
      /\ \A c \in Call : pc[c][b] = "none"
  BY DEF KvAgreement, KillsMarked, JobsMarked, Busy, KillStep, KillSandbox, KillKv,
         KillFailed, KillForget
<1>2. UNCHANGED <<spawning, pc>>
  BY DEF KillStep, KillSandbox, KillKv, KillFailed, KillForget
<1>3. PICK s \in {"none", "kv", "forget", "fail"} :
         /\ kpc' = [kpc EXCEPT ![b] = s]
         /\ s # "none" => UNCHANGED <<killing, branches>>
         /\ s = "forget" => b \notin kv'
  BY DEF KillStep, KillSandbox, KillKv, KillFailed, KillForget, EndKill
<1>4. \A e \in ID : kpc'[e] = IF e = b THEN s ELSE kpc[e]
  BY <1>3 DEF TypeOK
<1>5. \A e \in ID : e # b => /\ e \in kv' <=> e \in kv
                             /\ e \in killing' <=> e \in killing
                             /\ branches'[e] = branches[e]
  BY DEF TypeOK, KillStep, KillSandbox, KillKv, KillFailed, KillForget, EndKill, Forget
<1>6. b \in kv' => branches'[b].state # "absent"
  <2>1. CASE UNCHANGED branches
    BY <1>1, <2>1
  <2>2. CASE KillForget(b)
    BY <2>2 DEF KillForget, KvAgreement, KvGone
  <2> QED
    BY <2>1, <2>2 DEF KillStep, KillSandbox, KillKv, KillFailed
<1>7. JobsMarked' /\ JobsAlone' /\ JobsRecorded'
  BY <1>1, <1>2, <1>5 DEF KvAgreement, JobsMarked, JobsAlone, JobsRecorded, Busy
<1>8. KillsMarked'
  <2>1. b \in killing
    BY DEF KvAgreement, KillsMarked, KillStep, KillSandbox, KillKv, KillFailed, KillForget
  <2> QED
    BY <1>1, <1>2, <1>3, <1>4, <1>5, <2>1 DEF KvAgreement, KillsMarked
<1>9. KvGone'
  BY <1>1, <1>2, <1>3, <1>4, <1>5 DEF KvAgreement, KvGone
<1>10. OnlySandboxOrphans'
  <2>1. kv' \subseteq ID
    BY KillStepType DEF TypeOK
  <2> QED
    BY <1>5, <1>6, <2>1 DEF KvAgreement, OnlySandboxOrphans, Recorded
<1> QED
  BY <1>7, <1>8, <1>9, <1>10 DEF KvAgreement

LEMMA SweepKv ==
    ASSUME TypeOK, KvAgreement,
           \/ ReapExpired \/ Reconcile \/ ReviveOk \/ ReviveFails
           \/ \E b \in ID : KillLosers(b) \/ LosersRetry(b) \/ SweepDead(b)
           \/ \E k \in Kind : SweepStep(k)
    PROVE  KvAgreement'
<1>0. UNCHANGED <<kv, spawning, pc>>
  BY DEF ReapExpired, Reconcile, ReviveOk, ReviveFails, KillLosers, LosersRetry, SweepDead,
         CollectDead, SweepStep, Attempt, SweepReturn
<1>1. CASE UNCHANGED <<branches, killVars>>
  BY <1>0, <1>1, QuietKv
<1>2. ASSUME NEW k \in Kind, NEW b \in ID, KillFor(k, b)  PROVE KvAgreement'
  BY <1>0, <1>1, <1>2, StartKillKv DEF KillFor
<1>3. ASSUME NEW b \in ID, LosersRetry(b)  PROVE KvAgreement'
  BY <1>0, <1>1, <1>3, StartKillKv DEF LosersRetry, Kind
<1>4. ASSUME NEW b \in ID, SweepDead(b)  PROVE KvAgreement'
  BY <1>1, <1>2, <1>4 DEF SweepDead, CollectDead, Kind
<1>5. CASE ReviveFails
  BY <1>2, <1>5 DEF ReviveFails, CollectDead, Kind, TypeOK
<1> QED
  BY <1>1, <1>2, <1>3, <1>4, <1>5
  DEF ReapExpired, Reconcile, ReviveOk, KillLosers, SweepStep, Attempt, SweepReturn

\* A crash or a successor leaves no thread and no new KV branch.
LEMMA LifeKv ==
    ASSUME TypeOK, KvAgreement,
           \/ \E b \in ID : RenewLease(b) \/ LeaseLapses(b) \/ SandboxDies(b)
           \/ StopReaper \/ CloseBegin \/ CloseWakes \/ CloseEnd
           \/ Crash \/ Restart
    PROVE  KvAgreement'
<1>1. ASSUME NEW b \in ID, RenewLease(b) \/ LeaseLapses(b)  PROVE KvAgreement'
  <2>1. PICK l \in {"held", "lapsed"} : branches' = [branches EXCEPT ![b].lease = l]
    BY <1>1 DEF RenewLease, LeaseLapses
  <2>2. \A d \in ID : /\ branches'[d].state = branches[d].state
                      /\ branches'[d].call = branches[d].call
    BY <2>1 DEF TypeOK, Branch
  <2> QED
    BY <1>1, <2>2, QuietKv DEF RenewLease, LeaseLapses
<1>2. CASE \/ \E b \in ID : SandboxDies(b)
           \/ StopReaper \/ CloseBegin \/ CloseWakes \/ CloseEnd
  BY <1>2, QuietKv DEF SandboxDies, StopReaper, CloseBegin, CloseWakes, Drain, CloseEnd
<1>3. CASE Crash \/ Restart
  <2>1. /\ \A c \in Call, b \in ID : pc'[c][b] = "none"
        /\ \A b \in ID : kpc'[b] = "none"
    <3>1. ForgetThreads
      BY <1>3 DEF Crash, Restart
    <3> QED
      BY <3>1 DEF ForgetThreads
  <2>2. kv' \subseteq kv /\ branches' = branches
    BY <1>3 DEF Crash, Restart
  <2> QED
    BY <2>1, <2>2 DEF KvAgreement, JobsMarked, JobsRecorded, JobsAlone, KillsMarked, KvGone,
                      OnlySandboxOrphans, Busy, Recorded
<1> QED
  BY <1>1, <1>2, <1>3

LEMMA KvStep == ~RacingReuse /\ TypeOK /\ KvAgreement /\ [Next]_vars => KvAgreement'
<1> SUFFICES ASSUME ~RacingReuse, TypeOK, KvAgreement, [Next]_vars  PROVE KvAgreement'
  OBVIOUS
<1>1. ASSUME NEW b \in ID, NEW l \in Leases, CreateParent(b, l)  PROVE KvAgreement'
  BY <1>1, JournalKv DEF CreateParent
<1>2. ASSUME NEW p \in ID, NEW C \in SUBSET ID, NEW l \in Leases, Fork(p, C, l)
      PROVE  KvAgreement'
  BY <1>2, JournalKv DEF Fork
<1>3. ASSUME NEW b \in ID, Kill(b)  PROVE KvAgreement'
  BY <1>3, StartKillKv DEF Kill
<1>4. CASE UNCHANGED vars
  BY <1>4, QuietKv DEF vars
<1> QED
  BY <1>1, <1>2, <1>3, <1>4, JobKv, KillStepKv, SweepKv, LifeKv
  DEF Next, Caller, Environment

\* Whether or not the reaper restarts sandboxes: a KV branch always has a
\* registry row, so a restart that races a kill leaves at most a sandbox behind.
THEOREM KvNeverOrphaned == ~RacingReuse => (Spec => []OnlySandboxOrphans)
<1> SUFFICES ASSUME ~RacingReuse  PROVE Spec => []OnlySandboxOrphans
  OBVIOUS
<1>1. Init => KvAgreement
  BY DEF Init, KvAgreement, JobsMarked, JobsRecorded, JobsAlone, KillsMarked, KvGone,
         OnlySandboxOrphans, Busy, Recorded, Absent
<1>2. TypeOK /\ KvAgreement /\ [Next]_vars => KvAgreement'
  BY KvStep
<1>3. KvAgreement => OnlySandboxOrphans
  BY DEF KvAgreement
<1> QED
  BY <1>1, <1>2, <1>3, TypeCorrect, PTL DEF Spec

-----------------------------------------------------------------------------
\* kill_losers and close().  These need no assumption on the callers.

\* A kill at work and its marker come and go together.
KillsPaired == \A b \in ID : b \in killing <=> kpc[b] # "none"

\* No row, and no incarnation that kill_losers listed, is of a call to come.
CallsCounted ==
    /\ \A b \in ID : branches[b].call <= ncalls
    /\ \A p \in seen["losers"] : p[2] <= ncalls

\* A listed loser that still has its row is not attempted yet, is kept for the
\* wait loop, or is being killed by this very call.
LosersTracked ==
    "losers" \in active \ raised =>
        \A b \in Recorded :
            Incarnation(b) \in seen["losers"]
              => b \in todo["losers"] \cup retry \cup KillsOf("losers")

\* From its sweep on, close() is alone: no spawn is in flight, every kill is its
\* own, and a row that is left has a kill ahead of it, or one has raised.
CloseAlone ==
    /\ phase \in {"sweeping", "closed"} =>
         /\ spawning = {} /\ \A b \in killing : kby[b] = "close"
         /\ "close" \notin raised => Recorded \subseteq todo["close"] \cup killing
    /\ phase = "closed" => killing = {} /\ todo["close"] = {}

Sweeping == KillsPaired /\ CallsCounted /\ LosersTracked /\ CloseAlone

\* Steps that start no kill and no sweep: rows may go, spawns may end.
LEMMA RowsShrink ==
    ASSUME TypeOK, Sweeping,
           UNCHANGED <<killVars, ncalls, active, todo, seen, retry, raised>>,
           spawning' \subseteq spawning,
           phase' \in {"sweeping", "closed"} => phase = phase',
           \A b \in ID : \/ /\ branches'[b].state # "absent" => branches[b].state # "absent"
                            /\ branches'[b].call = branches[b].call
                         \/ branches'[b] = Absent
    PROVE  Sweeping'
<1>1. Recorded' \subseteq Recorded /\ \A b \in Recorded' : branches'[b].call = branches[b].call
  BY DEF Recorded, Absent
<1>2. KillsPaired'
  BY DEF Sweeping, KillsPaired
<1>3. CallsCounted'
  <2>1. \A b \in ID : branches'[b].call <= ncalls
    BY DEF Sweeping, CallsCounted, Absent, TypeOK
  <2> QED
    BY <2>1 DEF Sweeping, CallsCounted
<1>4. LosersTracked'
  BY <1>1 DEF Sweeping, LosersTracked, Incarnation, KillsOf
<1>5. CloseAlone'
  BY <1>1 DEF Sweeping, CloseAlone
<1> QED
  BY <1>2, <1>3, <1>4, <1>5 DEF Sweeping

\* New rows are of a new call, which no list names; close() has not begun.
LEMMA JournalSweeping ==
    ASSUME TypeOK, Sweeping,
           NEW C \in SUBSET ID, NEW p \in ID \cup {NoBranch}, NEW l \in Leases,
           Journal(C, p, l)
    PROVE  Sweeping'
<1>1. \A b \in ID :
         /\ b \in C => branches'[b].call = ncalls + 1
         /\ b \notin C => branches'[b] = branches[b]
  BY DEF Journal, Journaled
<1>2. ncalls \in Nat /\ ncalls' = ncalls + 1
  BY BoundAssumption DEF TypeOK, Journal
<1>3. CallsCounted'
  <2>1. \A b \in ID : branches[b].call \in Nat
    BY BoundAssumption DEF TypeOK, Branch
  <2>2. \A q \in seen["losers"] : q[2] \in Nat
    BY BoundAssumption DEF TypeOK, Kind
  <2>3. seen' = seen
    BY DEF Journal
  <2> QED
    BY <1>1, <1>2, <2>1, <2>2, <2>3 DEF Sweeping, CallsCounted
<1>4. \A b \in C : <<b, ncalls + 1>> \notin seen["losers"]
  BY <1>2 DEF Sweeping, CallsCounted
<1>5. LosersTracked'
  BY <1>1, <1>4 DEF Sweeping, LosersTracked, Incarnation, KillsOf, Recorded, Journal
<1>6. KillsPaired' /\ CloseAlone'
  BY DEF Sweeping, KillsPaired, CloseAlone, Journal, IsOpen
<1> QED
  BY <1>3, <1>5, <1>6 DEF Sweeping

\* A kill starts: for the lists of kill_losers and close() it is the attempt.
LEMMA StartKillSweeping ==
    ASSUME TypeOK, Sweeping, NEW b \in ID, NEW k \in Kind \cup {"user"},
           Killable(b), StartKill(b, k),
           IF k = "close" THEN phase = "sweeping" ELSE IsOpen,
           todo["losers"] \cup retry
             \subseteq todo'["losers"] \cup retry' \cup (IF k = "losers" THEN {b} ELSE {}),
           todo["close"] \subseteq todo'["close"] \cup {b},
           UNCHANGED <<spawning, ncalls, active, seen, raised, phase>>
    PROVE  Sweeping'
<1>1. \A d \in ID : branches'[d].call = branches[d].call
  BY DEF TypeOK, StartKill, SetState, Branch
<1>2. Recorded' = Recorded
  BY DEF TypeOK, StartKill, SetState, Branch, Killable, Recorded
<1>3. \A d \in ID : /\ kpc'[d] = IF d = b THEN "sandbox" ELSE kpc[d]
                    /\ kby'[d] = IF d = b THEN k ELSE kby[d]
  BY DEF TypeOK, StartKill
<1>4. killing' = killing \cup {b} /\ b \notin killing
  BY DEF StartKill, Killable
<1>5. KillsPaired'
  BY <1>3, <1>4 DEF Sweeping, KillsPaired
<1>6. CallsCounted'
  BY <1>1 DEF Sweeping, CallsCounted
<1>7. LosersTracked'
  <2>1. KillsOf("losers") \subseteq KillsOf("losers")'
    BY <1>3, <1>4 DEF Sweeping, KillsPaired, KillsOf
  <2>2. k = "losers" => b \in KillsOf("losers")'
    BY <1>3 DEF KillsOf
  <2> QED
    BY <1>1, <1>2, <2>1, <2>2 DEF Sweeping, LosersTracked, Incarnation, Recorded
<1>8. CloseAlone'
  BY <1>2, <1>3, <1>4 DEF TypeOK, Sweeping, CloseAlone, IsOpen
<1> QED
  BY <1>5, <1>6, <1>7, <1>8 DEF Sweeping

\* A sweep's attempt is refused, answered by a no-op, started, or raises.
LEMMA KillForSweeping ==
    ASSUME TypeOK, Sweeping, NEW k \in Kind, NEW b \in ID, NEW rest \in SUBSET ID, KillFor(k, b),
           todo' = [todo EXCEPT ![k] = rest],
           k # "dead" => b \in todo[k] /\ rest = todo[k] \ {b},
           UNCHANGED <<spawning, ncalls, active, seen, phase>>
    PROVE  Sweeping'
<1>0. /\ todo'["losers"] = IF k = "losers" THEN todo["losers"] \ {b} ELSE todo["losers"]
      /\ todo'["close"] = IF k = "close" THEN todo["close"] \ {b} ELSE todo["close"]
  BY DEF TypeOK, Kind
<1>1. CASE raised' = raised \cup {k} /\ UNCHANGED <<branches, killVars, retry>>
  <2>1. KillsPaired' /\ CallsCounted'
    BY <1>1 DEF Sweeping, KillsPaired, CallsCounted
  <2>2. LosersTracked'
    BY <1>0, <1>1 DEF Sweeping, LosersTracked, Incarnation, KillsOf, Recorded
  <2>3. CloseAlone'
    BY <1>0, <1>1 DEF Sweeping, CloseAlone, Recorded
  <2> QED
    BY <2>1, <2>2, <2>3 DEF Sweeping
<1>2. CASE /\ MayKill(k) /\ ~Killable(b)
           /\ retry' = IF k = "losers" THEN retry \cup {b} ELSE retry
           /\ UNCHANGED <<branches, killVars, raised>>
  <2>1. KillsPaired' /\ CallsCounted'
    BY <1>2 DEF Sweeping, KillsPaired, CallsCounted
  <2>2. LosersTracked'
    BY <1>0, <1>2 DEF Sweeping, LosersTracked, Incarnation, KillsOf, Recorded
  <2>3. CloseAlone'
    BY <1>0, <1>2 DEF Sweeping, CloseAlone, Recorded, Killable, MayKill
  <2> QED
    BY <2>1, <2>2, <2>3 DEF Sweeping
<1>3. CASE MayKill(k) /\ Killable(b) /\ StartKill(b, k) /\ UNCHANGED <<retry, raised>>
  BY <1>0, <1>3, StartKillSweeping DEF MayKill
<1> QED
  BY <1>1, <1>2, <1>3 DEF KillFor

\* The wait loop of kill_losers drops a loser that is gone, kills it, or raises.
LEMMA RetrySweeping ==
    ASSUME TypeOK, Sweeping, NEW b \in ID, LosersRetry(b)
    PROVE  Sweeping'
<1>0. UNCHANGED <<spawning, ncalls, active, todo, seen, phase>>
  BY DEF LosersRetry
<1>1. CASE b \notin Recorded /\ retry' = retry \ {b} /\ UNCHANGED <<branches, killVars, raised>>
  BY <1>0, <1>1 DEF Sweeping, KillsPaired, CallsCounted, LosersTracked, CloseAlone,
                    Incarnation, KillsOf, Recorded
<1>2. CASE /\ Killable(b) /\ IsOpen /\ StartKill(b, "losers")
           /\ retry' = retry \ {b} /\ UNCHANGED raised
  BY <1>0, <1>2, StartKillSweeping DEF Kind
<1>3. CASE raised' = raised \cup {"losers"} /\ UNCHANGED <<branches, killVars, retry>>
  BY <1>0, <1>3 DEF Sweeping, KillsPaired, CallsCounted, LosersTracked, CloseAlone,
                    KillsOf, Recorded
<1> QED
  BY <1>1, <1>2, <1>3 DEF LosersRetry

\* A kill that ends has dropped its row, or its sweep knows that it raised.
LEMMA KillStepSweeping ==
    ASSUME TypeOK, Sweeping, NEW b \in ID, KillStep(b)
    PROVE  Sweeping'
<1>0. UNCHANGED <<spawning, ncalls, active, seen, retry>>
  BY DEF KillStep, KillSandbox, KillKv, KillFailed, KillForget
<1>1. b \in killing
  BY DEF Sweeping, KillsPaired, KillStep, KillSandbox, KillKv, KillFailed, KillForget
<1>2. CASE KillSandbox(b) \/ KillKv(b)
  <2>1. PICK s \in {"kv", "forget", "fail"} : kpc' = [kpc EXCEPT ![b] = s]
    BY <1>2 DEF KillSandbox, KillKv
  <2>2. \A e \in ID : kpc'[e] = IF e = b THEN s ELSE kpc[e]
    BY <2>1 DEF TypeOK
  <2>3. UNCHANGED <<branches, killing, kby, todo, raised, phase>>
    BY <1>2 DEF KillSandbox, KillKv
  <2>4. KillsPaired' /\ CallsCounted'
    BY <1>0, <1>1, <2>2, <2>3 DEF Sweeping, KillsPaired, CallsCounted
  <2>5. KillsOf("losers")' = KillsOf("losers")
    BY <1>1, <2>2, <2>3 DEF Sweeping, KillsPaired, KillsOf
  <2>6. LosersTracked' /\ CloseAlone'
    BY <1>0, <2>3, <2>5 DEF Sweeping, LosersTracked, CloseAlone, Incarnation, Recorded
  <2> QED
    BY <2>4, <2>6 DEF Sweeping
<1>3. CASE KillFailed(b) \/ KillForget(b)
  <2>1. /\ \A e \in ID : /\ kpc'[e] = IF e = b THEN "none" ELSE kpc[e]
                         /\ kby'[e] = IF e = b THEN "user" ELSE kby[e]
        /\ killing' = killing \ {b}
        /\ phase' \in {"sweeping", "closed"} => phase = phase'
    BY <1>3 DEF TypeOK, EndKill, Notify, KillFailed, KillForget
  <2>2. \/ RaiseIn(kby[b]) /\ UNCHANGED branches
        \/ branches' = [branches EXCEPT ![b] = Absent] /\ UNCHANGED <<raised, todo>>
    BY <1>3 DEF KillFailed, KillForget, Forget
  <2>3. /\ todo'["losers"] = todo["losers"] /\ todo'["close"] = todo["close"]
        /\ raised \subseteq raised'
        /\ \A e \in ID : e # b => branches'[e] = branches[e]
        /\ \/ kby[b] \in Kind => kby[b] \in raised'
           \/ branches'[b] = Absent
        /\ branches'[b] \in {branches[b], Absent}
    BY <2>2 DEF TypeOK, RaiseIn, Kind
  <2>4. KillsPaired'
    BY <2>1 DEF Sweeping, KillsPaired
  <2>5. CallsCounted'
    <3>1. Absent.call <= ncalls
      BY DEF TypeOK, Absent
    <3> QED
      BY <1>0, <2>3, <3>1 DEF Sweeping, CallsCounted
  <2>6. Recorded' \subseteq Recorded /\ (branches'[b] = Absent => b \notin Recorded')
    BY <2>3 DEF Recorded, Absent
  <2>7. LosersTracked'
    <3>1. \A e \in KillsOf("losers") : e # b => e \in KillsOf("losers")'
      BY <2>1 DEF KillsOf
    <3>2. b \in KillsOf("losers") => "losers" \in raised' \/ b \notin Recorded'
      BY <2>3, <2>6 DEF KillsOf, Kind
    <3>3. \A e \in Recorded' : Incarnation(e)' = Incarnation(e)
      BY <2>3, <2>6 DEF Incarnation, Recorded
    <3> QED
      BY <1>0, <2>3, <2>6, <3>1, <3>2, <3>3 DEF Sweeping, LosersTracked
  <2>8. CloseAlone'
    BY <1>0, <1>1, <2>1, <2>3, <2>6 DEF Sweeping, CloseAlone, Kind, TypeOK
  <2> QED
    BY <2>4, <2>5, <2>7, <2>8 DEF Sweeping
<1> QED
  BY <1>2, <1>3 DEF KillStep

\* Listing, and returning: a new list names the rows there are.
LEMMA ListSweeping ==
    ASSUME TypeOK, Sweeping, NEW k \in Kind \ {"close"}, NEW L \in SUBSET ID,
           StartSweep(k, L), UNCHANGED <<branches, spawning, killVars, ncalls, retry, raised,
             phase>>
    PROVE  Sweeping'
<1>1. /\ todo'[k] = L /\ \A j \in Kind : j # k => todo'[j] = todo[j] /\ seen'[j] = seen[j]
      /\ seen'[k] = {Incarnation(b) : b \in L} /\ active' = active \cup {k}
  BY DEF TypeOK, StartSweep
<1>2. KillsPaired' /\ CloseAlone'
  BY <1>1 DEF Sweeping, KillsPaired, CloseAlone, Recorded, Kind
<1>3. CallsCounted'
  BY <1>1 DEF Sweeping, CallsCounted, Incarnation, Kind
<1>4. LosersTracked'
  BY <1>1 DEF Sweeping, LosersTracked, Incarnation, KillsOf, Recorded, Kind
<1> QED
  BY <1>2, <1>3, <1>4 DEF Sweeping

LEMMA ReturnSweeping ==
    ASSUME TypeOK, Sweeping, NEW k \in Kind, SweepReturn(k)
    PROVE  Sweeping'
<1>1. UNCHANGED <<branches, spawning, killVars, ncalls, phase>>
  BY DEF SweepReturn
<1>2. /\ todo'["losers"] = todo["losers"] /\ todo'["close"] = todo["close"]
      /\ raised' = raised \ {k} /\ k # "close"
  BY DEF TypeOK, SweepReturn, Kind
<1>3. seen'["losers"] = IF k = "losers" THEN {} ELSE seen["losers"]
  BY DEF TypeOK, SweepReturn, Kind
<1>4. k # "losers" => ("losers" \in active' <=> "losers" \in active) /\ retry' = retry
  BY DEF SweepReturn
<1>5. KillsPaired' /\ CloseAlone'
  BY <1>1, <1>2 DEF Sweeping, KillsPaired, CloseAlone, Recorded
<1>6. CallsCounted'
  BY <1>1, <1>3 DEF Sweeping, CallsCounted
<1>7. LosersTracked'
  BY <1>1, <1>2, <1>3, <1>4 DEF Sweeping, LosersTracked, Incarnation, KillsOf, Recorded
<1> QED
  BY <1>5, <1>6, <1>7 DEF Sweeping

LEMMA SweepSweeping ==
    ASSUME TypeOK, Sweeping,
           \/ ReapExpired \/ Reconcile \/ ReviveOk \/ ReviveFails
           \/ \E b \in ID : KillLosers(b) \/ LosersRetry(b) \/ SweepDead(b)
           \/ \E k \in Kind : SweepStep(k)
    PROVE  Sweeping'
<1>1. CASE ReapExpired
  <2>1. Lapsed \ spawning \in SUBSET ID
    BY DEF Lapsed, Recorded
  <2> QED
    BY <1>1, <2>1, ListSweeping DEF ReapExpired, Kind
<1>2. CASE Reconcile
  <2>1. Stale \in SUBSET ID
    BY DEF TypeOK, Stale, Lapsed, Recorded
  <2> QED
    BY <1>2, <2>1, ListSweeping DEF Reconcile, Kind
<1>3. CASE ReviveOk
  BY <1>3, RowsShrink DEF ReviveOk
<1>4. CASE ReviveFails
  <2>1. reviving \in ID /\ todo["dead"] \in SUBSET ID
    BY <1>4 DEF TypeOK, ReviveFails, Kind
  <2>2. ASSUME NEW b \in ID, NEW rest \in SUBSET ID, CollectDead(b, rest)  PROVE Sweeping'
    <3>1. (IF "dead" \in raised' THEN {} ELSE rest) \in SUBSET ID
      OBVIOUS
    <3> QED
      BY <2>2, <3>1, KillForSweeping DEF CollectDead, Kind
  <2> QED
    BY <1>4, <2>1, <2>2 DEF ReviveFails
<1>5. ASSUME NEW b \in ID, KillLosers(b)  PROVE Sweeping'
  <2>1. Recorded \ Keep(b) \in SUBSET ID
    BY DEF Recorded
  <2> QED
    BY <1>5, <2>1, ListSweeping DEF KillLosers, Kind
<1>6. ASSUME NEW b \in ID, SweepDead(b)  PROVE Sweeping'
  <2>1. CASE RestartDead /\ Live(b) /\ b \notin killing
    <3>1. /\ todo' = [todo EXCEPT !["dead"] = todo["dead"] \ {b}]
          /\ UNCHANGED <<branches, spawning, killVars, ncalls, active, seen, retry, raised, phase>>
      BY <1>6, <2>1 DEF SweepDead
    <3>2. todo'["losers"] = todo["losers"] /\ todo'["close"] = todo["close"]
      BY <3>1 DEF TypeOK, Kind
    <3> QED
      BY <3>1, <3>2 DEF Sweeping, KillsPaired, CallsCounted, LosersTracked, CloseAlone,
                        Incarnation, KillsOf, Recorded
  <2>2. CASE CollectDead(b, todo["dead"] \ {b})
    <3>1. (IF "dead" \in raised' THEN {} ELSE todo["dead"] \ {b}) \in SUBSET ID
      BY DEF TypeOK, Kind
    <3> QED
      BY <2>2, <3>1, KillForSweeping DEF CollectDead, Kind
  <2> QED
    BY <1>6, <2>1, <2>2 DEF SweepDead
<1>7. ASSUME NEW k \in Kind, NEW b \in ID, Attempt(k, b)  PROVE Sweeping'
  <2>1. todo[k] \ {b} \in SUBSET ID
    BY DEF TypeOK
  <2> QED
    BY <1>7, <2>1, KillForSweeping DEF Attempt
<1> QED
  BY <1>1, <1>2, <1>3, <1>4, <1>5, <1>6, <1>7, RetrySweeping, ReturnSweeping DEF SweepStep

\* close() drains before it lists every row; a crash or a successor starts over.
LEMMA LifeSweeping ==
    ASSUME TypeOK, Sweeping,
           \/ \E b \in ID : RenewLease(b) \/ LeaseLapses(b) \/ SandboxDies(b)
           \/ StopReaper \/ CloseBegin \/ CloseWakes \/ CloseEnd
           \/ Crash \/ Restart
    PROVE  Sweeping'
<1>1. ASSUME NEW b \in ID, RenewLease(b) \/ LeaseLapses(b)  PROVE Sweeping'
  <2>1. PICK l \in {"held", "lapsed"} : branches' = [branches EXCEPT ![b].lease = l]
    BY <1>1 DEF RenewLease, LeaseLapses
  <2>2. \A d \in ID : /\ branches'[d].state = branches[d].state
                      /\ branches'[d].call = branches[d].call
    BY <2>1 DEF TypeOK, Branch
  <2> QED
    BY <1>1, <2>2, RowsShrink DEF RenewLease, LeaseLapses
<1>2. ASSUME NEW b \in ID, SandboxDies(b)  PROVE Sweeping'
  BY <1>2, RowsShrink DEF SandboxDies
<1>3. CASE StopReaper
  BY <1>3, RowsShrink DEF StopReaper
<1>4. CASE Drain
  <2>1. CASE spawning \cup killing # {}
    BY <1>4, <2>1, RowsShrink DEF Drain
  <2>2. CASE spawning \cup killing = {}
    <3>1. /\ StartSweep("close", Recorded) /\ phase' = "sweeping"
          /\ UNCHANGED <<branches, spawning, killVars, ncalls, retry, raised>>
      BY <1>4, <2>2 DEF Drain
    <3>2. /\ todo'["close"] = Recorded
          /\ todo'["losers"] = todo["losers"] /\ seen'["losers"] = seen["losers"]
          /\ "losers" \in active' <=> "losers" \in active
      BY <3>1 DEF TypeOK, StartSweep, Kind
    <3> QED
      BY <2>2, <3>1, <3>2 DEF Sweeping, KillsPaired, CallsCounted, LosersTracked, CloseAlone,
                              Incarnation, KillsOf, Recorded
  <2> QED
    BY <2>1, <2>2
<1>5. CASE CloseEnd
  <2>1. /\ phase = "sweeping" /\ phase' = "closed" /\ todo["close"] = {} /\ KillsOf("close") = {}
        /\ UNCHANGED <<branches, spawning, killVars, ncalls, todo, retry, raised>>
    BY <1>5 DEF CloseEnd
  <2>2. /\ seen'["losers"] = seen["losers"]
        /\ "losers" \in active' <=> "losers" \in active
    BY <1>5 DEF TypeOK, CloseEnd, Kind
  <2>3. killing = {}
    BY <2>1 DEF TypeOK, Sweeping, KillsPaired, CloseAlone, KillsOf
  <2> QED
    BY <2>1, <2>2, <2>3 DEF Sweeping, KillsPaired, CallsCounted, LosersTracked, CloseAlone,
                            Incarnation, KillsOf, Recorded
<1>6. CASE Crash \/ Restart
  <2>1. ForgetThreads /\ branches' = branches /\ phase' \in {"down", "open"}
    BY <1>6 DEF Crash, Restart
  <2>2. /\ killing' = {} /\ \A b \in ID : kpc'[b] = "none"
        /\ active' = {} /\ seen'["losers"] = {} /\ ncalls' = ncalls
    BY <2>1 DEF ForgetThreads, Kind
  <2> QED
    BY <2>1, <2>2 DEF Sweeping, KillsPaired, CallsCounted, LosersTracked, CloseAlone
<1> QED
  BY <1>1, <1>2, <1>3, <1>4, <1>5, <1>6 DEF CloseBegin, CloseWakes

LEMMA JobSweeping ==
    ASSUME TypeOK, Sweeping, NEW c \in Call, NEW b \in ID, Job(c, b)
    PROVE  Sweeping'
<1>1. /\ UNCHANGED <<killVars, ncalls, active, todo, seen, retry, raised>>
      /\ spawning' \subseteq spawning
      /\ phase' \in {"sweeping", "closed"} => phase = phase'
  BY DEF Job, KvFork, SandboxSpawn, Ready, GoLive, RollbackKv, RollbackSandbox,
         RollbackForget, Unmark, Notify
<1>2. \A e \in ID : \/ /\ branches'[e].state # "absent" => branches[e].state # "absent"
                       /\ branches'[e].call = branches[e].call
                    \/ branches'[e] = Absent
  <2>1. CASE UNCHANGED branches
    BY <2>1
  <2>2. CASE b \in Recorded /\ SetState(b, "live")
    BY <2>2 DEF TypeOK, SetState, Recorded, Branch
  <2>3. CASE Forget(b)
    BY <2>3 DEF TypeOK, Forget
  <2> QED
    BY <2>1, <2>2, <2>3 DEF Job, KvFork, SandboxSpawn, Ready, GoLive, RollbackKv,
                            RollbackSandbox, RollbackForget, Unmark
<1> QED
  BY <1>1, <1>2, RowsShrink

LEMMA SweepingStep == TypeOK /\ Sweeping /\ [Next]_vars => Sweeping'
<1> SUFFICES ASSUME TypeOK, Sweeping, [Next]_vars  PROVE Sweeping'
  OBVIOUS
<1>1. ASSUME NEW b \in ID, NEW l \in Leases, CreateParent(b, l)  PROVE Sweeping'
  BY <1>1, JournalSweeping DEF CreateParent
<1>2. ASSUME NEW p \in ID, NEW C \in SUBSET ID, NEW l \in Leases, Fork(p, C, l)
      PROVE  Sweeping'
  BY <1>2, JournalSweeping DEF Fork
<1>3. ASSUME NEW b \in ID, Kill(b)  PROVE Sweeping'
  BY <1>3, StartKillSweeping DEF Kill, Kind
<1>4. CASE UNCHANGED vars
  BY <1>4, RowsShrink DEF vars
<1> QED
  BY <1>1, <1>2, <1>3, <1>4, JobSweeping, KillStepSweeping, SweepSweeping, LifeSweeping
  DEF Next, Caller, Environment

LEMMA SweepingHolds == Spec => [](TypeOK /\ Sweeping)
<1>1. Init => Sweeping
  BY DEF Init, Sweeping, KillsPaired, CallsCounted, LosersTracked, CloseAlone, Absent,
         Recorded, Kind
<1> QED
  BY <1>1, SweepingStep, TypeCorrect, PTL DEF Spec

\* A closed orchestrator has stopped: close() drained what was in flight before
\* it listed the rows, nothing can start after, and unless one of its kills
\* raised there is no row and nothing held.
THEOREM CloseStopsEverything == Settled => (Spec => []ClosedIsQuiet)
<1>1. TypeOK /\ Sweeping /\ Agreement => ClosedIsQuiet
  BY DEF TypeOK, Sweeping, CloseAlone, Agreement, JobsMarked, NoLeak, Busy, ClosedIsQuiet
<1> QED
  BY <1>1, SweepingHolds, AgreementHolds, PTL

\* The list of running sweeps shrinks by returns, crashes and successors only,
\* and a supervisor that is down runs none.
LEMMA ActiveShrinks ==
    ASSUME [Next]_vars
    PROVE  \/ /\ (active \ {"close"}) \subseteq active'
              /\ phase' = "down" => phase = "down" /\ active' = active
           \/ Crash \/ Restart \/ \E k \in Kind : SweepReturn(k)
<1> DEFINE Keeps == \/ (active \ {"close"}) \subseteq active'
                       /\ (phase' = "down" => phase = "down" /\ active' = active)
                    \/ Crash \/ Restart \/ \E k \in Kind : SweepReturn(k)
<1>1. ASSUME Caller  PROVE Keeps
  BY <1>1 DEF Caller, CreateParent, Fork, Journal, Kill, KillLosers, RenewLease, ReapExpired,
              StopReaper, StartSweep, IsOpen
<1>2. ASSUME Environment  PROVE Keeps
  BY <1>2 DEF Environment, LeaseLapses, SandboxDies
<1>3. ASSUME NEW c \in Call, NEW b \in ID, Job(c, b)  PROVE Keeps
  BY <1>3 DEF Job, KvFork, SandboxSpawn, Ready, GoLive, RollbackKv, RollbackSandbox,
              RollbackForget, Unmark, Notify
<1>4. ASSUME NEW b \in ID, KillStep(b)  PROVE Keeps
  BY <1>4 DEF KillStep, KillSandbox, KillKv, KillFailed, KillForget, EndKill, Notify
<1>5. ASSUME NEW b \in ID, LosersRetry(b) \/ SweepDead(b)  PROVE Keeps
  BY <1>5 DEF LosersRetry, SweepDead, CollectDead
<1>6. ASSUME NEW k \in Kind, SweepStep(k)  PROVE Keeps
  BY <1>6 DEF SweepStep, Attempt
<1>7. ASSUME Reconcile \/ ReviveOk \/ ReviveFails  PROVE Keeps
  BY <1>7 DEF Reconcile, StartSweep, IsOpen, ReviveOk, ReviveFails, CollectDead
<1>8. ASSUME CloseBegin \/ CloseWakes \/ CloseEnd  PROVE Keeps
  BY <1>8 DEF CloseBegin, CloseWakes, CloseEnd, Drain, StartSweep
<1>9. ASSUME UNCHANGED vars  PROVE Keeps
  BY <1>9 DEF vars
<1> QED
  BY <1>1, <1>2, <1>3, <1>4, <1>5, <1>6, <1>7, <1>8, <1>9 DEF Next

DownIdle == phase = "down" => active = {}

LEMMA DownIdleHolds == Spec => []DownIdle
<1>1. Init => DownIdle
  BY DEF Init, DownIdle
<1>2. DownIdle /\ [Next]_vars => DownIdle'
  <2> SUFFICES ASSUME DownIdle, [Next]_vars  PROVE DownIdle'
    OBVIOUS
  <2>1. CASE /\ (active \ {"close"}) \subseteq active'
             /\ phase' = "down" => phase = "down" /\ active' = active
    BY <2>1 DEF DownIdle
  <2>2. CASE Crash \/ Restart
    BY <2>2 DEF DownIdle, Crash, Restart, ForgetThreads
  <2>3. ASSUME NEW k \in Kind, SweepReturn(k)  PROVE DownIdle'
    BY <2>3 DEF DownIdle, SweepReturn
  <2> QED
    BY <2>1, <2>2, <2>3, ActiveShrinks
<1> QED
  BY <1>1, <1>2, PTL DEF Spec

\* kill_losers does not return while a branch it listed still has its row: a
\* loser that was busy is waited for, an id used again is not mistaken for it.
THEOREM LosersAreGone == Spec => LosersGone
<1> DEFINE Returns ==
         (/\ "losers" \in active \ active' /\ "losers" \notin raised
          /\ phase' # "down" /\ ~(phase = "closed" /\ phase' = "open"))
           => \A p \in seen["losers"] : p[1] \in Recorded => Incarnation(p[1]) # p
<1>1. TypeOK /\ Sweeping /\ DownIdle /\ [Next]_vars => Returns
  <2> SUFFICES ASSUME TypeOK, Sweeping, DownIdle, [Next]_vars,
                      "losers" \in active \ active', "losers" \notin raised,
                      phase' # "down", ~(phase = "closed" /\ phase' = "open"),
                      NEW p \in seen["losers"], p[1] \in Recorded, Incarnation(p[1]) = p
               PROVE  FALSE
    OBVIOUS
  <2>1. p[1] \in todo["losers"] \cup retry \cup KillsOf("losers")
    BY DEF Sweeping, LosersTracked
  <2>2. ~SweepReturn("losers")
    BY <2>1 DEF SweepReturn
  <2>3. ASSUME NEW k \in Kind, SweepReturn(k)  PROVE k = "losers"
    BY <2>3 DEF SweepReturn
  <2>4. ~(Crash \/ Restart)
    BY DEF Crash, Restart, DownIdle
  <2> QED
    BY <2>2, <2>3, <2>4, ActiveShrinks
<1> QED
  BY <1>1, SweepingHolds, DownIdleHolds, PTL DEF Spec, LosersGone

-----------------------------------------------------------------------------
\* The refinement: each step is a step of the ledger, or none

\* A step that changes neither a row's state nor what is held is invisible.
LEMMA Invisible ==
    ASSUME \A b \in ID : branches'[b].state = branches[b].state,
           \A b \in ID : b \in kv' <=> b \in kv,
           \A b \in ID : sandbox'[b] = "none" <=> sandbox[b] = "none"
    PROVE  UNCHANGED Ledger!ledgerVars
<1>1. StateOf' = StateOf
  BY DEF StateOf
<1>2. [b \in ID |-> HeldBy(b)]' = [b \in ID |-> HeldBy(b)]
  BY DEF HeldBy
<1> QED
  BY <1>1, <1>2 DEF Ledger!ledgerVars

\* Journaling enters the fresh ids.
LEMMA JournalEnters ==
    ASSUME TypeOK, Agreement, NEW C \in SUBSET ID, NEW p, NEW l,
           C \subseteq ID \ Recorded, Journal(C, p, l)
    PROVE  Ledger!Enter(C)
<1>1. StateOf' = [b \in ID |-> IF b \in C THEN "forking" ELSE StateOf[b]]
  BY DEF Journal, Journaled, StateOf
<1>2. [b \in ID |-> HeldBy(b)]' = [b \in ID |-> HeldBy(b)]
  BY DEF HeldBy, Journal
<1>3. \A b \in C : StateOf[b] = "absent" /\ [d \in ID |-> HeldBy(d)][b] = {}
  BY DEF Agreement, NoLeak, Recorded, StateOf, HeldBy
<1> QED
  BY <1>1, <1>2, <1>3 DEF Ledger!Enter

\* Starting a kill dooms the row.
LEMMA StartKillDooms ==
    ASSUME TypeOK, NEW b \in ID, NEW k, Killable(b), StartKill(b, k), UNCHANGED backendVars
    PROVE  Ledger!Doom(b)
<1>1. StateOf' = [StateOf EXCEPT ![b] = "killing"]
  BY DEF TypeOK, StartKill, SetState, StateOf, Branch
<1>2. [d \in ID |-> HeldBy(d)]' = [d \in ID |-> HeldBy(d)]
  BY DEF HeldBy
<1>3. StateOf[b] # "absent"
  BY DEF Killable, Recorded, StateOf
<1> QED
  BY <1>1, <1>2, <1>3 DEF Ledger!Doom

\* A fork that has both halves goes live.
LEMMA GoLiveSettles ==
    ASSUME TypeOK, NEW b \in ID, SetState(b, "live"), UNCHANGED backendVars,
           branches[b].state = "forking", b \in kv, sandbox[b] # "none"
    PROVE  Ledger!Settle(b)
<1>1. StateOf' = [StateOf EXCEPT ![b] = "live"]
  BY DEF TypeOK, SetState, StateOf, Branch
<1>2. [d \in ID |-> HeldBy(d)]' = [d \in ID |-> HeldBy(d)]
  BY DEF HeldBy, backendVars
<1>3. StateOf[b] = "forking" /\ [d \in ID |-> HeldBy(d)][b] = {"kv", "sandbox"}
  BY DEF StateOf, HeldBy
<1> QED
  BY <1>1, <1>2, <1>3 DEF Ledger!Settle, Ledger!Half

\* Dropping a row under which nothing is held.
LEMMA ForgetDrops ==
    ASSUME TypeOK, NEW b \in ID, Forget(b), UNCHANGED backendVars,
           branches[b].state \in {"forking", "killing"}, b \notin kv, sandbox[b] = "none"
    PROVE  Ledger!Drop(b)
<1>1. StateOf' = [StateOf EXCEPT ![b] = "absent"]
  BY DEF TypeOK, Forget, Absent, StateOf
<1>2. [d \in ID |-> HeldBy(d)]' = [d \in ID |-> HeldBy(d)]
  BY DEF HeldBy
<1>3. StateOf[b] \in {"forking", "killing"} /\ [d \in ID |-> HeldBy(d)][b] = {}
  BY DEF StateOf, HeldBy
<1> QED
  BY <1>1, <1>2, <1>3 DEF Ledger!Drop

\* A backend call on one half of b: taken under a "forking" row, let go under a
\* "forking" or "killing" one, or without effect.
LEMMA KvTaken ==
    ASSUME NEW b \in ID, branches[b].state = "forking",
           kv' = kv \cup {b}, UNCHANGED <<branches, sandbox>>
    PROVE  Ledger!Acquire(b, "kv")
<1>1. [d \in ID |-> HeldBy(d)]' =
        [[d \in ID |-> HeldBy(d)] EXCEPT ![b] = @ \cup {"kv"}]
  BY DEF HeldBy
<1> QED
  BY <1>1 DEF Ledger!Acquire, StateOf

LEMMA SandboxTaken ==
    ASSUME TypeOK, NEW b \in ID, branches[b].state = "forking",
           sandbox' = [sandbox EXCEPT ![b] = "up"], UNCHANGED <<branches, kv>>
    PROVE  Ledger!Acquire(b, "sandbox")
<1>1. [d \in ID |-> HeldBy(d)]' =
        [[d \in ID |-> HeldBy(d)] EXCEPT ![b] = @ \cup {"sandbox"}]
  BY DEF HeldBy, TypeOK
<1> QED
  BY <1>1 DEF Ledger!Acquire, StateOf

LEMMA KvReleased ==
    ASSUME NEW b \in ID, branches[b].state \in {"forking", "killing"},
           kv' = kv \ {b}, UNCHANGED <<branches, sandbox>>
    PROVE  Ledger!Release(b, "kv")
<1>1. [d \in ID |-> HeldBy(d)]' =
        [[d \in ID |-> HeldBy(d)] EXCEPT ![b] = @ \ {"kv"}]
  BY DEF HeldBy
<1> QED
  BY <1>1 DEF Ledger!Release, StateOf

LEMMA SandboxReleased ==
    ASSUME TypeOK, NEW b \in ID, branches[b].state \in {"forking", "killing"},
           sandbox' = [sandbox EXCEPT ![b] = "none"], UNCHANGED <<branches, kv>>
    PROVE  Ledger!Release(b, "sandbox")
<1>1. [d \in ID |-> HeldBy(d)]' =
        [[d \in ID |-> HeldBy(d)] EXCEPT ![b] = @ \ {"sandbox"}]
  BY DEF HeldBy, TypeOK
<1> QED
  BY <1>1 DEF Ledger!Release, StateOf

-----------------------------------------------------------------------------
\* Every step of the orchestrator is a step of the ledger or invisible to it

LedgerStep == [Ledger!LedgerNext]_(Ledger!ledgerVars)

\* The ways in which the lemmas above establish a ledger step.
LEMMA LedgerStepIntro ==
    /\ \A C \in SUBSET ID : Ledger!Enter(C) => LedgerStep
    /\ \A b \in ID : Ledger!Settle(b) \/ Ledger!Doom(b) \/ Ledger!Drop(b) => LedgerStep
    /\ \A b \in ID : /\ Ledger!Acquire(b, "kv") \/ Ledger!Release(b, "kv") => LedgerStep
                     /\ Ledger!Acquire(b, "sandbox") \/ Ledger!Release(b, "sandbox")
                          => LedgerStep
    /\ Ledger!Lose => LedgerStep
    /\ UNCHANGED Ledger!ledgerVars => LedgerStep
BY DEF LedgerStep, Ledger!LedgerNext, Ledger!Half

LEMMA JobRefines ==
    ASSUME TypeOK, Agreement, NEW c \in Call, NEW b \in ID, Job(c, b)
    PROVE  LedgerStep
<1>0. pc[c][b] \notin {"none", "unmark"} => branches[b].state = "forking"
  BY DEF Agreement, JobsRecorded
<1>1. CASE KvFork(c, b)
  <2>1. kv' = kv \cup {b} \/ kv' = kv
    BY <1>1 DEF KvFork
  <2>2. UNCHANGED <<branches, sandbox>> /\ branches[b].state = "forking"
    BY <1>0, <1>1 DEF KvFork
  <2> QED
    BY <2>1, <2>2, KvTaken, Invisible, LedgerStepIntro
<1>2. CASE SandboxSpawn(c, b)
  <2>1. UNCHANGED <<branches, kv>> /\ branches[b].state = "forking"
    BY <1>0, <1>2 DEF SandboxSpawn
  <2>2. CASE sandbox' = [sandbox EXCEPT ![b] = "up"]
    BY <2>1, <2>2, SandboxTaken, LedgerStepIntro
  <2>3. CASE \A d \in ID : sandbox'[d] = sandbox[d]
    BY <2>1, <2>3, Invisible, LedgerStepIntro
  <2> QED
    BY <1>2, <2>2, <2>3 DEF SandboxSpawn, TypeOK
<1>3. CASE Ready(c, b) \/ Unmark(c, b)
  <2>1. UNCHANGED <<branches, kv, sandbox>>
    BY <1>3 DEF Ready, Unmark
  <2> QED
    BY <2>1, Invisible, LedgerStepIntro
<1>4. CASE GoLive(c, b)
  <2>1. /\ UNCHANGED <<kv, sandbox>> /\ branches[b].state = "forking"
        /\ b \in kv /\ sandbox[b] # "none"
    BY <1>0, <1>4 DEF GoLive, Agreement, HalvesThere
  <2>2. CASE UNCHANGED branches
    BY <2>1, <2>2, Invisible, LedgerStepIntro
  <2>3. CASE SetState(b, "live")
    BY <2>1, <2>3, GoLiveSettles, LedgerStepIntro DEF backendVars
  <2> QED
    BY <1>4, <2>2, <2>3 DEF GoLive
<1>5. CASE RollbackKv(c, b)
  <2>1. kv' = kv \ {b} \/ kv' = kv
    BY <1>5 DEF RollbackKv
  <2>2. UNCHANGED <<branches, sandbox>> /\ branches[b].state = "forking"
    BY <1>0, <1>5 DEF RollbackKv
  <2> QED
    BY <2>1, <2>2, KvReleased, Invisible, LedgerStepIntro
<1>6. CASE RollbackSandbox(c, b)
  <2>1. UNCHANGED <<branches, kv>> /\ branches[b].state = "forking"
    BY <1>0, <1>6 DEF RollbackSandbox
  <2>2. CASE sandbox' = [sandbox EXCEPT ![b] = "none"]
    BY <2>1, <2>2, SandboxReleased, LedgerStepIntro
  <2>3. CASE \A d \in ID : sandbox'[d] = sandbox[d]
    BY <2>1, <2>3, Invisible, LedgerStepIntro
  <2> QED
    BY <1>6, <2>2, <2>3 DEF RollbackSandbox, SandboxKilled, SandboxKillRaises, TypeOK
<1>7. CASE RollbackForget(c, b)
  <2>1. /\ UNCHANGED backendVars /\ branches[b].state = "forking"
        /\ b \notin kv /\ sandbox[b] = "none"
    BY <1>0, <1>7 DEF RollbackForget, Agreement, HalvesGone
  <2>2. CASE Forget(b)
    BY <2>1, <2>2, ForgetDrops, LedgerStepIntro
  <2>3. CASE UNCHANGED registryVars
    BY <2>1, <2>3, Invisible, LedgerStepIntro
  <2> QED
    BY <1>7, <2>2, <2>3 DEF RollbackForget
<1> QED
  BY <1>1, <1>2, <1>3, <1>4, <1>5, <1>6, <1>7 DEF Job

LEMMA KillStepRefines ==
    ASSUME TypeOK, Agreement, NEW b \in ID, KillStep(b)
    PROVE  LedgerStep
<1>0. branches[b].state = "killing"
  BY DEF Agreement, KillsMarked, KillStep, KillSandbox, KillKv, KillFailed, KillForget
<1>1. CASE KillSandbox(b)
  <2>1. UNCHANGED <<branches, kv>>
    BY <1>1 DEF KillSandbox
  <2>2. CASE sandbox' = [sandbox EXCEPT ![b] = "none"]
    BY <1>0, <2>1, <2>2, SandboxReleased, LedgerStepIntro
  <2>3. CASE \A d \in ID : sandbox'[d] = sandbox[d]
    BY <2>1, <2>3, Invisible, LedgerStepIntro
  <2> QED
    BY <1>1, <2>2, <2>3 DEF KillSandbox, SandboxKilled, SandboxKillRaises, TypeOK
<1>2. CASE KillKv(b)
  <2>1. (kv' = kv \ {b} \/ kv' = kv) /\ UNCHANGED <<branches, sandbox>>
    BY <1>2 DEF KillKv
  <2> QED
    BY <1>0, <2>1, KvReleased, Invisible, LedgerStepIntro
<1>3. CASE KillFailed(b)
  <2>1. UNCHANGED <<registryVars, backendVars>>
    BY <1>3 DEF KillFailed
  <2> QED
    BY <2>1, Invisible, LedgerStepIntro
<1>4. CASE KillForget(b)
  <2>1. UNCHANGED backendVars /\ b \notin kv /\ sandbox[b] = "none"
    BY <1>4 DEF KillForget, Agreement, HalvesGone
  <2>2. CASE Forget(b)
    BY <1>0, <2>1, <2>2, ForgetDrops, LedgerStepIntro
  <2>3. CASE UNCHANGED registryVars
    BY <2>1, <2>3, Invisible, LedgerStepIntro
  <2> QED
    BY <1>4, <2>2, <2>3 DEF KillForget
<1> QED
  BY <1>1, <1>2, <1>3, <1>4 DEF KillStep

LEMMA SweepRefines ==
    ASSUME Settled, TypeOK, Agreement,
           \/ ReapExpired \/ Reconcile \/ ReviveOk \/ ReviveFails
           \/ \E b \in ID : KillLosers(b) \/ LosersRetry(b) \/ SweepDead(b)
           \/ \E k \in Kind : SweepStep(k)
    PROVE  LedgerStep
<1>0. reviving = NoBranch
  BY DEF Agreement
<1>1. ASSUME NEW b \in ID, NEW k \in Kind, KillFor(k, b), UNCHANGED backendVars
      PROVE  LedgerStep
  <2>1. CASE Killable(b) /\ StartKill(b, k)
    BY <1>1, <2>1, StartKillDooms, LedgerStepIntro
  <2>2. CASE UNCHANGED branches
    BY <1>1, <2>2, Invisible, LedgerStepIntro
  <2> QED
    BY <1>1, <2>1, <2>2 DEF KillFor
<1>2. CASE UNCHANGED <<branches, backendVars>>
  BY <1>2, Invisible, LedgerStepIntro
<1>3. ASSUME NEW b \in ID, LosersRetry(b)  PROVE LedgerStep
  <2>1. CASE Killable(b) /\ StartKill(b, "losers")
    BY <1>3, <2>1, StartKillDooms, LedgerStepIntro DEF LosersRetry
  <2> QED
    BY <1>2, <1>3, <2>1 DEF LosersRetry
<1>4. ASSUME NEW b \in ID, SweepDead(b)  PROVE LedgerStep
  <2>1. CollectDead(b, todo["dead"] \ {b})
    BY <1>4 DEF Settled, SweepDead
  <2> QED
    BY <1>1, <2>1 DEF CollectDead, Kind
<1>5. ASSUME NEW k \in Kind, SweepStep(k)  PROVE LedgerStep
  <2>1. ASSUME NEW b \in ID, Attempt(k, b)  PROVE LedgerStep
    BY <1>1, <2>1 DEF Attempt
  <2>2. CASE SweepReturn(k)
    <3>1. UNCHANGED <<branches, backendVars>>
      BY <2>2 DEF SweepReturn
    <3> QED
      BY <1>2, <3>1
  <2> QED
    BY <1>5, <2>1, <2>2 DEF SweepStep
<1>6. ~ReviveOk /\ ~ReviveFails
  BY <1>0 DEF ReviveOk, ReviveFails
<1> QED
  BY <1>2, <1>3, <1>4, <1>5, <1>6 DEF ReapExpired, Reconcile, KillLosers

LEMMA LifeRefines ==
    ASSUME TypeOK, Agreement,
           \/ \E b \in ID : RenewLease(b) \/ LeaseLapses(b) \/ SandboxDies(b)
           \/ StopReaper \/ CloseBegin \/ CloseWakes \/ CloseEnd
           \/ Crash \/ Restart
    PROVE  LedgerStep
<1>1. ASSUME NEW b \in ID, RenewLease(b) \/ LeaseLapses(b)  PROVE LedgerStep
  <2>1. PICK l \in {"held", "lapsed"} : branches' = [branches EXCEPT ![b].lease = l]
    BY <1>1 DEF RenewLease, LeaseLapses
  <2>2. \A d \in ID : branches'[d].state = branches[d].state
    BY <2>1 DEF TypeOK, Branch
  <2>3. UNCHANGED backendVars
    BY <1>1 DEF RenewLease, LeaseLapses
  <2> QED
    BY <2>2, <2>3, Invisible, LedgerStepIntro
<1>2. ASSUME NEW b \in ID, SandboxDies(b)  PROVE LedgerStep
  <2>1. \A d \in ID : sandbox'[d] = "none" <=> sandbox[d] = "none"
    BY <1>2 DEF TypeOK, SandboxDies
  <2>2. UNCHANGED <<branches, kv>>
    BY <1>2 DEF SandboxDies
  <2> QED
    BY <2>1, <2>2, Invisible, LedgerStepIntro
<1>3. CASE StopReaper \/ CloseBegin \/ CloseWakes \/ CloseEnd \/ Restart
  <2>1. UNCHANGED <<branches, backendVars>>
    BY <1>3 DEF StopReaper, CloseBegin, CloseWakes, CloseEnd, Drain, Restart
  <2> QED
    BY <2>1, Invisible, LedgerStepIntro
<1>4. CASE Crash
  <2>1. /\ kv' \subseteq kv /\ branches' = branches
        /\ \A b \in ID : sandbox[b] = "none" => sandbox'[b] = "none"
    BY <1>4 DEF Crash
  <2>2. [b \in ID |-> HeldBy(b)]' \in [ID -> SUBSET {"kv", "sandbox"}]
    BY DEF HeldBy
  <2>3. \A b \in ID : [d \in ID |-> HeldBy(d)]'[b] \subseteq [d \in ID |-> HeldBy(d)][b]
    BY <2>1 DEF HeldBy
  <2>4. StateOf' = StateOf
    BY <2>1 DEF StateOf
  <2>5. Ledger!Lose
    BY <2>2, <2>3, <2>4 DEF Ledger!Lose, Ledger!Half
  <2> QED
    BY <2>5, LedgerStepIntro
<1> QED
  BY <1>1, <1>2, <1>3, <1>4

LEMMA StepRefines == Settled /\ TypeOK /\ Agreement /\ [Next]_vars => LedgerStep
<1> SUFFICES ASSUME Settled, TypeOK, Agreement, [Next]_vars  PROVE LedgerStep
  OBVIOUS
<1>0. Fresh \subseteq ID \ Recorded
  BY DEF Fresh
<1>1. ASSUME NEW b \in ID, NEW l \in Leases, CreateParent(b, l)  PROVE LedgerStep
  BY <1>0, <1>1, JournalEnters, LedgerStepIntro DEF CreateParent
<1>2. ASSUME NEW p \in ID, NEW C \in SUBSET ID, NEW l \in Leases, Fork(p, C, l)
      PROVE  LedgerStep
  BY <1>0, <1>2, JournalEnters, LedgerStepIntro DEF Fork
<1>3. ASSUME NEW b \in ID, Kill(b)  PROVE LedgerStep
  BY <1>3, StartKillDooms, LedgerStepIntro DEF Kill
<1>4. CASE UNCHANGED vars
  BY <1>4, Invisible, LedgerStepIntro DEF vars
<1> QED
  BY <1>1, <1>2, <1>3, <1>4, JobRefines, KillStepRefines, SweepRefines, LifeRefines
  DEF Next, Caller, Environment

-----------------------------------------------------------------------------
\* The orchestrator keeps the ledger's promises whatever interleaving of forks,
\* kills, sweeps, close calls, faults and crashes it runs through.
THEOREM RefinesLedger == Settled => (Spec => ImplementsLedger)
<1> SUFFICES ASSUME Settled  PROVE Spec => ImplementsLedger
  OBVIOUS
<1>1. Init => Ledger!LedgerInit
  BY DEF Init, Ledger!LedgerInit, StateOf, HeldBy, Absent
<1>2. TypeOK /\ Agreement /\ [Next]_vars => [Ledger!LedgerNext]_(Ledger!ledgerVars)
  BY StepRefines DEF LedgerStep
<1> QED
  BY <1>1, <1>2, TypeCorrect, AgreementHolds, PTL
  DEF Spec, ImplementsLedger, Ledger!LedgerSpec

\* A journaled kill is never taken back: the row is reaped or it stays.
THEOREM KillsAreFinal == Settled => (Spec => KillIsFinal)
<1> SUFFICES ASSUME Settled  PROVE Spec => KillIsFinal
  OBVIOUS
<1> DEFINE Final == \A b \in ID : branches[b].state = "killing"
                       => branches'[b].state \in {"killing", "absent"}
<1>1. LedgerStep => Final
  <2> SUFFICES ASSUME LedgerStep, NEW b \in ID, branches[b].state = "killing"
               PROVE  branches'[b].state \in {"killing", "absent"}
    OBVIOUS
  <2>1. StateOf[b] = "killing" /\ StateOf'[b] = branches'[b].state
    BY DEF StateOf
  <2>2. StateOf \in [ID -> {StateOf[d] : d \in ID}]
    BY DEF StateOf
  <2>3. StateOf'[b] \in {"killing", "absent"}
    BY <2>1, <2>2 DEF LedgerStep, Ledger!LedgerNext, Ledger!ledgerVars, Ledger!Enter,
       Ledger!Settle, Ledger!Doom, Ledger!Drop, Ledger!Acquire, Ledger!Release, Ledger!Lose
  <2> QED
    BY <2>1, <2>3
<1>2. TypeOK /\ Agreement /\ [Next]_vars => [Final]_vars
  BY <1>1, StepRefines
<1> QED
  BY <1>2, TypeCorrect, AgreementHolds, PTL DEF Spec, KillIsFinal
=============================================================================
