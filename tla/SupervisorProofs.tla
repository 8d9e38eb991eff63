-------------------------- MODULE SupervisorProofs --------------------------
(***************************************************************************)
(* The safety properties of Supervisor for any ids, modes and bounds.  The  *)
(* invariant SupInv is inductive.  Writers of the registry share one lemma  *)
(* (SaveKeeps); the other actions have a lemma each or share one with the   *)
(* actions that disturb the same parts.                                     *)
(***************************************************************************)
EXTENDS Supervisor, TLAPS

-----------------------------------------------------------------------------
\* The inductive invariant behind the safety properties

\* A write in progress: what the file holds, who waits for it, and what the
\* stage it leads to needs of the rows.
SaveSound ==
    /\ saving # NoSave => file = IF saving.renamed THEN branches ELSE saving.old
    /\ \A b \in saving.for : call[b] = "saving"
    /\ saving.good \in {"idle", "spawn", "reap"} /\ saving.bad \in {"idle", "rollback"}
    /\ saving.good # "idle" => \A b \in saving.for : branches[b] # "absent"
    /\ saving.bad # "idle" => \A b \in saving.for : saving.old[b] # "absent"

\* An id without a row, in memory or on disk, has no handle and no call that
\* acquires or releases anything.
RowsFirst ==
    up => \A b \in ID : (file[b] = "absent" \/ branches[b] = "absent")
                          => b \notin handles /\ call[b] \in {"idle", "saving"}

\* The reaper has a handle of every process but the one it is about to open, and
\* none once a call has reaped it.
HandlesSound ==
    up => \A b \in ID :
        /\ b \notin handles /\ call[b] \notin {"exec", "pidfd"} => Own(b) = "none"
        /\ call[b] \in {"unrecord", "forget"} => b \notin handles

\* A dead supervisor has no memory, and its successor has yet to fork anything.
DownIsEmpty ==
    /\ ~up => /\ saving = NoSave /\ handles = {} /\ pool = {} /\ epoch < MaxCrashes
              /\ \A b \in ID : call[b] = "idle"
    /\ \A e \in Epoch, b \in ID : e > epoch => proc[e][b] = "none"

SupInv == /\ SupTypeOK /\ MemoryMatchesFile /\ SaveSound /\ RowsFirst /\ HandlesSound
          /\ DownIsEmpty /\ NoneOutlives

-----------------------------------------------------------------------------
\* Initially nothing is recorded, written or forked.
LEMMA InitSound == SupInit => SupInv
<1> SUFFICES ASSUME SupInit PROVE SupInv
    OBVIOUS
<1> USE DEF SupInit
<1>1. SupTypeOK
    BY SupAssumption DEF SupTypeOK, Epoch, Rows, Row, Phase, Stage, NoSave
<1>2. MemoryMatchesFile /\ RowsFirst /\ HandlesSound /\ DownIsEmpty
    BY SupAssumption DEF MemoryMatchesFile, RowsFirst, HandlesSound, DownIsEmpty, Own, Epoch
<1>3. SaveSound
    BY DEF SaveSound, NoSave
<1>4. NoneOutlives
    BY DEF NoneOutlives, Epoch
<1> QED
    BY <1>1, <1>2, <1>3, <1>4 DEF SupInv

\* A call of _persist by a caller that fits: rows it empties have no handle, and
\* what it goes on to, in either case, finds the rows it needs.
LEMMA SaveKeeps ==
    ASSUME SupInv, up,
           NEW S \in SUBSET ID, S # {}, NEW row \in Row,
           NEW good \in {"idle", "spawn", "reap"}, NEW bad \in {"idle", "rollback"},
           Save(S, row, good, bad),
           good # "idle" => row # "absent",
           bad # "idle" => \A b \in S : branches[b] # "absent",
           \A b \in S : call[b] \notin {"exec", "pidfd"},
           row = "absent" => \A b \in S : b \notin handles,
           UNCHANGED <<mode, up, epoch, handles, file, proc, thread, quit, faults>>,
           pool' \subseteq ID, calls' \in 0 .. MaxCalls
    PROVE  SupInv'
<1> USE DEF Save
<1>1. /\ branches \in Rows /\ file \in Rows /\ call \in [ID -> Stage] /\ saving = NoSave
      /\ branches = file
    BY DEF SupInv, SupTypeOK, MemoryMatchesFile
<1>2. /\ saving'.for = S /\ saving'.old = branches /\ saving'.renamed = FALSE
      /\ saving'.good = good /\ saving'.bad = bad
    OBVIOUS
<1>3. saving' # NoSave
    BY <1>2 DEF NoSave
<1>4. /\ \A b \in ID : branches'[b] = IF b \in S THEN row ELSE branches[b]
      /\ \A b \in ID : call'[b] = IF b \in S THEN "saving" ELSE call[b]
    OBVIOUS
<1>5. SupTypeOK'
  <2>1. branches' \in Rows /\ call' \in [ID -> Stage]
    BY <1>1 DEF Rows, Row, Stage
  <2>2. saving' \in [for : SUBSET ID, old : Rows, renamed : BOOLEAN, good : Stage, bad : Stage]
    BY <1>1 DEF Stage
  <2> QED
    BY <2>1, <2>2 DEF SupInv, SupTypeOK
<1>6. MemoryMatchesFile'
    BY <1>3 DEF MemoryMatchesFile
<1>7. SaveSound'
    BY <1>1, <1>2, <1>4 DEF SaveSound
<1>8. RowsFirst'
    BY <1>1, <1>4 DEF RowsFirst, SupInv
<1>9. HandlesSound'
    BY <1>4 DEF HandlesSound, SupInv, Own
<1>10. DownIsEmpty' /\ NoneOutlives'
    BY DEF DownIsEmpty, NoneOutlives, SupInv
<1> QED
    BY <1>5, <1>6, <1>7, <1>8, <1>9, <1>10 DEF SupInv

LEMMA WritersKeep ==
    ASSUME SupInv,
           \/ \E S \in SUBSET ID : Fork(S)
           \/ \E b \in ID : GoLive(b) \/ Unrecord(b) \/ Kill(b) \/ KillForget(b)
    PROVE  SupInv'
<1> USE DEF SupInv
<1>0. /\ branches \in Rows /\ pool \subseteq ID /\ calls \in 0 .. MaxCalls /\ MaxCalls \in Nat
    BY SupAssumption DEF SupTypeOK
<1>1. CASE \E S \in SUBSET ID : Fork(S)
  <2>1. PICK S \in SUBSET ID : Fork(S)
    BY <1>1
  <2>2. up /\ S # {} /\ (\A b \in S : call[b] = "idle") /\ Save(S, "forking", "spawn", "idle")
    BY <2>1 DEF Fork
  <2>3. /\ UNCHANGED <<mode, up, epoch, handles, file, proc, thread, quit, faults>>
        /\ pool' \subseteq ID /\ calls' \in 0 .. MaxCalls
    BY <2>1, <1>0 DEF Fork
  <2> HIDE DEF SupInv
  <2> QED
    BY <2>2, <2>3, SaveKeeps DEF Row
<1>2. ASSUME NEW b \in ID, GoLive(b)
      PROVE  SupInv'
  <2>1. up /\ call[b] = "golive" /\ Save({b}, "live", "idle", "rollback")
    BY <1>2 DEF GoLive
  <2>2. branches[b] # "absent"
    BY <2>1 DEF RowsFirst
  <2>3. /\ UNCHANGED <<mode, up, epoch, handles, file, proc, thread, quit, faults>>
        /\ pool' \subseteq ID /\ calls' \in 0 .. MaxCalls
    BY <1>2, <1>0 DEF GoLive
  <2> HIDE DEF SupInv
  <2> QED
    BY <2>1, <2>2, <2>3, SaveKeeps DEF Row
<1>3. ASSUME NEW b \in ID, Unrecord(b) \/ KillForget(b)
      PROVE  SupInv'
  <2>1. up /\ call[b] \in {"unrecord", "forget"} /\ Save({b}, "absent", "idle", "idle")
    BY <1>3 DEF Unrecord, KillForget
  <2>2. b \notin handles
    BY <2>1 DEF HandlesSound
  <2>3. /\ UNCHANGED <<mode, up, epoch, handles, file, proc, thread, quit, faults>>
        /\ pool' \subseteq ID /\ calls' \in 0 .. MaxCalls
    BY <1>3, <1>0 DEF Unrecord, KillForget
  <2> HIDE DEF SupInv
  <2> QED
    BY <2>1, <2>2, <2>3, SaveKeeps DEF Row
<1>4. ASSUME NEW b \in ID, Kill(b)
      PROVE  SupInv'
  <2>1. up /\ call[b] = "idle" /\ Save({b}, "killing", "reap", "idle")
    BY <1>4 DEF Kill
  <2>3. /\ UNCHANGED <<mode, up, epoch, handles, file, proc, thread, quit, faults>>
        /\ pool' \subseteq ID /\ calls' \in 0 .. MaxCalls
    BY <1>4, <1>0 DEF Kill
  <2> HIDE DEF SupInv
  <2> QED
    BY <2>1, <2>3, SaveKeeps DEF Row
<1> QED
    BY <1>1, <1>2, <1>3, <1>4

-----------------------------------------------------------------------------
\* The rest of a write: it fails and the rows are put back, or the file is
\* replaced and the callers go on.
LEMMA WritesKeep ==
    ASSUME SupInv, WriteStep
    PROVE  SupInv'
<1> USE DEF SupInv
<1>0. /\ branches \in Rows /\ file \in Rows /\ call \in [ID -> Stage] /\ pool \subseteq ID
      /\ saving \in [for : SUBSET ID, old : Rows, renamed : BOOLEAN, good : Stage, bad : Stage]
      /\ NoSave \in [for : SUBSET ID, old : Rows, renamed : BOOLEAN, good : Stage, bad : Stage]
    BY DEF SupTypeOK, NoSave, Rows, Row, Stage
<1>1. CASE SaveFails
  <2>1. /\ up /\ saving # NoSave /\ branches' = saving.old /\ file = saving.old /\ saving' = NoSave
        /\ \A b \in ID : call'[b] = IF b \in saving.for THEN saving.bad ELSE call[b]
        /\ call' \in [ID -> Stage] /\ pool' \subseteq ID /\ faults' \in 0 .. MaxFaults
        /\ UNCHANGED <<mode, up, epoch, handles, file, proc, thread, quit, calls>>
    BY <1>0, <1>1, SupAssumption DEF SaveFails, Settle, SaveSound, Fault, SupTypeOK
  <2>2. SupTypeOK' /\ MemoryMatchesFile'
    BY <1>0, <2>1 DEF SupTypeOK, MemoryMatchesFile
  <2>3. SaveSound'
    BY <2>1 DEF SaveSound, NoSave
  <2>4. RowsFirst' /\ HandlesSound'
    BY <1>0, <2>1 DEF RowsFirst, HandlesSound, SaveSound, Own
  <2>5. DownIsEmpty' /\ NoneOutlives'
    BY <2>1 DEF DownIsEmpty, NoneOutlives
  <2> QED
    BY <2>2, <2>3, <2>4, <2>5
<1>2. CASE SaveRename
  <2>1. /\ up /\ saving # NoSave /\ file' = branches
        /\ saving' = [saving EXCEPT !.renamed = TRUE]
        /\ UNCHANGED <<mode, up, epoch, branches, handles, call, pool, proc, thread, quit, calls,
                       faults>>
    BY <1>2 DEF SaveRename
  <2>2. /\ saving'.for = saving.for /\ saving'.old = saving.old /\ saving'.renamed = TRUE
        /\ saving'.good = saving.good /\ saving'.bad = saving.bad
        /\ saving' \in [for : SUBSET ID, old : Rows, renamed : BOOLEAN, good : Stage, bad : Stage]
    BY <1>0, <2>1
  <2>3. SupTypeOK' /\ MemoryMatchesFile'
    BY <1>0, <2>1, <2>2 DEF SupTypeOK, MemoryMatchesFile
  <2>4. SaveSound'
    BY <2>1, <2>2 DEF SaveSound
  <2>5. RowsFirst' /\ HandlesSound'
    BY <2>1 DEF RowsFirst, HandlesSound, Own
  <2>6. DownIsEmpty' /\ NoneOutlives'
    BY <2>1 DEF DownIsEmpty, NoneOutlives
  <2> QED
    BY <2>3, <2>4, <2>5, <2>6
<1>3. CASE SaveEnd
  <2>1. /\ up /\ saving.renamed /\ saving' = NoSave
        /\ \A b \in ID : call'[b] = IF b \in saving.for THEN saving.good ELSE call[b]
        /\ call' \in [ID -> Stage]
        /\ UNCHANGED <<mode, up, epoch, branches, handles, file, pool, proc, thread, quit, calls,
                       faults>>
    BY <1>0, <1>3 DEF SaveEnd, Settle
  <2>2. saving # NoSave
    BY <2>1 DEF NoSave
  <2>3. file = branches
    BY <2>1, <2>2 DEF SaveSound
  <2>4. SupTypeOK' /\ MemoryMatchesFile'
    BY <1>0, <2>1, <2>3 DEF SupTypeOK, MemoryMatchesFile
  <2>5. SaveSound'
    BY <2>1 DEF SaveSound, NoSave
  <2>6. RowsFirst' /\ HandlesSound'
    BY <1>0, <2>1, <2>3 DEF RowsFirst, HandlesSound, SaveSound, Own
  <2>7. DownIsEmpty' /\ NoneOutlives'
    BY <2>1 DEF DownIsEmpty, NoneOutlives
  <2> QED
    BY <2>4, <2>5, <2>6, <2>7
<1> QED
    BY <1>1, <1>2, <1>3 DEF WriteStep

-----------------------------------------------------------------------------
\* A step of a call that writes nothing, on an id that has a row: what it has to
\* show is that handles and processes of that id stay in step.
LEMMA CallKeeps ==
    ASSUME SupInv, up, NEW b \in ID,
           call[b] \notin {"idle", "saving"},
           NEW stage \in Stage, call' = [call EXCEPT ![b] = stage],
           NEW phase \in Phase, proc' = [proc EXCEPT ![epoch][b] = phase],
           handles' \subseteq ID, \A a \in ID \ {b} : a \in handles' <=> a \in handles,
           b \notin handles' /\ stage \notin {"exec", "pidfd"} => phase = "none",
           stage \in {"unrecord", "forget"} => b \notin handles',
           thread' \in [Epoch -> [ID -> {"none", "caller", "pool"}]],
           quit' \subseteq ID, faults' \in 0 .. MaxFaults,
           UNCHANGED <<mode, up, epoch, branches, saving, file, pool, calls>>
    PROVE  SupInv'
<1> USE DEF SupInv
<1>1. /\ call \in [ID -> Stage] /\ epoch \in Epoch /\ proc \in [Epoch -> [ID -> Phase]]
      /\ saving.for \subseteq ID
    BY DEF SupTypeOK
<1>2. /\ call'[b] = stage /\ \A a \in ID \ {b} : call'[a] = call[a]
      /\ proc'[epoch][b] = phase
      /\ \A e \in Epoch, a \in ID : e # epoch \/ a # b => proc'[e][a] = proc[e][a]
    BY <1>1
<1>3. SupTypeOK'
    BY <1>1 DEF SupTypeOK
<1>4. MemoryMatchesFile' /\ SaveSound'
    BY <1>1, <1>2 DEF MemoryMatchesFile, SaveSound
<1>5. RowsFirst'
    BY <1>2 DEF RowsFirst
<1>6. HandlesSound'
    BY <1>1, <1>2 DEF HandlesSound, Own
<1>7. DownIsEmpty' /\ NoneOutlives'
    BY <1>1, <1>2 DEF DownIsEmpty, NoneOutlives, Epoch
<1> QED
    BY <1>3, <1>4, <1>5, <1>6, <1>7

LEMMA SpawnsKeep ==
    ASSUME SupInv, NEW b \in ID, Popen(b) \/ PopenReturns(b) \/ PidfdOpen(b)
    PROVE  SupInv'
<1>0. /\ proc \in [Epoch -> [ID -> Phase]] /\ epoch \in Epoch /\ quit \subseteq ID
      /\ thread \in [Epoch -> [ID -> {"none", "caller", "pool"}]] /\ handles \subseteq ID
      /\ faults \in 0 .. MaxFaults /\ MaxFaults \in Nat
      /\ (up /\ b \notin handles /\ call[b] \notin {"exec", "pidfd"} => Own(b) = "none")
    BY SupAssumption DEF SupInv, SupTypeOK, HandlesSound
<1>1. Own(b) \in Phase /\ proc = [proc EXCEPT ![epoch][b] = Own(b)]
    BY <1>0 DEF Own
<1>2. CASE Popen(b)
  <2>1. up /\ call[b] = "spawn"
        /\ UNCHANGED <<mode, up, epoch, branches, handles, saving, file, pool, calls>>
    BY <1>2 DEF Popen
  <2>2. CASE b \notin handles /\ Goto(b, IF mode = "preexec" THEN "exec" ELSE "pidfd")
             /\ SetOwn(b, IF mode = "off" THEN "running" ELSE "forked")
             /\ thread' = [thread EXCEPT ![epoch][b] = IF b \in pool THEN "pool" ELSE "caller"]
             /\ quit' = quit \ {b} /\ UNCHANGED faults
    <3>1. thread' \in [Epoch -> [ID -> {"none", "caller", "pool"}]]
        BY <1>0, <2>2
    <3> DEFINE stage == IF mode = "preexec" THEN "exec" ELSE "pidfd"
               phase == IF mode = "off" THEN "running" ELSE "forked"
    <3>2. stage \in Stage /\ stage \in {"exec", "pidfd"} /\ phase \in Phase
        BY DEF Stage, Phase
    <3>3. call' = [call EXCEPT ![b] = stage] /\ proc' = [proc EXCEPT ![epoch][b] = phase]
        BY <2>2 DEF Goto, SetOwn
    <3>4. quit' \subseteq ID /\ faults' \in 0 .. MaxFaults /\ handles' \subseteq ID /\
            handles' = handles
        BY <1>0, <2>1, <2>2
    <3> HIDE DEF stage, phase
    <3> QED
        BY <2>1, <3>1, <3>2, <3>3, <3>4, CallKeeps
  <2>3. CASE (IF b \in handles THEN UNCHANGED faults ELSE Fault) /\ Goto(b, "rollback")
             /\ UNCHANGED <<proc, thread, quit>>
    <3>1. faults' \in 0 .. MaxFaults
        BY <1>0, <2>3 DEF Fault
    <3>2. call' = [call EXCEPT ![b] = "rollback"] /\ proc' = [proc EXCEPT ![epoch][b] = Own(b)]
        BY <1>1, <2>3 DEF Goto
    <3> QED
        BY <1>0, <1>1, <2>1, <2>3, <3>1, <3>2, CallKeeps DEF Stage
  <2> QED
    BY <1>2, <2>2, <2>3 DEF Popen
<1>3. CASE PopenReturns(b)
  <2> DEFINE stage == IF Own(b) = "running" THEN "pidfd" ELSE "rollback"
  <2>1. up /\ call[b] = "exec" /\ call' = [call EXCEPT ![b] = stage]
        /\ stage \in Stage /\ (stage = "pidfd" \/ (stage = "rollback" /\ Own(b) = "none"))
    BY <1>3 DEF PopenReturns, Goto, Stage
  <2>2. UNCHANGED <<mode, up, epoch, branches, handles, saving, file, pool, proc, thread, quit,
                    calls, faults>>
    BY <1>3 DEF PopenReturns
  <2>3. proc' = [proc EXCEPT ![epoch][b] = Own(b)]
    BY <1>1, <2>2
  <2> HIDE DEF stage
  <2> QED
    BY <1>0, <1>1, <2>1, <2>2, <2>3, CallKeeps
<1>4. CASE PidfdOpen(b)
  <2>1. up /\ call[b] = "pidfd"
        /\ UNCHANGED <<mode, up, epoch, branches, saving, file, pool, thread, quit, calls>>
    BY <1>4 DEF PidfdOpen
  <2>2. CASE handles' = handles \cup {b} /\ Goto(b, "golive") /\ UNCHANGED <<proc, faults>>
    <3>1. call' = [call EXCEPT ![b] = "golive"] /\ proc' = [proc EXCEPT ![epoch][b] = Own(b)]
        BY <1>1, <2>2 DEF Goto
    <3> QED
        BY <1>0, <1>1, <2>1, <2>2, <3>1, CallKeeps DEF Stage
  <2>3. CASE Fault /\ SetOwn(b, "none") /\ Goto(b, "rollback") /\ UNCHANGED handles
    <3>1. /\ call' = [call EXCEPT ![b] = "rollback"] /\ proc' = [proc EXCEPT ![epoch][b] = "none"]
          /\ faults' \in 0 .. MaxFaults
        BY <1>0, <2>3 DEF Goto, SetOwn, Fault
    <3> QED
        BY <1>0, <2>1, <2>3, <3>1, CallKeeps DEF Stage, Phase
  <2> QED
    BY <1>4, <2>2, <2>3 DEF PidfdOpen
<1> QED
    BY <1>2, <1>3, <1>4

\* kill of the reaper, from a rollback or a kill.
LEMMA ReapsKeep ==
    ASSUME SupInv, NEW b \in ID, Rollback(b) \/ KillReap(b)
    PROVE  SupInv'
<1>0. /\ proc \in [Epoch -> [ID -> Phase]] /\ epoch \in Epoch /\ quit \subseteq ID
      /\ thread \in [Epoch -> [ID -> {"none", "caller", "pool"}]] /\ handles \subseteq ID
      /\ faults \in 0 .. MaxFaults
      /\ (up /\ b \notin handles /\ call[b] \notin {"exec", "pidfd"} => Own(b) = "none")
    BY DEF SupInv, SupTypeOK, HandlesSound
<1>1. PICK stage \in {"unrecord", "forget"} : call' = [call EXCEPT ![b] = stage]
    BY DEF Rollback, KillReap, Goto
<1>2. /\ up /\ call[b] \in {"rollback", "reap"} /\ Reap(b)
      /\ UNCHANGED <<mode, up, epoch, branches, saving, file, pool, thread, quit, calls, faults>>
    BY DEF Rollback, KillReap
<1>3. proc' = [proc EXCEPT ![epoch][b] = "none"]
  <2>1. CASE b \in handles
    BY <1>2, <2>1 DEF Reap
  <2>2. CASE b \notin handles
    <3>1. proc[epoch][b] = "none" /\ proc' = proc
        BY <1>0, <1>2, <2>2 DEF Own, Reap
    <3> QED
        BY <1>0, <3>1
  <2> QED
    BY <2>1, <2>2
<1>4. handles' = handles \ {b}
    BY <1>2 DEF Reap
<1> QED
    BY <1>0, <1>1, <1>2, <1>3, <1>4, CallKeeps DEF Stage, Phase

-----------------------------------------------------------------------------
\* A step in which processes only end, or go on to their next phase; one that
\* comes to run does so under a supervisor that is up.
LEMMA ProcessesKeep ==
    ASSUME SupInv,
           proc' \in [Epoch -> [ID -> Phase]],
           \A e \in Epoch, b \in ID : proc[e][b] = "none" => proc'[e][b] = "none",
           \A e \in Epoch, b \in ID :
              proc'[e][b] = "running" => proc[e][b] = "running" \/ (up /\ e = epoch),
           thread' \in [Epoch -> [ID -> {"none", "caller", "pool"}]],
           quit' \subseteq ID, faults' \in 0 .. MaxFaults, pool' \subseteq ID, ~up => pool' = {},
           UNCHANGED <<mode, up, epoch, branches, handles, call, saving, file, calls>>
    PROVE  SupInv'
<1> USE DEF SupInv
<1>0. epoch \in Epoch
    BY DEF SupTypeOK
<1>1. SupTypeOK'
    BY DEF SupTypeOK
<1>2. MemoryMatchesFile' /\ SaveSound' /\ RowsFirst'
    BY DEF MemoryMatchesFile, SaveSound, RowsFirst
<1>3. HandlesSound' /\ DownIsEmpty'
    BY <1>0 DEF HandlesSound, Own, DownIsEmpty
<1>4. NoneOutlives'
  <2> SUFFICES ASSUME mode # "off", NEW e \in Epoch, NEW b \in ID, e < epoch \/ ~up
               PROVE  proc'[e][b] \in {"none", "forked", "armed"}
    BY DEF NoneOutlives
  <2>1. proc[e][b] \in {"none", "forked", "armed"}
    BY DEF NoneOutlives
  <2>2. e # epoch \/ ~up
    BY <1>0, SupAssumption DEF Epoch
  <2> QED
    BY <2>1, <2>2 DEF Phase
<1> QED
    BY <1>1, <1>2, <1>3, <1>4

LEMMA ChildrenKeep ==
    ASSUME SupInv, NEW e \in Epoch, NEW b \in ID, ChildStep(e, b)
    PROVE  SupInv'
<1>0. /\ proc \in [Epoch -> [ID -> Phase]] /\ quit \subseteq ID /\ pool \subseteq ID
      /\ thread \in [Epoch -> [ID -> {"none", "caller", "pool"}]]
      /\ faults \in 0 .. MaxFaults /\ MaxFaults \in Nat /\ (~up => pool = {})
    BY SupAssumption DEF SupInv, SupTypeOK, DownIsEmpty
<1>1. PICK phase \in Phase :
         /\ proc' = [proc EXCEPT ![e][b] = phase]
         /\ proc[e][b] # "none"
         /\ phase = "running" => up /\ e = epoch
    BY DEF ChildStep, ChildArm, ChildCheck, Phase
<1>2. /\ quit' \subseteq ID /\ faults' \in 0 .. MaxFaults
      /\ UNCHANGED <<mode, up, epoch, volatile, file, thread, calls>>
    BY <1>0 DEF ChildStep, ChildArm, ChildCheck, Fault
<1>3. /\ proc' \in [Epoch -> [ID -> Phase]]
      /\ proc'[e][b] = phase
      /\ \A f \in Epoch, a \in ID : f # e \/ a # b => proc'[f][a] = proc[f][a]
    BY <1>0, <1>1
<1> QED
    BY <1>0, <1>1, <1>2, <1>3, ProcessesKeep DEF volatile

LEMMA ExitsKeep ==
    ASSUME SupInv, NEW b \in ID, ChildExits(b)
    PROVE  SupInv'
<1>0. /\ proc \in [Epoch -> [ID -> Phase]] /\ quit \subseteq ID /\ pool \subseteq ID
      /\ thread \in [Epoch -> [ID -> {"none", "caller", "pool"}]] /\ epoch \in Epoch
      /\ faults \in 0 .. MaxFaults /\ MaxFaults \in Nat /\ (~up => pool = {})
    BY SupAssumption DEF SupInv, SupTypeOK, DownIsEmpty
<1>1. /\ proc' = [proc EXCEPT ![epoch][b] = "none"]
      /\ quit' \subseteq ID /\ faults' \in 0 .. MaxFaults
      /\ UNCHANGED <<mode, up, epoch, volatile, file, thread, calls>>
    BY <1>0 DEF ChildExits, SetOwn, Fault
<1>2. /\ proc' \in [Epoch -> [ID -> Phase]]
      /\ proc'[epoch][b] = "none"
      /\ \A f \in Epoch, a \in ID : f # epoch \/ a # b => proc'[f][a] = proc[f][a]
    BY <1>0, <1>1 DEF Phase
<1> QED
    BY <1>0, <1>1, <1>2, ProcessesKeep DEF volatile

LEMMA PoolKeeps ==
    ASSUME SupInv, PoolEnds
    PROVE  SupInv'
<1>0. /\ proc \in [Epoch -> [ID -> Phase]] /\ quit \subseteq ID /\ epoch \in Epoch
      /\ thread \in [Epoch -> [ID -> {"none", "caller", "pool"}]]
      /\ faults \in 0 .. MaxFaults
    BY DEF SupInv, SupTypeOK
<1> DEFINE signalled == [b \in ID |->
              IF thread[epoch][b] = "pool" /\ mode = "shim" /\
                proc[epoch][b] \in {"armed", "running"}
                THEN "none" ELSE proc[epoch][b]]
           adopted == [b \in ID |->
              IF thread[epoch][b] = "pool" THEN "caller" ELSE thread[epoch][b]]
<1>1. proc' = [proc EXCEPT ![epoch] = signalled] /\ thread' = [thread EXCEPT ![epoch] = adopted]
    BY <1>0 DEF PoolEnds
<1>2. signalled \in [ID -> Phase] /\ adopted \in [ID -> {"none", "caller", "pool"}]
    BY <1>0 DEF Phase
<1>3. /\ proc' \in [Epoch -> [ID -> Phase]]
      /\ thread' \in [Epoch -> [ID -> {"none", "caller", "pool"}]]
    BY <1>0, <1>1, <1>2
<1>4. \A e \in Epoch, b \in ID : proc'[e][b] \in {"none", proc[e][b]}
    BY <1>0, <1>1
<1>5. /\ up /\ pool' = {}
      /\ UNCHANGED <<mode, up, epoch, branches, handles, call, saving, file, quit, calls, faults>>
    BY DEF PoolEnds
<1> QED
    BY <1>0, <1>3, <1>4, <1>5, ProcessesKeep

-----------------------------------------------------------------------------
\* The supervisor dies: the children that have armed their signal go with it.
LEMMA CrashKeeps ==
    ASSUME SupInv, Crash
    PROVE  SupInv'
<1> USE DEF SupInv
<1>0. /\ proc \in [Epoch -> [ID -> Phase]] /\ epoch \in Epoch /\ up
      /\ MaxCrashes \in Nat /\ mode \in {"preexec", "shim", "off"}
    BY SupAssumption DEF SupTypeOK, Crash
<1> DEFINE left == [b \in ID |->
              IF mode # "off" /\ proc[epoch][b] \in {"armed", "running"}
                THEN "none" ELSE proc[epoch][b]]
<1>1. proc' = [proc EXCEPT ![epoch] = left] /\ left \in [ID -> Phase]
    BY <1>0 DEF Crash, Phase
<1>2. /\ proc' \in [Epoch -> [ID -> Phase]]
      /\ \A e \in Epoch \ {epoch}, b \in ID : proc'[e][b] = proc[e][b]
      /\ \A b \in ID : mode # "off" => proc'[epoch][b] \in {"none", "forked"}
    BY <1>0, <1>1 DEF Phase
<1>3. /\ ~up' /\ epoch < MaxCrashes /\ handles' = {} /\ pool' = {} /\ saving' = NoSave /\ quit' = {}
      /\ branches' = [b \in ID |-> "absent"] /\ call' = [b \in ID |-> "idle"]
      /\ UNCHANGED <<mode, epoch, file, thread, calls, faults>>
    BY DEF Crash
<1>4. SupTypeOK'
  <2>1. branches' \in Rows /\ call' \in [ID -> Stage] /\ up' \in BOOLEAN
    BY <1>3 DEF Rows, Row, Stage, Crash
  <2>2. saving' \in [for : SUBSET ID, old : Rows, renamed : BOOLEAN, good : Stage, bad : Stage]
    BY <1>3 DEF NoSave, Rows, Row, Stage
  <2> QED
    BY <1>2, <1>3, <2>1, <2>2 DEF SupTypeOK
<1>5. MemoryMatchesFile' /\ RowsFirst' /\ HandlesSound'
    BY <1>3 DEF MemoryMatchesFile, RowsFirst, HandlesSound
<1>6. SaveSound'
    BY <1>3 DEF SaveSound, NoSave
<1>7. DownIsEmpty'
    BY <1>0, <1>2, <1>3 DEF DownIsEmpty, Epoch
<1>8. NoneOutlives'
  <2> SUFFICES ASSUME mode # "off", NEW e \in Epoch, NEW b \in ID
               PROVE  proc'[e][b] \in {"none", "forked", "armed"}
    BY <1>3 DEF NoneOutlives
  <2>1. CASE e = epoch
    BY <1>2, <2>1
  <2>2. CASE e < epoch
    BY <1>2, <2>2 DEF NoneOutlives
  <2>3. CASE e > epoch
    BY <1>2, <2>3 DEF DownIsEmpty
  <2> QED
    BY <1>0, <2>1, <2>2, <2>3 DEF Epoch
<1> QED
    BY <1>4, <1>5, <1>6, <1>7, <1>8

\* The successor loads what the file holds.
LEMMA StartKeeps ==
    ASSUME SupInv, Start
    PROVE  SupInv'
<1> USE DEF SupInv
<1>0. /\ epoch \in Epoch /\ ~up /\ up' = TRUE /\ epoch' = epoch + 1 /\ branches' = file
      /\ MaxCrashes \in Nat /\ epoch < MaxCrashes /\ saving = NoSave /\ handles = {}
      /\ \A b \in ID : call[b] = "idle"
      /\ UNCHANGED <<mode, handles, call, saving, file, pool, proc, thread, quit, calls, faults>>
    BY SupAssumption DEF SupTypeOK, Start, DownIsEmpty
<1>1. epoch' \in Epoch
    BY <1>0 DEF Epoch
<1>2. SupTypeOK' /\ MemoryMatchesFile'
    BY <1>0, <1>1 DEF SupTypeOK, MemoryMatchesFile
<1>3. SaveSound'
    BY <1>0 DEF SaveSound, NoSave
<1>4. DownIsEmpty'
    BY <1>0 DEF DownIsEmpty, Epoch
<1>5. RowsFirst' /\ HandlesSound'
    BY <1>0, <1>1 DEF RowsFirst, HandlesSound, DownIsEmpty, Own, Epoch
<1>6. NoneOutlives'
    BY <1>0 DEF NoneOutlives
<1> QED
    BY <1>2, <1>3, <1>4, <1>5, <1>6

\* Every step keeps the invariant.
LEMMA StepKeeps ==
    ASSUME SupInv, [SupNext]_supVars
    PROVE  SupInv'
<1>1. CASE UNCHANGED supVars
    BY <1>1 DEF SupInv, SupTypeOK, MemoryMatchesFile, SaveSound, RowsFirst, HandlesSound,
                DownIsEmpty, NoneOutlives, Own, supVars
<1>2. CASE SupNext
    BY <1>2, WritersKeep, WritesKeep, SpawnsKeep, ReapsKeep, ChildrenKeep, ExitsKeep, PoolKeeps,
       CrashKeeps, StartKeeps DEF SupNext, CallStep
<1> QED
    BY <1>1, <1>2

-----------------------------------------------------------------------------
\* The invariant holds, for any ids, modes and bounds: rows, writes, handles and
\* processes are in step through failing writes and deaths of the supervisor
\* (_persist, spawn, kill, __init__).
THEOREM InvariantHolds == SupSpec => []SupInv
BY InitSound, StepKeeps, PTL DEF SupSpec

\* Between writes memory is the file (_persist and its callers).
THEOREM MemoryIsFile == SupSpec => []MemoryMatchesFile
<1>1. SupInv => MemoryMatchesFile
    BY DEF SupInv
<1> QED
    BY <1>1, InvariantHolds, PTL

\* Whatever a supervisor has forked and not reaped has a row on disk (fork,
\* rollback and kill: journal first, forget last).
THEOREM ProcessesAreJournaled == SupSpec => []EveryProcessJournaled
<1>1. SupInv => EveryProcessJournaled
    BY DEF SupInv, EveryProcessJournaled, RowsFirst, HandlesSound
<1> QED
    BY <1>1, InvariantHolds, PTL

\* With a death signal nothing that runs outlives its supervisor (spawn,
\* _preexec_pdeathsig, _pdeathsig.main).
THEOREM NothingOutlives == SupSpec => []NoneOutlives
<1>1. SupInv => NoneOutlives
    BY DEF SupInv
<1> QED
    BY <1>1, InvariantHolds, PTL

=============================================================================
