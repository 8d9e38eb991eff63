--------------------- MODULE FirecrackerSnapshotsProofs ---------------------
(***************************************************************************)
(* Theorems about FirecrackerSnapshots, for any set of ids and any bounds.  *)
(***************************************************************************)
EXTENDS FirecrackerSnapshots, TLAPS

-----------------------------------------------------------------------------
\* The inductive invariant

\* Stages at which a fork holds its parent's lock, and at which a fork or a
\* checkpoint has paused the branch.
Locked == {"sync", "pause", "write", "copy", "resume", "failing"}
Pausing == {"write", "copy", "resume", "failing"}
Thawing == {"write", "mark", "resume", "failing"}

\* What a kill leaves of b when its threads are not all back: nothing.
Erased(b) ==
    /\ b \notin vms \cup running \cup reviving
    /\ files[b] = NoFile /\ ending[b] = "none" /\ pc[b] = "none"
    /\ \A c \in ForksOf(b) : pc[c] \notin Locked

\* The counters run ahead of what was read off them.
Numbers ==
    /\ \A b \in ID : gen[b] <= execs /\ (exec[b] # "none" => gen[b] < execs)
    /\ \A b \in ID : /\ mem[b] = Torn \/ mem[b].data <= writes
                     /\ files[b] \in {NoFile, Torn} \/ files[b].data <= writes
                     /\ floor[b] <= writes

\* A guest that does not run has no memory; torn memory was read from torn files.
Powered ==
    \A b \in ID : /\ b \notin running => mem[b] = Fresh
                  /\ mem[b] = Torn => b \in disturbed

\* A branch that is being forked into being is nobody's business yet.
Newborn(c) ==
    pc[c] # "none" =>
        /\ c \notin vms \cup paused \cup reviving
        /\ pc[c] # "register" => c \notin running
        /\ files[c] = NoFile /\ ending[c] = "none" /\ exec[c] = "none" /\ ckpt[c] = "none"
        /\ ForksOf(c) = {} /\ source[c] \in ID

\* A branch that is killed or restarted has no handle.
Unhandled(b) ==
    /\ ending[b] # "none" => b \notin vms \cup reviving /\ pc[b] = "none"
    /\ ending[b] = "remove" => b \notin running
    /\ b \in reviving => b \notin vms \cup running

\* The lock of a branch is held by its one exec, its one checkpoint or one fork.
ExecLocks(b) == exec[b] # "none" => lock[b] = "exec" \/ Erased(b)
CkptLocks(b) ==
    ckpt[b] # "none" =>
        /\ lock[b] = "checkpoint" \/ Erased(b)
        /\ ckptGen[b] = gen[b] \/ ending[b] # "none" \/ Erased(b)
        /\ ckpt[b] = "write" => b \in running /\ files[b] = Torn
        /\ ckpt[b] \in {"write", "mark"} /\ b \in running => b \in paused \cup rolled
ForkLocks(c) ==
    LET p == source[c] IN
    pc[c] \in Locked =>
        /\ lock[p] = c /\ ending[p] = "none"
        /\ sawGen[c] = gen[p]
        /\ p \in running => p \in vms
        /\ c \notin stale => Current(p)
        /\ c \in stale /\ pc[c] \in {"sync", "pause", "write"} => ~Current(p)
        /\ pc[c] \in {"sync", "write"} => c \in stale
        /\ pc[c] = "write" => p \in running \cap paused
        /\ pc[c] = "copy" /\ p \in running => p \in paused \cup rolled

\* An entry of _snapshots that no checkpoint left wrong has files of its own time.
Entry(b) ==
    /\ b \in snaps \ broken => snapGen[b] <= gen[b] /\ files[b] # NoFile /\ ending[b] = "none"
    /\ b \in broken /\ ckpt[b] # "mark" => files[b] \in {NoFile, Torn} \/ ending[b] # "none"

\* Nobody writes the files of b or changes its guest.
Quiet(b) == /\ exec[b] # "command" /\ ckpt[b] \notin {"write", "mark"}
            /\ \A c \in ForksOf(b) : pc[c] # "write"

\* Files and guest agree: on what runs on, and without it on the state.
Same(b) == files[b].left = mem[b].left /\ (~mem[b].left => files[b].data = mem[b].data)

Saved(b) ==
    /\ b \in vms \cap running
    /\ (b \notin broken /\ Current(b) /\ Quiet(b)) \/ ckpt[b] = "mark"
    => Same(b)

\* A synced image and the overlay agree.
OnDisk(image, b) == image.synced /\ ~image.left
                      => image.data = image.flushed /\ disk[b] = image.data

\* The overlay fits the memory from the sync to the snapshot, then the files until
\* the next command; the copy of it fits them until the child runs.
DiskFits(b) ==
    Overlay /\ b \notin rolled \cup disturbed =>
        /\ b \in running /\ (\/ ckpt[b] \in {"pause", "write"}
                             \/ \E c \in ForksOf(b) : c \in stale /\ pc[c] \in {"pause", "write"})
             => OnDisk(mem[b], b)
        /\ b \in vms /\ ((b \notin broken /\ Current(b) /\ Quiet(b)) \/ ckpt[b] = "mark")
             => OnDisk(files[b], b)
        /\ \A c \in ForksOf(b) : pc[c] = "copy" => OnDisk(files[b], b)

CopyFits(c) ==
    LET p == source[c] IN
    Overlay /\ c \notin rolled \cup disturbed =>
        /\ pc[c] \in {"resume", "load"} /\ files[p].synced /\ ~files[p].left
             => disk[c] = files[p].flushed
        /\ pc[c] = "register" /\ mem[c].synced /\ ~mem[c].left => disk[c] = mem[c].flushed

\* The parent's state at the call is in the parent until it dies, in its files from
\* the snapshot on, and in the child.
FloorHeld(c) ==
    LET p == source[c] IN
    pc[c] # "none" =>
        /\ floor[c] > 0 => p \in vms \cap running /\ mem[p].data >= floor[c]
        /\ pc[c] \in {"copy", "resume", "load"} \/ (pc[c] = "pause" /\ c \notin stale)
             => c \in disturbed \/ files[p].left \/ files[p].data >= floor[c]
        /\ pc[c] = "register" => c \in disturbed \/ mem[c].left \/ mem[c].data >= floor[c]

\* While the files of b are written, whoever loads them is disturbed.
Readers(b) ==
    ckpt[b] = "write" \/ (\E c \in ForksOf(b) : pc[c] = "write")
        => \A d \in ForksOf(b) : pc[d] = "load" => d \in disturbed

\* Whoever is paused has somebody who will resume it, or a pause or resume that raised.
Thawed(b) ==
    b \in paused => \/ b \in stuck
                    \/ ckpt[b] \in {"write", "mark", "resume", "failing"}
                    \/ \E c \in ForksOf(b) : pc[c] \in Pausing

SnapInv ==
    /\ SnapTypeOK /\ Numbers /\ Powered
    /\ \A b \in ID : /\ Newborn(b) /\ Unhandled(b)
                     /\ ExecLocks(b) /\ CkptLocks(b) /\ ForkLocks(b)
                     /\ Entry(b) /\ Saved(b)
                     /\ DiskFits(b) /\ CopyFits(b) /\ FloorHeld(b) /\ Readers(b) /\ Thawed(b)

\* Only a VMM that runs has requests left to serve; one that has a pause among them
\* is stuck; and while it has any, no fork or checkpoint holds its guest paused.
Waits(b) ==
    /\ b \notin running => late[b] = <<>>
    /\ \A i \in 1 .. Len(late[b]) : late[b][i] = "pause" => b \in stuck
    /\ late[b] # <<>> => /\ pc[b] = "none" /\ ckpt[b] \notin Thawing
                        /\ \A c \in ForksOf(b) : pc[c] \notin Pausing

LateInv == \A b \in ID : Waits(b)

-----------------------------------------------------------------------------
USE DEF guests, vmms, marks, forks, commands, ckpts, ends, notes

\* The three kinds of holder are told apart, and the special files from a memory.
LEMMA Holders == /\ "free" \notin ID /\ "exec" \notin ID /\ "checkpoint" \notin ID
                 /\ NoBranch \notin ID
BY SnapAssumption

LEMMA Images ==
    /\ Fresh \in Memory /\ NoFile \notin Memory /\ Torn \notin Memory /\ NoFile # Torn
    /\ Fresh.data = 0 /\ Fresh.flushed = 0 /\ ~Fresh.left
    /\ Torn.data = MaxWrites + 2 /\ ~Torn.left /\ ~Torn.synced
    /\ NoFile.data = MaxWrites + 1 /\ ~NoFile.left /\ ~NoFile.synced
<1>1. Fresh \in Memory
  BY SnapAssumption DEF Fresh, Memory
<1>2. NoFile.data \notin 0 .. MaxWrites /\ Torn.data \notin 0 .. MaxWrites /\
        NoFile.data # Torn.data
  BY SnapAssumption DEF NoFile, Torn
<1>3. \A m \in Memory : m.data \in 0 .. MaxWrites
  BY DEF Memory
<1> QED
  BY <1>1, <1>2, <1>3 DEF Fresh, NoFile, Torn

\* Who holds the lock of a branch is alone with it.
LEMMA ForkAlone ==
    ASSUME SnapInv, NEW c \in ID, pc[c] \in Locked
    PROVE  /\ source[c] \in ID /\ source[c] # c /\ pc[source[c]] = "none"
           /\ exec[source[c]] = "none" /\ ckpt[source[c]] = "none"
           /\ \A d \in ID : source[d] = source[c] /\ pc[d] \in Locked => d = c
<1>0. pc[c] # "none"
  BY DEF Locked
<1>1. source[c] \in ID /\ source[c] # c
  BY <1>0 DEF SnapInv, Newborn, ForksOf
<1>2. pc[source[c]] = "none"
  BY <1>0, <1>1 DEF SnapInv, Newborn, ForksOf
<1>3. lock[source[c]] = c /\ ~Erased(source[c])
  BY <1>0 DEF SnapInv, ForkLocks, Erased, ForksOf
<1>4. \A d \in ID : source[d] = source[c] /\ pc[d] \in Locked => d = c
  BY <1>3 DEF SnapInv, ForkLocks
<1> QED
  BY <1>1, <1>2, <1>3, <1>4, Holders DEF SnapInv, ExecLocks, CkptLocks

LEMMA ExecAlone ==
    ASSUME SnapInv, NEW b \in ID, exec[b] # "none"
    PROVE  /\ \A c \in ID : source[c] = b => pc[c] \notin Locked
           /\ b \in vms \cup running => ckpt[b] = "none"
           /\ pc[b] = "none"
<1>1. \A c \in ID : source[c] = b => pc[c] \notin Locked
  BY ForkAlone
<1> QED
  BY <1>1 DEF SnapInv, ExecLocks, CkptLocks, Newborn, Erased

LEMMA CkptAlone ==
    ASSUME SnapInv, NEW b \in ID, ckpt[b] # "none"
    PROVE  /\ \A c \in ID : source[c] = b => pc[c] \notin Locked
           /\ b \in vms \cup running => exec[b] = "none"
           /\ pc[b] = "none"
<1>1. \A c \in ID : source[c] = b => pc[c] \notin Locked
  BY ForkAlone
<1> QED
  BY <1>1 DEF SnapInv, ExecLocks, CkptLocks, Newborn, Erased

\* A free lock: nobody is at work under it on a branch that is there.
LEMMA FreeLock ==
    ASSUME SnapInv, NEW b \in ID, lock[b] = "free", b \in vms
    PROVE  /\ exec[b] = "none" /\ ckpt[b] = "none"
           /\ \A c \in ID : source[c] = b => pc[c] \notin Locked
<1>1. \A c \in ID : source[c] = b => pc[c] \notin Locked
  BY Holders DEF SnapInv, ForkLocks
<1> QED
  BY <1>1 DEF SnapInv, ExecLocks, CkptLocks, Erased

LEMMA Counts ==
    ASSUME SnapTypeOK
    PROVE  /\ writes \in Nat /\ execs \in Nat /\ MaxWrites \in Nat
           /\ \A b \in ID : /\ mem[b].data \in Nat /\ files[b].data \in Nat
                           /\ floor[b] \in 0 .. MaxWrites
                           /\ gen[b] \in Nat /\ snapGen[b] \in Nat
<1>1. NoFile.data \in Nat /\ Torn.data \in Nat
  BY Images, SnapAssumption
<1>2. \A m \in Memory : m.data \in Nat
  BY SnapAssumption DEF Memory
<1>3. NoGen \in Nat
  BY SnapAssumption DEF NoGen
<1> QED
  BY <1>1, <1>2, <1>3, SnapAssumption DEF SnapTypeOK

LEMMA ImageData == \A m \in Memory \cup {NoFile, Torn} : m.data \in Nat /\ m.data >= 0
BY SnapAssumption DEF Memory, NoFile, Torn

LEMMA FaultType == ASSUME SnapTypeOK, Fault \/ UNCHANGED faults
                   PROVE  faults' \in 0 .. MaxFaults
BY SnapAssumption DEF SnapTypeOK, Fault

\* What an API request that raises leaves with the VMM.
LEMMA LateType ==
    ASSUME SnapTypeOK, NEW b \in ID, NEW request \in {"pause", "resume"},
           Raises(b, request) \/ Answers(b)
    PROVE  /\ late' \in [ID -> Requests] /\ faults' \in 0 .. MaxFaults
           /\ \A e \in ID : e # b => late'[e] = late[e]
           /\ late'[b] = late[b] \/ (b \in running /\ late'[b] = Append(late[b], request))
<1>1. late[b] \in Requests
  BY DEF SnapTypeOK
<1>2. Append(late[b], request) \in Requests
  BY <1>1 DEF Requests
<1>3. UNCHANGED late \/ (b \in running /\ late' = [late EXCEPT ![b] = Append(@, request)])
  BY DEF Raises, Answers
<1>4. faults' \in 0 .. MaxFaults
  BY FaultType DEF Raises, Answers
<1> QED
  BY <1>2, <1>3, <1>4 DEF SnapTypeOK

-----------------------------------------------------------------------------
\* Inside the guests

\* A write in the guest of b: under a command that holds the lock, or by something
\* that runs on, of which nothing is claimed.
LEMMA GuestWriteKeeps ==
    ASSUME SnapInv, NEW b \in ID, GuestWrite(b)
    PROVE  SnapInv'
<1>1. UNCHANGED <<disk, vmms, marks, files, lock, forks, commands, ckpts, ends, faults, notes>>
  BY DEF GuestWrite
<1>2. /\ b \in running \ paused /\ mem[b] \in Memory
      /\ exec[b] = "command" \/ mem[b].left
      /\ writes' = writes + 1 /\ writes' \in 0 .. MaxWrites
  BY SnapAssumption DEF GuestWrite, SnapInv, SnapTypeOK
<1>3. /\ mem'[b] \in Memory /\ mem'[b].data = writes + 1 /\ mem'[b].flushed = mem[b].flushed
      /\ mem'[b].left = mem[b].left /\ mem'[b].synced = mem[b].synced
      /\ \A e \in ID : e # b => mem'[e] = mem[e]
  BY <1>2 DEF GuestWrite, SnapInv, SnapTypeOK, Memory
<1>4. SnapTypeOK'
  <2>1. mem' \in [ID -> Memory \cup {Torn}]
    BY <1>3 DEF GuestWrite, SnapInv, SnapTypeOK
  <2> QED
    BY <1>1, <1>2, <2>1 DEF SnapInv, SnapTypeOK
<1>5. Numbers'
  <2>1. \A e \in ID : mem'[e] = Torn \/ mem'[e].data <= writes'
    BY <1>2, <1>3 DEF SnapInv, SnapTypeOK, Numbers, Memory
  <2>2. \A e \in ID : /\ files[e] \in {NoFile, Torn} \/ files[e].data <= writes'
                      /\ floor[e] <= writes'
    BY <1>2 DEF SnapInv, SnapTypeOK, Numbers, Memory
  <2> QED
    BY <1>1, <2>1, <2>2 DEF SnapInv, Numbers
<1>6. Powered'
  BY <1>1, <1>2, <1>3, Images DEF SnapInv, Powered
<1>7. \A e \in ID : /\ Newborn(e)' /\ Unhandled(e)' /\ ExecLocks(e)' /\ CkptLocks(e)'
                    /\ ForkLocks(e)' /\ Entry(e)' /\ Thawed(e)' /\ Readers(e)'
  BY <1>1 DEF SnapInv, Newborn, Unhandled, ExecLocks, CkptLocks, ForkLocks, Entry, Thawed, Readers,
              Erased, ForksOf, Current
<1>8. \A e \in ID : Saved(e)'
  <2>1. b \in vms /\ exec[b] = "command" => ckpt[b] # "mark"
    BY ExecAlone
  <2> QED
    BY <1>1, <1>2, <1>3, <2>1 DEF SnapInv, Saved, Same, Quiet, Current, ForksOf
<1>9. \A e \in ID : DiskFits(e)'
  <2>1. mem[b].left \/ (ckpt[b] = "none" /\ \A c \in ForksOf(b) : pc[c] \notin Locked)
    BY <1>2, ExecAlone DEF ForksOf
  <2> QED
    BY <1>1, <1>3, <2>1 DEF SnapInv, DiskFits, OnDisk, Quiet, Current, ForksOf, Locked
<1>10. \A e \in ID : CopyFits(e)'
  BY <1>1, <1>3 DEF SnapInv, CopyFits
<1>11. \A e \in ID : FloorHeld(e)'
  <2>1. \A e \in ID : floor[e] <= mem'[b].data
    BY <1>2, <1>3, Counts DEF SnapInv, Numbers, SnapTypeOK
  <2>2. \A e \in ID : mem'[b].data >= floor[e]
    BY <1>3, <2>1, Counts DEF SnapInv, SnapTypeOK
  <2>3. \A e, d \in ID : mem[d].data >= floor[e] => mem'[d].data >= floor[e]
    BY <1>3, <2>2
  <2>4. \A d \in ID : mem'[d].left = mem[d].left
    BY <1>3
  <2> QED
    BY <1>1, <2>3, <2>4 DEF SnapInv, FloorHeld, Newborn
<1> QED
  BY <1>4, <1>5, <1>6, <1>7, <1>8, <1>9, <1>10, <1>11 DEF SnapInv

\* What a flush or a sync, done or not, changes: never the state of the guest.
LEMMA SyncFacts ==
    ASSUME SnapInv, NEW b \in ID, Flushed(b) \/ Sync(b) \/ SyncBreaks(b)
    PROVE  /\ mem' \in [ID -> Memory \cup {Torn}] /\ disk' \in [ID -> 0 .. MaxWrites]
           /\ \A e \in ID : e # b => mem'[e] = mem[e] /\ disk'[e] = disk[e]
           /\ \A e \in ID : /\ mem'[e].data = mem[e].data /\ mem'[e].left = mem[e].left
                            /\ mem'[e] = Torn <=> mem[e] = Torn
           /\ b \notin running => mem'[b] = mem[b]
           /\ \/ /\ b \in running \ paused /\ Overlay
                 /\ disk'[b] = mem[b].data /\ mem'[b].flushed = mem[b].data
              \/ /\ disk'[b] = disk[b] /\ mem'[b].flushed = mem[b].flushed
                 /\ mem'[b].synced => mem[b].synced
           /\ Sync(b) /\ Overlay /\ b \in running /\ b \notin disturbed /\ mem'[b].synced
                => disk'[b] = mem'[b].data /\ mem'[b].flushed = mem'[b].data
<1>1. mem[b] \in Memory \cup {Torn} /\ disk[b] \in 0 .. MaxWrites
  BY DEF SnapInv, SnapTypeOK
<1>2. mem[b] = Torn => b \in disturbed
  BY DEF SnapInv, Powered
<1>3. CASE /\ b \in running \ paused /\ Overlay /\ mem[b] # Torn
           /\ disk' = [disk EXCEPT ![b] = mem[b].data]
           /\ mem' = [mem EXCEPT ![b].flushed = mem[b].data, ![b].synced = TRUE]
  <2>1. /\ mem'[b] = [mem[b] EXCEPT !.flushed = mem[b].data, !.synced = TRUE]
        /\ disk'[b] = mem[b].data /\ mem[b] \in Memory
        /\ \A e \in ID : e # b => mem'[e] = mem[e] /\ disk'[e] = disk[e]
    BY <1>1, <1>3 DEF SnapInv, SnapTypeOK
  <2>2. mem[b].data \in 0 .. MaxWrites
    BY <2>1 DEF Memory
  <2>3. /\ mem'[b] \in Memory /\ mem'[b].data = mem[b].data /\ mem'[b].left = mem[b].left
        /\ mem'[b].flushed = mem[b].data /\ mem'[b].synced
    BY <2>1, <2>2 DEF Memory
  <2>4. mem' \in [ID -> Memory \cup {Torn}] /\ disk' \in [ID -> 0 .. MaxWrites]
    BY <1>3, <2>2, <2>3 DEF SnapInv, SnapTypeOK
  <2> QED
    BY <1>3, <2>1, <2>2, <2>3, <2>4, Images
<1>4. CASE /\ b \in running /\ mem[b] # Torn /\ UNCHANGED disk
           /\ mem' = [mem EXCEPT ![b].synced = FALSE]
  <2>1. /\ mem'[b] = [mem[b] EXCEPT !.synced = FALSE] /\ mem[b] \in Memory
        /\ \A e \in ID : e # b => mem'[e] = mem[e]
    BY <1>1, <1>4 DEF SnapInv, SnapTypeOK
  <2>2. /\ mem'[b] \in Memory /\ mem'[b].data = mem[b].data /\ mem'[b].left = mem[b].left
        /\ mem'[b].flushed = mem[b].flushed /\ ~mem'[b].synced
    BY <2>1 DEF Memory
  <2>3. mem' \in [ID -> Memory \cup {Torn}]
    BY <1>4, <2>2 DEF SnapInv, SnapTypeOK
  <2> QED
    BY <1>4, <2>1, <2>2, <2>3, Images DEF SnapInv, SnapTypeOK
<1>5. CASE UNCHANGED <<mem, disk>> /\ (Sync(b) /\ Overlay => b \notin running \/ mem[b] = Torn)
  BY <1>2, <1>5 DEF SnapInv, SnapTypeOK
<1>6. CASE SyncBreaks(b) /\ ~Sync(b)
  BY <1>6 DEF SnapInv, SnapTypeOK, SyncBreaks
<1> QED
  BY <1>3, <1>4, <1>5, <1>6 DEF Flushed, Sync

LEMMA WritebackKeeps ==
    ASSUME SnapInv, NEW b \in ID, Writeback(b)
    PROVE  SnapInv'
<1>1. /\ UNCHANGED <<writes, vmms, marks, files, lock, forks, commands, ckpts, ends, faults, notes>>
      /\ b \in running \ paused
  BY DEF Writeback
<1>2. /\ \A e \in ID : e # b => mem'[e] = mem[e] /\ disk'[e] = disk[e]
      /\ \A e \in ID : /\ mem'[e].data = mem[e].data /\ mem'[e].left = mem[e].left
                       /\ mem'[e] = Torn <=> mem[e] = Torn
      /\ disk'[b] = mem[b].data /\ mem'[b].flushed = mem[b].data
  <2>1. Flushed(b) /\ Overlay /\ mem[b] # Torn /\ b \in running \ paused
    BY DEF Writeback
  <2>2. disk'[b] = mem[b].data
    BY <2>1 DEF Flushed, SnapInv, SnapTypeOK
  <2>3. mem'[b].flushed = mem[b].data
    BY <2>1 DEF Flushed, SnapInv, SnapTypeOK, Memory
  <2> QED
    BY <2>1, <2>2, <2>3, SyncFacts
<1>3. SnapTypeOK'
  <2>1. mem' \in [ID -> Memory \cup {Torn}] /\ disk' \in [ID -> 0 .. MaxWrites]
    BY SyncFacts DEF Writeback
  <2> QED
    BY <1>1, <2>1 DEF SnapInv, SnapTypeOK
<1>4. Numbers' /\ Powered'
  BY <1>1, <1>2 DEF SnapInv, Numbers, Powered
<1>5. \A e \in ID : /\ Newborn(e)' /\ Unhandled(e)' /\ ExecLocks(e)' /\ CkptLocks(e)'
                    /\ ForkLocks(e)' /\ Entry(e)' /\ Thawed(e)' /\ Readers(e)'
  BY <1>1 DEF SnapInv, Newborn, Unhandled, ExecLocks, CkptLocks, ForkLocks, Entry, Thawed, Readers,
              Erased, ForksOf, Current
<1>6. \A e \in ID : Saved(e)'
  BY <1>1, <1>2 DEF SnapInv, Saved, Same, Quiet, Current, ForksOf
<1>7. \A e \in ID : DiskFits(e)'
  <2>1. \A e \in ID : e # b => DiskFits(e)'
    BY <1>1, <1>2 DEF SnapInv, DiskFits, OnDisk, Quiet, Current, ForksOf
  <2>2. \A c \in ForksOf(b) : pc[c] = "copy" => b \in rolled
    BY <1>1 DEF SnapInv, ForkLocks, ForksOf, Locked
  <2>3. b \in vms /\ ((b \notin broken /\ Current(b) /\ Quiet(b)) \/ ckpt[b] = "mark") => Same(b)
    BY <1>1 DEF SnapInv, Saved
  <2>4. DiskFits(b)'
    BY <1>1, <1>2, <2>2, <2>3 DEF SnapInv, DiskFits, OnDisk, Same, Quiet, Current, ForksOf
  <2> QED
    BY <2>1, <2>4
<1>8. \A e \in ID : CopyFits(e)'
  <2>1. pc[b] \in {"none", "register"}
    BY <1>1 DEF SnapInv, Newborn
  <2> QED
    BY <1>1, <1>2, <2>1 DEF SnapInv, CopyFits
<1>9. \A e \in ID : FloorHeld(e)'
  BY <1>1, <1>2 DEF SnapInv, FloorHeld, Newborn
<1> QED
  BY <1>3, <1>4, <1>5, <1>6, <1>7, <1>8, <1>9 DEF SnapInv

\* The end of a VMM, by itself or in a kill: what was asked of it fails.
LEMMA GoneKeeps ==
    ASSUME SnapInv, NEW b \in ID, Gone(b), faults' \in 0 .. MaxFaults,
           UNCHANGED <<disk, writes, vms, marks, files, lock, source, sawGen, stale, lives,
                       exec, execs, ckptGen, reviving, disturbed, rolled>>,
           \/ /\ b \in running \cap vms /\ UNCHANGED ending
              /\ floor' = [c \in ID |-> IF c \in ForksOf(b) THEN 0 ELSE floor[c]]
           \/ /\ ending[b] = "reap" /\ ending' = [ending EXCEPT ![b] = "remove"]
              /\ UNCHANGED floor
    PROVE  SnapInv'
<1>1. /\ running' = running \ {b} /\ paused' = paused \ {b} /\ stuck' = stuck \ {b}
      /\ mem'[b] = Fresh /\ \A e \in ID : e # b => mem'[e] = mem[e]
  BY DEF Gone, SnapInv, SnapTypeOK
<1>2. \A c \in ID : /\ pc'[c] = IF c \in ForksOf(b) /\ pc[c] = "write" THEN "failing" ELSE pc[c]
                    /\ pc'[c] = "none" <=> pc[c] = "none"
                    /\ pc'[c] \in Locked <=> pc[c] \in Locked
                    /\ pc'[c] \in Pausing <=> pc[c] \in Pausing
  BY DEF Gone, SnapInv, SnapTypeOK, Locked, Pausing
<1>3. /\ ckpt'[b] = IF ckpt[b] = "write" THEN "failing" ELSE ckpt[b]
      /\ \A e \in ID : e # b => ckpt'[e] = ckpt[e]
  BY DEF Gone, SnapInv, SnapTypeOK
<1>4. broken' = IF ckpt[b] = "write" /\ Current(b) THEN broken \cup {b} ELSE broken
  BY DEF Gone
<1>5. /\ \A e \in ID : ending'[e] # ending[e]
           => e = b /\ ending[b] = "reap" /\ ending'[b] = "remove"
      /\ (b \in vms /\ ending[b] = "none" /\ ending'[b] = "none") \/ ending[b] = "reap"
      /\ pc[b] = "none" /\ pc'[b] = "none"
  BY <1>2 DEF SnapInv, SnapTypeOK, Newborn, Unhandled
<1>6. SnapTypeOK'
  <2>1. pc' \in [ID -> ForkStage \cup {"none"}]
    BY DEF Gone, SnapInv, SnapTypeOK, ForkStage
  <2>2. ckpt' \in [ID -> CkptStage \cup {"none"}]
    BY DEF Gone, SnapInv, SnapTypeOK, CkptStage
  <2>3. mem' \in [ID -> Memory \cup {Torn}]
    BY Images DEF Gone, SnapInv, SnapTypeOK
  <2>4. /\ floor' \in [ID -> 0 .. MaxWrites] /\ ending' \in [ID -> {"none", "reap", "remove"}]
        /\ cut' \subseteq ID /\ broken' \subseteq ID
    <3>1. floor' \in [ID -> 0 .. MaxWrites]
      BY SnapAssumption DEF SnapInv, SnapTypeOK
    <3>2. ending' \in [ID -> {"none", "reap", "remove"}]
      BY DEF SnapInv, SnapTypeOK
    <3>3. cut' \subseteq ID /\ broken' \subseteq ID
      BY DEF Gone, SnapInv, SnapTypeOK
    <3> QED
      BY <3>1, <3>2, <3>3
  <2>5. late' \in [ID -> Requests]
    <3>1. <<>> \in Requests
      BY DEF Requests
    <3> QED
      BY <3>1 DEF Gone, SnapInv, SnapTypeOK
  <2> QED
    BY <1>1, <2>1, <2>2, <2>3, <2>4, <2>5 DEF SnapInv, SnapTypeOK
<1>7. Numbers'
  <2>1. \A e \in ID : mem'[e] = Torn \/ mem'[e].data <= writes
    BY <1>1, Images, Counts DEF SnapInv, Numbers
  <2>2. \A e \in ID : floor'[e] = 0 \/ floor'[e] = floor[e]
    BY DEF SnapInv, SnapTypeOK
  <2>3. \A e \in ID : floor'[e] <= writes
    BY <2>2, Counts DEF SnapInv, Numbers
  <2> QED
    BY <2>1, <2>3 DEF SnapInv, Numbers
<1>8. Powered'
  BY <1>1, Images DEF SnapInv, Powered
<1>9. \A e \in ID : ForksOf(e)' = ForksOf(e)
  BY <1>2 DEF ForksOf
<1>10. \A e \in ID : Erased(e) => Erased(e)'
  BY <1>1, <1>2, <1>5, <1>9 DEF Erased, ForksOf
<1>11. \A e \in ID : Newborn(e)' /\ Unhandled(e)'
  BY <1>1, <1>2, <1>3, <1>5, <1>9 DEF SnapInv, Newborn, Unhandled
<1>12. \A e \in ID : ExecLocks(e)' /\ CkptLocks(e)'
  BY <1>1, <1>3, <1>5, <1>10 DEF SnapInv, ExecLocks, CkptLocks
<1>13. \A e \in ID : ForkLocks(e)'
  <2> SUFFICES ASSUME NEW e \in ID, pc'[e] \in Locked
                PROVE  ForkLocks(e)'
    BY DEF ForkLocks
  <2>1. pc[e] \in Locked /\ source[e] \in ID
    BY <1>2, ForkAlone
  <2>2. pc'[e] = "write" => pc[e] = "write" /\ source[e] # b
    BY <1>2 DEF ForksOf
  <2>3. /\ pc'[e] = "copy" => pc[e] = "copy"
        /\ pc'[e] = "sync" => pc[e] = "sync"
        /\ pc'[e] = "pause" => pc[e] = "pause"
    BY <1>2
  <2>4. ending'[source[e]] = "none"
    BY <1>5, <2>1 DEF SnapInv, ForkLocks
  <2> QED
    BY <1>1, <2>1, <2>2, <2>3, <2>4 DEF SnapInv, ForkLocks, Current
<1>14. \A e \in ID : Entry(e)'
  BY <1>3, <1>4, <1>5 DEF SnapInv, Entry, CkptLocks
<1>15. \A e \in ID : e # b => (Quiet(e)' <=> Quiet(e))
  BY <1>2, <1>3, <1>9 DEF Quiet, ForksOf
<1>16. b \notin broken' /\ Current(b) /\ Quiet(b)' => Quiet(b)
  BY <1>2, <1>3, <1>4, <1>9 DEF Quiet, SnapInv, ForkLocks, ForksOf, Locked
<1>17. \A e \in ID : Saved(e)'
  BY <1>1, <1>3, <1>4, <1>15 DEF SnapInv, Saved, Same, Current
<1>18. \A e \in ID : DiskFits(e)'
  <2>1. \A e \in ID : e # b => DiskFits(e)'
    BY <1>1, <1>2, <1>3, <1>4, <1>9, <1>15 DEF SnapInv, DiskFits, OnDisk, Current, ForksOf
  <2>2. DiskFits(b)'
    BY <1>1, <1>2, <1>3, <1>4, <1>9, <1>16 DEF SnapInv, DiskFits, OnDisk, Current, ForksOf
  <2> QED
    BY <2>1, <2>2
<1>19. \A e \in ID : CopyFits(e)'
  BY <1>1, <1>2, <1>5 DEF SnapInv, CopyFits
<1>20. \A e \in ID : FloorHeld(e)'
  <2>1. \A e \in ID : floor'[e] = 0 \/ (floor'[e] = floor[e] /\ (e \in ForksOf(b) => b \notin vms))
    BY <1>5 DEF SnapInv, SnapTypeOK, Unhandled
  <2>2. \A e \in ID : mem'[e].data >= 0 /\ files[e].data >= 0
    BY <1>6, ImageData DEF SnapInv, SnapTypeOK
  <2> QED
    BY <1>1, <1>2, <1>5, <2>1, <2>2 DEF SnapInv, FloorHeld, ForksOf, Newborn
<1>21. \A e \in ID : Thawed(e)' /\ Readers(e)'
  BY <1>1, <1>2, <1>3, <1>9 DEF SnapInv, Thawed, Readers, ForksOf
<1> QED
  BY <1>6, <1>7, <1>8, <1>11, <1>12, <1>13, <1>14, <1>17, <1>18, <1>19, <1>20, <1>21 DEF SnapInv

LEMMA VMMDiesKeeps == ASSUME SnapInv, NEW b \in ID, VMMDies(b)
                      PROVE  SnapInv'
BY GoneKeeps, FaultType DEF VMMDies, SnapInv

LEMMA KillReapKeeps == ASSUME SnapInv, NEW b \in ID, KillReap(b)
                       PROVE  SnapInv'
BY GoneKeeps, FaultType DEF KillReap, SnapInv

-----------------------------------------------------------------------------
\* Execs and exports

LEMMA AskKeeps ==
    ASSUME SnapInv, NEW b \in ID, NEW what \in {"command", "tar"}, lock[b] = "free",
           lock' = [lock EXCEPT ![b] = "exec"], Ask(b, what)
    PROVE  SnapInv'
<1>1. UNCHANGED <<guests, vmms, marks, files, forks, ckpts, ends, faults, notes>>
  BY DEF Ask
<1>2. /\ b \in vms /\ exec[b] = "none" /\ exec'[b] = what /\ execs' = execs + 1
      /\ lock'[b] = "exec" /\ pc[b] = "none"
      /\ \A e \in ID : e # b => exec'[e] = exec[e] /\ lock'[e] = lock[e]
  BY DEF Ask, SnapInv, SnapTypeOK, Newborn
<1>3. ckpt[b] = "none" /\ \A c \in ID : source[c] = b => pc[c] \notin Locked
  BY <1>2, FreeLock
<1>4. SnapTypeOK'
  <2>1. execs' \in 0 .. MaxExecs
    BY SnapAssumption DEF Ask, SnapInv, SnapTypeOK
  <2> QED
    BY <1>1, <2>1 DEF Ask, SnapInv, SnapTypeOK
<1>5. Numbers'
  <2>1. \A e \in ID : gen[e] <= execs + 1 /\ gen[e] < execs + 1
    BY Counts DEF SnapInv, Numbers
  <2> QED
    BY <1>1, <1>2, <2>1 DEF SnapInv, Numbers
<1>6. Powered' /\ \A e \in ID : CopyFits(e)' /\ FloorHeld(e)' /\ Thawed(e)' /\ Readers(e)'
  BY <1>1 DEF SnapInv, Powered, CopyFits, FloorHeld, Thawed, Readers, ForksOf
<1>7. \A e \in ID : Newborn(e)' /\ Unhandled(e)' /\ Entry(e)'
  BY <1>1, <1>2 DEF SnapInv, Newborn, Unhandled, Entry, ForksOf
<1>8. \A e \in ID : ExecLocks(e)' /\ CkptLocks(e)' /\ ForkLocks(e)'
  BY <1>1, <1>2, <1>3 DEF SnapInv, ExecLocks, CkptLocks, ForkLocks, Erased, ForksOf, Current,
                          Newborn
<1>9. \A e \in ID : Quiet(e)' => Quiet(e)
  BY <1>1, <1>2 DEF Quiet, ForksOf
<1>10. \A e \in ID : Saved(e)' /\ DiskFits(e)'
  BY <1>1, <1>9 DEF SnapInv, Saved, Same, DiskFits, OnDisk, Current, ForksOf
<1> QED
  BY <1>4, <1>5, <1>6, <1>7, <1>8, <1>10 DEF SnapInv

LEMMA ExecKeeps == ASSUME SnapInv, NEW b \in ID, Exec(b) \/ ExportArtifact(b)
                   PROVE  SnapInv'
BY AskKeeps DEF Exec, ExportArtifact

\* The end of a command moves the generation on: the snapshot stops being current,
\* so nothing is claimed of it any more.
LEMMA ExecEndKeeps ==
    ASSUME SnapInv, NEW b \in ID, ExecEnd(b)
    PROVE  SnapInv'
<1>1. UNCHANGED <<disk, writes, vmms, snaps, snapGen, files, forks, execs, ckpts, ends, faults,
                  notes>>
  BY DEF ExecEnd
<1>2. /\ exec[b] # "none" /\ exec'[b] = "none" /\ \A e \in ID : e # b => exec'[e] = exec[e]
      /\ lock'[b] = IF lock[b] = "exec" THEN "free" ELSE lock[b]
      /\ \A e \in ID : e # b => lock'[e] = lock[e]
  BY DEF ExecEnd, Release, SnapInv, SnapTypeOK
<1>3. /\ \A e \in ID : e # b => gen'[e] = gen[e]
      /\ gen'[b] = IF exec[b] = "command" /\ b \in vms THEN gen[b] + 1 ELSE gen[b]
  BY DEF ExecEnd, SnapInv, SnapTypeOK
<1>4. /\ \A c \in ID : source[c] = b => pc[c] \notin Locked
      /\ b \in vms \cup running => ckpt[b] = "none"
      /\ pc[b] = "none"
  BY <1>2, ExecAlone
<1>5. /\ mem' \in [ID -> Memory \cup {Torn}]
      /\ \A e \in ID : e # b => mem'[e] = mem[e]
      /\ mem'[b].data = mem[b].data /\ (mem'[b] = Torn <=> mem[b] = Torn)
      /\ mem'[b] # mem[b] => b \in running /\ exec[b] = "command"
  <2>1. CASE UNCHANGED mem
    BY <2>1 DEF SnapInv, SnapTypeOK
  <2>2. CASE /\ b \in running /\ mem[b] # Torn /\ exec[b] = "command"
             /\ mem' = [mem EXCEPT ![b].left = TRUE]
    <3>1. mem'[b] = [mem[b] EXCEPT !.left = TRUE] /\ mem[b] \in Memory
      BY <2>2 DEF SnapInv, SnapTypeOK
    <3>2. mem'[b] \in Memory /\ mem'[b].data = mem[b].data
      BY <3>1 DEF Memory
    <3> QED
      BY <2>2, <3>1, <3>2, Images DEF SnapInv, SnapTypeOK
  <2> QED
    BY <2>1, <2>2 DEF ExecEnd
<1>6. \A e \in ID : gen'[e] <= execs /\ (exec'[e] # "none" => gen'[e] < execs) /\ gen[e] <= gen'[e]
  BY <1>2, <1>3, Counts DEF SnapInv, Numbers
<1>7. SnapTypeOK'
  <2>1. gen' \in [ID -> 0 .. MaxExecs]
    <3>1. \A e \in ID : gen'[e] \in 0 .. MaxExecs
      BY <1>3, <1>6, Counts, SnapAssumption DEF SnapInv, SnapTypeOK
    <3> QED
      BY <3>1 DEF ExecEnd, SnapInv, SnapTypeOK
  <2>2. lock' \in [ID -> ID \cup {"free", "exec", "checkpoint"}]
    BY DEF ExecEnd, Release, SnapInv, SnapTypeOK
  <2>3. exec' \in [ID -> {"none", "command", "tar"}] /\ cut' \subseteq ID
    BY DEF ExecEnd, SnapInv, SnapTypeOK
  <2> QED
    BY <1>1, <1>5, <2>1, <2>2, <2>3 DEF SnapInv, SnapTypeOK
<1>8. Numbers' /\ Powered'
  BY <1>1, <1>5, <1>6 DEF SnapInv, Numbers, Powered
<1>9. \A e \in ID : Newborn(e)' /\ Unhandled(e)' /\ Thawed(e)' /\ Readers(e)'
  BY <1>1, <1>2 DEF SnapInv, Newborn, Unhandled, Thawed, Readers, ForksOf
<1>10. \A e \in ID : ExecLocks(e)' /\ CkptLocks(e)'
  BY <1>1, <1>2, <1>3, <1>4 DEF SnapInv, ExecLocks, CkptLocks, Erased, ForksOf
<1>11. \A e \in ID : ForkLocks(e)'
  <2>1. \A e \in ID : pc[e] \in Locked => source[e] \in ID \ {b}
    BY <1>4, ForkAlone
  <2> QED
    BY <1>1, <1>2, <1>3, <2>1 DEF SnapInv, ForkLocks, Current
<1>12. \A e \in ID : Entry(e)'
  <2>1. \A e \in ID : snapGen[e] <= gen[e] => snapGen[e] <= gen'[e]
    BY <1>3, Counts DEF SnapInv
  <2> QED
    BY <1>1, <2>1 DEF SnapInv, Entry
<1>13. \A e \in ID : e \in vms \ broken /\ Current(e)' /\ Quiet(e)'
                     => Current(e) /\ Quiet(e) /\ mem'[e] = mem[e]
  <2>1. b \in snaps \ broken => snapGen[b] # gen[b] + 1
    BY Counts DEF SnapInv, Entry
  <2> QED
    BY <1>1, <1>2, <1>3, <1>5, <2>1 DEF Current, Quiet, ForksOf
<1>14. \A e \in ID : Saved(e)'
  BY <1>1, <1>4, <1>5, <1>13 DEF SnapInv, Saved, Same
<1>15. \A e \in ID : DiskFits(e)'
  BY <1>1, <1>4, <1>5, <1>13 DEF SnapInv, DiskFits, OnDisk, ForksOf, Locked
<1>16. \A e \in ID : CopyFits(e)' /\ FloorHeld(e)'
  BY <1>1, <1>4, <1>5 DEF SnapInv, CopyFits, FloorHeld, Newborn
<1> QED
  BY <1>7, <1>8, <1>9, <1>10, <1>11, <1>12, <1>14, <1>15, <1>16 DEF SnapInv

-----------------------------------------------------------------------------
\* Spawns

LEMMA SpawnRootKeeps ==
    ASSUME SnapInv, NEW b \in ID, SpawnRoot(b)
    PROVE  SnapInv'
<1>1. UNCHANGED <<writes, paused, late, marks, files, lock, pc, sawGen, stale, floor, commands,
                  ckpts, ends, faults, notes>>
  BY DEF SpawnRoot
<1>2. /\ pc[b] = "none" /\ ending[b] = "none" /\ b \notin vms \cup running \cup reviving
      /\ files[b] = NoFile /\ exec[b] = "none" /\ ckpt[b] = "none" /\ ForksOf(b) = {}
      /\ vms' = vms \cup {b} /\ running' = running \cup {b}
  BY DEF SpawnRoot, Unused, Idle
<1>3. /\ mem'[b] = Fresh
      /\ \A e \in ID : e # b => mem'[e] = mem[e] /\ disk'[e] = disk[e] /\ source'[e] = source[e]
  BY DEF SpawnRoot, SnapInv, SnapTypeOK
<1>4. \A e \in ID : ForksOf(e)' = ForksOf(e)
  BY <1>1, <1>2, <1>3 DEF ForksOf
<1>5. \A c \in ID : pc[c] # "none" => c # b /\ source'[c] = source[c] /\ source[c] \in ID \ {b}
  BY <1>2, <1>3 DEF SnapInv, Newborn, ForksOf
<1>6. SnapTypeOK'
  <2>1. mem' \in [ID -> Memory \cup {Torn}]
    BY Images DEF SpawnRoot, SnapInv, SnapTypeOK
  <2>2. disk' \in [ID -> 0 .. MaxWrites] /\ lives' \in 0 .. MaxLives
    BY SnapAssumption DEF SpawnRoot, SnapInv, SnapTypeOK
  <2> QED
    BY <1>1, <1>2, <2>1, <2>2 DEF SpawnRoot, SnapInv, SnapTypeOK
<1>7. Numbers' /\ Powered'
  <2>1. \A e \in ID : mem'[e] = Torn \/ mem'[e].data <= writes
    BY <1>3, Images, Counts DEF SnapInv, Numbers
  <2> QED
    BY <1>1, <1>2, <1>3, <2>1, Images DEF SnapInv, Numbers, Powered
<1>8. \A e \in ID : Newborn(e)' /\ Unhandled(e)' /\ Entry(e)' /\ Thawed(e)' /\ Readers(e)'
  BY <1>1, <1>2, <1>4, <1>5 DEF SnapInv, Newborn, Unhandled, Entry, Thawed, Readers
<1>9. \A e \in ID : e # b => (Erased(e)' <=> Erased(e))
  BY <1>1, <1>2, <1>4 DEF Erased
<1>10. \A e \in ID : ExecLocks(e)' /\ CkptLocks(e)'
  BY <1>1, <1>2, <1>9 DEF SnapInv, ExecLocks, CkptLocks
<1>11. \A e \in ID : ForkLocks(e)'
  <2>1. \A e \in ID : pc[e] \in Locked => pc[e] # "none"
    BY DEF Locked
  <2> QED
    BY <1>1, <1>2, <1>5, <2>1 DEF SnapInv, ForkLocks, Current
<1>12. b \notin snaps \ broken
  BY <1>2 DEF SnapInv, Entry
<1>13. \A e \in ID : Saved(e)'
  BY <1>1, <1>2, <1>3, <1>4, <1>12 DEF SnapInv, Saved, Same, Quiet, Current
<1>14. \A e \in ID : DiskFits(e)'
  BY <1>1, <1>2, <1>3, <1>4, <1>12 DEF SnapInv, DiskFits, OnDisk, Quiet, Current
<1>15. \A e \in ID : CopyFits(e)'
  BY <1>1, <1>3, <1>5 DEF SnapInv, CopyFits
<1>16. \A e \in ID : FloorHeld(e)'
  BY <1>1, <1>2, <1>3, <1>5 DEF SnapInv, FloorHeld
<1> QED
  BY <1>6, <1>7, <1>8, <1>10, <1>11, <1>13, <1>14, <1>15, <1>16 DEF SnapInv

LEMMA ForkBeginKeeps ==
    ASSUME SnapInv, NEW c \in ID, NEW p \in ID, ForkBegin(c, p)
    PROVE  SnapInv'
<1>1. UNCHANGED <<guests, vmms, marks, files, lock, sawGen, stale, commands, ckpts, ends, faults,
                  notes>>
  BY DEF ForkBegin
<1>2. /\ pc[c] = "none" /\ ending[c] = "none" /\ c \notin vms \cup running \cup reviving
      /\ files[c] = NoFile /\ exec[c] = "none" /\ ckpt[c] = "none" /\ ForksOf(c) = {}
      /\ c # p /\ pc[p] = "none"
  BY DEF ForkBegin, Unused, Idle
<1>3. /\ pc'[c] = "lock" /\ source'[c] = p
      /\ \A e \in ID : e # c => pc'[e] = pc[e] /\ source'[e] = source[e] /\ floor'[e] = floor[e]
  BY DEF ForkBegin, Goto, SnapInv, SnapTypeOK
<1>4. /\ floor'[c] \in 0 .. MaxWrites /\ floor'[c] <= writes
      /\ floor'[c] = 0 \/ (p \in vms \cap running /\ mem[p].data = floor'[c])
  <2>1. CASE p \in vms \cap running /\ mem[p] # Torn
    <3>1. mem[p] \in Memory /\ floor'[c] = mem[p].data
      BY <2>1 DEF ForkBegin, SnapInv, SnapTypeOK
    <3> QED
      BY <2>1, <3>1 DEF SnapInv, Numbers, Memory
  <2>2. CASE ~(p \in vms \cap running /\ mem[p] # Torn)
    <3>1. floor'[c] = 0
      BY <2>2 DEF ForkBegin, SnapInv, SnapTypeOK
    <3> QED
      BY <3>1, Counts DEF SnapInv
  <2> QED
    BY <2>1, <2>2
<1>5. \A e \in ID : /\ ForksOf(e)' \subseteq ForksOf(e) \cup {c} /\ ForksOf(e) \subseteq ForksOf(e)'
                    /\ e # p => ForksOf(e)' = ForksOf(e)
  BY <1>2, <1>3 DEF ForksOf
<1>6. SnapTypeOK'
  <2>1. floor' \in [ID -> 0 .. MaxWrites]
    BY <1>4 DEF ForkBegin, SnapInv, SnapTypeOK
  <2>2. pc' \in [ID -> ForkStage \cup {"none"}]
    BY DEF ForkBegin, Goto, SnapInv, SnapTypeOK, ForkStage
  <2>3. lives' \in 0 .. MaxLives
    BY SnapAssumption DEF ForkBegin, SnapInv, SnapTypeOK
  <2> QED
    BY <1>1, <2>1, <2>2, <2>3 DEF ForkBegin, SnapInv, SnapTypeOK
<1>7. Numbers' /\ Powered'
  BY <1>1, <1>3, <1>4 DEF SnapInv, Numbers, Powered
<1>8. \A e \in ID : Newborn(e)'
  BY <1>1, <1>2, <1>3, <1>5 DEF SnapInv, SnapTypeOK, Newborn
<1>9. \A e \in ID : Unhandled(e)' /\ Entry(e)'
  BY <1>1, <1>2, <1>3 DEF SnapInv, Unhandled, Entry
<1>10. \A e \in ID : Thawed(e)' /\ Readers(e)'
  BY <1>1, <1>2, <1>3, <1>5 DEF SnapInv, Thawed, Readers, ForksOf
<1>11. \A e \in ID \ {c} : Erased(e) => Erased(e)'
  BY <1>1, <1>3, <1>5 DEF Erased, ForksOf, Locked
<1>12. \A e \in ID : ExecLocks(e)' /\ CkptLocks(e)'
  BY <1>1, <1>2, <1>11 DEF SnapInv, ExecLocks, CkptLocks
<1>13. \A e \in ID : ForkLocks(e)'
  BY <1>1, <1>3 DEF SnapInv, ForkLocks, Current, Locked
<1>14. \A e \in ID : Quiet(e)' => Quiet(e)
  BY <1>1, <1>2, <1>3, <1>5 DEF Quiet, ForksOf
<1>15. \A e \in ID : Saved(e)'
  BY <1>1, <1>14 DEF SnapInv, Saved, Same, Current
<1>16. \A e \in ID : DiskFits(e)'
  <2>1. \A e \in ID : \A d \in ForksOf(e)' : pc'[d] # "lock" => d \in ForksOf(e) /\ pc'[d] = pc[d]
    BY <1>3, <1>5 DEF ForksOf
  <2> QED
    BY <1>1, <1>14, <2>1 DEF SnapInv, DiskFits, OnDisk, Current
<1>17. \A e \in ID : CopyFits(e)'
  BY <1>1, <1>3 DEF SnapInv, CopyFits
<1>18. \A e \in ID : FloorHeld(e)'
  <2>1. mem[p].data >= mem[p].data
    BY Counts DEF SnapInv
  <2> QED
    BY <1>1, <1>3, <1>4, <2>1 DEF SnapInv, FloorHeld
<1> QED
  BY <1>6, <1>7, <1>8, <1>9, <1>10, <1>12, <1>13, <1>15, <1>16, <1>17, <1>18 DEF SnapInv

-----------------------------------------------------------------------------
\* The steps of a fork

\* The files of a branch whose entry a checkpoint left wrong count as no files.
LEMMA BrokenFiles ==
    ASSUME SnapInv, NEW b \in ID, b \in broken, ckpt[b] # "mark", ending[b] = "none"
    PROVE  ~files[b].synced /\ \A e \in ID : files[b].data >= floor[e]
<1>1. files[b] \in {NoFile, Torn}
  BY DEF SnapInv, Entry
<1>2. files[b].data \in {MaxWrites + 1, MaxWrites + 2} /\ ~files[b].synced
  BY <1>1, Images
<1> QED
  BY <1>2, Counts DEF SnapInv

\* Where a snapshot is current, it is no older than any call: nothing is written.
LEMMA ForkLockKeeps ==
    ASSUME SnapInv, NEW c \in ID, ForkLock(c)
    PROVE  SnapInv'
<1> DEFINE p == source[c]
           old == ~Current(p)
<1>1. UNCHANGED <<guests, vmms, marks, files, source, floor, lives, commands, ckpts, ends, faults,
                  notes>>
  BY DEF ForkLock
<1>2. /\ pc[c] = "lock" /\ lock[p] = "free" /\ p \in vms /\ p \in ID /\ p # c
      /\ c \notin vms /\ ending[p] = "none" /\ pc[p] = "none"
  BY DEF ForkLock, SnapInv, Newborn, Unhandled, ForksOf
<1>3. exec[p] = "none" /\ ckpt[p] = "none" /\ \A d \in ID : source[d] = p => pc[d] \notin Locked
  BY <1>2, FreeLock
<1>4. /\ pc'[c] = (IF ~old /\ ~Overlay THEN "load" ELSE IF old /\ Overlay THEN "sync" ELSE "pause")
      /\ lock'[p] = (IF ~old /\ ~Overlay THEN "free" ELSE c)
      /\ sawGen'[c] = gen[p] /\ (c \in stale' <=> old)
      /\ \A e \in ID : e # c => /\ pc'[e] = pc[e] /\ sawGen'[e] = sawGen[e]
                                /\ e \in stale' <=> e \in stale
      /\ \A e \in ID : e # p => lock'[e] = lock[e]
  <2>1. sawGen'[c] = gen[p] /\ \A e \in ID : e # c => sawGen'[e] = sawGen[e]
    BY DEF ForkLock, SnapInv, SnapTypeOK
  <2>2. \A e \in ID : e \in stale' <=> IF e = c THEN old ELSE e \in stale
    BY DEF ForkLock
  <2>3. CASE ~old /\ ~Overlay
    BY <1>2, <2>1, <2>2, <2>3 DEF ForkLock, Goto, SnapInv, SnapTypeOK
  <2>4. CASE ~(~old /\ ~Overlay)
    BY <1>2, <2>1, <2>2, <2>4 DEF ForkLock, Goto, SnapInv, SnapTypeOK
  <2> QED
    BY <2>3, <2>4
<1>5. SnapTypeOK'
  <2>1. pc' \in [ID -> ForkStage \cup {"none"}]
    BY DEF ForkLock, Goto, SnapInv, SnapTypeOK, ForkStage
  <2>2. sawGen' \in [ID -> 0 .. MaxExecs] /\ stale' \subseteq ID
    BY <1>2 DEF ForkLock, SnapInv, SnapTypeOK
  <2>3. lock' \in [ID -> ID \cup {"free", "exec", "checkpoint"}]
    BY DEF ForkLock, SnapInv, SnapTypeOK
  <2> QED
    BY <1>1, <2>1, <2>2, <2>3 DEF SnapInv, SnapTypeOK
<1> HIDE DEF p, old
<1>6. \A e \in ID : ForksOf(e)' = ForksOf(e)
  BY <1>1, <1>2, <1>4 DEF ForksOf
<1>7. Numbers' /\ Powered'
  BY <1>1 DEF SnapInv, Numbers, Powered
<1>8. \A e \in ID : Newborn(e)' /\ Unhandled(e)' /\ Entry(e)'
  BY <1>1, <1>2, <1>4, <1>6 DEF SnapInv, Newborn, Unhandled, Entry
<1>9. \A e \in ID : Thawed(e)' /\ Readers(e)'
  <2>1. \A d \in ForksOf(p) : pc[d] # "write" /\ pc'[d] # "write"
    BY <1>3, <1>4 DEF ForksOf, Locked
  <2>2. \A e \in ID : \A d \in ForksOf(e) : e # p => pc'[d] = pc[d]
    BY <1>4 DEF ForksOf, p
  <2>3. \A e \in ID : Readers(e)'
    BY <1>1, <1>3, <1>6, <2>1, <2>2 DEF SnapInv, Readers
  <2> QED
    BY <1>1, <1>2, <1>4, <1>6, <2>3 DEF SnapInv, Thawed, Pausing, ForksOf
<1>10. \A e \in ID : Erased(e) => Erased(e)'
  BY <1>1, <1>2, <1>4, <1>6 DEF Erased, ForksOf, p
<1>11. \A e \in ID : ExecLocks(e)' /\ CkptLocks(e)'
  BY <1>1, <1>3, <1>4, <1>10 DEF SnapInv, ExecLocks, CkptLocks
<1>12. \A e \in ID : ForkLocks(e)'
  <2>1. ForkLocks(c)'
    BY <1>1, <1>2, <1>4 DEF ForkLocks, Current, Locked, p, old
  <2>2. \A e \in ID : e # c /\ pc[e] \in Locked => source[e] \in ID \ {p}
    BY <1>3, ForkAlone
  <2> QED
    BY <1>1, <1>4, <2>1, <2>2 DEF SnapInv, ForkLocks, Current
<1>13. \A e \in ID : Quiet(e)' => Quiet(e)
  BY <1>1, <1>2, <1>4, <1>6 DEF Quiet, ForksOf
<1>14. \A e \in ID : Saved(e)'
  BY <1>1, <1>13 DEF SnapInv, Saved, Same, Current
<1>15. \A e \in ID : DiskFits(e)'
  <2>1. Overlay => \A e \in ID : \A d \in ForksOf(e) :
            /\ d \in stale' /\ pc'[d] \in {"pause", "write"}
                 => d \in stale /\ pc[d] \in {"pause", "write"}
            /\ pc'[d] = "copy" => pc[d] = "copy"
    BY <1>4 DEF ForksOf
  <2> QED
    BY <1>1, <1>6, <1>13, <2>1 DEF SnapInv, DiskFits, OnDisk, Current
<1>16. \A e \in ID : CopyFits(e)'
  BY <1>1, <1>2, <1>4 DEF SnapInv, CopyFits
<1>17. \A e \in ID : FloorHeld(e)'
  <2>1. ~old => files[p].left \/ files[p].data >= floor[c]
    <3>1. CASE p \in broken
      BY <1>2, <1>3, <3>1, BrokenFiles
    <3>2. CASE p \notin broken /\ p \in running
      <4>1. ~old => Same(p)
        BY <1>2, <1>3, <3>2 DEF SnapInv, Saved, Quiet, ForksOf, Locked, old
      <4>2. floor[c] = 0 \/ mem[p].data >= floor[c]
        BY <1>2, Counts DEF SnapInv, FloorHeld, p
      <4> QED
        BY <1>2, <4>1, <4>2, Counts DEF SnapInv, Same
    <3>3. CASE p \notin running
      <4>1. floor[c] = 0
        BY <1>2, <3>3, Counts DEF SnapInv, FloorHeld, p
      <4> QED
        BY <1>2, <4>1, Counts DEF SnapInv
    <3> QED
      BY <3>1, <3>2, <3>3
  <2> QED
    BY <1>1, <1>2, <1>4, <2>1 DEF SnapInv, FloorHeld, p
<1> QED
  BY <1>5, <1>7, <1>8, <1>9, <1>11, <1>12, <1>14, <1>15, <1>16, <1>17 DEF SnapInv

LEMMA ForkLockFilesKeeps ==
    ASSUME SnapInv, NEW c \in ID, ForkLockFiles(c)
    PROVE  SnapInv'
<1> DEFINE p == source[c]
<1>1. UNCHANGED <<mem, writes, vmms, marks, files, lock, source, sawGen, stale, floor, lives,
                  commands, ckpts, ends, faults, disturbed, broken, stuck>>
  BY DEF ForkLockFiles
<1>2. /\ pc[c] = "lock" /\ p \notin vms /\ p \in ID /\ p # c /\ rolled' = rolled \cup {c}
      /\ pc'[c] \in {"undo", "load"} /\ \A e \in ID : e # c => pc'[e] = pc[e] /\ disk'[e] = disk[e]
  BY DEF ForkLockFiles, Goto, SnapInv, SnapTypeOK, Newborn, ForksOf
<1>3. \A e \in ID : ForksOf(e)' = ForksOf(e)
  BY <1>1, <1>2 DEF ForksOf
<1>4. SnapTypeOK'
  <2>1. pc' \in [ID -> ForkStage \cup {"none"}]
    BY DEF ForkLockFiles, Goto, SnapInv, SnapTypeOK, ForkStage
  <2>2. disk' \in [ID -> 0 .. MaxWrites] /\ rolled' \subseteq ID
    BY <1>2 DEF ForkLockFiles, SnapInv, SnapTypeOK
  <2> QED
    BY <1>1, <2>1, <2>2 DEF SnapInv, SnapTypeOK
<1>5. Numbers' /\ Powered'
  BY <1>1 DEF SnapInv, Numbers, Powered
<1>6. \A e \in ID : Newborn(e)' /\ Unhandled(e)' /\ Entry(e)'
  BY <1>1, <1>2, <1>3 DEF SnapInv, Newborn, Unhandled, Entry
<1>7. \A e \in ID : Thawed(e)' /\ Readers(e)'
  <2>1. ckpt[p] # "write" /\ \A d \in ForksOf(p) : pc[d] # "write" /\ pc'[d] # "write"
    <3>1. lock[p] = "free"
      BY DEF ForkLockFiles
    <3>2. \A d \in ForksOf(p) : pc[d] \notin Locked
      BY <3>1, Holders DEF SnapInv, ForkLocks, ForksOf
    <3> QED
      BY <1>2, <3>1, <3>2 DEF SnapInv, CkptLocks, Erased, ForksOf, Locked
  <2>2. \A e \in ID : \A d \in ForksOf(e) : e # p => pc'[d] = pc[d]
    BY <1>2 DEF ForksOf
  <2>3. \A e \in ID : Readers(e)'
    BY <1>1, <1>3, <2>1, <2>2 DEF SnapInv, Readers
  <2> QED
    BY <1>1, <1>2, <1>3, <2>3 DEF SnapInv, Thawed, Pausing, ForksOf
<1>8. \A e \in ID : Erased(e) => Erased(e)'
  BY <1>1, <1>2, <1>3 DEF Erased, ForksOf, Locked
<1>9. \A e \in ID : ExecLocks(e)' /\ CkptLocks(e)'
  BY <1>1, <1>2, <1>8 DEF SnapInv, ExecLocks, CkptLocks
<1>10. \A e \in ID : ForkLocks(e)'
  BY <1>1, <1>2 DEF SnapInv, ForkLocks, Current, Locked
<1>11. \A e \in ID : Quiet(e)' => Quiet(e)
  BY <1>1, <1>2, <1>3 DEF Quiet, ForksOf
<1>12. \A e \in ID : Saved(e)'
  BY <1>1, <1>11 DEF SnapInv, Saved, Same, Current
<1>13. \A e \in ID : DiskFits(e)'
  <2>1. \A e \in ID : \A d \in ForksOf(e) : pc'[d] \in {"pause", "write", "copy"} => pc'[d] = pc[d]
    BY <1>2 DEF ForksOf
  <2> QED
    BY <1>1, <1>2, <1>3, <1>11, <2>1 DEF SnapInv, DiskFits, OnDisk, Current
<1>14. \A e \in ID : CopyFits(e)'
  BY <1>1, <1>2 DEF SnapInv, CopyFits
<1>15. \A e \in ID : FloorHeld(e)'
  <2>1. floor[c] = 0 /\ files[p].data >= 0
    BY <1>2, Counts DEF SnapInv, FloorHeld
  <2> QED
    BY <1>1, <1>2, <2>1 DEF SnapInv, FloorHeld
<1> QED
  BY <1>4, <1>5, <1>6, <1>7, <1>9, <1>10, <1>12, <1>13, <1>14, <1>15 DEF SnapInv

\* A fork that holds the lock of its parent: what it may count on.
LEMMA ForkHolds ==
    ASSUME SnapInv, NEW c \in ID, pc[c] \in Locked
    PROVE  /\ source[c] \in ID /\ source[c] # c /\ pc[source[c]] = "none"
           /\ lock[source[c]] = c /\ ending[source[c]] = "none"
           /\ source[c] \in running => source[c] \in vms
           /\ exec[source[c]] = "none" /\ ckpt[source[c]] = "none"
           /\ \A d \in ID : d # c /\ pc[d] \in Locked => source[d] \in ID \ {source[c]}
           /\ c \notin vms /\ (pc[c] # "register" => c \notin running)
BY ForkAlone DEF SnapInv, ForkLocks, Newborn, Locked

LEMMA ForkSyncKeeps ==
    ASSUME SnapInv, NEW c \in ID, ForkSync(c)
    PROVE  SnapInv'
<1> DEFINE p == source[c]
<1>1. UNCHANGED <<writes, vmms, marks, files, source, sawGen, stale, floor, lives, commands, ckpts,
                  ends, disturbed, broken, rolled, stuck>>
  BY DEF ForkSync
<1>2. pc[c] = "sync" /\ pc[c] \in Locked
  BY DEF ForkSync, Locked
<1>3. /\ p \in ID /\ p # c /\ pc[p] = "none" /\ lock[p] = c /\ ending[p] = "none"
      /\ exec[p] = "none" /\ ckpt[p] = "none"
      /\ \A d \in ID : d # c /\ pc[d] \in Locked => source[d] \in ID \ {p}
  BY <1>2, ForkHolds
<1>4. c \in stale /\ ~Current(p)
  BY <1>2 DEF SnapInv, ForkLocks
<1>5. /\ (Sync(p) /\ pc'[c] = "pause" /\ lock'[p] = c) \/ (pc'[c] = "undo" /\ lock'[p] = "free")
      /\ \A e \in ID : (e # c => pc'[e] = pc[e]) /\ (e # p => lock'[e] = lock[e])
  BY <1>3 DEF ForkSync, Goto, Release, SnapInv, SnapTypeOK
<1>6. /\ mem' \in [ID -> Memory \cup {Torn}] /\ disk' \in [ID -> 0 .. MaxWrites]
      /\ \A e \in ID : e # p => mem'[e] = mem[e] /\ disk'[e] = disk[e]
      /\ \A e \in ID : /\ mem'[e].data = mem[e].data /\ mem'[e].left = mem[e].left
                       /\ mem'[e] = Torn <=> mem[e] = Torn
      /\ p \notin running => mem'[p] = mem[p]
      /\ Sync(p) /\ Overlay /\ p \in running /\ p \notin disturbed /\ mem'[p].synced
           => disk'[p] = mem'[p].data /\ mem'[p].flushed = mem'[p].data
  <2>1. Sync(p) \/ SyncBreaks(p)
    BY DEF ForkSync
  <2> HIDE DEF p
  <2> QED
    BY <1>3, <2>1, SyncFacts
<1>7. SnapTypeOK'
  <2>1. pc' \in [ID -> ForkStage \cup {"none"}]
    BY DEF ForkSync, Goto, SnapInv, SnapTypeOK, ForkStage
  <2>2. lock' \in [ID -> ID \cup {"free", "exec", "checkpoint"}]
    BY DEF ForkSync, Release, SnapInv, SnapTypeOK
  <2>3. faults' \in 0 .. MaxFaults
    BY FaultType DEF ForkSync, Sync, SyncBreaks, SnapInv
  <2> QED
    BY <1>1, <1>6, <2>1, <2>2, <2>3 DEF SnapInv, SnapTypeOK
<1> HIDE DEF p
<1>8. Numbers' /\ Powered'
  BY <1>1, <1>6 DEF SnapInv, Numbers, Powered
<1>9. \A e \in ID : ForksOf(e)' = ForksOf(e)
  BY <1>1, <1>2, <1>5 DEF ForksOf
<1>10. \A e \in ID : Newborn(e)' /\ Unhandled(e)' /\ Entry(e)'
  BY <1>1, <1>2, <1>5, <1>9 DEF SnapInv, Newborn, Unhandled, Entry
<1>11. \A e \in ID : Thawed(e)' /\ Readers(e)'
  BY <1>1, <1>2, <1>5, <1>9 DEF SnapInv, Thawed, Readers, Pausing, ForksOf
<1>12. \A e \in ID : Erased(e) => Erased(e)'
  BY <1>1, <1>2, <1>5, <1>9 DEF Erased, ForksOf
<1>13. \A e \in ID : ExecLocks(e)' /\ CkptLocks(e)'
  BY <1>1, <1>3, <1>5, <1>12 DEF SnapInv, ExecLocks, CkptLocks
<1>14. \A e \in ID : ForkLocks(e)'
  <2>1. ForkLocks(c)'
    BY <1>1, <1>2, <1>4, <1>5 DEF SnapInv, ForkLocks, Current, Locked, p
  <2> QED
    BY <1>1, <1>3, <1>5, <2>1 DEF SnapInv, ForkLocks, Current
<1>15. \A e \in ID : Quiet(e)' => Quiet(e)
  BY <1>1, <1>2, <1>5, <1>9 DEF Quiet, ForksOf
<1>16. \A e \in ID : Saved(e)'
  BY <1>1, <1>6, <1>15 DEF SnapInv, Saved, Same, Current
<1>17. \A e \in ID : DiskFits(e)'
  <2>1. \A e \in ID : e # p => DiskFits(e)'
    <3>1. \A e \in ID : e # p => \A d \in ForksOf(e) : pc'[d] = pc[d]
      BY <1>5 DEF ForksOf, p
    <3> QED
      BY <1>1, <1>6, <1>9, <1>15, <3>1 DEF SnapInv, DiskFits, OnDisk, Current
  <2>2. \A d \in ForksOf(p) : /\ pc'[d] # "copy"
                              /\ pc'[d] \in {"pause", "write"} => Sync(p)
    BY <1>3, <1>5 DEF ForksOf, Locked
  <2>3. \A e \in ID : e = p => DiskFits(e)'
    BY <1>1, <1>3, <1>4, <1>6, <1>9, <2>2 DEF DiskFits, OnDisk, Current
  <2> QED
    BY <2>1, <2>3
<1>18. \A e \in ID : CopyFits(e)'
  BY <1>1, <1>3, <1>5, <1>6 DEF SnapInv, CopyFits
<1>19. \A e \in ID : FloorHeld(e)'
  BY <1>1, <1>2, <1>4, <1>5, <1>6 DEF SnapInv, FloorHeld, Newborn
<1> QED
  BY <1>7, <1>8, <1>10, <1>11, <1>13, <1>14, <1>16, <1>17, <1>18, <1>19 DEF SnapInv

\* Who maps the files that are rewritten is disturbed; a snapshot that is current
\* is kept, and nothing can be written between here and the copy.
LEMMA ForkPauseKeeps ==
    ASSUME SnapInv, NEW c \in ID, ForkPause(c)
    PROVE  SnapInv'
<1> DEFINE p == source[c]
<1>1. UNCHANGED <<guests, vms, running, marks, source, sawGen, stale, floor, lives, commands, ckpts,
                  ends, broken, rolled>>
  BY DEF ForkPause
<1>2. pc[c] = "pause" /\ pc[c] \in Locked
  BY DEF ForkPause, Locked
<1>3. /\ p \in ID /\ p # c /\ pc[p] = "none" /\ lock[p] = c /\ ending[p] = "none"
      /\ p \in running => p \in vms
      /\ exec[p] = "none" /\ ckpt[p] = "none"
      /\ \A d \in ID : d # c /\ pc[d] \in Locked => source[d] \in ID \ {p}
  BY <1>2, ForkHolds
<1>4. (c \notin stale => Current(p)) /\ (c \in stale => ~Current(p))
  BY <1>2 DEF SnapInv, ForkLocks
<1>5. /\ \A e \in ID : (e # c => pc'[e] = pc[e]) /\ (e # p => lock'[e] = lock[e])
      /\ \/ /\ pc'[c] = "undo" /\ lock'[p] = "free" /\ UNCHANGED <<paused, files, disturbed>>
            /\ PauseRaises(p)
         \/ /\ p \in running /\ Answers(p) /\ UNCHANGED stuck
            /\ paused' = paused \cup {p} /\ lock'[p] = c
            /\ \/ c \in stale /\ pc'[c] = "write" /\ Rewrite(p)
               \/ c \notin stale /\ pc'[c] = "copy" /\ UNCHANGED <<files, disturbed>>
  <2>1. CASE PauseRaises(p) /\ Goto(c, "undo") /\ Release(p, c) /\ UNCHANGED <<files, disturbed>>
    BY <1>3, <2>1 DEF PauseRaises, Goto, Release, SnapInv, SnapTypeOK
  <2>2. CASE /\ Answers(p) /\ paused' = paused \cup {p} /\ UNCHANGED <<lock, stuck>>
             /\ IF c \in stale THEN Rewrite(p) /\ Goto(c, "write")
                               ELSE Goto(c, "copy") /\ UNCHANGED <<files, disturbed>>
    BY <1>3, <2>2 DEF Answers, Goto, SnapInv, SnapTypeOK
  <2> QED
    BY <2>1, <2>2 DEF ForkPause
<1>30. stuck \subseteq stuck' /\ stuck' \subseteq ID
  BY <1>3, <1>5 DEF PauseRaises, SnapInv, SnapTypeOK
<1>6. /\ disturbed \subseteq disturbed' /\ disturbed' \subseteq ID
      /\ files' \in [ID -> Memory \cup {NoFile, Torn}]
      /\ \A e \in ID : e # p => files'[e] = files[e]
      /\ files'[p] = files[p] \/ (c \in stale /\ files'[p] = Torn)
      /\ \A d \in ID : source[d] = p /\ pc[d] = "load" => files'[p] = files[p] \/ d \in disturbed'
  BY <1>5 DEF Rewrite, MappedFrom, SnapInv, SnapTypeOK
<1>7. SnapTypeOK'
  <2>1. pc' \in [ID -> ForkStage \cup {"none"}]
    BY DEF ForkPause, Goto, SnapInv, SnapTypeOK, ForkStage
  <2>2. lock' \in [ID -> ID \cup {"free", "exec", "checkpoint"}]
    BY DEF ForkPause, Release, SnapInv, SnapTypeOK
  <2>3. faults' \in 0 .. MaxFaults /\ late' \in [ID -> Requests]
    BY <1>3, <1>5, LateType DEF PauseRaises, SnapInv
  <2> QED
    BY <1>1, <1>5, <1>6, <1>30, <2>1, <2>2, <2>3 DEF SnapInv, SnapTypeOK
<1> HIDE DEF p
<1>8. Numbers' /\ Powered'
  BY <1>1, <1>5, <1>6 DEF SnapInv, Numbers, Powered
<1>9. \A e \in ID : ForksOf(e)' = ForksOf(e)
  BY <1>1, <1>2, <1>5 DEF ForksOf
<1>10. \A e \in ID : Newborn(e)' /\ Unhandled(e)' /\ Entry(e)'
  BY <1>1, <1>2, <1>3, <1>5, <1>6, <1>9, Images DEF SnapInv, Newborn, Unhandled, Entry
<1>11. \A e \in ID : Thawed(e)' /\ Readers(e)'
  <2>1. c \in ForksOf(p)
    BY <1>2 DEF ForksOf, p
  <2>2. \A e \in ID : \A d \in ForksOf(e) : pc[d] \in Pausing => pc'[d] = pc[d]
    BY <1>2, <1>5 DEF ForksOf, Pausing
  <2>3. \A e \in ID : e # p => \A d \in ForksOf(e) : pc'[d] = pc[d]
    BY <1>5 DEF ForksOf, p
  <2>4. \A e \in ID : e # p => Readers(e)'
    BY <1>1, <1>6, <1>9, <2>3 DEF SnapInv, Readers
  <2>5. \A e \in ID : e = p => Readers(e)'
    <3>1. \A d \in ForksOf(p) : pc'[d] = "write" => d = c
      BY <1>3, <1>5 DEF ForksOf, Locked
    <3>2. pc'[c] = "write" => \A d \in ForksOf(p) : pc'[d] = "load" => d \in disturbed'
      BY <1>5 DEF Rewrite, MappedFrom, ForksOf
    <3> QED
      BY <1>1, <1>3, <1>9, <3>1, <3>2 DEF Readers
  <2> QED
    BY <1>1, <1>5, <1>9, <1>30, <2>1, <2>2, <2>4, <2>5 DEF SnapInv, Thawed, Pausing
<1>12. \A e \in ID : Erased(e) => Erased(e)'
  <2>1. \A e \in ID : Erased(e) => e # p
    BY <1>2 DEF Erased, ForksOf, p
  <2>2. \A e \in ID : e # p => \A d \in ForksOf(e) : pc'[d] = pc[d]
    BY <1>5 DEF ForksOf, p
  <2>3. \A e \in ID : pc[e] = "none" => pc'[e] = "none"
    BY <1>2, <1>5
  <2> QED
    BY <1>1, <1>5, <1>6, <1>9, <2>1, <2>2, <2>3 DEF Erased
<1>13. \A e \in ID : ExecLocks(e)' /\ CkptLocks(e)'
  BY <1>1, <1>3, <1>5, <1>6, <1>12 DEF SnapInv, ExecLocks, CkptLocks
<1>14. \A e \in ID : ForkLocks(e)'
  <2>1. ForkLocks(c)'
    BY <1>1, <1>2, <1>3, <1>4, <1>5 DEF SnapInv, ForkLocks, Current, Locked, p
  <2> QED
    BY <1>1, <1>3, <1>5, <2>1 DEF SnapInv, ForkLocks, Current
<1>15. \A e \in ID : Quiet(e)' => Quiet(e)
  BY <1>1, <1>2, <1>5, <1>9 DEF Quiet, ForksOf
<1>16. \A e \in ID : Saved(e)'
  BY <1>1, <1>3, <1>4, <1>6, <1>15 DEF SnapInv, Saved, Same, Current
<1>17. \A e \in ID : DiskFits(e)'
  <2>1. \A e \in ID : e # p => DiskFits(e)'
    <3>1. \A e \in ID : e # p => \A d \in ForksOf(e) : pc'[d] = pc[d]
      BY <1>5 DEF ForksOf, p
    <3> QED
      BY <1>1, <1>6, <1>9, <1>15, <3>1 DEF SnapInv, DiskFits, OnDisk, Current
  <2>2. \A d \in ForksOf(p) : /\ pc'[d] = "copy" => d = c /\ c \notin stale /\ p \in vms
                              /\ d \in stale /\ pc'[d] \in {"pause", "write"} => d = c
    BY <1>3, <1>5 DEF ForksOf, Locked
  <2>3. c \notin stale /\ p \in vms /\ Overlay /\ p \notin rolled \cup disturbed
          => OnDisk(files[p], p)
    <3>1. CASE p \in broken
      BY <1>3, <3>1, BrokenFiles DEF OnDisk
    <3>2. CASE p \notin broken
      BY <1>2, <1>3, <1>4, <3>2 DEF SnapInv, DiskFits, Quiet, ForksOf, Locked
    <3> QED
      BY <3>1, <3>2
  <2>4. c \in ForksOf(p)
    BY <1>2 DEF ForksOf, p
  <2>5. \A e \in ID : e = p => DiskFits(e)'
    BY <1>1, <1>2, <1>3, <1>4, <1>6, <1>9, <1>15, <2>2, <2>3, <2>4
       DEF SnapInv, DiskFits, OnDisk, Current
  <2> QED
    BY <2>1, <2>5
<1>18. \A e \in ID : CopyFits(e)'
  <2>1. \A e \in ID : pc[e] = "resume" => source[e] # p
    BY <1>2, <1>3 DEF Locked
  <2> QED
    BY <1>1, <1>3, <1>5, <1>6, <2>1 DEF SnapInv, CopyFits, Newborn
<1>19. \A e \in ID : FloorHeld(e)'
  <2>1. FloorHeld(c)'
    BY <1>1, <1>2, <1>5, <1>6 DEF SnapInv, FloorHeld, p
  <2>2. \A e \in ID : e # c /\ source[e] = p => pc[e] \notin {"copy", "resume", "pause"}
    BY <1>3 DEF Locked
  <2>3. \A e \in ID : e # c => FloorHeld(e)'
    BY <1>1, <1>5, <1>6, <2>2 DEF SnapInv, FloorHeld, Newborn
  <2> QED
    BY <2>1, <2>3
<1> QED
  BY <1>7, <1>8, <1>10, <1>11, <1>13, <1>14, <1>16, <1>17, <1>18, <1>19 DEF SnapInv

\* The files that are written hold the paused parent as it is.
LEMMA ForkWriteKeeps ==
    ASSUME SnapInv, NEW c \in ID, ForkWrite(c)
    PROVE  SnapInv'
<1> DEFINE p == source[c]
<1>1. UNCHANGED <<guests, vmms, gen, lock, source, sawGen, stale, floor, lives, commands, ckpts,
                  ends, disturbed, rolled, stuck>>
  BY DEF ForkWrite
<1>2. pc[c] = "write" /\ pc[c] \in Locked
  BY DEF ForkWrite, Locked
<1>3. /\ p \in ID /\ p # c /\ pc[p] = "none" /\ lock[p] = c /\ ending[p] = "none"
      /\ exec[p] = "none" /\ ckpt[p] = "none"
      /\ \A d \in ID : d # c /\ pc[d] \in Locked => source[d] \in ID \ {p}
  BY <1>2, ForkHolds
<1>4. c \in stale /\ ~Current(p) /\ sawGen[c] = gen[p] /\ p \in running \cap paused /\ p \in vms
  BY <1>2 DEF SnapInv, ForkLocks
<1>5. \A d \in ID : source[d] = p /\ pc[d] = "load" => d \in disturbed
  BY <1>2, <1>3 DEF SnapInv, Readers, ForksOf
<1>6. /\ \A e \in ID : e # c => pc'[e] = pc[e]
      /\ \A e \in ID : e # p => /\ files'[e] = files[e] /\ snapGen'[e] = snapGen[e]
                                /\ e \in snaps' <=> e \in snaps
                                /\ e \in broken' <=> e \in broken
      /\ \/ /\ pc'[c] = (IF Overlay THEN "copy" ELSE "resume")
            /\ files'[p] = mem[p] /\ p \in snaps' \ broken' /\ snapGen'[p] = gen[p]
         \/ pc'[c] = "failing" /\ UNCHANGED <<files, snaps, snapGen, broken>>
  BY <1>3, <1>4 DEF ForkWrite, Goto, SnapInv, SnapTypeOK
<1>7. SnapTypeOK'
  <2>1. pc' \in [ID -> ForkStage \cup {"none"}]
    BY DEF ForkWrite, Goto, SnapInv, SnapTypeOK, ForkStage
  <2>2. files' \in [ID -> Memory \cup {NoFile, Torn}]
    BY <1>3 DEF ForkWrite, SnapInv, SnapTypeOK
  <2>3. snapGen' \in [ID -> 0 .. NoGen]
    BY SnapAssumption DEF ForkWrite, SnapInv, SnapTypeOK, NoGen
  <2>4. faults' \in 0 .. MaxFaults
    BY FaultType DEF ForkWrite, SnapInv
  <2>5. snaps' \subseteq ID /\ broken' \subseteq ID
    BY <1>3 DEF ForkWrite, SnapInv, SnapTypeOK
  <2> QED
    BY <1>1, <2>1, <2>2, <2>3, <2>4, <2>5 DEF SnapInv, SnapTypeOK
<1> HIDE DEF p
<1>8. Numbers' /\ Powered'
  <2>1. \A e \in ID : files'[e] \in {NoFile, Torn} \/ files'[e].data <= writes
    BY <1>3, <1>6 DEF SnapInv, Numbers
  <2> QED
    BY <1>1, <2>1 DEF SnapInv, Numbers, Powered
<1>9. \A e \in ID : ForksOf(e)' = ForksOf(e)
  BY <1>1, <1>2, <1>6 DEF ForksOf
<1>10. /\ \A e \in ID : e # p => \A d \in ForksOf(e) : pc'[d] = pc[d]
       /\ c \in ForksOf(p)
  BY <1>2, <1>6 DEF ForksOf, p
<1>11. \A e \in ID : Newborn(e)' /\ Unhandled(e)'
  BY <1>1, <1>2, <1>3, <1>6, <1>9 DEF SnapInv, Newborn, Unhandled
<1>12. \A e \in ID : Entry(e)'
  <2>1. mem[p] # NoFile /\ gen[p] <= gen[p]
    BY <1>3, Images, Counts DEF SnapInv, SnapTypeOK
  <2> QED
    BY <1>1, <1>3, <1>6, <2>1 DEF SnapInv, Entry
<1>13. \A e \in ID : Thawed(e)'
  BY <1>1, <1>6, <1>9, <1>10 DEF SnapInv, Thawed, Pausing
<1>14. \A e \in ID : Readers(e)'
  <2>1. \A d \in ForksOf(p) : pc'[d] # "write"
    BY <1>3, <1>6 DEF ForksOf, Locked
  <2> QED
    BY <1>1, <1>3, <1>9, <1>10, <2>1 DEF SnapInv, Readers
<1>15. \A e \in ID : Erased(e) => e # p /\ Erased(e)'
  BY <1>1, <1>2, <1>4, <1>6, <1>9, <1>10 DEF Erased
<1>16. \A e \in ID : ExecLocks(e)' /\ CkptLocks(e)'
  BY <1>1, <1>3, <1>6, <1>15 DEF SnapInv, ExecLocks, CkptLocks
<1>17. \A e \in ID : ForkLocks(e)'
  <2>1. ForkLocks(c)'
    BY <1>1, <1>2, <1>3, <1>4, <1>6 DEF SnapInv, ForkLocks, Locked, p
  <2> QED
    BY <1>1, <1>3, <1>6, <2>1 DEF SnapInv, ForkLocks, Current
<1>18. \A e \in ID : e # p => (Quiet(e)' => Quiet(e))
  BY <1>1, <1>9, <1>10 DEF Quiet
<1>19. \A e \in ID : Saved(e)'
  BY <1>1, <1>3, <1>4, <1>6, <1>18 DEF SnapInv, Saved, Same, Current
<1>20. \A e \in ID : DiskFits(e)'
  <2>1. \A e \in ID : e # p => DiskFits(e)'
    BY <1>1, <1>6, <1>9, <1>10, <1>18 DEF SnapInv, DiskFits, OnDisk, Current
  <2>2. Overlay /\ p \notin rolled \cup disturbed => OnDisk(mem[p], p)
    BY <1>2, <1>3, <1>4, <1>10 DEF SnapInv, DiskFits
  <2>3. \A d \in ForksOf(p) : /\ pc'[d] \notin {"pause", "write"}
                              /\ pc'[d] = "copy" => d = c
    BY <1>3, <1>6 DEF ForksOf, Locked
  <2>4. \A e \in ID : e = p => DiskFits(e)'
    BY <1>1, <1>3, <1>4, <1>6, <1>9, <2>2, <2>3 DEF DiskFits, OnDisk, Current
  <2> QED
    BY <2>1, <2>4
<1>21. \A e \in ID : CopyFits(e)'
  <2>1. \A e \in ID : pc[e] = "resume" => source[e] # p
    BY <1>2, <1>3 DEF Locked
  <2> QED
    BY <1>1, <1>5, <1>6, <2>1 DEF SnapInv, CopyFits, Newborn
<1>22. \A e \in ID : FloorHeld(e)'
  <2>1. mem[p].data >= floor[c]
    BY <1>2, <1>3, Counts DEF SnapInv, FloorHeld, p
  <2>2. FloorHeld(c)'
    BY <1>1, <1>2, <1>6, <2>1 DEF SnapInv, FloorHeld, p
  <2>3. \A e \in ID : e # c /\ source[e] = p => pc[e] \notin {"copy", "resume", "pause"}
    BY <1>3 DEF Locked
  <2>4. \A e \in ID : e # c => FloorHeld(e)'
    BY <1>1, <1>5, <1>6, <2>3 DEF SnapInv, FloorHeld, Newborn
  <2> QED
    BY <2>2, <2>4
<1> QED
  BY <1>7, <1>8, <1>11, <1>12, <1>13, <1>14, <1>16, <1>17, <1>19, <1>20, <1>21, <1>22 DEF SnapInv

\* The copy is of one moment with the files: the overlay has not moved since.
LEMMA ForkCopyKeeps ==
    ASSUME SnapInv, NEW c \in ID, ForkCopy(c)
    PROVE  SnapInv'
<1> DEFINE p == source[c]
<1>1. UNCHANGED <<mem, writes, vmms, marks, files, lock, source, sawGen, stale, floor, lives,
                  commands, ckpts, ends, disturbed, broken, stuck>>
  BY DEF ForkCopy
<1>2. pc[c] = "copy" /\ pc[c] \in Locked
  BY DEF ForkCopy, Locked
<1>3. p \in ID /\ p # c /\ ckpt[p] = "none"
  BY <1>2, ForkHolds
<1>4. /\ c \notin vms \cup running /\ ForksOf(c) = {} /\ ckpt[c] = "none"
      /\ \A d \in ID : pc[d] # "none" => source[d] # c
  BY <1>2 DEF SnapInv, Newborn, ForksOf
<1>5. /\ pc'[c] \in {"resume", "failing"} /\ \A e \in ID : e # c => pc'[e] = pc[e]
      /\ \A e \in ID : e # c => disk'[e] = disk[e] /\ (e \in rolled' <=> e \in rolled)
      /\ pc'[c] = "resume" => /\ disk'[c] = disk[p]
                              /\ p \in rolled \cup disturbed => c \in rolled'
  BY DEF ForkCopy, Goto, SnapInv, SnapTypeOK
<1>6. SnapTypeOK'
  <2>1. pc' \in [ID -> ForkStage \cup {"none"}]
    BY DEF ForkCopy, Goto, SnapInv, SnapTypeOK, ForkStage
  <2>2. disk' \in [ID -> 0 .. MaxWrites] /\ rolled' \subseteq ID
    BY <1>3 DEF ForkCopy, SnapInv, SnapTypeOK
  <2>3. faults' \in 0 .. MaxFaults
    BY FaultType DEF ForkCopy, SnapInv
  <2> QED
    BY <1>1, <2>1, <2>2, <2>3 DEF SnapInv, SnapTypeOK
<1> HIDE DEF p
<1>7. Numbers' /\ Powered'
  BY <1>1 DEF SnapInv, Numbers, Powered
<1>8. \A e \in ID : ForksOf(e)' = ForksOf(e)
  BY <1>1, <1>2, <1>5 DEF ForksOf
<1>9. \A e \in ID : Newborn(e)' /\ Unhandled(e)' /\ Entry(e)'
  BY <1>1, <1>2, <1>5, <1>8 DEF SnapInv, Newborn, Unhandled, Entry
<1>10. \A e \in ID : Thawed(e)' /\ Readers(e)'
  BY <1>1, <1>2, <1>5, <1>8 DEF SnapInv, Thawed, Readers, Pausing, ForksOf
<1>11. \A e \in ID : Erased(e) => Erased(e)'
  BY <1>1, <1>2, <1>5, <1>8 DEF Erased, ForksOf
<1>12. \A e \in ID : ExecLocks(e)' /\ CkptLocks(e)'
  BY <1>1, <1>4, <1>5, <1>11 DEF SnapInv, ExecLocks, CkptLocks
<1>13. \A e \in ID : ForkLocks(e)'
  <2>1. \A e \in ID : pc[e] \in Locked => source[e] \in ID \ {c}
    BY <1>4, ForkAlone DEF Locked
  <2>2. ForkLocks(c)'
    BY <1>1, <1>2, <1>5 DEF SnapInv, ForkLocks, Current
  <2> QED
    BY <1>1, <1>5, <2>1, <2>2 DEF SnapInv, ForkLocks, Current
<1>14. \A e \in ID : Quiet(e)' => Quiet(e)
  BY <1>1, <1>2, <1>5, <1>8 DEF Quiet, ForksOf
<1>15. \A e \in ID : Saved(e)'
  BY <1>1, <1>14 DEF SnapInv, Saved, Same, Current
<1>16. \A e \in ID : DiskFits(e)'
  <2>1. \A e \in ID : \A d \in ForksOf(e) : pc'[d] \in {"pause", "write", "copy"} => pc'[d] = pc[d]
    BY <1>5 DEF ForksOf
  <2> QED
    BY <1>1, <1>4, <1>5, <1>8, <1>14, <2>1 DEF SnapInv, DiskFits, OnDisk, Current
<1>17. \A e \in ID : CopyFits(e)'
  <2>1. Overlay /\ p \notin rolled \cup disturbed => OnDisk(files[p], p)
    BY <1>2, <1>3 DEF SnapInv, DiskFits, ForksOf, p
  <2>2. CopyFits(c)'
    BY <1>1, <1>5, <2>1 DEF CopyFits, OnDisk, p
  <2> QED
    BY <1>1, <1>5, <2>2 DEF SnapInv, CopyFits
<1>18. \A e \in ID : FloorHeld(e)'
  BY <1>1, <1>2, <1>5 DEF SnapInv, FloorHeld
<1> QED
  BY <1>6, <1>7, <1>9, <1>10, <1>12, <1>13, <1>15, <1>16, <1>17, <1>18 DEF SnapInv

LEMMA ForkResumeKeeps ==
    ASSUME SnapInv, NEW c \in ID, ForkResume(c)
    PROVE  SnapInv'
<1> DEFINE p == source[c]
<1>1. UNCHANGED <<guests, vms, running, marks, files, source, sawGen, stale, floor, lives,
                  commands, ckpts, ends, disturbed, broken, rolled>>
  BY DEF ForkResume
<1>2. pc[c] \in {"resume", "failing"} /\ pc[c] \in Locked
  BY DEF ForkResume, Locked
<1>3. /\ p \in ID /\ p # c /\ pc[p] = "none" /\ lock[p] = c
      /\ exec[p] = "none" /\ ckpt[p] = "none"
      /\ \A d \in ID : d # c /\ pc[d] \in Locked => source[d] \in ID \ {p}
  BY <1>2, ForkHolds
<1>4. /\ pc'[c] = "undo" \/ (pc'[c] = "load" /\ pc[c] = "resume")
      /\ lock'[p] = "free"
      /\ \A e \in ID : (e # c => pc'[e] = pc[e]) /\ (e # p => lock'[e] = lock[e])
  BY <1>2, <1>3 DEF ForkResume, Goto, Release, SnapInv, SnapTypeOK
<1>5. /\ stuck' \subseteq ID /\ paused' \subseteq paused
      /\ \A e \in ID : e # p => (e \in paused' <=> e \in paused) /\ (e \in stuck' <=> e \in stuck)
      /\ p \in paused' => p \in stuck'
  BY <1>3 DEF ForkResume, Resumed, NotResumed, SnapInv, SnapTypeOK
<1>6. SnapTypeOK'
  <2>1. pc' \in [ID -> ForkStage \cup {"none"}]
    BY <1>2 DEF ForkResume, Goto, SnapInv, SnapTypeOK, ForkStage
  <2>2. lock' \in [ID -> ID \cup {"free", "exec", "checkpoint"}]
    BY DEF ForkResume, Release, SnapInv, SnapTypeOK
  <2>3. faults' \in 0 .. MaxFaults /\ late' \in [ID -> Requests]
    BY <1>3, LateType DEF ForkResume, Resumed, NotResumed, SnapInv
  <2> QED
    BY <1>1, <1>5, <2>1, <2>2, <2>3 DEF SnapInv, SnapTypeOK
<1> HIDE DEF p
<1>7. Numbers' /\ Powered'
  BY <1>1, <1>5 DEF SnapInv, Numbers, Powered
<1>8. /\ \A e \in ID : ForksOf(e)' = ForksOf(e)
      /\ \A e \in ID : e # p => \A d \in ForksOf(e) : pc'[d] = pc[d]
  BY <1>1, <1>2, <1>4 DEF ForksOf, p
<1>9. \A e \in ID : Newborn(e)' /\ Unhandled(e)' /\ Entry(e)'
  BY <1>1, <1>2, <1>4, <1>5, <1>8 DEF SnapInv, Newborn, Unhandled, Entry
<1>10. \A e \in ID : Thawed(e)'
  BY <1>1, <1>5, <1>8 DEF SnapInv, Thawed
<1>11. \A e \in ID : Readers(e)'
  <2>1. \A d \in ForksOf(p) : pc'[d] # "write"
    BY <1>3, <1>4 DEF ForksOf, Locked
  <2> QED
    BY <1>1, <1>3, <1>8, <2>1 DEF SnapInv, Readers
<1>12. \A e \in ID : Erased(e) => Erased(e)'
  BY <1>1, <1>2, <1>4, <1>8 DEF Erased, ForksOf, Locked
<1>13. \A e \in ID : ExecLocks(e)' /\ CkptLocks(e)'
  BY <1>1, <1>3, <1>4, <1>5, <1>12 DEF SnapInv, ExecLocks, CkptLocks
<1>14. \A e \in ID : ForkLocks(e)'
  <2>1. pc'[c] \notin Locked
    BY <1>4 DEF Locked
  <2> QED
    BY <1>1, <1>3, <1>4, <1>5, <2>1 DEF SnapInv, ForkLocks, Current
<1>15. \A e \in ID : Quiet(e)' => Quiet(e)
  BY <1>1, <1>2, <1>4, <1>8 DEF Quiet, ForksOf
<1>16. \A e \in ID : Saved(e)'
  BY <1>1, <1>15 DEF SnapInv, Saved, Same, Current
<1>17. \A e \in ID : DiskFits(e)'
  <2>1. \A e \in ID : \A d \in ForksOf(e) : pc'[d] \in {"pause", "write", "copy"} => pc'[d] = pc[d]
    BY <1>4 DEF ForksOf
  <2> QED
    BY <1>1, <1>8, <1>15, <2>1 DEF SnapInv, DiskFits, OnDisk, Current
<1>18. \A e \in ID : CopyFits(e)'
  BY <1>1, <1>4 DEF SnapInv, CopyFits
<1>19. \A e \in ID : FloorHeld(e)'
  BY <1>1, <1>2, <1>4 DEF SnapInv, FloorHeld
<1> QED
  BY <1>6, <1>7, <1>9, <1>10, <1>11, <1>13, <1>14, <1>16, <1>17, <1>18, <1>19 DEF SnapInv

\* The child has what the files had; torn files make it a disturbed one.
LEMMA ForkLoadKeeps ==
    ASSUME SnapInv, NEW c \in ID, ForkLoad(c)
    PROVE  SnapInv'
<1> DEFINE p == source[c]
<1>1. UNCHANGED <<disk, writes, vms, paused, late, marks, files, lock, source, sawGen, stale,
                  floor, lives, commands, ckpts, ends, broken, rolled, stuck>>
  BY DEF ForkLoad
<1>2. pc[c] = "load"
  BY DEF ForkLoad
<1>3. /\ p \in ID /\ p # c /\ c \notin vms \cup paused \cup reviving \cup running
      /\ exec[c] = "none" /\ ckpt[c] = "none" /\ ending[c] = "none" /\ ForksOf(c) = {}
      /\ \A d \in ID : pc[d] # "none" => source[d] # c
  BY <1>2 DEF SnapInv, Newborn, ForksOf
<1>4. /\ \A e \in ID : e # c => /\ pc'[e] = pc[e] /\ mem'[e] = mem[e]
                                /\ e \in running' <=> e \in running
                                /\ e \in disturbed' <=> e \in disturbed
      /\ \/ /\ pc'[c] = "register" /\ mem'[c] = files[p] /\ files[p] # NoFile
            /\ running' = running \cup {c}
            /\ c \in disturbed \/ files[p] = Torn => c \in disturbed'
         \/ pc'[c] = "undo" /\ UNCHANGED <<mem, running, disturbed>>
  BY DEF ForkLoad, Goto, SnapInv, SnapTypeOK
<1>5. SnapTypeOK'
  <2>1. pc' \in [ID -> ForkStage \cup {"none"}]
    BY DEF ForkLoad, Goto, SnapInv, SnapTypeOK, ForkStage
  <2>2. files[p] # NoFile => files[p] \in Memory \cup {Torn}
    BY <1>3 DEF SnapInv, SnapTypeOK
  <2>3. mem' \in [ID -> Memory \cup {Torn}]
    BY <2>2 DEF ForkLoad, SnapInv, SnapTypeOK
  <2>4. faults' \in 0 .. MaxFaults
    BY FaultType DEF ForkLoad, SnapInv
  <2>5. running' \subseteq ID /\ running \subseteq running' /\ disturbed' \subseteq ID
    BY DEF ForkLoad, SnapInv, SnapTypeOK
  <2> QED
    BY <1>1, <2>1, <2>3, <2>4, <2>5 DEF SnapInv, SnapTypeOK
<1> HIDE DEF p
<1>6. Numbers'
  <2>1. \A e \in ID : mem'[e] = Torn \/ mem'[e].data <= writes
    BY <1>3, <1>4 DEF SnapInv, Numbers
  <2> QED
    BY <1>1, <2>1 DEF SnapInv, Numbers
<1>7. Powered'
  BY <1>1, <1>4 DEF SnapInv, Powered
<1>8. \A e \in ID : ForksOf(e)' = ForksOf(e)
  BY <1>1, <1>2, <1>4 DEF ForksOf
<1>9. \A e \in ID : Newborn(e)' /\ Unhandled(e)' /\ Entry(e)'
  BY <1>1, <1>2, <1>3, <1>4, <1>8 DEF SnapInv, Newborn, Unhandled, Entry
<1>10. \A e \in ID : Thawed(e)' /\ Readers(e)'
  BY <1>1, <1>2, <1>4, <1>8 DEF SnapInv, Thawed, Readers, Pausing, ForksOf
<1>11. \A e \in ID : e # c /\ Erased(e) => Erased(e)'
  BY <1>1, <1>2, <1>4, <1>8 DEF Erased, ForksOf, Locked
<1>12. \A e \in ID : ExecLocks(e)' /\ CkptLocks(e)'
  BY <1>1, <1>3, <1>4, <1>11 DEF SnapInv, ExecLocks, CkptLocks
<1>13. \A e \in ID : ForkLocks(e)'
  <2>1. \A e \in ID : pc[e] \in Locked => source[e] \in ID \ {c}
    BY <1>3, ForkAlone DEF Locked
  <2>2. pc'[c] \notin Locked
    BY <1>4 DEF Locked
  <2> QED
    BY <1>1, <1>4, <2>1, <2>2 DEF SnapInv, ForkLocks, Current
<1>14. \A e \in ID : Quiet(e)' => Quiet(e)
  BY <1>1, <1>2, <1>4, <1>8 DEF Quiet, ForksOf
<1>15. \A e \in ID : Saved(e)'
  BY <1>1, <1>3, <1>4, <1>14 DEF SnapInv, Saved, Same, Current
<1>16. \A e \in ID : DiskFits(e)'
  <2>1. \A e \in ID : \A d \in ForksOf(e) : pc'[d] \in {"pause", "write", "copy"} => pc'[d] = pc[d]
    BY <1>4 DEF ForksOf
  <2> QED
    BY <1>1, <1>3, <1>4, <1>8, <1>14, <2>1 DEF SnapInv, DiskFits, OnDisk, Current
<1>17. \A e \in ID : CopyFits(e)'
  <2>1. CopyFits(c)'
    BY <1>1, <1>2, <1>4 DEF SnapInv, CopyFits, p
  <2> QED
    BY <1>1, <1>4, <2>1 DEF SnapInv, CopyFits
<1>18. \A e \in ID : FloorHeld(e)'
  <2>1. FloorHeld(c)'
    BY <1>1, <1>2, <1>3, <1>4 DEF SnapInv, FloorHeld, p
  <2>2. \A e \in ID : pc[e] # "none" => source[e] \in ID \ {c}
    BY <1>3 DEF SnapInv, Newborn
  <2> QED
    BY <1>1, <1>4, <2>1, <2>2 DEF SnapInv, FloorHeld
<1> QED
  BY <1>5, <1>6, <1>7, <1>9, <1>10, <1>12, <1>13, <1>15, <1>16, <1>17, <1>18 DEF SnapInv

\* The end of a spawn, either way: the branch has no snapshot and no forks.
LEMMA ForkOver ==
    ASSUME SnapInv, NEW c \in ID, pc[c] \in {"register", "undo"}, SnapTypeOK',
           UNCHANGED <<writes, paused, marks, files, lock, lives, commands, ckpts, ends, faults,
                       broken, stuck>>,
           pc'[c] = "none", floor'[c] = 0, c \notin stale',
           \A e \in ID : e # c =>
               /\ pc'[e] = pc[e] /\ source'[e] = source[e] /\ sawGen'[e] = sawGen[e]
               /\ floor'[e] = floor[e] /\ mem'[e] = mem[e] /\ disk'[e] = disk[e]
               /\ (e \in vms' <=> e \in vms) /\ (e \in running' <=> e \in running)
               /\ (e \in stale' <=> e \in stale)
               /\ (e \in disturbed' <=> e \in disturbed) /\ (e \in rolled' <=> e \in rolled),
           c \notin running' => mem'[c] = Fresh,
           \/ mem'[c] = Fresh
           \/ /\ mem'[c] = mem[c]
              /\ (c \in running' <=> c \in running) /\ (c \in disturbed' <=> c \in disturbed)
    PROVE  SnapInv'
<1>1. /\ c \notin vms \cup paused \cup reviving
      /\ files[c] = NoFile /\ exec[c] = "none" /\ ckpt[c] = "none" /\ ending[c] = "none"
      /\ ForksOf(c) = {} /\ \A d \in ID : pc[d] # "none" => source[d] \in ID \ {c}
  BY DEF SnapInv, Newborn, ForksOf
<1>2. pc[c] # "none" /\ pc[c] \notin Locked
  BY DEF Locked
<1>3. \A e \in ID : ForksOf(e)' = ForksOf(e) \ {c}
  BY <1>2 DEF ForksOf
<1>4. Numbers'
  <2>1. \A e \in ID : mem'[e] = Torn \/ mem'[e].data <= writes
    BY Images, Counts DEF SnapInv, Numbers
  <2>2. \A e \in ID : floor'[e] <= writes
    BY Counts DEF SnapInv, Numbers
  <2> QED
    BY <2>1, <2>2 DEF SnapInv, Numbers
<1>5. Powered'
  BY Images DEF SnapInv, Powered
<1>6. \A e \in ID : Newborn(e)' /\ Unhandled(e)' /\ Entry(e)'
  BY <1>1, <1>3 DEF SnapInv, Newborn, Unhandled, Entry
<1>7. \A e \in ID : Thawed(e)' /\ Readers(e)'
  <2>1. \A e \in ID : \A d \in ForksOf(e)' : /\ pc'[d] = pc[d] /\ d \in ForksOf(e)
                                             /\ d \in disturbed => d \in disturbed'
    BY <1>3 DEF ForksOf
  <2>2. pc[c] \notin Pausing
    BY DEF Pausing
  <2>3. \A e \in ID : Readers(e)'
    BY <2>1 DEF SnapInv, Readers
  <2>4. \A e \in ID : \A d \in ForksOf(e) : pc[d] \in Pausing => d \in ForksOf(e)' /\ pc'[d] = pc[d]
    BY <1>3, <2>2 DEF ForksOf
  <2> QED
    BY <2>3, <2>4 DEF SnapInv, Thawed
<1>8. \A e \in ID : e # c /\ Erased(e) => Erased(e)'
  BY <1>3 DEF Erased, ForksOf
<1>9. \A e \in ID : ExecLocks(e)' /\ CkptLocks(e)'
  BY <1>1, <1>8 DEF SnapInv, ExecLocks, CkptLocks
<1>10. \A e \in ID : ForkLocks(e)'
  <2>1. \A e \in ID : pc[e] \in Locked => e # c /\ source[e] \in ID \ {c}
    BY <1>1, <1>2 DEF Locked
  <2>2. pc'[c] \notin Locked
    BY DEF Locked
  <2> QED
    BY <2>1, <2>2 DEF SnapInv, ForkLocks, Current
<1>11. c \notin snaps \ broken
  BY <1>1 DEF SnapInv, Entry
<1>12. \A e \in ID : Quiet(e)' => Quiet(e)
  BY <1>3 DEF Quiet, ForksOf
<1>13. \A e \in ID : Saved(e)'
  BY <1>1, <1>11, <1>12 DEF SnapInv, Saved, Same, Current
<1>14. \A e \in ID : DiskFits(e)'
  <2>1. \A e \in ID : \A d \in ForksOf(e)' : d \in ForksOf(e) /\ pc'[d] = pc[d] /\
          (d \in stale' <=> d \in stale)
    BY <1>3 DEF ForksOf
  <2>2. DiskFits(c)'
    BY <1>1, <1>3, <1>11 DEF DiskFits, Current
  <2>3. \A e \in ID : e # c => DiskFits(e)'
    BY <1>12, <2>1 DEF SnapInv, DiskFits, OnDisk, Current
  <2> QED
    BY <2>2, <2>3
<1>15. \A e \in ID : CopyFits(e)' /\ FloorHeld(e)'
  BY <1>1 DEF SnapInv, CopyFits, FloorHeld
<1> QED
  BY <1>4, <1>5, <1>6, <1>7, <1>9, <1>10, <1>13, <1>14, <1>15 DEF SnapInv

LEMMA ForkRegisterKeeps == ASSUME SnapInv, NEW c \in ID, ForkRegister(c)
                           PROVE  SnapInv'
<1>1. SnapTypeOK'
  <2>1. pc' \in [ID -> ForkStage \cup {"none"}] /\ sawGen' \in [ID -> 0 .. MaxExecs]
        /\ floor' \in [ID -> 0 .. MaxWrites]
    BY SnapAssumption DEF ForkRegister, Goto, SnapInv, SnapTypeOK
  <2> QED
    BY <2>1 DEF ForkRegister, SnapInv, SnapTypeOK
<1>2. /\ pc'[c] = "none" /\ floor'[c] = 0
      /\ \A e \in ID : e # c => /\ pc'[e] = pc[e] /\ sawGen'[e] = sawGen[e] /\ floor'[e] = floor[e]
                                /\ (e \in vms' <=> e \in vms) /\ (e \in stale' <=> e \in stale)
  BY DEF ForkRegister, Goto, SnapInv, SnapTypeOK
<1>3. c \notin running => mem[c] = Fresh
  BY DEF SnapInv, Powered
<1> QED
  BY <1>1, <1>2, <1>3, ForkOver DEF ForkRegister

LEMMA ForkUndoKeeps == ASSUME SnapInv, NEW c \in ID, ForkUndo(c)
                       PROVE  SnapInv'
<1>1. SnapTypeOK'
  <2>1. pc' \in [ID -> ForkStage \cup {"none"}] /\ sawGen' \in [ID -> 0 .. MaxExecs]
        /\ floor' \in [ID -> 0 .. MaxWrites] /\ disk' \in [ID -> 0 .. MaxWrites]
    BY SnapAssumption DEF ForkUndo, Goto, SnapInv, SnapTypeOK
  <2>2. mem' \in [ID -> Memory \cup {Torn}]
    BY Images DEF ForkUndo, SnapInv, SnapTypeOK
  <2>3. paused \subseteq running'
    BY DEF ForkUndo, SnapInv, SnapTypeOK, Newborn
  <2> QED
    BY <2>1, <2>2, <2>3 DEF ForkUndo, SnapInv, SnapTypeOK
<1>2. /\ pc'[c] = "none" /\ floor'[c] = 0 /\ mem'[c] = Fresh
      /\ \A e \in ID : e # c =>
             /\ pc'[e] = pc[e] /\ source'[e] = source[e] /\ sawGen'[e] = sawGen[e]
             /\ floor'[e] = floor[e] /\ mem'[e] = mem[e] /\ disk'[e] = disk[e]
             /\ (e \in running' <=> e \in running) /\ (e \in stale' <=> e \in stale)
             /\ (e \in disturbed' <=> e \in disturbed) /\ (e \in rolled' <=> e \in rolled)
  BY DEF ForkUndo, Goto, SnapInv, SnapTypeOK
<1> QED
  BY <1>1, <1>2, ForkOver DEF ForkUndo

-----------------------------------------------------------------------------
\* The steps of a checkpoint

LEMMA CheckpointKeeps ==
    ASSUME SnapInv, NEW b \in ID, Checkpoint(b)
    PROVE  SnapInv'
<1>1. UNCHANGED <<guests, vmms, marks, files, forks, exec, cut, ends, faults, notes>>
  BY DEF Checkpoint
<1>2. /\ b \in vms /\ lock[b] = "free" /\ ckpt[b] = "none" /\ ckpt'[b] = "sync"
      /\ lock'[b] = "checkpoint" /\ ckptGen'[b] = gen[b] /\ execs' = execs + 1
      /\ \A e \in ID : e # b => /\ ckpt'[e] = ckpt[e] /\ lock'[e] = lock[e]
                                /\ ckptGen'[e] = ckptGen[e]
  BY DEF Checkpoint, CGoto, SnapInv, SnapTypeOK
<1>3. /\ exec[b] = "none" /\ \A c \in ID : source[c] = b => pc[c] \notin Locked
      /\ pc[b] = "none"
  BY <1>2, FreeLock DEF SnapInv, Newborn
<1>4. SnapTypeOK'
  <2>1. execs' \in 0 .. MaxExecs
    BY SnapAssumption DEF Checkpoint, SnapInv, SnapTypeOK
  <2>2. /\ ckpt' \in [ID -> CkptStage \cup {"none"}] /\ ckptGen' \in [ID -> 0 .. MaxExecs]
        /\ lock' \in [ID -> ID \cup {"free", "exec", "checkpoint"}]
    BY DEF Checkpoint, CGoto, SnapInv, SnapTypeOK, CkptStage
  <2> QED
    BY <1>1, <2>1, <2>2 DEF SnapInv, SnapTypeOK
<1>5. Numbers'
  <2>1. \A e \in ID : gen[e] <= execs + 1 /\ gen[e] < execs + 1
    BY Counts DEF SnapInv, Numbers
  <2> QED
    BY <1>1, <1>2, <2>1 DEF SnapInv, Numbers
<1>6. Powered' /\ \A e \in ID : CopyFits(e)' /\ FloorHeld(e)' /\ Unhandled(e)'
  BY <1>1 DEF SnapInv, Powered, CopyFits, FloorHeld, Unhandled
<1>7. \A e \in ID : Newborn(e)' /\ Entry(e)' /\ Thawed(e)' /\ Readers(e)'
  BY <1>1, <1>2, <1>3 DEF SnapInv, Newborn, Entry, Thawed, Readers, ForksOf
<1>8. \A e \in ID : ExecLocks(e)' /\ CkptLocks(e)'
  BY <1>1, <1>2, <1>3 DEF SnapInv, ExecLocks, CkptLocks, Erased, ForksOf
<1>9. \A e \in ID : ForkLocks(e)'
  <2>1. \A e \in ID : pc[e] \in Locked => source[e] \in ID \ {b}
    BY <1>3, ForkAlone
  <2> QED
    BY <1>1, <1>2, <2>1 DEF SnapInv, ForkLocks, Current
<1>10. \A e \in ID : Quiet(e)' => Quiet(e)
  BY <1>1, <1>2 DEF Quiet, ForksOf
<1>11. \A e \in ID : Saved(e)' /\ DiskFits(e)'
  BY <1>1, <1>2, <1>10 DEF SnapInv, Saved, Same, DiskFits, OnDisk, Current, ForksOf
<1> QED
  BY <1>4, <1>5, <1>6, <1>7, <1>8, <1>9, <1>11 DEF SnapInv

LEMMA CkptSyncKeeps ==
    ASSUME SnapInv, NEW b \in ID, CkptSync(b)
    PROVE  SnapInv'
<1>1. UNCHANGED <<writes, vmms, marks, files, forks, commands, ends, disturbed, broken, rolled,
                  stuck>>
  BY DEF CkptSync
<1>2. ckpt[b] = "sync"
  BY DEF CkptSync
<1>3. pc[b] = "none" /\ \A c \in ID : source[c] = b => pc[c] \notin Locked
  BY <1>2, CkptAlone
<1>4. /\ \/ /\ Sync(b) /\ ckpt'[b] = "pause" /\ lock'[b] = lock[b] /\ ckptGen'[b] = ckptGen[b]
         \/ ckpt'[b] = "none" /\ lock'[b] = IF lock[b] = "checkpoint" THEN "free" ELSE lock[b]
      /\ \A e \in ID : e # b => /\ ckpt'[e] = ckpt[e] /\ lock'[e] = lock[e]
                                /\ ckptGen'[e] = ckptGen[e]
  BY DEF CkptSync, CkptOver, CGoto, Release, SnapInv, SnapTypeOK
<1>5. /\ mem' \in [ID -> Memory \cup {Torn}] /\ disk' \in [ID -> 0 .. MaxWrites]
      /\ \A e \in ID : e # b => mem'[e] = mem[e] /\ disk'[e] = disk[e]
      /\ \A e \in ID : /\ mem'[e].data = mem[e].data /\ mem'[e].left = mem[e].left
                       /\ mem'[e] = Torn <=> mem[e] = Torn
      /\ b \notin running => mem'[b] = mem[b]
      /\ \/ b \in running /\ disk'[b] = mem[b].data
         \/ disk'[b] = disk[b]
      /\ Sync(b) /\ Overlay /\ b \in running /\ b \notin disturbed /\ mem'[b].synced
           => disk'[b] = mem'[b].data /\ mem'[b].flushed = mem'[b].data
  <2>1. Sync(b) \/ SyncBreaks(b)
    BY DEF CkptSync
  <2> QED
    BY <2>1, SyncFacts
<1>6. SnapTypeOK'
  <2>1. /\ ckpt' \in [ID -> CkptStage \cup {"none"}] /\ ckptGen' \in [ID -> 0 .. MaxExecs]
        /\ lock' \in [ID -> ID \cup {"free", "exec", "checkpoint"}]
    BY SnapAssumption DEF CkptSync, CkptOver, CGoto, Release, SnapInv, SnapTypeOK, CkptStage
  <2>2. faults' \in 0 .. MaxFaults
    BY FaultType DEF CkptSync, Sync, SyncBreaks, SnapInv
  <2> QED
    BY <1>1, <1>5, <2>1, <2>2 DEF SnapInv, SnapTypeOK
<1>7. Numbers' /\ Powered'
  BY <1>1, <1>5 DEF SnapInv, Numbers, Powered
<1>8. \A e \in ID : Newborn(e)' /\ Unhandled(e)' /\ Entry(e)' /\ Thawed(e)' /\ Readers(e)'
  BY <1>1, <1>2, <1>3, <1>4 DEF SnapInv, Newborn, Unhandled, Entry, Thawed, Readers, ForksOf
<1>9. \A e \in ID : ExecLocks(e)' /\ CkptLocks(e)'
  BY <1>1, <1>2, <1>4 DEF SnapInv, ExecLocks, CkptLocks, Erased, ForksOf
<1>10. \A e \in ID : ForkLocks(e)'
  <2>1. \A e \in ID : pc[e] \in Locked => source[e] \in ID \ {b}
    BY <1>3, ForkAlone
  <2> QED
    BY <1>1, <1>4, <2>1 DEF SnapInv, ForkLocks, Current
<1>11. \A e \in ID : /\ Quiet(e)' => Quiet(e)
                     /\ ckpt'[e] = "mark" => ckpt[e] = "mark"
  BY <1>1, <1>2, <1>4 DEF Quiet, ForksOf
<1>12. \A e \in ID : Saved(e)'
  BY <1>1, <1>5, <1>11 DEF SnapInv, Saved, Same, Current
<1>13. \A e \in ID : DiskFits(e)'
  <2>1. \A e \in ID : e # b => DiskFits(e)'
    BY <1>1, <1>4, <1>5, <1>11 DEF SnapInv, DiskFits, OnDisk, Current, ForksOf
  <2>2. \A c \in ForksOf(b) : pc[c] \notin {"pause", "write", "copy"}
    BY <1>3 DEF ForksOf, Locked
  <2>3. Overlay /\ b \notin rolled \cup disturbed /\ b \in vms /\ b \notin broken /\
          Current(b) /\ Quiet(b)
          => OnDisk(files[b], b) /\ (b \in running => Same(b))
    BY DEF SnapInv, DiskFits, Saved
  <2>4. Overlay /\ b \notin rolled \cup disturbed /\ b \in vms /\ b \notin broken /\
          Current(b) /\ Quiet(b)
          => OnDisk(files[b], b)'
    BY <1>1, <1>5, <2>3 DEF OnDisk, Same
  <2>5. DiskFits(b)'
    BY <1>1, <1>2, <1>4, <1>5, <1>11, <2>2, <2>4 DEF DiskFits, OnDisk, Current, ForksOf
  <2> QED
    BY <2>1, <2>5
<1>14. \A e \in ID : CopyFits(e)' /\ FloorHeld(e)'
  BY <1>1, <1>3, <1>5 DEF SnapInv, CopyFits, FloorHeld, Newborn
<1> QED
  BY <1>6, <1>7, <1>8, <1>9, <1>10, <1>12, <1>13, <1>14 DEF SnapInv

LEMMA CkptPauseKeeps ==
    ASSUME SnapInv, NEW b \in ID, CkptPause(b)
    PROVE  SnapInv'
<1>1. UNCHANGED <<guests, vms, running, marks, forks, commands, ends, broken, rolled>>
  BY DEF CkptPause
<1>2. ckpt[b] = "pause"
  BY DEF CkptPause
<1>3. /\ pc[b] = "none" /\ \A c \in ID : source[c] = b => pc[c] \notin Locked
      /\ b \in vms \cup running => exec[b] = "none"
  BY <1>2, CkptAlone
<1>4. /\ \/ /\ b \in running /\ Answers(b) /\ UNCHANGED stuck
            /\ paused' = paused \cup {b} /\ Rewrite(b)
            /\ ckpt'[b] = "write" /\ lock'[b] = lock[b] /\ ckptGen'[b] = ckptGen[b]
         \/ /\ UNCHANGED <<paused, files, disturbed>> /\ PauseRaises(b)
            /\ ckpt'[b] = "none" /\ lock'[b] = IF lock[b] = "checkpoint" THEN "free" ELSE lock[b]
      /\ \A e \in ID : e # b => /\ ckpt'[e] = ckpt[e] /\ lock'[e] = lock[e]
                                /\ ckptGen'[e] = ckptGen[e]
  BY DEF CkptPause, PauseRaises, Answers, CkptOver, CGoto, Release, SnapInv, SnapTypeOK
<1>30. stuck \subseteq stuck' /\ stuck' \subseteq ID
  BY <1>4 DEF PauseRaises, SnapInv, SnapTypeOK
<1>5. /\ disturbed \subseteq disturbed' /\ disturbed' \subseteq ID
      /\ files' \in [ID -> Memory \cup {NoFile, Torn}]
      /\ \A e \in ID : e # b => files'[e] = files[e]
      /\ files'[b] = files[b] \/ (ckpt'[b] = "write" /\ files'[b] = Torn)
      /\ ckpt'[b] = "write" => files'[b] = Torn
      /\ \A d \in ID : source[d] = b /\ pc[d] = "load" => ckpt'[b] = "none" \/ d \in disturbed'
      /\ ckpt'[b] = "none" => files'[b] = files[b]
  BY <1>4 DEF Rewrite, MappedFrom, SnapInv, SnapTypeOK
<1>6. SnapTypeOK'
  <2>1. /\ ckpt' \in [ID -> CkptStage \cup {"none"}] /\ ckptGen' \in [ID -> 0 .. MaxExecs]
        /\ lock' \in [ID -> ID \cup {"free", "exec", "checkpoint"}]
    BY SnapAssumption DEF CkptPause, CkptOver, CGoto, Release, SnapInv, SnapTypeOK, CkptStage
  <2>2. faults' \in 0 .. MaxFaults /\ late' \in [ID -> Requests]
    BY <1>4, LateType DEF PauseRaises, SnapInv
  <2> QED
    BY <1>1, <1>4, <1>5, <1>30, <2>1, <2>2 DEF SnapInv, SnapTypeOK
<1>7. Numbers' /\ Powered'
  BY <1>1, <1>4, <1>5 DEF SnapInv, Numbers, Powered
<1>8. \A e \in ID : Newborn(e)' /\ Unhandled(e)' /\ Entry(e)' /\ Thawed(e)'
  BY <1>1, <1>2, <1>3, <1>4, <1>5, <1>30, Images
     DEF SnapInv, Newborn, Unhandled, Entry, Thawed, ForksOf
<1>9. \A e \in ID : Readers(e)'
  <2>1. \A c \in ForksOf(b) : pc[c] # "write"
    BY <1>3 DEF ForksOf, Locked
  <2> QED
    BY <1>1, <1>4, <1>5, <2>1 DEF SnapInv, Readers, ForksOf
<1>10. \A e \in ID : Erased(e) => Erased(e)'
  BY <1>1, <1>4, <1>5 DEF Erased, ForksOf
<1>11. \A e \in ID : ExecLocks(e)' /\ CkptLocks(e)'
  BY <1>1, <1>2, <1>4, <1>5, <1>10 DEF SnapInv, ExecLocks, CkptLocks
<1>12. \A e \in ID : ForkLocks(e)'
  <2>1. \A e \in ID : pc[e] \in Locked => source[e] \in ID \ {b}
    BY <1>3, ForkAlone
  <2> QED
    BY <1>1, <1>4, <2>1 DEF SnapInv, ForkLocks, Current
<1>13. \A e \in ID : /\ Quiet(e)' => Quiet(e)
                     /\ ckpt'[e] = "mark" => ckpt[e] = "mark"
  BY <1>1, <1>2, <1>4 DEF Quiet, ForksOf
<1>14. Quiet(b)' => files'[b] = files[b]
  BY <1>5 DEF Quiet
<1>15. \A e \in ID : Saved(e)'
  BY <1>1, <1>2, <1>4, <1>5, <1>13, <1>14 DEF SnapInv, Saved, Same, Current
<1>16. \A e \in ID : DiskFits(e)'
  <2>1. \A e \in ID : e # b => DiskFits(e)'
    BY <1>1, <1>4, <1>5, <1>13 DEF SnapInv, DiskFits, OnDisk, Current, ForksOf
  <2>2. \A c \in ForksOf(b) : pc[c] \notin {"pause", "write", "copy"}
    BY <1>3 DEF ForksOf, Locked
  <2>3. DiskFits(b)'
    BY <1>1, <1>2, <1>4, <1>5, <1>13, <1>14, <2>2
       DEF SnapInv, DiskFits, OnDisk, Current, ForksOf
  <2> QED
    BY <2>1, <2>3
<1>17. \A e \in ID : CopyFits(e)' /\ FloorHeld(e)'
  <2>1. \A e \in ID : pc[e] \in {"pause", "copy", "resume"} => source[e] # b
    BY <1>3 DEF Locked
  <2>2. \A e \in ID : source[e] = b /\ pc[e] = "load" => files'[b] = files[b] \/ e \in disturbed'
    BY <1>5
  <2> QED
    BY <1>1, <1>3, <1>5, <2>1, <2>2 DEF SnapInv, CopyFits, FloorHeld, Newborn
<1> QED
  BY <1>6, <1>7, <1>8, <1>9, <1>11, <1>12, <1>15, <1>16, <1>17 DEF SnapInv

\* A failed write leaves torn files: an entry that says they are current is broken.
LEMMA CkptWriteKeeps ==
    ASSUME SnapInv, NEW b \in ID, CkptWrite(b)
    PROVE  SnapInv'
<1>1. UNCHANGED <<guests, vmms, marks, lock, forks, commands, ckptGen, ends, disturbed, rolled,
                  stuck>>
  BY DEF CkptWrite
<1>2. ckpt[b] = "write"
  BY DEF CkptWrite
<1>3. /\ pc[b] = "none" /\ \A c \in ID : source[c] = b => pc[c] \notin Locked
      /\ exec[b] = "none" /\ b \in running /\ files[b] = Torn /\ b \in paused \cup rolled
  BY <1>2, CkptAlone DEF SnapInv, CkptLocks
<1>4. \A d \in ID : source[d] = b /\ pc[d] = "load" => d \in disturbed
  BY <1>2 DEF SnapInv, Readers, ForksOf
<1>5. /\ \/ ckpt'[b] = "mark" /\ files'[b] = mem[b] /\ UNCHANGED broken
         \/ /\ ckpt'[b] = "failing" /\ files'[b] = Torn
            /\ b \in broken' \/ ~Current(b)
      /\ \A e \in ID : e # b => /\ ckpt'[e] = ckpt[e] /\ files'[e] = files[e]
                                /\ e \in broken' <=> e \in broken
      /\ broken \subseteq broken'
  BY <1>3 DEF CkptWrite, CGoto, SnapInv, SnapTypeOK
<1>6. SnapTypeOK'
  <2>1. ckpt' \in [ID -> CkptStage \cup {"none"}]
    BY DEF CkptWrite, CGoto, SnapInv, SnapTypeOK, CkptStage
  <2>2. faults' \in 0 .. MaxFaults /\ broken' \subseteq ID
    BY FaultType DEF CkptWrite, SnapInv, SnapTypeOK
  <2>3. files' \in [ID -> Memory \cup {NoFile, Torn}]
    BY DEF CkptWrite, SnapInv, SnapTypeOK
  <2> QED
    BY <1>1, <2>1, <2>2, <2>3 DEF SnapInv, SnapTypeOK
<1>7. Numbers' /\ Powered'
  <2>1. \A e \in ID : files'[e] \in {NoFile, Torn} \/ files'[e].data <= writes
    BY <1>5 DEF SnapInv, Numbers
  <2> QED
    BY <1>1, <2>1 DEF SnapInv, Numbers, Powered
<1>8. \A e \in ID : Newborn(e)' /\ Unhandled(e)' /\ Thawed(e)' /\ Readers(e)'
  BY <1>1, <1>2, <1>3, <1>5 DEF SnapInv, Newborn, Unhandled, Thawed, Readers, ForksOf
<1>9. \A e \in ID : Entry(e)'
  <2>1. mem[b] # NoFile /\ Torn # NoFile
    BY Images DEF SnapInv, SnapTypeOK
  <2> QED
    BY <1>1, <1>2, <1>3, <1>5, <2>1 DEF SnapInv, Entry
<1>10. \A e \in ID : ExecLocks(e)' /\ CkptLocks(e)'
  BY <1>1, <1>2, <1>3, <1>5 DEF SnapInv, ExecLocks, CkptLocks, Erased, ForksOf
<1>11. \A e \in ID : ForkLocks(e)'
  BY <1>1 DEF SnapInv, ForkLocks, Current
<1>12. \A e \in ID : e # b => (Quiet(e)' => Quiet(e))
  BY <1>1, <1>5 DEF Quiet, ForksOf
<1>13. \A e \in ID : Saved(e)'
  <2>1. Saved(b)'
    BY <1>1, <1>5 DEF Saved, Same, Current, Quiet
  <2> QED
    BY <1>1, <1>5, <1>12, <2>1 DEF SnapInv, Saved, Same, Current
<1>14. \A e \in ID : DiskFits(e)'
  <2>1. \A e \in ID : e # b => DiskFits(e)'
    BY <1>1, <1>5, <1>12 DEF SnapInv, DiskFits, OnDisk, Current, ForksOf
  <2>2. \A c \in ForksOf(b) : pc[c] \notin {"pause", "write", "copy"}
    BY <1>3 DEF ForksOf, Locked
  <2>3. Overlay /\ b \notin rolled \cup disturbed => OnDisk(mem[b], b)
    BY <1>2, <1>3 DEF SnapInv, DiskFits
  <2>4. DiskFits(b)'
    BY <1>1, <1>5, <2>2, <2>3 DEF DiskFits, OnDisk, Current, Quiet, ForksOf
  <2> QED
    BY <2>1, <2>4
<1>15. \A e \in ID : CopyFits(e)' /\ FloorHeld(e)'
  <2>1. \A e \in ID : pc[e] \in {"pause", "copy", "resume"} => source[e] # b
    BY <1>3 DEF Locked
  <2> QED
    BY <1>1, <1>3, <1>4, <1>5, <2>1 DEF SnapInv, CopyFits, FloorHeld, Newborn
<1> QED
  BY <1>6, <1>7, <1>8, <1>9, <1>10, <1>11, <1>13, <1>14, <1>15 DEF SnapInv

\* The mark is of the generation that was read under the lock: still the branch's
\* own, unless a kill has come in between.
LEMMA CkptMarkKeeps ==
    ASSUME SnapInv, NEW b \in ID, CkptMark(b)
    PROVE  SnapInv'
<1>1. UNCHANGED <<guests, vmms, gen, files, lock, forks, commands, ckptGen, ends, faults,
                  disturbed, rolled, stuck>>
  BY DEF CkptMark
<1>2. ckpt[b] = "mark" /\ pc[b] = "none" /\ \A c \in ID : source[c] = b => pc[c] \notin Locked
  BY CkptAlone DEF CkptMark
<1>3. /\ ckpt'[b] = "resume" /\ snapGen'[b] = ckptGen[b] /\ b \in snaps'
      /\ b \in broken' <=> ending[b] # "none" \/ files[b] = NoFile
      /\ \A e \in ID : e # b => /\ ckpt'[e] = ckpt[e] /\ snapGen'[e] = snapGen[e]
                                /\ e \in snaps' <=> e \in snaps
                                /\ e \in broken' <=> e \in broken
  BY DEF CkptMark, CGoto, SnapInv, SnapTypeOK
<1>4. SnapTypeOK'
  <2>1. ckpt' \in [ID -> CkptStage \cup {"none"}]
    BY DEF CkptMark, CGoto, SnapInv, SnapTypeOK, CkptStage
  <2>2. snapGen' \in [ID -> 0 .. NoGen]
    BY SnapAssumption DEF CkptMark, SnapInv, SnapTypeOK, NoGen
  <2>3. snaps' \subseteq ID /\ broken' \subseteq ID
    BY DEF CkptMark, SnapInv, SnapTypeOK
  <2> QED
    BY <1>1, <2>1, <2>2, <2>3 DEF SnapInv, SnapTypeOK
<1>5. Numbers' /\ Powered'
  BY <1>1 DEF SnapInv, Numbers, Powered
<1>6. \A e \in ID : Newborn(e)' /\ Unhandled(e)' /\ Thawed(e)' /\ Readers(e)'
  BY <1>1, <1>2, <1>3 DEF SnapInv, Newborn, Unhandled, Thawed, Readers, ForksOf
<1>7. \A e \in ID : Entry(e)'
  <2>1. b \notin broken' => ckptGen[b] = gen[b]
    BY <1>2, <1>3 DEF SnapInv, CkptLocks, Erased
  <2>2. gen[b] <= gen[b]
    BY Counts DEF SnapInv
  <2> QED
    BY <1>1, <1>3, <2>1, <2>2 DEF SnapInv, Entry
<1>8. \A e \in ID : ExecLocks(e)' /\ CkptLocks(e)'
  BY <1>1, <1>2, <1>3 DEF SnapInv, ExecLocks, CkptLocks, Erased, ForksOf
<1>9. \A e \in ID : ForkLocks(e)'
  <2>1. \A e \in ID : pc[e] \in Locked => source[e] \in ID \ {b}
    BY <1>2, ForkAlone
  <2> QED
    BY <1>1, <1>3, <2>1 DEF SnapInv, ForkLocks, Current
<1>10. \A e \in ID : e # b => (Quiet(e)' => Quiet(e))
  BY <1>1, <1>3 DEF Quiet, ForksOf
<1>11. \A e \in ID : Saved(e)'
  BY <1>1, <1>2, <1>3, <1>10 DEF SnapInv, Saved, Same, Current
<1>12. \A e \in ID : DiskFits(e)'
  BY <1>1, <1>2, <1>3, <1>10 DEF SnapInv, DiskFits, OnDisk, Current, ForksOf
<1>13. \A e \in ID : CopyFits(e)' /\ FloorHeld(e)'
  BY <1>1 DEF SnapInv, CopyFits, FloorHeld
<1> QED
  BY <1>4, <1>5, <1>6, <1>7, <1>8, <1>9, <1>11, <1>12, <1>13 DEF SnapInv

LEMMA CkptResumeKeeps ==
    ASSUME SnapInv, NEW b \in ID, CkptResume(b)
    PROVE  SnapInv'
<1>1. UNCHANGED <<guests, vms, running, marks, files, forks, commands, ends, disturbed, broken,
                  rolled>>
  BY DEF CkptResume
<1>2. /\ ckpt[b] \in {"resume", "failing"} /\ pc[b] = "none"
      /\ \A c \in ID : source[c] = b => pc[c] \notin Locked
  BY CkptAlone DEF CkptResume
<1>3. /\ ckpt'[b] = "none" /\ lock'[b] = IF lock[b] = "checkpoint" THEN "free" ELSE lock[b]
      /\ \A e \in ID : e # b => /\ ckpt'[e] = ckpt[e] /\ lock'[e] = lock[e]
                                /\ ckptGen'[e] = ckptGen[e]
  BY DEF CkptResume, CkptOver, CGoto, Release, SnapInv, SnapTypeOK
<1>4. /\ stuck' \subseteq ID /\ paused' \subseteq paused
      /\ \A e \in ID : e # b => (e \in paused' <=> e \in paused) /\ (e \in stuck' <=> e \in stuck)
      /\ b \in paused' => b \in stuck'
  BY DEF CkptResume, Resumed, NotResumed, SnapInv, SnapTypeOK
<1>5. SnapTypeOK'
  <2>1. /\ ckpt' \in [ID -> CkptStage \cup {"none"}] /\ ckptGen' \in [ID -> 0 .. MaxExecs]
        /\ lock' \in [ID -> ID \cup {"free", "exec", "checkpoint"}]
    BY SnapAssumption DEF CkptResume, CkptOver, CGoto, Release, SnapInv, SnapTypeOK, CkptStage
  <2>2. faults' \in 0 .. MaxFaults /\ late' \in [ID -> Requests]
    BY LateType DEF CkptResume, Resumed, NotResumed, SnapInv
  <2> QED
    BY <1>1, <1>4, <2>1, <2>2 DEF SnapInv, SnapTypeOK
<1>6. Numbers' /\ Powered'
  BY <1>1, <1>4 DEF SnapInv, Numbers, Powered
<1>7. \A e \in ID : Newborn(e)' /\ Unhandled(e)' /\ Entry(e)' /\ Readers(e)'
  BY <1>1, <1>2, <1>3, <1>4 DEF SnapInv, Newborn, Unhandled, Entry, Readers, ForksOf
<1>8. \A e \in ID : Thawed(e)'
  BY <1>1, <1>3, <1>4 DEF SnapInv, Thawed, ForksOf
<1>9. \A e \in ID : ExecLocks(e)' /\ CkptLocks(e)'
  BY <1>1, <1>2, <1>3, <1>4 DEF SnapInv, ExecLocks, CkptLocks, Erased, ForksOf
<1>10. \A e \in ID : ForkLocks(e)'
  <2>1. \A e \in ID : pc[e] \in Locked => source[e] \in ID \ {b}
    BY <1>2, ForkAlone
  <2> QED
    BY <1>1, <1>3, <1>4, <2>1 DEF SnapInv, ForkLocks, Current
<1>11. \A e \in ID : /\ Quiet(e)' => Quiet(e)
                     /\ ckpt'[e] \in {"mark", "pause", "write"} => ckpt'[e] = ckpt[e]
  BY <1>1, <1>2, <1>3 DEF Quiet, ForksOf
<1>12. \A e \in ID : Saved(e)'
  BY <1>1, <1>11 DEF SnapInv, Saved, Same, Current
<1>13. \A e \in ID : DiskFits(e)'
  BY <1>1, <1>11 DEF SnapInv, DiskFits, OnDisk, Current, ForksOf
<1>14. \A e \in ID : CopyFits(e)' /\ FloorHeld(e)'
  BY <1>1 DEF SnapInv, CopyFits, FloorHeld
<1> QED
  BY <1>5, <1>6, <1>7, <1>8, <1>9, <1>10, <1>12, <1>13, <1>14 DEF SnapInv

-----------------------------------------------------------------------------
\* Kills and restarts

LEMMA KillTakeKeeps ==
    ASSUME SnapInv, NEW b \in ID, KillTake(b)
    PROVE  SnapInv'
<1>1. UNCHANGED <<guests, running, paused, late, files, lock, pc, source, sawGen, stale, floor,
                  commands, ckpts, reviving, faults, notes>>
  BY DEF KillTake
<1>2. /\ b \in vms \/ files[b] # NoFile
      /\ pc[b] = "none" /\ ending[b] = "none" /\ b \notin reviving /\ ForksOf(b) = {}
      /\ vms' = vms \ {b} /\ snaps' = snaps \ {b}
      /\ ending'[b] = "reap" /\ gen'[b] = 0
      /\ \A e \in ID : e # b => /\ ending'[e] = ending[e] /\ gen'[e] = gen[e]
                                /\ snapGen'[e] = snapGen[e]
  BY DEF KillTake, Idle, SnapInv, SnapTypeOK
<1>3. \A c \in ID : pc[c] # "none" => c # b /\ source[c] \in ID \ {b}
  BY <1>2 DEF SnapInv, Newborn, ForksOf
<1>4. SnapTypeOK'
  <2>1. lives' \in 0 .. MaxLives /\ gen' \in [ID -> 0 .. MaxExecs]
    BY SnapAssumption DEF KillTake, SnapInv, SnapTypeOK
  <2>2. snapGen' \in [ID -> 0 .. NoGen]
    BY SnapAssumption DEF KillTake, SnapInv, SnapTypeOK, NoGen
  <2>3. ending' \in [ID -> {"none", "reap", "remove"}]
    BY DEF KillTake, SnapInv, SnapTypeOK
  <2> QED
    BY <1>1, <1>2, <2>1, <2>2, <2>3 DEF SnapInv, SnapTypeOK
<1>5. Numbers'
  <2>1. 0 <= execs /\ (exec[b] # "none" => 0 < execs)
    BY Counts DEF SnapInv, Numbers
  <2> QED
    BY <1>1, <1>2, <2>1 DEF SnapInv, Numbers
<1>6. Powered' /\ \A e \in ID : Thawed(e)' /\ Readers(e)' /\ CopyFits(e)'
  BY <1>1 DEF SnapInv, Powered, Thawed, Readers, CopyFits, ForksOf
<1>7. \A e \in ID : Newborn(e)' /\ Unhandled(e)' /\ Entry(e)'
  BY <1>1, <1>2, <1>3 DEF SnapInv, Newborn, Unhandled, Entry, ForksOf
<1>8. \A e \in ID : Erased(e) => e # b /\ Erased(e)'
  BY <1>1, <1>2 DEF Erased, ForksOf
<1>9. \A e \in ID : ExecLocks(e)' /\ CkptLocks(e)'
  BY <1>1, <1>2, <1>8 DEF SnapInv, ExecLocks, CkptLocks
<1>10. \A e \in ID : ForkLocks(e)'
  <2>1. \A e \in ID : pc[e] \in Locked => pc[e] # "none"
    BY DEF Locked
  <2> QED
    BY <1>1, <1>2, <1>3, <2>1 DEF SnapInv, ForkLocks, Current
<1>11. \A e \in ID : Saved(e)' /\ DiskFits(e)'
  BY <1>1, <1>2 DEF SnapInv, Saved, Same, DiskFits, OnDisk, Current, Quiet, ForksOf
<1>12. \A e \in ID : FloorHeld(e)'
  BY <1>1, <1>2, <1>3 DEF SnapInv, FloorHeld
<1> QED
  BY <1>4, <1>5, <1>6, <1>7, <1>9, <1>10, <1>11, <1>12 DEF SnapInv

\* The lock is free from here on, whoever held it: nothing of b is left to guard.
LEMMA KillRemoveKeeps ==
    ASSUME SnapInv, NEW b \in ID, KillRemove(b)
    PROVE  SnapInv'
<1>1. UNCHANGED <<mem, writes, vmms, marks, pc, sawGen, stale, floor, lives, commands, ckpts,
                  reviving, faults, stuck>>
  BY DEF KillRemove
<1>2. /\ ending[b] = "remove" /\ b \notin vms \cup running \cup reviving /\ pc[b] = "none"
      /\ \A c \in ID : source[c] = b => pc[c] \notin Locked
  <2>1. \A c \in ID : pc[c] \in Locked => ending[source[c]] = "none"
    BY ForkHolds
  <2> QED
    BY <2>1 DEF KillRemove, SnapInv, Unhandled
<1>3. /\ files'[b] = NoFile /\ ending'[b] = "none" /\ lock'[b] = "free"
      /\ \A e \in ID : e # b =>
             /\ files'[e] = files[e] /\ ending'[e] = ending[e] /\ lock'[e] = lock[e]
             /\ source'[e] = source[e] /\ disk'[e] = disk[e]
             /\ (e \in disturbed' <=> e \in disturbed) /\ (e \in rolled' <=> e \in rolled)
             /\ (e \in broken' <=> e \in broken)
      /\ b \in snaps => (b \in broken' <=> b \in broken)
  BY DEF KillRemove, SnapInv, SnapTypeOK
<1>4. ckpt[b] # "write"
  BY <1>2 DEF SnapInv, CkptLocks
<1>5. SnapTypeOK'
  <2>1. /\ files' \in [ID -> Memory \cup {NoFile, Torn}] /\ disk' \in [ID -> 0 .. MaxWrites]
        /\ lock' \in [ID -> ID \cup {"free", "exec", "checkpoint"}]
    BY SnapAssumption DEF KillRemove, SnapInv, SnapTypeOK
  <2>2. /\ ending' \in [ID -> {"none", "reap", "remove"}] /\ source' \in [ID -> ID \cup {NoBranch}]
        /\ disturbed' \subseteq ID /\ rolled' \subseteq ID /\ broken' \subseteq ID
    BY DEF KillRemove, SnapInv, SnapTypeOK
  <2> QED
    BY <1>1, <2>1, <2>2 DEF SnapInv, SnapTypeOK
<1>6. Numbers'
  BY <1>1, <1>3 DEF SnapInv, Numbers
<1>7. Powered'
  <2>1. mem[b] # Torn
    BY <1>2, Images DEF SnapInv, Powered
  <2> QED
    BY <1>1, <1>3, <2>1 DEF SnapInv, Powered
<1>8. \A e \in ID : ForksOf(e)' = ForksOf(e)
  BY <1>1, <1>2, <1>3 DEF ForksOf
<1>9. \A e \in ID : Newborn(e)' /\ Unhandled(e)' /\ Thawed(e)'
  BY <1>1, <1>2, <1>3, <1>8 DEF SnapInv, Newborn, Unhandled, Thawed
<1>10. \A e \in ID : Entry(e)'
  BY <1>1, <1>2, <1>3 DEF SnapInv, Entry
<1>11. \A e \in ID : Readers(e)'
  <2>1. \A e \in ID : \A d \in ForksOf(e) : d # b
    BY <1>2 DEF ForksOf
  <2> QED
    BY <1>1, <1>3, <1>8, <2>1 DEF SnapInv, Readers, ForksOf
<1>12. \A e \in ID : Erased(e) \/ e = b => Erased(e)'
  BY <1>1, <1>2, <1>3, <1>8 DEF Erased, ForksOf
<1>13. \A e \in ID : ExecLocks(e)' /\ CkptLocks(e)'
  BY <1>1, <1>2, <1>3, <1>4, <1>12 DEF SnapInv, ExecLocks, CkptLocks
<1>14. \A e \in ID : ForkLocks(e)'
  <2>1. \A e \in ID : pc[e] \in Locked => e # b /\ source[e] \in ID \ {b}
    BY <1>2, ForkAlone DEF Locked
  <2> QED
    BY <1>1, <1>3, <2>1 DEF SnapInv, ForkLocks, Current
<1>15. \A e \in ID : Quiet(e)' <=> Quiet(e)
  BY <1>1, <1>8 DEF Quiet
<1>16. \A e \in ID : Saved(e)'
  BY <1>1, <1>2, <1>3, <1>15 DEF SnapInv, Saved, Same, Current
<1>17. \A e \in ID : DiskFits(e)'
  <2>1. \A c \in ForksOf(b) : pc[c] # "copy"
    BY <1>2 DEF ForksOf, Locked
  <2>2. DiskFits(b)'
    BY <1>1, <1>2, <1>8, <2>1 DEF DiskFits
  <2>3. \A e \in ID : e # b => DiskFits(e)'
    BY <1>1, <1>3, <1>8, <1>15 DEF SnapInv, DiskFits, OnDisk, Current
  <2> QED
    BY <2>2, <2>3
<1>18. \A e \in ID : pc[e] # "none" => e # b /\ source'[e] = source[e] /\ source[e] \in ID
  BY <1>2, <1>3 DEF SnapInv, Newborn
<1>19. \A e \in ID : CopyFits(e)'
  BY <1>1, <1>3, <1>18, Images DEF SnapInv, CopyFits
<1>20. \A e \in ID : FloorHeld(e)'
  <2>1. \A e \in ID : NoFile.data >= floor[e]
    BY Images, Counts DEF SnapInv
  <2> QED
    BY <1>1, <1>2, <1>3, <1>18, <2>1 DEF SnapInv, FloorHeld
<1> QED
  BY <1>5, <1>6, <1>7, <1>9, <1>10, <1>11, <1>13, <1>14, <1>16, <1>17, <1>19, <1>20 DEF SnapInv

LEMMA RestartKeeps ==
    ASSUME SnapInv, NEW b \in ID, Restart(b)
    PROVE  SnapInv'
<1>1. UNCHANGED <<guests, running, paused, late, marks, files, lock, forks, commands, ckpts,
                  ending, faults, notes>>
  BY DEF Restart
<1>2. /\ b \in vms \/ files[b] # NoFile
      /\ pc[b] = "none" /\ ending[b] = "none" /\ b \notin running
      /\ vms' = vms \ {b} /\ reviving \subseteq reviving' /\ reviving' \subseteq reviving \cup {b}
  BY DEF Restart, Idle
<1>3. SnapTypeOK' /\ Numbers' /\ Powered'
  BY <1>1, <1>2 DEF SnapInv, SnapTypeOK, Numbers, Powered
<1>4. \A e \in ID : /\ Newborn(e)' /\ Unhandled(e)' /\ Entry(e)' /\ Thawed(e)' /\ Readers(e)'
                    /\ CopyFits(e)'
  BY <1>1, <1>2 DEF SnapInv, Newborn, Unhandled, Entry, Thawed, Readers, CopyFits, ForksOf
<1>5. \A e \in ID : Erased(e) => e # b /\ Erased(e)'
  BY <1>1, <1>2 DEF Erased, ForksOf
<1>6. \A e \in ID : ExecLocks(e)' /\ CkptLocks(e)'
  BY <1>1, <1>5 DEF SnapInv, ExecLocks, CkptLocks
<1>7. \A e \in ID : ForkLocks(e)'
  BY <1>1, <1>2 DEF SnapInv, ForkLocks, Current
<1>8. \A e \in ID : Saved(e)' /\ DiskFits(e)'
  BY <1>1, <1>2 DEF SnapInv, Saved, Same, DiskFits, OnDisk, Current, Quiet, ForksOf
<1>9. \A e \in ID : FloorHeld(e)'
  BY <1>1, <1>2 DEF SnapInv, FloorHeld
<1> QED
  BY <1>3, <1>4, <1>6, <1>7, <1>8, <1>9 DEF SnapInv

\* The branch comes back with its files for a memory and whatever disk there is.
LEMMA RestartLoadKeeps ==
    ASSUME SnapInv, NEW b \in ID, RestartLoad(b)
    PROVE  SnapInv'
<1>1. UNCHANGED <<disk, writes, paused, late, marks, files, lock, pc, sawGen, stale, floor,
                  lives, commands, ckpts, ending, broken, stuck>>
  BY DEF RestartLoad
<1>2. /\ b \in reviving /\ reviving' = reviving \ {b} /\ b \notin vms \cup running
      /\ ending[b] = "none" /\ pc[b] = "none" /\ ckpt[b] # "write"
      /\ \A c \in ID : source[c] = b => pc[c] # "write"
  <2>1. b \in reviving /\ reviving' = reviving \ {b}
    BY DEF RestartLoad
  <2>2. \A c \in ID : source[c] = b /\ pc[c] = "write" => b \in running
    BY DEF SnapInv, ForkLocks, Locked
  <2> QED
    BY <2>1, <2>2 DEF SnapInv, Unhandled, Newborn, CkptLocks
<1>3. CASE UNCHANGED <<mem, vms, running, source, rolled, disturbed>> /\ faults' \in 0 .. MaxFaults
  <2>1. SnapTypeOK' /\ Numbers' /\ Powered'
    BY <1>1, <1>2, <1>3 DEF SnapInv, SnapTypeOK, Numbers, Powered
  <2>2. \A e \in ID : Erased(e) => Erased(e)'
    BY <1>1, <1>2, <1>3 DEF Erased, ForksOf
  <2>3. \A e \in ID : /\ Newborn(e)' /\ Unhandled(e)' /\ Entry(e)' /\ Thawed(e)' /\ Readers(e)'
                      /\ ExecLocks(e)' /\ CkptLocks(e)' /\ ForkLocks(e)'
    BY <1>1, <1>2, <1>3, <2>2 DEF SnapInv, Newborn, Unhandled, Entry, Thawed, Readers, ForksOf,
                                  ExecLocks, CkptLocks, ForkLocks, Current
  <2>4. \A e \in ID : Saved(e)' /\ DiskFits(e)' /\ CopyFits(e)' /\ FloorHeld(e)'
    BY <1>1, <1>3 DEF SnapInv, Saved, Same, DiskFits, CopyFits, FloorHeld, OnDisk, Current, Quiet,
                      ForksOf
  <2> QED
    BY <2>1, <2>3, <2>4 DEF SnapInv
<1>4. CASE /\ files[b] # NoFile /\ UNCHANGED faults
           /\ mem' = [mem EXCEPT ![b] = files[b]]
           /\ running' = running \cup {b} /\ vms' = vms \cup {b}
           /\ source' = [source EXCEPT ![b] = b]
           /\ rolled' = rolled \cup {b}
           /\ disturbed' = IF files[b] = Torn THEN disturbed \cup {b} ELSE disturbed \ {b}
  <2>1. /\ mem'[b] = files[b]
        /\ \A e \in ID : e # b => mem'[e] = mem[e] /\ source'[e] = source[e]
        /\ \A e \in ID : e # b => (e \in disturbed' <=> e \in disturbed)
    BY <1>4 DEF SnapInv, SnapTypeOK
  <2>2. SnapTypeOK'
    <3>1. mem' \in [ID -> Memory \cup {Torn}] /\ source' \in [ID -> ID \cup {NoBranch}]
      BY <1>4 DEF SnapInv, SnapTypeOK
    <3> QED
      BY <1>1, <1>2, <1>4, <3>1 DEF SnapInv, SnapTypeOK
  <2>3. Numbers'
    <3>1. \A e \in ID : mem'[e] = Torn \/ mem'[e].data <= writes
      BY <1>4, <2>1 DEF SnapInv, Numbers
    <3> QED
      BY <1>1, <3>1 DEF SnapInv, Numbers
  <2>4. Powered'
    BY <1>1, <1>4, <2>1 DEF SnapInv, Powered
  <2>5. \A e \in ID : ForksOf(e)' = ForksOf(e)
    BY <1>1, <1>2, <2>1 DEF ForksOf
  <2>6. \A e \in ID : pc[e] # "none" => e # b /\ source'[e] = source[e] /\ source[e] \in ID
    BY <1>2, <2>1 DEF SnapInv, Newborn
  <2>7. \A e \in ID : Newborn(e)' /\ Unhandled(e)' /\ Entry(e)' /\ Thawed(e)'
    BY <1>1, <1>2, <1>4, <2>5, <2>6 DEF SnapInv, Newborn, Unhandled, Entry, Thawed
  <2>8. \A e \in ID : Readers(e)'
    BY <1>1, <1>2, <2>1, <2>5 DEF SnapInv, Readers, ForksOf
  <2>9. \A e \in ID : Erased(e) => e # b /\ Erased(e)'
    BY <1>1, <1>2, <1>4, <2>5 DEF Erased, ForksOf
  <2>10. \A e \in ID : ExecLocks(e)' /\ CkptLocks(e)'
    BY <1>1, <1>2, <1>4, <2>9 DEF SnapInv, ExecLocks, CkptLocks
  <2>11. \A e \in ID : ForkLocks(e)'
    <3>1. \A e \in ID : pc[e] \in Locked => pc[e] # "none"
      BY DEF Locked
    <3> QED
      BY <1>1, <1>2, <1>4, <2>6, <3>1 DEF SnapInv, ForkLocks, Current
  <2>12. \A e \in ID : Quiet(e)' <=> Quiet(e)
    BY <1>1, <2>5 DEF Quiet
  <2>13. \A e \in ID : Saved(e)'
    <3>1. Same(b)'
      BY <1>1, <2>1 DEF Same
    <3> QED
      BY <1>1, <1>4, <2>1, <2>12, <3>1 DEF SnapInv, Saved, Same, Current
  <2>14. \A e \in ID : DiskFits(e)'
    BY <1>1, <1>4, <2>1, <2>5, <2>12 DEF SnapInv, DiskFits, OnDisk, Current
  <2>15. \A e \in ID : CopyFits(e)'
    BY <1>1, <1>4, <2>1, <2>6 DEF SnapInv, CopyFits
  <2>16. \A e \in ID : FloorHeld(e)'
    BY <1>1, <1>2, <1>4, <2>1, <2>6 DEF SnapInv, FloorHeld
  <2> QED
    BY <2>2, <2>3, <2>4, <2>7, <2>8, <2>10, <2>11, <2>13, <2>14, <2>15, <2>16 DEF SnapInv
<1>5. UNCHANGED faults \/ Fault => faults' \in 0 .. MaxFaults
  BY FaultType DEF SnapInv
<1> QED
  BY <1>3, <1>4, <1>5 DEF RestartLoad

-----------------------------------------------------------------------------
\* Requests that are served late

\* The VMM of b serves a pause or a resume that its caller has given up: nobody holds
\* the guest paused, and after a pause it is stuck.
LEMMA ServeLateKeeps ==
    ASSUME SnapInv, LateInv, NEW b \in ID, ServeLate(b)
    PROVE  SnapInv' /\ LateInv'
<1>1. UNCHANGED <<guests, vms, running, marks, files, lock, forks, commands, ckpts, ends, faults,
                  disturbed, broken, rolled>>
  BY DEF ServeLate
<1>2. /\ b \in running /\ late[b] # <<>> /\ late[b] \in Requests
      /\ late' = [late EXCEPT ![b] = Tail(late[b])]
      /\ late'[b] = Tail(late[b]) /\ \A e \in ID : e # b => late'[e] = late[e]
  BY DEF ServeLate, SnapInv, SnapTypeOK
<1>3. /\ pc[b] = "none" /\ ckpt[b] \notin Thawing
      /\ \A c \in ID : source[c] = b => pc[c] \notin Pausing
  BY <1>2 DEF LateInv, Waits, ForksOf, Pausing
<1>4. /\ late[b][1] = Head(late[b]) /\ Len(late[b]) \in Nat /\ 1 \in 1 .. Len(late[b])
      /\ Tail(late[b]) \in Requests
      /\ \A i \in 1 .. Len(Tail(late[b])) :
             i + 1 \in 1 .. Len(late[b]) /\ Tail(late[b])[i] = late[b][i + 1]
      /\ Tail(late[b]) = <<>> => Len(Tail(late[b])) = 0
  <2> DEFINE q == late[b]
  <2>1. q \in Seq({"pause", "resume"}) /\ q # <<>>
    BY <1>2 DEF Requests
  <2> HIDE DEF q
  <2>2. Len(q) \in Nat /\ Len(q) # 0 /\ Head(q) = q[1]
    BY <2>1
  <2>3. Tail(q) \in Seq({"pause", "resume"}) /\ Len(Tail(q)) = Len(q) - 1
    BY <2>1
  <2>4. \A i \in 1 .. Len(q) - 1 : Tail(q)[i] = q[i + 1]
    BY <2>1
  <2>5. 1 \in 1 .. Len(q) /\ \A i \in 1 .. Len(q) - 1 : i + 1 \in 1 .. Len(q)
    BY <2>2
  <2>6. Tail(q) = <<>> => Len(Tail(q)) = 0
    <3>1. Len(<<>>) = 0
      OBVIOUS
    <3> QED
      BY <3>1, Zenon
  <2>7. \A i \in 1 .. Len(Tail(q)) : i + 1 \in 1 .. Len(q) /\ Tail(q)[i] = q[i + 1]
    BY <2>3, <2>4, <2>5
  <2>8. Tail(q) \in Requests
    BY <2>3 DEF Requests
  <2> QED
    BY <2>2, <2>5, <2>6, <2>7, <2>8, Zenon DEF q
<1>5. /\ \A e \in ID : e # b => (e \in paused' <=> e \in paused) /\ (e \in stuck' <=> e \in stuck)
      /\ stuck' \subseteq ID /\ paused' \subseteq running
      /\ b \in paused' => b \in stuck'
      /\ b \in stuck /\ Tail(late[b]) # <<>> => b \in stuck'
  <2>1. CASE Head(late[b]) = "pause" /\ paused' = paused \cup {b} /\ UNCHANGED stuck
    <3>1. b \in stuck
      BY <1>4, <2>1 DEF LateInv, Waits
    <3> QED
      BY <1>2, <2>1, <3>1 DEF SnapInv, SnapTypeOK
  <2>2. CASE /\ paused' = paused \ {b}
             /\ stuck' = IF Tail(late[b]) = <<>> THEN stuck \ {b} ELSE stuck
    BY <2>2 DEF SnapInv, SnapTypeOK
  <2> QED
    BY <2>1, <2>2 DEF ServeLate
<1>6. SnapTypeOK'
  <2>1. late' \in [ID -> Requests]
    BY <1>2, <1>4 DEF SnapInv, SnapTypeOK
  <2> QED
    BY <1>1, <1>5, <2>1 DEF SnapInv, SnapTypeOK
<1>7. Numbers' /\ Powered'
  BY <1>1 DEF SnapInv, Numbers, Powered
<1>8. \A e \in ID : Newborn(e)' /\ Unhandled(e)' /\ Entry(e)' /\ ExecLocks(e)' /\ Readers(e)'
  BY <1>1, <1>3, <1>5 DEF SnapInv, Newborn, Unhandled, Entry, ExecLocks, Readers, Erased, ForksOf
<1>9. \A e \in ID : CkptLocks(e)' /\ ForkLocks(e)'
  <2>1. \A e \in ID : CkptLocks(e)'
    BY <1>1, <1>3, <1>5 DEF SnapInv, CkptLocks, Erased, ForksOf, Thawing
  <2>2. \A e \in ID : ForkLocks(e)'
    <3> SUFFICES ASSUME NEW e \in ID, pc[e] \in Locked
                 PROVE  ForkLocks(e)'
      BY <1>1 DEF ForkLocks
    <3>1. source[e] \in ID
      BY ForkAlone
    <3>2. pc[e] \in Pausing => source[e] # b
      BY <1>3
    <3> QED
      BY <1>1, <1>5, <3>1, <3>2 DEF SnapInv, ForkLocks, Current, Pausing
  <2> QED
    BY <2>1, <2>2
<1>10. \A e \in ID : Saved(e)' /\ DiskFits(e)' /\ CopyFits(e)' /\ FloorHeld(e)'
  BY <1>1 DEF SnapInv, Saved, Same, DiskFits, CopyFits, FloorHeld, OnDisk, Quiet, ForksOf, Current
<1>11. \A e \in ID : Thawed(e)'
  BY <1>1, <1>5 DEF SnapInv, Thawed, ForksOf
<1>12. LateInv'
  <2>1. \A e \in ID : e # b => Waits(e)'
    BY <1>1, <1>2, <1>5 DEF LateInv, Waits, ForksOf
  <2>2. \A i \in 1 .. Len(late'[b]) : late'[b][i] = "pause" => b \in stuck'
    <3> SUFFICES ASSUME NEW i \in 1 .. Len(Tail(late[b])), Tail(late[b])[i] = "pause"
                 PROVE  b \in stuck'
      BY <1>2
    <3>1. b \in stuck
      BY <1>4 DEF LateInv, Waits
    <3>2. Tail(late[b]) # <<>>
      BY <1>4
    <3> QED
      BY <1>5, <3>1, <3>2
  <2>3. Waits(b)'
    BY <1>1, <1>2, <1>3, <2>2 DEF Waits, ForksOf
  <2> QED
    BY <2>1, <2>3 DEF LateInv
<1> QED
  BY <1>6, <1>7, <1>8, <1>9, <1>10, <1>11, <1>12 DEF SnapInv

\* A step that leaves the requests alone, and pauses nobody who has any.
LEMMA LateStays ==
    ASSUME SnapInv, LateInv, UNCHANGED <<late, stuck>>, running \subseteq running',
           \A c \in ID : pc'[c] \in Pausing => pc[c] \in Pausing /\ source'[c] = source[c],
           \A e \in ID : e \in running => (pc[e] = "none" => pc'[e] = "none"),
           \A e \in ID : ckpt'[e] \in Thawing => ckpt[e] \in Thawing
    PROVE  LateInv'
<1>1. \A e \in ID : \A c \in ForksOf(e)' : pc'[c] \in Pausing
                                         => c \in ForksOf(e) /\ pc[c] \in Pausing
  BY DEF ForksOf, Pausing
<1> QED
  BY <1>1 DEF LateInv, Waits

\* The steps that send no pause and no resume.
LEMMA SilentKeepsLate ==
    ASSUME SnapInv, LateInv, NEW b \in ID,
           \/ GuestWrite(b) \/ Writeback(b) \/ Exec(b) \/ ExportArtifact(b) \/ ExecEnd(b)
           \/ SpawnRoot(b) \/ (\E p \in ID : ForkBegin(b, p))
           \/ ForkLock(b) \/ ForkLockFiles(b) \/ ForkSync(b) \/ ForkWrite(b) \/ ForkCopy(b)
           \/ ForkLoad(b) \/ ForkRegister(b) \/ ForkUndo(b)
           \/ Checkpoint(b) \/ CkptSync(b) \/ CkptWrite(b) \/ CkptMark(b)
           \/ KillTake(b) \/ KillRemove(b) \/ Restart(b) \/ RestartLoad(b)
    PROVE  LateInv'
<1>1. CASE \/ GuestWrite(b) \/ Writeback(b) \/ Exec(b) \/ ExportArtifact(b) \/ ExecEnd(b)
           \/ KillTake(b) \/ Restart(b)
  BY <1>1, LateStays
     DEF GuestWrite, Writeback, Exec, ExportArtifact, Ask, ExecEnd, KillTake, Restart
<1>2. CASE SpawnRoot(b)
  <2>1. pc[b] = "none" /\ \A e \in ID : e # b => source'[e] = source[e]
    BY <1>2 DEF SpawnRoot, Unused, Idle, SnapInv, SnapTypeOK
  <2> QED
    BY <1>2, <2>1, LateStays DEF SpawnRoot, Pausing
<1>3. CASE \E p \in ID : ForkBegin(b, p)
  <2>1. /\ pc'[b] = "lock" /\ b \notin running
        /\ \A e \in ID : e # b => pc'[e] = pc[e] /\ source'[e] = source[e]
    BY <1>3 DEF ForkBegin, Goto, Unused, SnapInv, SnapTypeOK
  <2> QED
    BY <1>3, <2>1, LateStays DEF ForkBegin, Pausing
<1>4. CASE \/ ForkLock(b) \/ ForkLockFiles(b) \/ ForkSync(b) \/ ForkWrite(b) \/ ForkCopy(b)
           \/ ForkLoad(b) \/ ForkRegister(b) \/ ForkUndo(b)
  <2>1. /\ pc[b] # "none" /\ \A e \in ID : e # b => pc'[e] = pc[e] /\ source'[e] = source[e]
        /\ pc'[b] \in Pausing => pc[b] \in Pausing /\ source'[b] = source[b]
    <3>1. CASE ForkLock(b) \/ ForkLockFiles(b)
      BY <3>1 DEF ForkLock, ForkLockFiles, Goto, SnapInv, SnapTypeOK, Pausing
    <3>2. CASE ForkSync(b) \/ ForkLoad(b)
      BY <3>2 DEF ForkSync, ForkLoad, Goto, SnapInv, SnapTypeOK, Pausing
    <3>3. CASE ForkWrite(b) \/ ForkCopy(b)
      BY <3>3 DEF ForkWrite, ForkCopy, Goto, SnapInv, SnapTypeOK, Pausing
    <3>4. CASE ForkRegister(b) \/ ForkUndo(b)
      BY <3>4 DEF ForkRegister, ForkUndo, Goto, SnapInv, SnapTypeOK, Pausing
    <3> QED
      BY <1>4, <3>1, <3>2, <3>3, <3>4
  <2>2. UNCHANGED <<late, stuck, ckpt>> /\ running \subseteq running'
    <3>1. CASE ForkUndo(b)
      BY <3>1 DEF ForkUndo, SnapInv, Newborn
    <3>2. CASE ~ForkUndo(b)
      BY <1>4, <3>2 DEF ForkLock, ForkLockFiles, ForkSync, ForkWrite, ForkCopy, ForkLoad,
                        ForkRegister
    <3> QED
      BY <3>1, <3>2
  <2> QED
    BY <2>1, <2>2, LateStays
<1>5. CASE Checkpoint(b) \/ CkptSync(b) \/ CkptWrite(b) \/ CkptMark(b)
  <2>1. \A e \in ID : ckpt'[e] \in Thawing => ckpt[e] \in Thawing
    BY <1>5 DEF Checkpoint, CkptSync, CkptWrite, CkptMark, CkptOver, CGoto, SnapInv, SnapTypeOK,
                Thawing
  <2> QED
    BY <1>5, <2>1, LateStays DEF Checkpoint, CkptSync, CkptWrite, CkptMark
<1>6. CASE KillRemove(b) \/ RestartLoad(b)
  <2>1. pc[b] = "none"
    BY <1>6 DEF KillRemove, RestartLoad, SnapInv, Unhandled, Newborn
  <2>2. \A e \in ID : e # b => source'[e] = source[e]
    BY <1>6 DEF KillRemove, RestartLoad, SnapInv, SnapTypeOK
  <2>3. /\ UNCHANGED <<late, stuck, pc, ckpt>> /\ running \subseteq running'
    BY <1>6 DEF KillRemove, RestartLoad
  <2> QED
    BY <2>1, <2>2, <2>3, LateStays DEF Pausing
<1> QED
  BY <1>1, <1>2, <1>3, <1>4, <1>5, <1>6

\* The VMM of b goes with what it had to serve.
LEMMA GoneKeepsLate ==
    ASSUME SnapInv, LateInv, NEW b \in ID, VMMDies(b) \/ KillReap(b)
    PROVE  LateInv'
<1>1. /\ late'[b] = <<>> /\ Len(late'[b]) = 0 /\ \A e \in ID : e # b => late'[e] = late[e]
      /\ running' = running \ {b} /\ stuck' = stuck \ {b} /\ UNCHANGED source
  BY DEF VMMDies, KillReap, Gone, SnapInv, SnapTypeOK
<1>2. \A c \in ID : /\ pc'[c] = "none" <=> pc[c] = "none"
                    /\ pc'[c] \in Pausing <=> pc[c] \in Pausing
  <2>1. \A c \in ID : pc'[c] = IF c \in ForksOf(b) /\ pc[c] = "write" THEN "failing" ELSE pc[c]
    BY DEF VMMDies, KillReap, Gone
  <2> QED
    BY <2>1 DEF Pausing
<1>3. \A e \in ID : e # b => ckpt'[e] = ckpt[e]
  BY DEF VMMDies, KillReap, Gone, SnapInv, SnapTypeOK
<1>4. \A e \in ID : ForksOf(e)' = ForksOf(e)
  BY <1>1, <1>2 DEF ForksOf
<1>5. \A e \in ID : e # b => Waits(e)'
  BY <1>1, <1>2, <1>3, <1>4 DEF LateInv, Waits, ForksOf
<1>6. Waits(b)'
  BY <1>1 DEF Waits
<1> QED
  BY <1>5, <1>6 DEF LateInv

\* A pause or resume of p by a fork or checkpoint that holds the lock: answered when
\* nothing else is left to serve, or raised by a call that is over with it.
LEMMA RequestKeepsLate ==
    ASSUME SnapInv, LateInv, NEW p \in ID, NEW request \in {"pause", "resume"},
           Raises(p, request) \/ Answers(p), UNCHANGED <<running, source>>,
           pc[p] = "none", pc'[p] = "none", \A e \in ID : pc[e] = "none" => pc'[e] = "none",
           \A e \in ID : e # p => (e \in stuck' <=> e \in stuck) /\ ckpt'[e] = ckpt[e],
           \A c \in ID : source[c] # p => pc'[c] = pc[c],
           \/ /\ Answers(p) /\ late'[p] = <<>>
           \/ /\ Raises(p, request) /\ (late'[p] # late[p] /\ request = "pause" => p \in stuck')
              /\ late[p] # <<>> /\ p \in stuck => p \in stuck'
              /\ ckpt'[p] \notin Thawing /\ \A c \in ID : source[c] = p => pc'[c] \notin Pausing
    PROVE  LateInv'
<1>1. /\ \A e \in ID : e # p => late'[e] = late[e]
      /\ late'[p] = late[p] \/ (p \in running /\ late'[p] = Append(late[p], request))
  BY LateType DEF SnapInv
<1>2. \A e \in ID : e # p => Waits(e)'
  BY <1>1 DEF LateInv, Waits, ForksOf
<1>3. p \notin running => late'[p] = <<>>
  BY <1>1 DEF LateInv, Waits
<1>4. \A i \in 1 .. Len(late'[p]) : late'[p][i] = "pause" => p \in stuck'
  <2>1. CASE late'[p] = <<>>
    BY <2>1
  <2>2. CASE late'[p] = late[p] /\ late'[p] # <<>>
    BY <2>2 DEF LateInv, Waits
  <2>3. CASE late'[p] = Append(late[p], request) /\ late'[p] # late[p] /\ late'[p] # <<>>
    <3>1. late[p] \in Seq({"pause", "resume"})
      BY DEF SnapInv, SnapTypeOK, Requests
    <3>2. /\ Len(late'[p]) = Len(late[p]) + 1 /\ Len(late[p]) \in Nat
          /\ late'[p][Len(late[p]) + 1] = request
          /\ \A i \in 1 .. Len(late[p]) : late'[p][i] = late[p][i]
      BY <2>3, <3>1
    <3>3. \A i \in 1 .. Len(late[p]) : late[p][i] = "pause" => p \in stuck'
      <4> SUFFICES ASSUME NEW i \in 1 .. Len(late[p]), late[p][i] = "pause"
                   PROVE  p \in stuck'
        OBVIOUS
      <4>1. p \in stuck
        BY DEF LateInv, Waits
      <4>2. late[p] # <<>>
        BY <3>1
      <4> QED
        BY <2>3, <4>1, <4>2
    <3>4. request = "pause" => p \in stuck'
      BY <2>3
    <3> QED
      BY <3>2, <3>3, <3>4
  <2> QED
    BY <1>1, <2>1, <2>2, <2>3
<1>5. late'[p] # <<>> => /\ pc'[p] = "none" /\ ckpt'[p] \notin Thawing
                         /\ \A c \in ForksOf(p)' : pc'[c] \notin Pausing
  BY DEF ForksOf
<1>6. Waits(p)'
  BY <1>3, <1>4, <1>5 DEF Waits
<1> QED
  BY <1>2, <1>6 DEF LateInv

\* What pause() and resume() do to the branches that are stuck.
LEMMA StuckFacts ==
    ASSUME SnapTypeOK, NEW p \in ID, NEW request \in {"pause", "resume"},
           \/ request = "pause" /\ (PauseRaises(p) \/ (Answers(p) /\ UNCHANGED stuck))
           \/ request = "resume" /\ (Resumed(p) \/ NotResumed(p))
    PROVE  /\ \A e \in ID : e # p => (e \in stuck' <=> e \in stuck)
           /\ \/ Answers(p) /\ late'[p] = <<>>
              \/ /\ Raises(p, request) /\ (p \in stuck => p \in stuck')
                 /\ late'[p] # late[p] /\ request = "pause" => p \in stuck'
<1>1. CASE Answers(p) /\ (UNCHANGED stuck \/ stuck' = stuck \ {p})
  BY <1>1 DEF Answers
<1>2. CASE request = "pause" /\ PauseRaises(p)
  <2>1. late'[p] # late[p] => late' # late
    OBVIOUS
  <2> QED
    BY <1>2, <2>1 DEF PauseRaises
<1>3. CASE request = "resume" /\ NotResumed(p)
  BY <1>3 DEF NotResumed
<1> QED
  BY <1>1, <1>2, <1>3 DEF Resumed

LEMMA ForkPauseKeepsLate ==
    ASSUME SnapInv, LateInv, NEW c \in ID, ForkPause(c) \/ ForkResume(c)
    PROVE  LateInv'
<1> DEFINE p == source[c]
<1>1. pc[c] \in Locked /\ pc[c] # "none"
  BY DEF ForkPause, ForkResume, Locked
<1>2. /\ p \in ID /\ p # c /\ pc[p] = "none" /\ ckpt[p] = "none"
      /\ \A d \in ID : d # c /\ pc[d] \in Locked => source[d] \in ID \ {p}
  BY <1>1, ForkHolds
<1>3. UNCHANGED <<running, source, ckpt>> /\ \A e \in ID : e # c => pc'[e] = pc[e]
  BY DEF ForkPause, ForkResume, Goto, SnapInv, SnapTypeOK
<1>4. \A d \in ID : d # c /\ source[d] = p => pc'[d] \notin Pausing
  BY <1>2, <1>3 DEF Locked, Pausing
<1>5. CASE ForkPause(c)
  <2>1. PauseRaises(p) \/ (Answers(p) /\ UNCHANGED stuck)
    BY <1>5 DEF ForkPause
  <2>2. Answers(p) \/ pc'[c] = "undo"
    BY <1>5 DEF ForkPause, Goto, SnapInv, SnapTypeOK
  <2>3. Raises(p, "pause") \/ Answers(p)
    BY <2>1 DEF PauseRaises
  <2> HIDE DEF p
  <2>4. /\ \A e \in ID : e # p => (e \in stuck' <=> e \in stuck)
        /\ \/ Answers(p) /\ late'[p] = <<>>
           \/ /\ Raises(p, "pause") /\ (p \in stuck => p \in stuck')
              /\ late'[p] # late[p] => p \in stuck'
    BY <1>2, <2>1, StuckFacts DEF SnapInv
  <2>5. Answers(p) => late'[p] = <<>>
    BY DEF Answers
  <2> QED
    BY <1>1, <1>2, <1>3, <1>4, <2>2, <2>3, <2>4, <2>5, RequestKeepsLate DEF p, Pausing, Thawing
<1>6. CASE ForkResume(c)
  <2>1. Resumed(p) \/ NotResumed(p)
    BY <1>6 DEF ForkResume
  <2>2. pc'[c] \in {"load", "undo"}
    BY <1>6 DEF ForkResume, Goto, SnapInv, SnapTypeOK
  <2>3. Raises(p, "resume") \/ Answers(p)
    BY <2>1 DEF Resumed, NotResumed
  <2> HIDE DEF p
  <2>4. /\ \A e \in ID : e # p => (e \in stuck' <=> e \in stuck)
        /\ \/ Answers(p) /\ late'[p] = <<>>
           \/ Raises(p, "resume") /\ (p \in stuck => p \in stuck')
    BY <1>2, <2>1, StuckFacts DEF SnapInv
  <2> QED
    BY <1>1, <1>2, <1>3, <1>4, <2>2, <2>3, <2>4, RequestKeepsLate DEF p, Pausing, Thawing
<1> QED
  BY <1>5, <1>6

LEMMA CkptPauseKeepsLate ==
    ASSUME SnapInv, LateInv, NEW b \in ID, CkptPause(b) \/ CkptResume(b)
    PROVE  LateInv'
<1>1. pc[b] = "none" /\ \A c \in ID : source[c] = b => pc[c] \notin Pausing
  BY CkptAlone DEF CkptPause, CkptResume, Locked, Pausing
<1>2. UNCHANGED <<running, source, pc>> /\ \A e \in ID : e # b => ckpt'[e] = ckpt[e]
  BY DEF CkptPause, CkptResume, CkptOver, CGoto, SnapInv, SnapTypeOK
<1>3. CASE CkptPause(b)
  <2>1. PauseRaises(b) \/ (Answers(b) /\ UNCHANGED stuck)
    BY <1>3 DEF CkptPause
  <2>2. Answers(b) \/ ckpt'[b] = "none"
    BY <1>3 DEF CkptPause, CkptOver, CGoto, SnapInv, SnapTypeOK
  <2>3. Raises(b, "pause") \/ Answers(b)
    BY <2>1 DEF PauseRaises
  <2>4. /\ \A e \in ID : e # b => (e \in stuck' <=> e \in stuck)
        /\ \/ Answers(b) /\ late'[b] = <<>>
           \/ /\ Raises(b, "pause") /\ (b \in stuck => b \in stuck')
              /\ late'[b] # late[b] => b \in stuck'
    BY <2>1, StuckFacts DEF SnapInv
  <2>5. Answers(b) => late'[b] = <<>>
    BY DEF Answers
  <2> QED
    BY <1>1, <1>2, <2>2, <2>3, <2>4, <2>5, RequestKeepsLate DEF Thawing
<1>4. CASE CkptResume(b)
  <2>1. Resumed(b) \/ NotResumed(b)
    BY <1>4 DEF CkptResume
  <2>2. ckpt'[b] = "none"
    BY <1>4 DEF CkptResume, CkptOver, CGoto, SnapInv, SnapTypeOK
  <2>3. Raises(b, "resume") \/ Answers(b)
    BY <2>1 DEF Resumed, NotResumed
  <2>4. /\ \A e \in ID : e # b => (e \in stuck' <=> e \in stuck)
        /\ \/ Answers(b) /\ late'[b] = <<>>
           \/ Raises(b, "resume") /\ (b \in stuck => b \in stuck')
    BY <2>1, StuckFacts DEF SnapInv
  <2> QED
    BY <1>1, <1>2, <2>2, <2>3, <2>4, RequestKeepsLate DEF Thawing
<1> QED
  BY <1>3, <1>4

-----------------------------------------------------------------------------
\* The theorems

LEMMA SnapStarts == ASSUME SnapInit
                    PROVE  SnapInv
<1>1. SnapTypeOK
  <2>1. mem \in [ID -> Memory \cup {Torn}] /\ files \in [ID -> Memory \cup {NoFile, Torn}]
    BY Images DEF SnapInit
  <2>2. /\ writes \in 0 .. MaxWrites /\ execs \in 0 .. MaxExecs /\ lives \in 0 .. MaxLives
        /\ faults \in 0 .. MaxFaults
    BY SnapAssumption DEF SnapInit
  <2>3. /\ disk \in [ID -> 0 .. MaxWrites] /\ floor \in [ID -> 0 .. MaxWrites]
        /\ gen \in [ID -> 0 .. MaxExecs] /\ sawGen \in [ID -> 0 .. MaxExecs]
        /\ ckptGen \in [ID -> 0 .. MaxExecs] /\ snapGen \in [ID -> 0 .. NoGen]
    BY SnapAssumption DEF SnapInit, NoGen
  <2>4. late \in [ID -> Requests]
    BY DEF SnapInit, Requests
  <2> QED
    BY <2>1, <2>2, <2>3, <2>4 DEF SnapInit, SnapTypeOK
<1>2. Numbers /\ Powered
  BY Images DEF SnapInit, Numbers, Powered
<1>3. \A b \in ID : pc[b] = "none" /\ exec[b] = "none" /\ ckpt[b] = "none" /\ ending[b] = "none"
  BY DEF SnapInit
<1>4. \A b \in ID : /\ Newborn(b) /\ Unhandled(b) /\ Entry(b) /\ ExecLocks(b) /\ CkptLocks(b)
                    /\ ForkLocks(b) /\ CopyFits(b) /\ FloorHeld(b) /\ Readers(b) /\ Thawed(b)
  BY <1>3 DEF SnapInit, Newborn, Unhandled, Entry, ExecLocks, CkptLocks, ForkLocks, Locked,
              CopyFits, FloorHeld, Readers, ForksOf, Thawed
<1>5. \A b \in ID : Saved(b) /\ DiskFits(b)
  BY <1>3 DEF SnapInit, Saved, DiskFits, ForksOf
<1> QED
  BY <1>1, <1>2, <1>4, <1>5 DEF SnapInv

LEMMA SnapStutters == ASSUME SnapInv, UNCHANGED snapVars
                      PROVE  SnapInv'
<1> USE DEF snapVars
<1>1. SnapTypeOK' /\ Numbers' /\ Powered'
  BY DEF SnapInv, SnapTypeOK, Numbers, Powered
<1>2. \A b \in ID : /\ Newborn(b)' /\ Unhandled(b)' /\ Entry(b)' /\ ExecLocks(b)' /\ CkptLocks(b)'
                    /\ ForkLocks(b)' /\ Readers(b)' /\ Thawed(b)'
  BY DEF SnapInv, Newborn, Unhandled, Entry, ExecLocks, CkptLocks, ForkLocks, Readers, Thawed,
         Erased, ForksOf, Current
<1>3. \A b \in ID : Saved(b)' /\ DiskFits(b)' /\ CopyFits(b)' /\ FloorHeld(b)'
  BY DEF SnapInv, Saved, Same, DiskFits, CopyFits, FloorHeld, OnDisk, Quiet, ForksOf, Current
<1> QED
  BY <1>1, <1>2, <1>3 DEF SnapInv

LEMMA ForkStepKeeps == ASSUME SnapInv, NEW c \in ID, ForkStep(c)
                       PROVE  SnapInv'
BY ForkLockKeeps, ForkLockFilesKeeps, ForkSyncKeeps, ForkPauseKeeps, ForkWriteKeeps,
   ForkCopyKeeps, ForkResumeKeeps, ForkLoadKeeps, ForkRegisterKeeps, ForkUndoKeeps DEF ForkStep

LEMMA CkptStepKeeps == ASSUME SnapInv, NEW b \in ID, CkptStep(b)
                       PROVE  SnapInv'
BY CkptSyncKeeps, CkptPauseKeeps, CkptWriteKeeps, CkptMarkKeeps, CkptResumeKeeps DEF CkptStep

LEMMA EndStepKeeps == ASSUME SnapInv, NEW b \in ID, EndStep(b)
                      PROVE  SnapInv'
BY KillReapKeeps, KillRemoveKeeps, RestartLoadKeeps DEF EndStep

LEMMA StepKeeps ==
    ASSUME SnapInv, LateInv, SnapNext
    PROVE  SnapInv' /\ LateInv'
<1> PICK b \in ID :
        \/ GuestWrite(b) \/ Writeback(b) \/ ServeLate(b) \/ VMMDies(b)
        \/ Exec(b) \/ ExportArtifact(b) \/ ExecEnd(b)
        \/ SpawnRoot(b) \/ (\E p \in ID : ForkBegin(b, p)) \/ ForkStep(b)
        \/ Checkpoint(b) \/ CkptStep(b)
        \/ KillTake(b) \/ Restart(b) \/ EndStep(b)
  BY DEF SnapNext
<1>1. CASE GuestWrite(b) \/ Writeback(b) \/ VMMDies(b)
  BY <1>1, GuestWriteKeeps, WritebackKeeps, VMMDiesKeeps, SilentKeepsLate, GoneKeepsLate
<1>2. CASE ServeLate(b)
  BY <1>2, ServeLateKeeps
<1>3. CASE Exec(b) \/ ExportArtifact(b) \/ ExecEnd(b)
  BY <1>3, ExecKeeps, ExecEndKeeps, SilentKeepsLate
<1>4. CASE SpawnRoot(b) \/ (\E p \in ID : ForkBegin(b, p))
  BY <1>4, SpawnRootKeeps, ForkBeginKeeps, SilentKeepsLate
<1>5. CASE ForkStep(b)
  BY <1>5, ForkStepKeeps, SilentKeepsLate, ForkPauseKeepsLate DEF ForkStep
<1>6. CASE Checkpoint(b) \/ CkptStep(b)
  BY <1>6, CheckpointKeeps, CkptStepKeeps, SilentKeepsLate, CkptPauseKeepsLate DEF CkptStep
<1>7. CASE KillTake(b) \/ Restart(b) \/ EndStep(b)
  BY <1>7, KillTakeKeeps, RestartKeeps, EndStepKeeps, SilentKeepsLate, GoneKeepsLate DEF EndStep
<1> QED
  BY <1>1, <1>2, <1>3, <1>4, <1>5, <1>6, <1>7

\* The inductive invariant of the fork, checkpoint, kill and restart protocol: who
\* holds a branch's lock, what its files, overlay and generation say of its guest
\* at each stage, who will resume it, and what its VMM has yet to serve of the
\* pauses and resumes that raised (_fork_source, spawn, checkpoint, kill, restart).
THEOREM SnapshotInvariant == SnapSpec => [](SnapInv /\ LateInv)
<1>1. SnapInit => SnapInv /\ LateInv
  <2> SUFFICES ASSUME SnapInit
               PROVE  LateInv
    BY SnapStarts
  <2>1. \A b \in ID : late[b] = <<>> /\ Len(late[b]) = 0
    BY DEF SnapInit
  <2> QED
    BY <2>1 DEF LateInv, Waits
<1>2. SnapInv /\ LateInv /\ [SnapNext]_snapVars => SnapInv' /\ LateInv'
  <2> SUFFICES ASSUME SnapInv, LateInv, [SnapNext]_snapVars
               PROVE  SnapInv' /\ LateInv'
    OBVIOUS
  <2>1. CASE UNCHANGED snapVars
    <3>1. LateInv'
      BY <2>1 DEF LateInv, Waits, ForksOf, snapVars
    <3> QED
      BY <2>1, <3>1, SnapStutters
  <2>2. CASE SnapNext
    BY <2>2, StepKeeps
  <2> QED
    BY <2>1, <2>2
<1> QED
  BY <1>1, <1>2, PTL DEF SnapSpec

\* A snapshot that the generation counters call current holds the memory of its
\* branch, for any number of branches, forks and checkpoints (_fork_source: the
\* test of _snap_gen against _gen that lets a fork reuse the files).
THEOREM CurrentSnapshotsHold == SnapSpec => []CurrentIsSaved
<1>1. SnapInv => CurrentIsSaved
  <2> SUFFICES ASSUME SnapInv, NEW b \in (vms \cap running) \ broken,
                      ~mem[b].left, Current(b), exec[b] = "none", ckpt[b] \notin {"write", "mark"},
                      \A c \in ForksOf(b) : pc[c] # "write"
               PROVE  files[b].data = mem[b].data
    BY DEF CurrentIsSaved
  <2>1. b \in ID /\ Quiet(b)
    BY DEF SnapInv, SnapTypeOK, Quiet
  <2> QED
    BY <2>1 DEF SnapInv, Saved, Same
<1> QED
  BY <1>1, SnapshotInvariant, PTL

\* A child starts from one moment of its parent that is not before the fork call,
\* memory and overlay alike (spawn, _fork_source).
THEOREM ForksInherit == SnapSpec => []ForkInherits
<1>1. SnapInv => SnapTypeOK
  BY DEF SnapInv
<1>2. SnapInv => InheritsCurrent
  BY DEF SnapInv, FloorHeld, InheritsCurrent
<1>3. SnapInv => Coherent
  BY DEF SnapInv, CopyFits, Coherent
<1> QED
  BY <1>1, <1>2, <1>3, SnapshotInvariant, PTL DEF ForkInherits

\* No guest stays paused behind a fork or a checkpoint that is over, and none is
\* paused under a command, unless a pause or a resume of it raised: the pause of
\* _fork_source and of checkpoint is outside the try whose finally resumes.
THEOREM NobodyFrozen == SnapSpec => []NeverFrozen
<1>1. SnapInv => NeverFrozen
  <2> SUFFICES ASSUME SnapInv
               PROVE  NeverFrozen
    OBVIOUS
  <2>1. paused \subseteq ID /\ paused \subseteq running
    BY DEF SnapInv, SnapTypeOK
  <2>2. \A b \in paused : Thawed(b)
    BY <2>1 DEF SnapInv
  <2>3. ASSUME NEW b \in ID, exec[b] # "none", b \notin stuck
        PROVE  b \notin paused
    <3>1. \A c \in ForksOf(b) : pc[c] \notin Pausing
      BY <2>3, ExecAlone DEF ForksOf, Locked, Pausing
    <3> QED
      BY <2>1, <2>2, <2>3, <3>1, ExecAlone DEF Thawed
  <2> QED
    BY <2>1, <2>2, <2>3 DEF NeverFrozen, Thawed, Pausing
<1> QED
  BY <1>1, SnapshotInvariant, PTL

=============================================================================
