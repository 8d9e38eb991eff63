---------------------- MODULE FirecrackerSandboxProofs ----------------------
(***************************************************************************)
(* The safety properties of FirecrackerSandbox for any ids, any subnet and  *)
(* any number of processes, faults, crashes and races of kill with restart. *)
(* FCInv is inductive.  A step of one branch leaves what the others have    *)
(* alone (StepKeeps), and does one of five things to the allocator:         *)
(* nothing, a race, a teardown, a setup, or a failed setup, with a lemma    *)
(* each.  Of a raced id FCInv only says that what it names is lost or       *)
(* tangled, which is what keeps the others safe from it.  Crash and Recover *)
(* come last.                                                               *)
(***************************************************************************)
EXTENDS FirecrackerSandbox, FiniteSetTheorems, WellFoundedInduction, TLAPS

-----------------------------------------------------------------------------
\* The inductive invariant behind the safety properties

\* restart() has not yet decided to go on.
Waiting(b) == restarting[b] \in {"none", "called", "paths"}

\* Between its teardown and the removal of netns.idx a branch has given its index back;
\* what a raced id has does not count.
Released(b) == pc[b] \in {"clean", "remove"} \/ restarting[b] \in {"unlink", "abort"}
Held(b) == IF b \in raced \/ Released(b) THEN NoIndex ELSE KnownIndex(b)

\* The processes and the indices that b's handle, records and calls name.
Names(b) == {vms[b], pidfile[b], vm[b], newvm[b]}
IndexNames(b) == {index[b], idxfile[b], idx[b], newidx[b]}

\* The spawns that _parent_forks counts for p.
Forking(p) == {b \in ID : parent[b] = p /\ pc[b] \in SpawnStage \ {"begin"}}

\* _parent_forks counts exactly the spawns from a parent that are under way.
ForksExact ==
    \A p \in ID : IsFiniteSet(Forking(p)) /\ forks[p] = Cardinality(Forking(p))

\* What the stage of a call says of its own variables; without a supervisor there is
\* no call.
CallOf(b) ==
    /\ pc[b] # "none" => up /\ b \in rows
    /\ restarting[b] # "none" \/ vms[b] # 0 \/ index[b] # NoIndex => up
    /\ Names(b) \subseteq 0 .. started
    /\ pc[b] \in {"none", "begin", "netns", "journal", "source", "start", "recover"} => vm[b] = 0
    /\ newvm[b] # 0 <=> restarting[b] \in {"load", "record", "register"}
    /\ pc[b] = "source" => parent[b] # NoBranch
    /\ idx[b] # NoIndex => pc[b] = "journal"
    /\ newidx[b] # NoIndex => restarting[b] = "journal"

\* What a raced id names is lost or tangled.
Entangled(b) == Names(b) \subseteq lost \cup {0} /\ IndexNames(b) \subseteq tangled \cup {NoIndex}

\* One call at a time works on what a branch has.
OneCall(b) ==
    /\ pc[b] = "none" \/ Waiting(b)
    /\ ~Waiting(b) \/ vms[b] # 0 \/ index[b] # NoIndex => b \in rows

\* Which process handle, pid record and call of b name, stage by stage.
ProcsOf(b) ==
    /\ vms[b] # 0 => pidfile[b] = vms[b] /\ pc[b] \in {"none", "unpend"} /\ Waiting(b)
    /\ pc[b] \in SpawnStage \ {"register", "unpend"} => pidfile[b] = 0
    /\ pc[b] \in {"register", "reap"} => pidfile[b] = vm[b]
    /\ pc[b] = "unpend" => vms[b] = vm[b] \/ vm[b] \notin procs
    /\ pc[b] \in {"clean", "teardown", "remove"} => vm[b] \notin procs
    /\ pc[b] \in {"teardown", "remove"} => pidfile[b] \notin procs
    /\ restarting[b] \in {"called", "paths"} =>
          pidfile[b] \notin procs \/ pidfile[b] \in {vms[b], vm[b]}
    /\ ~Waiting(b) /\ restarting[b] # "register" => pidfile[b] \notin procs
    /\ restarting[b] = "register" => pidfile[b] = newvm[b]

\* Where the index of b is recorded, stage by stage.
IndexOf(b) ==
    /\ index[b] # NoIndex => idxfile[b] \in {NoIndex, index[b]}
    /\ vms[b] # 0 => index[b] # NoIndex
    /\ pc[b] \in {"begin", "netns"} \/ restarting[b] \in {"clear", "netns"} =>
          index[b] = NoIndex /\ idxfile[b] = NoIndex
    /\ pc[b] = "journal" => idx[b] = index[b] /\ index[b] # NoIndex
    /\ restarting[b] = "journal" => newidx[b] = index[b] /\ index[b] # NoIndex
    /\ \/ pc[b] \in {"source", "start", "load", "record", "register"}
       \/ restarting[b] \in {"start", "load", "record", "register"}
       => index[b] # NoIndex /\ idxfile[b] = index[b]
    /\ Released(b) => index[b] = NoIndex
    /\ b \in spaces \ stray => Held(b) # NoIndex

\* A branch without a row has left nothing.
GoneOf(b) ==
    b \notin rows =>
        /\ vms[b] = 0 /\ pidfile[b] = 0 /\ idxfile[b] = NoIndex /\ b \notin saved
        /\ b \in spaces => b \in stray

Sound(b) == OneCall(b) /\ ProcsOf(b) /\ IndexOf(b) /\ GoneOf(b)
OwnParts(b) == CallOf(b) /\ (IF b \in raced THEN Entangled(b) ELSE Sound(b))

\* Every index below the cursor is free or held, and a held one by one branch only,
\* whose veth it is; shared and tangled ones aside.  Without a supervisor the files
\* alone tell.
IndicesSound ==
    /\ up => /\ free \subseteq 0 .. next - 1
             /\ \A b \in ID : IndexNames(b) \subseteq (0 .. next - 1) \cup {NoIndex}
             /\ \A b \in ID : Held(b) \in Index \ (shared \cup tangled) =>
                   Held(b) \notin free /\ \A c \in ID \ {b} : Held(c) # Held(b)
             /\ \A i \in (0 .. next - 1) \ tangled : i \in free \/ \E b \in ID : Held(b) = i
             /\ \A b \in ID : index[b] \in Index \ (shared \cup tangled) => veths[index[b]] = b
    /\ ~up => \A b, c \in ID : b # c /\ idxfile[b] = idxfile[c] /\ idxfile[b] # NoIndex
                               => idxfile[b] \in shared

FCInv ==
    /\ FCTypeOK /\ ForksExact /\ OnlyKnownOrphans /\ IndicesSound
    /\ \A b \in ID : OwnParts(b)
-----------------------------------------------------------------------------
\* What a step of b leaves alone.
OthersSame(b) ==
    /\ up' = up /\ lost \subseteq lost' /\ tangled \subseteq tangled'
    /\ \A c \in ID \ {b} :
          /\ vms'[c] = vms[c] /\ pidfile'[c] = pidfile[c] /\ vm'[c] = vm[c]
          /\ newvm'[c] = newvm[c] /\ pc'[c] = pc[c] /\ restarting'[c] = restarting[c]
          /\ index'[c] = index[c] /\ idxfile'[c] = idxfile[c] /\ parent'[c] = parent[c]
          /\ idx'[c] = idx[c] /\ newidx'[c] = newidx[c]
          /\ c \in raced' <=> c \in raced
          /\ c \in rows' <=> c \in rows
          /\ c \in spaces' <=> c \in spaces
          /\ c \in stray' <=> c \in stray
          /\ c \in saved' => c \in saved \/ c \in rows \/ c \in raced

\* Processes are only added under new numbers, and b knows of the one it adds.
ProcsGrow(b) ==
    /\ started' \in Nat /\ started <= started'
    /\ \A n \in procs' : n \in procs \/ (n > started /\ n \in {vm'[b], newvm'[b]})

\* Of what b named nothing that runs is forgotten.
NothingForgotten(b) == \A n \in Names(b) : n \in procs' => n \in Names(b)' \cup lost'

\* NoIndex is the one number after the indices.
LEMMA IndexRange ==
    /\ \A j \in 0 .. Capacity : j = NoIndex \/ j \in Index
    /\ NoIndex \notin Index /\ \A j \in Index : j \in 0 .. Capacity
    BY FCAssumption DEF NoIndex, Index

\* Functions and numbers of the state, as the steps below need them.
LEMMA TypeFacts ==
    ASSUME FCInv, NEW b \in ID
    PROVE  /\ FCTypeOK /\ CallOf(b)
           /\ b \in raced => Entangled(b)
           /\ b \notin raced => Sound(b) /\ OneCall(b) /\ ProcsOf(b) /\ IndexOf(b) /\ GoneOf(b)
           /\ started \in Nat /\ procs \subseteq 1 .. started /\ 0 \notin procs
           /\ MaxVMs \in Nat /\ Capacity \in Nat /\ faults \in 0 .. MaxFaults /\ MaxFaults \in Nat
    BY FCAssumption DEF FCInv, FCTypeOK, OwnParts, Sound

\* A step of one branch keeps what is said of the others.
LEMMA OthersKeep ==
    ASSUME FCInv, NEW b \in ID, OthersSame(b), ProcsGrow(b), NEW c \in ID \ {b}
    PROVE  OwnParts(c)'
<1> USE TypeFacts
<1>1. /\ started \in Nat /\ started' \in Nat /\ started <= started'
      /\ vms[c] \in 0 .. started /\ pidfile[c] \in 0 .. started
      /\ vm[c] \in 0 .. started /\ newvm[c] \in 0 .. started
    BY DEF CallOf, Names, ProcsGrow
<1>2. CallOf(c)'
  <2>1. Names(c)' \subseteq 0 .. started'
    BY <1>1 DEF Names, OthersSame
  <2> QED
    BY <2>1 DEF CallOf, OthersSame
<1>3. CASE c \in raced
    BY <1>2, <1>3 DEF OwnParts, Entangled, Names, IndexNames, OthersSame
<1>4. CASE c \notin raced
  <2>1. OneCall(c)' /\ GoneOf(c)'
    BY <1>4 DEF OneCall, Waiting, GoneOf, OthersSame
  <2>2. IndexOf(c)'
    BY <1>4 DEF IndexOf, Held, Released, KnownIndex, OthersSame
  <2>3. /\ pidfile[c] \notin procs => pidfile[c] \notin procs'
        /\ vm[c] \notin procs => vm[c] \notin procs'
    BY <1>1 DEF ProcsGrow
  <2>4. ProcsOf(c)'
    BY <1>4, <2>3 DEF ProcsOf, Waiting, OthersSame
  <2> QED
    BY <1>2, <1>4, <2>1, <2>2, <2>4 DEF OwnParts, Sound, OthersSame
<1> QED
    BY <1>3, <1>4

\* No process becomes an orphan by a step that forgets none.
LEMMA OrphansKeep ==
    ASSUME FCInv, NEW b \in ID, OthersSame(b), ProcsGrow(b), NothingForgotten(b)
    PROVE  OnlyKnownOrphans'
<1>1. SUFFICES ASSUME NEW n \in procs'
               PROVE  n \in Reachable' \cup lost'
    BY DEF OnlyKnownOrphans
<1>2. CASE n \notin procs
    BY <1>2 DEF ProcsGrow, Reachable
<1>3. CASE n \in procs
  <2>1. n \in Reachable \cup lost
    BY <1>3 DEF FCInv, OnlyKnownOrphans
  <2>2. CASE n \in lost
    BY <2>2 DEF OthersSame
  <2>3. CASE n \in Reachable
    <3>1. PICK c \in ID : n \in Names(c)
      BY <2>3 DEF Reachable, Names
    <3>2. CASE c = b
      BY <3>1, <3>2 DEF NothingForgotten, Names, Reachable
    <3>3. CASE c # b
      <4>1. n \in {vms'[c], pidfile'[c], vm'[c], newvm'[c]}
        BY <3>1, <3>3 DEF OthersSame, Names
      <4> QED
        BY <4>1 DEF Reachable
    <3> QED
      BY <3>2, <3>3
  <2> QED
    BY <2>1, <2>2, <2>3
<1> QED
    BY <1>2, <1>3

\* What a step of b has to establish.
LEMMA StepKeeps ==
    ASSUME FCInv, NEW b \in ID, OthersSame(b), ProcsGrow(b), NothingForgotten(b),
           FCTypeOK', OwnParts(b)', IndicesSound', ForksExact'
    PROVE  FCInv'
<1>1. \A c \in ID : OwnParts(c)'
    BY OthersKeep
<1> QED
    BY <1>1, OrphansKeep DEF FCInv

\* The processes of a raced id are lost already.
LEMMA RacedForgets ==
    ASSUME FCInv, NEW b \in ID, Names(b) \subseteq lost' \cup {0}, FCTypeOK'
    PROVE  NothingForgotten(b)
<1>1. 0 \notin procs'
    BY FCAssumption DEF FCTypeOK
<1> QED
    BY <1>1 DEF NothingForgotten

\* Nothing changes for the allocator, but an index may become tangled.
LEMMA IndicesStay ==
    ASSUME FCInv, up, UNCHANGED <<index, free, next, veths, shared, up>>, tangled \subseteq tangled',
           \A c \in ID : /\ IndexNames(c)' \subseteq IndexNames(c) \cup {NoIndex}
                         /\ \/ Held(c)' = Held(c)
                            \/ Held(c)' = NoIndex /\ Held(c) \in tangled' \cup {NoIndex}
    PROVE  IndicesSound'
<1>1. NoIndex \notin Index /\ next \in 0 .. Capacity /\ Capacity \in Nat
    BY FCAssumption DEF FCInv, FCTypeOK, NoIndex, Index
<1>2. /\ free \subseteq 0 .. next - 1
      /\ \A b \in ID : IndexNames(b) \subseteq (0 .. next - 1) \cup {NoIndex}
    BY DEF FCInv, IndicesSound
<1>3. \A b \in ID : IndexNames(b)' \subseteq (0 .. next' - 1) \cup {NoIndex}
    BY <1>2
<1>4. ASSUME NEW c \in ID, Held(c)' \in Index \ (shared' \cup tangled')
      PROVE  Held(c)' \notin free' /\ \A d \in ID \ {c} : Held(d)' # Held(c)'
  <2>1. Held(c)' = Held(c) /\ Held(c) \in Index \ (shared \cup tangled)
    BY <1>1, <1>4
  <2>2. Held(c) \notin free /\ \A d \in ID \ {c} : Held(d) # Held(c)
    BY <2>1 DEF FCInv, IndicesSound
  <2> QED
    BY <1>1, <2>1, <2>2
<1>5. ASSUME NEW i \in (0 .. next' - 1) \ tangled'
      PROVE  i \in free' \/ \E c \in ID : Held(c)' = i
  <2>1. i # NoIndex /\ i \in (0 .. next - 1) \ tangled
    BY <1>1, <1>5 DEF NoIndex
  <2>2. i \in free \/ \E c \in ID : Held(c) = i
    BY <2>1 DEF FCInv, IndicesSound
  <2> QED
    BY <1>5, <2>1, <2>2
<1>6. \A c \in ID : index'[c] \in Index \ (shared' \cup tangled') => veths'[index'[c]] = c
    BY DEF FCInv, IndicesSound
<1> QED
    BY <1>2, <1>3, <1>4, <1>5, <1>6 DEF IndicesSound

\* A finite set that gains or loses one branch.
LEMMA OneBranch ==
    ASSUME NEW S, NEW T, NEW b, IsFiniteSet(S)
    PROVE  /\ Cardinality(S) \in Nat
           /\ T = S \cup {b} /\ b \notin S =>
                IsFiniteSet(T) /\ Cardinality(T) = Cardinality(S) + 1
           /\ T = S \ {b} /\ b \in S =>
                IsFiniteSet(T) /\ Cardinality(T) = Cardinality(S) - 1 /\ Cardinality(S) > 0
<1>1. Cardinality(S) \in Nat
    BY FS_CardinalityType
<1>2. T = S \cup {b} /\ b \notin S => IsFiniteSet(T) /\ Cardinality(T) = Cardinality(S) + 1
    BY FS_AddElement
<1>3. T = S \ {b} /\ b \in S => IsFiniteSet(T) /\ Cardinality(T) = Cardinality(S) - 1
    BY FS_RemoveElement
<1>4. T = S \ {b} /\ b \in S => Cardinality(T) \in Nat
    BY <1>3, FS_CardinalityType
<1> QED
    BY <1>1, <1>2, <1>3, <1>4

\* No spawn enters or leaves the count of its parent.
LEMMA ForksStay ==
    ASSUME FCInv, NEW b \in ID, forks' = forks, OthersSame(b),
           \A p \in ID : b \in Forking(p)' <=> b \in Forking(p)
    PROVE  ForksExact'
<1>1. \A p \in ID : Forking(p)' = Forking(p)
    BY DEF Forking, OthersSame
<1> QED
    BY <1>1 DEF FCInv, ForksExact

\* A step of b that leaves the allocator and the counts of forks alone.
LEMMA QuietKeeps ==
    ASSUME FCInv, NEW b \in ID, up, OthersSame(b), ProcsGrow(b), FCTypeOK', CallOf(b)',
           UNCHANGED <<index, free, next, veths, shared>>, ForksExact',
           IndexNames(b)' \subseteq IndexNames(b) \cup {NoIndex},
           b \in raced' <=> b \in raced,
           b \in raced => Names(b)' \subseteq Names(b) \cup lost' \cup {0},
           b \notin raced => NothingForgotten(b) /\ Sound(b)' /\ Held(b)' = Held(b)
    PROVE  FCInv'
<1> USE TypeFacts
<1>1. \A c \in ID \ {b} : Held(c)' = Held(c) /\ IndexNames(c)' = IndexNames(c)
    BY DEF Held, Released, KnownIndex, IndexNames, OthersSame
<1>2. Held(b)' = Held(b)
    BY DEF Held
<1>3. IndicesSound'
    BY <1>1, <1>2, IndicesStay DEF OthersSame
<1>4. CASE b \in raced
  <2>1. Entangled(b)'
    BY <1>4 DEF Entangled, OthersSame
  <2>2. NothingForgotten(b)
    BY <1>4, RacedForgets DEF Entangled, OthersSame
  <2> QED
    BY <1>3, <1>4, <2>1, <2>2, StepKeeps DEF OwnParts
<1>5. CASE b \notin raced
    BY <1>3, <1>5, StepKeeps DEF OwnParts
<1> QED
    BY <1>4, <1>5

\* A race: what b has is lost and tangled from now on.
LEMMA RaceKeeps ==
    ASSUME FCInv, NEW b \in ID, up, Race(b), OthersSame(b), ProcsGrow(b), FCTypeOK', CallOf(b)',
           UNCHANGED <<index, free, next, veths, shared>>,
           IndexNames(b)' \subseteq IndexNames(b) \cup {NoIndex},
           Names(b)' \subseteq Names(b) \cup {0}, ForksExact'
    PROVE  FCInv'
<1>1. /\ b \in raced' /\ Names(b) \subseteq lost' \cup {0}
      /\ IndexNames(b) \subseteq tangled' \cup {NoIndex}
    BY DEF Race, Names, IndexNames
<1>2. \A c \in ID \ {b} : Held(c)' = Held(c) /\ IndexNames(c)' = IndexNames(c)
    BY DEF Held, Released, KnownIndex, IndexNames, OthersSame
<1>3. Held(b)' = NoIndex /\ Held(b) \in tangled' \cup {NoIndex}
    BY <1>1 DEF Held, KnownIndex, IndexNames
<1>4. IndicesSound'
    BY <1>2, <1>3, IndicesStay DEF OthersSame
<1>5. NothingForgotten(b)
    BY <1>1, RacedForgets
<1>6. OwnParts(b)'
    BY <1>1 DEF OwnParts, Entangled
<1> QED
    BY <1>4, <1>5, <1>6, StepKeeps

-----------------------------------------------------------------------------
\* NetnsManager

\* What the network variables are after a step of the allocator.
NetTypes ==
    /\ index \in [ID -> 0 .. Capacity] /\ free \subseteq Index /\ next \in 0 .. Capacity
    /\ spaces \subseteq ID /\ stray \subseteq ID /\ veths \in [Index -> ID \cup {NoBranch}]

\* An index in memory that is not tangled is held.
LEMMA IndexIsHeld ==
    ASSUME FCInv, NEW c \in ID, index[c] # NoIndex, index[c] \notin tangled
    PROVE  c \notin raced /\ Held(c) = index[c]
<1> USE TypeFacts
<1>1. c \notin raced
    BY DEF Entangled, IndexNames
<1> QED
    BY <1>1 DEF IndexOf, Held, KnownIndex

\* teardown gives back the index of b and takes only b's veth away.
LEMMA TeardownKeeps ==
    ASSUME FCInv, NEW b \in ID, Teardown(b), up, Held(b)' = NoIndex,
           b \in raced \/ Held(b) = KnownIndex(b),
           UNCHANGED <<idxfile, idx, newidx, shared, tangled>>, OthersSame(b)
    PROVE  IndicesSound' /\ NetTypes'
<1> USE TypeFacts
<1> DEFINE k == KnownIndex(b)
<1>1. /\ index \in [ID -> 0 .. Capacity] /\ idxfile \in [ID -> 0 .. Capacity]
      /\ free \subseteq Index /\ next \in 0 .. Capacity /\ NoIndex \notin Index
      /\ spaces \subseteq ID /\ stray \subseteq ID /\ veths \in [Index -> ID \cup {NoBranch}]
    BY IndexRange DEF FCTypeOK
<1>2. \A j \in 0 .. Capacity : j = NoIndex \/ j \in Index
    BY IndexRange
<1>3. /\ k \in 0 .. Capacity /\ \A c \in ID \ {b} : Held(c)' = Held(c)
      /\ Held(b) = k \/ (Held(b) = NoIndex /\ k \in tangled \cup {NoIndex})
    BY <1>1 DEF Held, Released, KnownIndex, OthersSame, Entangled, IndexNames
<1>4. /\ index'[b] = NoIndex /\ next' = next
      /\ \A c \in ID \ {b} : index'[c] = index[c]
    BY <1>1 DEF Teardown
<1>5. /\ free' = IF k = NoIndex THEN free ELSE free \cup {k}
      /\ \A j \in Index : veths'[j] = veths[j] \/ j = k \/ veths[j] = b
    BY <1>1 DEF Teardown, Unplug
<1>6. NetTypes'
  <2>1. index' \in [ID -> 0 .. Capacity]
    BY <1>1 DEF Teardown, NoIndex
  <2>2. free' \subseteq Index /\ next' \in 0 .. Capacity
    BY <1>1, <1>2, <1>3, <1>4, <1>5
  <2>3. spaces' \subseteq ID /\ stray' \subseteq ID /\ veths' \in [Index -> ID \cup {NoBranch}]
    BY <1>1 DEF Teardown, Unplug
  <2> QED
    BY <2>1, <2>2, <2>3 DEF NetTypes
<1>7. /\ free' \subseteq 0 .. next' - 1
      /\ \A c \in ID : IndexNames(c)' \subseteq (0 .. next' - 1) \cup {NoIndex}
  <2>1. /\ free \subseteq 0 .. next - 1
        /\ \A c \in ID : IndexNames(c) \subseteq (0 .. next - 1) \cup {NoIndex}
    BY DEF FCInv, IndicesSound
  <2>2. k \in IndexNames(b)
    BY DEF KnownIndex, IndexNames
  <2>3. \A c \in ID : IndexNames(c)' \subseteq IndexNames(c) \cup {NoIndex}
    BY <1>4 DEF IndexNames, OthersSame
  <2> HIDE DEF k
  <2> QED
    BY <1>4, <1>5, <2>1, <2>2, <2>3
<1>8. ASSUME NEW c \in ID, Held(c)' \in Index \ (shared \cup tangled)
      PROVE  Held(c)' \notin free' /\ \A d \in ID \ {c} : Held(d)' # Held(c)'
  <2>1. c # b /\ Held(c)' = Held(c)
    BY <1>1, <1>3, <1>8
  <2>2. Held(c) \notin free /\ \A d \in ID \ {c} : Held(d) # Held(c)
    BY <1>8, <2>1 DEF FCInv, IndicesSound
  <2> HIDE DEF k
  <2> QED
    BY <1>1, <1>3, <1>5, <1>8, <2>1, <2>2
<1>9. ASSUME NEW i \in (0 .. next' - 1) \ tangled
      PROVE  i \in free' \/ \E c \in ID : Held(c)' = i
  <2>1. i \in 0 .. next - 1 /\ i # NoIndex
    BY <1>1, <1>4, <1>9 DEF NoIndex
  <2>2. i \in free \/ \E c \in ID : Held(c) = i
    BY <1>9, <2>1 DEF FCInv, IndicesSound
  <2> HIDE DEF k
  <2> QED
    BY <1>1, <1>3, <1>5, <2>1, <2>2
<1>10. ASSUME NEW c \in ID, index'[c] \in Index \ (shared \cup tangled)
       PROVE  veths'[index'[c]] = c
  <2>1. c # b /\ index'[c] = index[c] /\ index[c] # NoIndex /\ index[c] \notin tangled
    BY <1>1, <1>4, <1>10
  <2>2. Held(c) = index[c]
    BY <2>1, IndexIsHeld
  <2>3. veths[index[c]] = c /\ Held(c) # Held(b)
    BY <1>10, <2>1, <2>2 DEF FCInv, IndicesSound
  <2> HIDE DEF k
  <2> QED
    BY <1>1, <1>3, <1>5, <1>10, <2>1, <2>2, <2>3
<1>11. IndicesSound'
    BY <1>7, <1>8, <1>9, <1>10 DEF IndicesSound, OthersSame
<1> QED
    BY <1>6, <1>11

\* setup gives b an index that nobody holds.
LEMMA SetupKeeps ==
    ASSUME FCInv, NEW b \in ID, NEW i \in Allocatable, SetupOk(b, i), up, Held(b) = NoIndex,
           Held(b)' = i \/ (Held(b)' = NoIndex /\ i \in tangled'),
           IndexNames(b)' \subseteq IndexNames(b) \cup {i},
           shared' = shared, OthersSame(b)
    PROVE  IndicesSound' /\ NetTypes'
<1> USE TypeFacts
<1>1. /\ index \in [ID -> 0 .. Capacity] /\ free \subseteq Index /\ next \in 0 .. Capacity
      /\ NoIndex \notin Index /\ spaces \subseteq ID /\ stray \subseteq ID
      /\ veths \in [Index -> ID \cup {NoBranch}]
    BY DEF FCTypeOK, NoIndex, Index
<1>2. i \in Index /\ i \in 0 .. Capacity /\ (i \in free \/ (i = next /\ next < Capacity))
    BY <1>1 DEF Allocatable, Index
<1>3. /\ free' = free \ {i} /\ next' = (IF i \in free THEN next ELSE next + 1)
      /\ index' = [index EXCEPT ![b] = i] /\ veths' = [veths EXCEPT ![i] = b]
      /\ spaces' = spaces \cup {b} /\ stray' = stray /\ tangled \subseteq tangled'
    BY DEF SetupOk, Cursor
<1>4. NetTypes'
    BY <1>1, <1>2, <1>3 DEF NetTypes
<1>5. \A c \in ID \ {b} : Held(c)' = Held(c) /\ IndexNames(c)' = IndexNames(c)
    BY DEF Held, Released, KnownIndex, IndexNames, OthersSame
<1>6. /\ free \subseteq 0 .. next - 1
      /\ \A c \in ID : IndexNames(c) \subseteq (0 .. next - 1) \cup {NoIndex}
      /\ \A c \in ID : Held(c) \in IndexNames(c) \cup {NoIndex}
    BY DEF FCInv, IndicesSound, Held, KnownIndex, IndexNames
<1>7. \A c \in ID : Held(c) = i => i \in shared \cup tangled
    BY <1>1, <1>2, <1>6 DEF FCInv, IndicesSound
<1>8. i \notin free' /\ i < next' /\ next <= next' /\ free' \subseteq 0 .. next' - 1
      /\ next' \in Nat
    BY <1>1, <1>2, <1>3, <1>6
<1>9. ASSUME NEW c \in ID
      PROVE  IndexNames(c)' \subseteq (0 .. next' - 1) \cup {NoIndex}
  <2>1. IndexNames(c)' \subseteq IndexNames(c) \cup {i}
    BY <1>5
  <2>2. 0 .. next - 1 \subseteq 0 .. next' - 1
    BY <1>1, <1>3
  <2>3. i \in 0 .. next' - 1
    BY <1>1, <1>2, <1>3, <1>6
  <2> QED
    BY <1>6, <2>1, <2>2, <2>3
<1>10. ASSUME NEW c \in ID, Held(c)' \in Index \ (shared \cup tangled')
       PROVE  Held(c)' \notin free' /\ \A d \in ID \ {c} : Held(d)' # Held(c)'
  <2>1. CASE c = b
    BY <1>1, <1>3, <1>5, <1>7, <1>8, <1>10, <2>1
  <2>2. CASE c # b
    <3>1. /\ Held(c) \notin free /\ Held(c) # i /\ Held(c) # NoIndex
          /\ \A d \in ID \ {c} : Held(d) # Held(c)
      BY <1>1, <1>3, <1>5, <1>7, <1>10, <2>2 DEF FCInv, IndicesSound
    <3> QED
      BY <1>3, <1>5, <2>2, <3>1
  <2> QED
    BY <2>1, <2>2
<1>11. ASSUME NEW j \in (0 .. next' - 1) \ tangled'
       PROVE  j \in free' \/ \E c \in ID : Held(c)' = j
  <2>1. j = i \/ j \in (0 .. next - 1) \ tangled
    BY <1>1, <1>2, <1>3, <1>11
  <2>2. CASE j # i
    <3>1. j \in free \/ \E c \in ID : Held(c) = j
      BY <2>1, <2>2 DEF FCInv, IndicesSound
    <3>2. j # NoIndex
      BY <1>1, <1>2, <2>1, <2>2 DEF NoIndex
    <3> QED
      BY <1>3, <1>5, <2>2, <3>1, <3>2
  <2> QED
    BY <1>11, <2>2
<1>12. ASSUME NEW c \in ID, index'[c] \in Index \ (shared \cup tangled')
       PROVE  veths'[index'[c]] = c
  <2>1. CASE c = b
    BY <1>1, <1>2, <1>3, <2>1
  <2>2. CASE c # b
    <3>1. index'[c] = index[c] /\ index[c] # NoIndex /\ index[c] \notin tangled
      BY <1>1, <1>3, <1>12, <2>2
    <3>2. Held(c) = index[c] /\ veths[index[c]] = c
      BY <1>12, <3>1, IndexIsHeld DEF FCInv, IndicesSound
    <3> QED
      BY <1>1, <1>2, <1>3, <1>7, <1>12, <3>1, <3>2
  <2> QED
    BY <2>1, <2>2
<1>13. IndicesSound'
    BY <1>8, <1>9, <1>10, <1>11, <1>12 DEF IndicesSound, OthersSame
<1> QED
    BY <1>4, <1>13

\* A failed setup leaves its index free and reaches no other branch's veth.
LEMMA SetupFailsKeeps ==
    ASSUME FCInv, NEW b \in ID, SetupFails(b), up, b \in raced \/ index[b] = NoIndex,
           Held(b) = NoIndex, Held(b)' = NoIndex, UNCHANGED <<idxfile, idx, newidx, shared>>,
           OthersSame(b)
    PROVE  IndicesSound' /\ NetTypes'
<1> USE TypeFacts
<1>1. /\ index \in [ID -> 0 .. Capacity] /\ free \subseteq Index /\ next \in 0 .. Capacity
      /\ NoIndex \notin Index /\ spaces \subseteq ID /\ stray \subseteq ID
      /\ veths \in [Index -> ID \cup {NoBranch}]
    BY DEF FCTypeOK, NoIndex, Index
<1>2. index' = index /\ tangled' = tangled
    BY DEF SetupFails, network
<1>3. \A c \in ID : Held(c)' = Held(c) /\ IndexNames(c)' = IndexNames(c)
    BY <1>2 DEF Held, Released, KnownIndex, IndexNames, OthersSame
<1>4. CASE UNCHANGED network
  <2>1. IndicesSound'
    BY <1>2, <1>3, <1>4, IndicesStay DEF network, OthersSame
  <2> QED
    BY <1>1, <1>4, <2>1 DEF NetTypes, network
<1>5. ASSUME NEW i \in Allocatable, Unplug(b, i), free' = free \cup {i}, next' = Cursor(i)
      PROVE  IndicesSound' /\ NetTypes'
  <2>1. i \in Index /\ i \in 0 .. Capacity /\ (i \in free \/ (i = next /\ next < Capacity))
    BY <1>1 DEF Allocatable, Index
  <2>2. next' = IF i \in free THEN next ELSE next + 1
    BY <1>5 DEF Cursor
  <2>3. NetTypes'
    BY <1>1, <1>2, <1>5, <2>1, <2>2 DEF NetTypes, Unplug
  <2>4. /\ free \subseteq 0 .. next - 1
        /\ \A c \in ID : IndexNames(c) \subseteq (0 .. next - 1) \cup {NoIndex}
        /\ \A c \in ID : Held(c) \in IndexNames(c) \cup {NoIndex}
    BY DEF FCInv, IndicesSound, Held, KnownIndex, IndexNames
  <2>5. \A c \in ID : Held(c) = i => i \in shared \cup tangled
    BY <1>1, <2>1, <2>4 DEF FCInv, IndicesSound
  <2>6. next <= next' /\ free' \subseteq 0 .. next' - 1
    BY <1>1, <1>5, <2>1, <2>2, <2>4
  <2>7. \A c \in ID : IndexNames(c)' \subseteq (0 .. next' - 1) \cup {NoIndex}
    <3>1. 0 .. next - 1 \subseteq 0 .. next' - 1
      BY <1>1, <2>2
    <3> QED
      BY <1>3, <2>4, <3>1
  <2>8. ASSUME NEW c \in ID, Held(c)' \in Index \ (shared \cup tangled)
        PROVE  Held(c)' \notin free' /\ \A d \in ID \ {c} : Held(d)' # Held(c)'
    <3>1. /\ Held(c) \notin free /\ Held(c) # i
          /\ \A d \in ID \ {c} : Held(d) # Held(c)
      BY <1>3, <2>5, <2>8 DEF FCInv, IndicesSound
    <3> QED
      BY <1>3, <1>5, <3>1
  <2>9. ASSUME NEW j \in (0 .. next' - 1) \ tangled
        PROVE  j \in free' \/ \E c \in ID : Held(c)' = j
    <3>1. j = i \/ j \in (0 .. next - 1) \ tangled
      BY <1>1, <2>1, <2>2, <2>9
    <3> QED
      BY <1>3, <1>5, <3>1 DEF FCInv, IndicesSound
  <2>10. ASSUME NEW c \in ID, index'[c] \in Index \ (shared \cup tangled)
         PROVE  veths'[index'[c]] = c
    <3>1. index[c] # NoIndex /\ index[c] \notin tangled
      BY <1>1, <1>2, <2>10
    <3>2. c \notin raced /\ Held(c) = index[c] /\ veths[index[c]] = c
      BY <1>2, <2>10, <3>1, IndexIsHeld DEF FCInv, IndicesSound
    <3>3. c # b
      BY <3>1, <3>2
    <3> QED
      BY <1>1, <1>2, <1>5, <2>5, <2>10, <3>1, <3>2, <3>3 DEF Unplug
  <2>11. IndicesSound'
    BY <1>2, <2>6, <2>7, <2>8, <2>9, <2>10 DEF IndicesSound, OthersSame
  <2> QED
    BY <2>3, <2>11
<1> QED
    BY <1>4, <1>5 DEF SetupFails

-----------------------------------------------------------------------------
\* spawn

\* create_parent or fork journals b, of which nothing is left.
LEMMA RequestKeeps ==
    ASSUME FCInv, NEW b \in ID, NEW p \in ID \cup {NoBranch}, Request(b, p)
    PROVE  FCInv'
<1> USE TypeFacts
<1>1. /\ up /\ b \notin rows /\ rows' = rows \cup {b}
      /\ UNCHANGED <<up, crashes, vms, pending, forks, procs, started, lost, stray, shared, raced,
                     tangled, pidfile, dirs, saved, idxfile, index, free, next, spaces, veths, vm,
                     idx, restarting, newvm, newidx, faults>>
    BY DEF Request, Goto, handles, vmm, history, files, network, restarts
<1>2. parent' = [parent EXCEPT ![b] = p] /\ pc' = [pc EXCEPT ![b] = "begin"]
    BY <1>1 DEF Request, Goto, handles, vmm, history, files, network, restarts
<1>3. FCTypeOK'
    BY <1>1, <1>2 DEF FCTypeOK, SpawnStage, KillStage, RestartStage, NoIndex
<1>4. /\ pc'[b] = "begin" /\ b \in rows'
      /\ \A c \in ID \ {b} : pc'[c] = pc[c] /\ parent'[c] = parent[c]
    BY <1>1, <1>2 DEF FCTypeOK
<1>5. up /\ pc[b] = "none"
    BY <1>1 DEF CallOf
<1>6. OthersSame(b) /\ ProcsGrow(b)
    BY <1>1, <1>2, <1>4, <1>5 DEF OthersSame, ProcsGrow
<1>7. CallOf(b)' /\ IndexNames(b)' \subseteq IndexNames(b) \cup {NoIndex}
    BY <1>1, <1>2, <1>4, <1>5 DEF CallOf, Names, IndexNames, RestartStage
<1>8. b \in raced => Names(b)' \subseteq Names(b) \cup lost' \cup {0}
    BY <1>1, <1>2, <1>4 DEF Names
<1>9. ASSUME b \notin raced PROVE  NothingForgotten(b) /\ Sound(b)' /\ Held(b)' = Held(b)
  <2>1. Waiting(b) /\ vms[b] = 0 /\ pidfile[b] = 0 /\ index[b] = NoIndex /\ idxfile[b] = NoIndex
    BY <1>1, <1>5, <1>9 DEF CallOf, OneCall, ProcsOf, IndexOf, GoneOf, Waiting, Released, Held,
       KnownIndex, SpawnStage
  <2>2. NothingForgotten(b)
    BY <1>1, <1>2, <1>4, <2>1 DEF NothingForgotten, Names
  <2>3. OneCall(b)' /\ GoneOf(b)'
    BY <1>1, <1>2, <1>4, <1>9, <2>1 DEF OneCall, GoneOf, Waiting
  <2>4. ProcsOf(b)'
    BY <1>1, <1>2, <1>4, <1>5, <1>9, <2>1 DEF ProcsOf, CallOf, Names, Waiting, SpawnStage
  <2>5. IndexOf(b)' /\ Held(b)' = Held(b)
    BY <1>1, <1>2, <1>4, <1>9, <2>1 DEF IndexOf, Released, Held, KnownIndex
  <2> QED
    BY <2>2, <2>3, <2>4, <2>5 DEF Sound
<1>10. ForksExact'
  <2>1. \A q \in ID : b \in Forking(q)' <=> b \in Forking(q)
    BY <1>1, <1>2, <1>4, <1>5 DEF Forking, SpawnStage, KillStage
  <2> QED
    BY <1>1, <1>6, <2>1, ForksStay
<1> QED
    BY <1>1, <1>3, <1>5, <1>6, <1>7, <1>8, <1>9, <1>10, QuietKeeps

\* A spawn enters the count of its parent, and leaves it in its finally block.
LEMMA ForkCounted ==
    ASSUME FCInv, NEW b \in ID, pc[b] = "begin", pc'[b] = "netns", parent' = parent,
           \A c \in ID \ {b} : pc'[c] = pc[c],
           forks' = IF parent[b] = NoBranch THEN forks ELSE [forks EXCEPT ![parent[b]] = @ + 1]
    PROVE  ForksExact' /\ forks' \in [ID -> Nat]
<1> DEFINE p == parent[b]
<1>1. p \in ID \cup {NoBranch} /\ forks \in [ID -> Nat]
    BY DEF FCInv, FCTypeOK
<1>2. \A q \in ID : /\ q # p => Forking(q)' = Forking(q)
                    /\ q = p => Forking(q)' = Forking(q) \cup {b} /\ b \notin Forking(q)
    BY DEF Forking, SpawnStage
<1>3. \A q \in ID : IsFiniteSet(Forking(q)) /\ forks[q] = Cardinality(Forking(q))
    BY DEF FCInv, ForksExact
<1>4. ASSUME NEW q \in ID
      PROVE  IsFiniteSet(Forking(q)') /\ forks'[q] = Cardinality(Forking(q)')
  <2>1. CASE q = p
    <3>1. forks'[q] = forks[q] + 1
      BY <1>1, <2>1, FCAssumption
    <3> QED
      BY <1>2, <1>3, <2>1, <3>1, OneBranch
  <2>2. CASE q # p
    <3>1. forks'[q] = forks[q]
      BY <1>1, <2>2
    <3> QED
      BY <1>2, <1>3, <2>2, <3>1
  <2> QED
    BY <2>1, <2>2
<1>5. forks' \in [ID -> Nat]
    BY <1>1
<1> QED
    BY <1>4, <1>5 DEF ForksExact

LEMMA ForkUncounted ==
    ASSUME FCInv, NEW b \in ID, pc[b] = "unpend", pc'[b] = "none", parent'[b] = NoBranch,
           \A c \in ID \ {b} : pc'[c] = pc[c] /\ parent'[c] = parent[c],
           forks' = IF parent[b] = NoBranch THEN forks ELSE [forks EXCEPT ![parent[b]] = @ - 1]
    PROVE  ForksExact' /\ forks' \in [ID -> Nat]
<1> DEFINE p == parent[b]
<1>1. p \in ID \cup {NoBranch} /\ forks \in [ID -> Nat]
    BY DEF FCInv, FCTypeOK
<1>2. \A q \in ID : /\ q # p => Forking(q)' = Forking(q)
                    /\ q = p => Forking(q)' = Forking(q) \ {b} /\ b \in Forking(q)
    BY FCAssumption DEF Forking, SpawnStage
<1>3. \A q \in ID : IsFiniteSet(Forking(q)) /\ forks[q] = Cardinality(Forking(q))
    BY DEF FCInv, ForksExact
<1>4. ASSUME NEW q \in ID
      PROVE  /\ IsFiniteSet(Forking(q)') /\ forks'[q] = Cardinality(Forking(q)')
             /\ forks'[q] \in Nat
  <2>1. CASE q = p
    <3>1. forks'[q] = forks[q] - 1
      BY <1>1, <2>1, FCAssumption
    <3>2. /\ IsFiniteSet(Forking(q)') /\ Cardinality(Forking(q)') = Cardinality(Forking(q)) - 1
          /\ Cardinality(Forking(q)) > 0 /\ Cardinality(Forking(q)) \in Nat
      BY <1>2, <1>3, <2>1, OneBranch
    <3> QED
      BY <1>3, <3>1, <3>2
  <2>2. CASE q # p
    <3>1. forks'[q] = forks[q]
      BY <1>1, <2>2
    <3> QED
      BY <1>1, <1>2, <1>3, <2>2, <3>1
  <2> QED
    BY <2>1, <2>2
<1>5. forks' \in [ID -> Nat]
    BY <1>1, <1>4
<1> QED
    BY <1>4, <1>5 DEF ForksExact

\* The count of the parent takes in the spawn, or the spawn raises first.
LEMMA SpawnBeginKeeps ==
    ASSUME FCInv, NEW b \in ID, SpawnBegin(b)
    PROVE  FCInv'
<1> USE TypeFacts
<1>1. /\ pc[b] = "begin"
      /\ UNCHANGED <<rows, up, crashes, vms, procs, started, lost, stray, shared, raced, tangled,
                     pidfile, dirs, saved, idxfile, index, free, next, spaces, veths, vm, idx,
                     restarting, newvm, newidx, faults>>
    BY DEF SpawnBegin, Goto, registry, vmm, history, files, network, restarts
<1>2. \/ /\ pending' = pending \cup {b} /\ pc' = [pc EXCEPT ![b] = "netns"] /\ parent' = parent
         /\ forks' = IF parent[b] = NoBranch THEN forks
                     ELSE [forks EXCEPT ![parent[b]] = @ + 1]
      \/ /\ pc' = [pc EXCEPT ![b] = "none"] /\ parent' = [parent EXCEPT ![b] = NoBranch]
         /\ UNCHANGED <<pending, forks>>
    BY <1>1 DEF SpawnBegin, Goto, registry, vmm, history, files, network, restarts
<1>4. /\ \/ /\ pc'[b] = "netns" /\ parent' = parent
            /\ forks' = IF parent[b] = NoBranch THEN forks
                        ELSE [forks EXCEPT ![parent[b]] = @ + 1]
         \/ pc'[b] = "none" /\ forks' = forks
      /\ \A c \in ID \ {b} : pc'[c] = pc[c] /\ parent'[c] = parent[c]
    BY <1>1, <1>2 DEF FCTypeOK
<1>5. up
    BY <1>1 DEF CallOf
<1>6. OthersSame(b) /\ ProcsGrow(b)
    BY <1>1, <1>2, <1>4, <1>5 DEF OthersSame, ProcsGrow
<1>10. ForksExact' /\ forks' \in [ID -> Nat]
  <2>1. CASE pc'[b] = "netns"
    BY <1>1, <1>2, <1>4, <2>1, ForkCounted
  <2>2. CASE pc'[b] = "none"
    <3>1. \A q \in ID : b \in Forking(q)' <=> b \in Forking(q)
      BY <1>1, <2>2 DEF Forking, SpawnStage
    <3> QED
      BY <1>2, <1>4, <1>6, <2>2, <3>1, ForksStay DEF FCTypeOK
  <2> QED
    BY <1>4, <2>1, <2>2
<1>3. FCTypeOK'
    BY <1>1, <1>2, <1>10 DEF FCTypeOK, SpawnStage, KillStage, RestartStage, NoIndex
<1>7. CallOf(b)' /\ IndexNames(b)' \subseteq IndexNames(b) \cup {NoIndex}
    BY <1>1, <1>2, <1>4, <1>5 DEF CallOf, Names, IndexNames, RestartStage
<1>8. b \in raced => Names(b)' \subseteq Names(b) \cup lost' \cup {0}
    BY <1>1, <1>2, <1>4 DEF Names
<1>9. ASSUME b \notin raced PROVE  NothingForgotten(b) /\ Sound(b)' /\ Held(b)' = Held(b)
  <2>1. Waiting(b) /\ b \in rows /\ vms[b] = 0 /\ index[b] = NoIndex /\ idxfile[b] = NoIndex
    BY <1>1, <1>5, <1>9 DEF CallOf, OneCall, ProcsOf, IndexOf, GoneOf, Waiting, Released, Held,
       KnownIndex, SpawnStage
  <2>2. NothingForgotten(b)
    BY <1>1, <1>2, <1>4, <2>1 DEF NothingForgotten, Names
  <2>3. OneCall(b)' /\ GoneOf(b)'
    BY <1>1, <1>2, <1>4, <1>9, <2>1 DEF OneCall, GoneOf, Waiting
  <2>4. ProcsOf(b)'
    BY <1>1, <1>2, <1>4, <1>5, <1>9, <2>1 DEF ProcsOf, CallOf, Names, Waiting, SpawnStage
  <2>5. IndexOf(b)' /\ Held(b)' = Held(b)
    BY <1>1, <1>2, <1>4, <1>9, <2>1 DEF IndexOf, Released, Held, KnownIndex
  <2> QED
    BY <2>2, <2>3, <2>4, <2>5 DEF Sound
<1> QED
    BY <1>1, <1>3, <1>5, <1>6, <1>7, <1>8, <1>9, <1>10, QuietKeeps
\* netns.idx names the index that memory already has.
LEMMA SpawnJournalKeeps ==
    ASSUME FCInv, NEW b \in ID, SpawnJournal(b)
    PROVE  FCInv'
<1> USE TypeFacts
<1>1. /\ pc[b] = "journal" /\ dirs' = dirs \cup {b} /\ idx' = [idx EXCEPT ![b] = NoIndex]
      /\ UNCHANGED <<rows, up, crashes, vms, pending, forks, procs, started, lost, stray, shared,
                     raced, tangled, pidfile, saved, index, free, next, spaces, veths, vm, parent,
                     restarting, newvm, newidx>>
    BY DEF SpawnJournal, Goto, Fault, registry, handles, vmm, history, network, restarts
<1>2. \/ /\ pc' = [pc EXCEPT ![b] = IF parent[b] = NoBranch THEN "start" ELSE "source"]
         /\ idxfile' = [idxfile EXCEPT ![b] = idx[b]] /\ faults' = faults
      \/ pc' = [pc EXCEPT ![b] = "undo"] /\ idxfile' = idxfile /\ faults' \in 0 .. MaxFaults
    BY <1>1 DEF SpawnJournal, Goto, Fault, registry, handles, vmm, history, network, restarts
<1>3. FCTypeOK'
    BY <1>1, <1>2 DEF FCTypeOK, SpawnStage, KillStage, RestartStage, NoIndex
<1>4. /\ \/ pc'[b] \in {"start", "source"} /\ idxfile'[b] = idx[b]
         \/ pc'[b] = "undo" /\ idxfile'[b] = idxfile[b]
      /\ pc'[b] = "source" => parent[b] # NoBranch
      /\ idx'[b] = NoIndex
      /\ \A c \in ID \ {b} : pc'[c] = pc[c] /\ idxfile'[c] = idxfile[c] /\ idx'[c] = idx[c]
    BY <1>1, <1>2 DEF FCTypeOK
<1>5. up
    BY <1>1 DEF CallOf
<1>6. OthersSame(b) /\ ProcsGrow(b)
    BY <1>1, <1>2, <1>4, <1>5 DEF OthersSame, ProcsGrow
<1>7. CallOf(b)' /\ IndexNames(b)' \subseteq IndexNames(b) \cup {NoIndex}
    BY <1>1, <1>2, <1>4, <1>5 DEF CallOf, Names, IndexNames, RestartStage
<1>8. b \in raced => Names(b)' \subseteq Names(b) \cup lost' \cup {0}
    BY <1>1, <1>2, <1>4 DEF Names
<1>9. ASSUME b \notin raced PROVE  NothingForgotten(b) /\ Sound(b)' /\ Held(b)' = Held(b)
  <2>1. Waiting(b) /\ index[b] # NoIndex /\ idx[b] = index[b] /\ b \in rows
    BY <1>1, <1>5, <1>9 DEF CallOf, OneCall, ProcsOf, IndexOf, GoneOf, Waiting, Released, Held,
       KnownIndex, SpawnStage
  <2>2. NothingForgotten(b)
    BY <1>1, <1>2, <1>4, <2>1 DEF NothingForgotten, Names
  <2>3. OneCall(b)' /\ GoneOf(b)'
    BY <1>1, <1>2, <1>4, <1>9, <2>1 DEF OneCall, GoneOf, Waiting
  <2>4. ProcsOf(b)'
    BY <1>1, <1>2, <1>4, <1>5, <1>9, <2>1 DEF ProcsOf, CallOf, Names, Waiting, SpawnStage
  <2>5. IndexOf(b)' /\ Held(b)' = Held(b)
    BY <1>1, <1>2, <1>4, <1>9, <2>1 DEF IndexOf, Released, Held, KnownIndex
  <2> QED
    BY <2>2, <2>3, <2>4, <2>5 DEF Sound
<1>10. ForksExact'
  <2>1. \A q \in ID : b \in Forking(q)' <=> b \in Forking(q)
    BY <1>1, <1>2, <1>4, <1>5 DEF Forking, SpawnStage, KillStage
  <2> QED
    BY <1>1, <1>6, <2>1, ForksStay
<1> QED
    BY <1>1, <1>3, <1>5, <1>6, <1>7, <1>8, <1>9, <1>10, QuietKeeps

\* A snapshot is written only for a parent with a handle, so for one with a row.
LEMMA SpawnSourceKeeps ==
    ASSUME FCInv, NEW b \in ID, SpawnSource(b)
    PROVE  FCInv'
<1> USE TypeFacts
<1>1. /\ pc[b] = "source"
      /\ UNCHANGED <<rows, up, crashes, vms, pending, forks, procs, started, lost, stray, shared,
                     raced, tangled, pidfile, idxfile, index, free, next, spaces, veths, vm,
                     parent, idx, restarting, newvm, newidx>>
    BY DEF SpawnSource, Goto, Fault, registry, handles, vmm, history, network, restarts
<1>2. /\ \/ pc' = [pc EXCEPT ![b] = "start"] /\ faults' = faults
         \/ pc' = [pc EXCEPT ![b] = "undo"] /\ faults' \in 0 .. MaxFaults
      /\ dirs' = dirs \cup {parent[b]} /\ parent[b] \in ID
      /\ saved' = saved \/ (saved' = saved \cup {parent[b]} /\ vms[parent[b]] \in procs)
    BY <1>1 DEF SpawnSource, CallOf, FCTypeOK, Goto, Fault, registry, handles, vmm, history,
       network, restarts
<1>3. FCTypeOK'
    BY <1>1, <1>2 DEF FCTypeOK, SpawnStage, KillStage, RestartStage, NoIndex
<1>4. /\ pc'[b] \in {"start", "undo"} /\ \A c \in ID \ {b} : pc'[c] = pc[c]
      /\ \A c \in ID : c \in saved' => c \in saved \/ vms[c] \in procs
    BY <1>1, <1>2 DEF FCTypeOK
<1>5. up
    BY <1>1 DEF CallOf
<1>11. \A c \in ID : c \in saved' => c \in saved \/ c \in rows \/ c \in raced
    BY <1>4 DEF OneCall
<1>6. OthersSame(b) /\ ProcsGrow(b)
    BY <1>1, <1>2, <1>4, <1>5, <1>11 DEF OthersSame, ProcsGrow
<1>7. CallOf(b)' /\ IndexNames(b)' \subseteq IndexNames(b) \cup {NoIndex}
    BY <1>1, <1>2, <1>4, <1>5 DEF CallOf, Names, IndexNames, RestartStage
<1>8. b \in raced => Names(b)' \subseteq Names(b) \cup lost' \cup {0}
    BY <1>1, <1>2, <1>4 DEF Names
<1>9. ASSUME b \notin raced PROVE  NothingForgotten(b) /\ Sound(b)' /\ Held(b)' = Held(b)
  <2>1. Waiting(b) /\ b \in rows
    BY <1>1, <1>5, <1>9 DEF CallOf, OneCall, ProcsOf, IndexOf, GoneOf, Waiting, Released, Held,
       KnownIndex, SpawnStage
  <2>2. NothingForgotten(b)
    BY <1>1, <1>2, <1>4, <2>1 DEF NothingForgotten, Names
  <2>3. OneCall(b)' /\ GoneOf(b)'
    BY <1>1, <1>2, <1>4, <1>9, <2>1 DEF OneCall, GoneOf, Waiting
  <2>4. ProcsOf(b)'
    BY <1>1, <1>2, <1>4, <1>5, <1>9, <2>1 DEF ProcsOf, CallOf, Names, Waiting, SpawnStage
  <2>5. IndexOf(b)' /\ Held(b)' = Held(b)
    BY <1>1, <1>2, <1>4, <1>9, <2>1 DEF IndexOf, Released, Held, KnownIndex
  <2> QED
    BY <2>2, <2>3, <2>4, <2>5 DEF Sound
<1>10. ForksExact'
  <2>1. \A q \in ID : b \in Forking(q)' <=> b \in Forking(q)
    BY <1>1, <1>2, <1>4, <1>5 DEF Forking, SpawnStage, KillStage
  <2> QED
    BY <1>1, <1>6, <2>1, ForksStay
<1> QED
    BY <1>1, <1>3, <1>5, <1>6, <1>7, <1>8, <1>9, <1>10, QuietKeeps

\* The new process is the spawn's.
LEMMA SpawnStartKeeps ==
    ASSUME FCInv, NEW b \in ID, SpawnStart(b)
    PROVE  FCInv'
<1> USE TypeFacts
<1>1. /\ pc[b] = "start"
      /\ UNCHANGED <<rows, up, crashes, vms, pending, forks, stray, shared, raced, tangled,
                     pidfile, dirs, saved, idxfile, index, free, next, spaces, veths, parent, idx,
                     restarting, newvm, newidx>>
    BY DEF SpawnStart, Goto, Fault, registry, handles, vmm, files, network, restarts
<1>2. \/ /\ pc' = [pc EXCEPT ![b] = "load"] /\ vm' = [vm EXCEPT ![b] = started + 1]
         /\ started < MaxVMs /\ started' = started + 1 /\ procs' = procs \cup {started + 1}
         /\ lost' = (IF b \in raced THEN lost \cup {started + 1} ELSE lost) /\ faults' = faults
      \/ /\ pc' = [pc EXCEPT ![b] = "undo"] /\ faults' \in 0 .. MaxFaults
         /\ UNCHANGED <<procs, started, lost, vm>>
    BY <1>1 DEF SpawnStart, Goto, Fault, Start, Proc, registry, handles, vmm, files, network,
       restarts
<1>3. FCTypeOK'
    BY <1>1, <1>2 DEF FCTypeOK, SpawnStage, KillStage, RestartStage, NoIndex
<1>4. /\ \/ pc'[b] = "load" /\ vm'[b] = started + 1 /\ started' = started + 1
         \/ pc'[b] = "undo" /\ vm'[b] = vm[b] /\ started' = started
      /\ started' \in Nat /\ started <= started'
      /\ \A c \in ID \ {b} : pc'[c] = pc[c] /\ vm'[c] = vm[c]
    BY <1>1, <1>2 DEF FCTypeOK
<1>5. up
    BY <1>1 DEF CallOf
<1>6. OthersSame(b) /\ ProcsGrow(b)
    BY <1>1, <1>2, <1>4, <1>5 DEF OthersSame, ProcsGrow
<1>7. CallOf(b)' /\ IndexNames(b)' \subseteq IndexNames(b) \cup {NoIndex}
    BY <1>1, <1>2, <1>4, <1>5 DEF CallOf, Names, IndexNames, RestartStage
<1>8. b \in raced => Names(b)' \subseteq Names(b) \cup lost' \cup {0}
    BY <1>1, <1>2, <1>4 DEF Names
<1>9. ASSUME b \notin raced PROVE  NothingForgotten(b) /\ Sound(b)' /\ Held(b)' = Held(b)
  <2>1. Waiting(b) /\ b \in rows /\ vms[b] = 0 /\ vm[b] = 0
    BY <1>1, <1>5, <1>9 DEF CallOf, OneCall, ProcsOf, IndexOf, GoneOf, Waiting, Released, Held,
       KnownIndex, SpawnStage
  <2>2. NothingForgotten(b)
    BY <1>1, <1>2, <1>4, <2>1 DEF NothingForgotten, Names
  <2>3. OneCall(b)' /\ GoneOf(b)'
    BY <1>1, <1>2, <1>4, <1>9, <2>1 DEF OneCall, GoneOf, Waiting
  <2>4. ProcsOf(b)'
    BY <1>1, <1>2, <1>4, <1>5, <1>9, <2>1 DEF ProcsOf, CallOf, Names, Waiting, SpawnStage
  <2>5. IndexOf(b)' /\ Held(b)' = Held(b)
    BY <1>1, <1>2, <1>4, <1>9, <2>1 DEF IndexOf, Released, Held, KnownIndex
  <2> QED
    BY <2>2, <2>3, <2>4, <2>5 DEF Sound
<1>10. ForksExact'
  <2>1. \A q \in ID : b \in Forking(q)' <=> b \in Forking(q)
    BY <1>1, <1>2, <1>4, <1>5 DEF Forking, SpawnStage, KillStage
  <2> QED
    BY <1>1, <1>6, <2>1, ForksStay
<1> QED
    BY <1>1, <1>3, <1>5, <1>6, <1>7, <1>8, <1>9, <1>10, QuietKeeps

\* The guest boots or loads, or the spawn is undone.
LEMMA SpawnLoadKeeps ==
    ASSUME FCInv, NEW b \in ID, SpawnLoad(b)
    PROVE  FCInv'
<1> USE TypeFacts
<1>1. /\ pc[b] = "load"
      /\ UNCHANGED <<rows, up, crashes, vms, pending, forks, procs, started, lost, stray, shared,
                     raced, tangled, pidfile, dirs, saved, idxfile, index, free, next, spaces,
                     veths, vm, parent, idx, restarting, newvm, newidx>>
    BY DEF SpawnLoad, Goto, Fault, registry, handles, vmm, history, files, network, restarts
<1>2. \/ pc' = [pc EXCEPT ![b] = "record"] /\ faults' = faults
      \/ pc' = [pc EXCEPT ![b] = "undo"] /\ faults' \in 0 .. MaxFaults
    BY <1>1 DEF SpawnLoad, Goto, Fault, registry, handles, vmm, history, files, network, restarts
<1>3. FCTypeOK'
    BY <1>1, <1>2 DEF FCTypeOK, SpawnStage, KillStage, RestartStage, NoIndex
<1>4. pc'[b] \in {"record", "undo"} /\ \A c \in ID \ {b} : pc'[c] = pc[c]
    BY <1>1, <1>2 DEF FCTypeOK
<1>5. up
    BY <1>1 DEF CallOf
<1>6. OthersSame(b) /\ ProcsGrow(b)
    BY <1>1, <1>2, <1>4, <1>5 DEF OthersSame, ProcsGrow
<1>7. CallOf(b)' /\ IndexNames(b)' \subseteq IndexNames(b) \cup {NoIndex}
    BY <1>1, <1>2, <1>4, <1>5 DEF CallOf, Names, IndexNames, RestartStage
<1>8. b \in raced => Names(b)' \subseteq Names(b) \cup lost' \cup {0}
    BY <1>1, <1>2, <1>4 DEF Names
<1>9. ASSUME b \notin raced PROVE  NothingForgotten(b) /\ Sound(b)' /\ Held(b)' = Held(b)
  <2>1. Waiting(b) /\ b \in rows /\ vms[b] = 0
    BY <1>1, <1>5, <1>9 DEF CallOf, OneCall, ProcsOf, IndexOf, GoneOf, Waiting, Released, Held,
       KnownIndex, SpawnStage
  <2>2. NothingForgotten(b)
    BY <1>1, <1>2, <1>4, <2>1 DEF NothingForgotten, Names
  <2>3. OneCall(b)' /\ GoneOf(b)'
    BY <1>1, <1>2, <1>4, <1>9, <2>1 DEF OneCall, GoneOf, Waiting
  <2>4. ProcsOf(b)'
    BY <1>1, <1>2, <1>4, <1>5, <1>9, <2>1 DEF ProcsOf, CallOf, Names, Waiting, SpawnStage
  <2>5. IndexOf(b)' /\ Held(b)' = Held(b)
    BY <1>1, <1>2, <1>4, <1>9, <2>1 DEF IndexOf, Released, Held, KnownIndex
  <2> QED
    BY <2>2, <2>3, <2>4, <2>5 DEF Sound
<1>10. ForksExact'
  <2>1. \A q \in ID : b \in Forking(q)' <=> b \in Forking(q)
    BY <1>1, <1>2, <1>4, <1>5 DEF Forking, SpawnStage, KillStage
  <2> QED
    BY <1>1, <1>6, <2>1, ForksStay
<1> QED
    BY <1>1, <1>3, <1>5, <1>6, <1>7, <1>8, <1>9, <1>10, QuietKeeps

\* fc.pid names the process.
LEMMA SpawnRecordKeeps ==
    ASSUME FCInv, NEW b \in ID, SpawnRecord(b)
    PROVE  FCInv'
<1> USE TypeFacts
<1>1. /\ pc[b] = "record"
      /\ UNCHANGED <<rows, up, crashes, vms, pending, forks, procs, started, lost, stray, shared,
                     raced, tangled, dirs, saved, idxfile, index, free, next, spaces, veths, vm,
                     parent, idx, restarting, newvm, newidx>>
    BY DEF SpawnRecord, Goto, Fault, registry, handles, vmm, history, network, restarts
<1>2. \/ /\ pc' = [pc EXCEPT ![b] = "register"] /\ pidfile' = [pidfile EXCEPT ![b] = vm[b]]
         /\ faults' = faults
      \/ pc' = [pc EXCEPT ![b] = "undo"] /\ pidfile' = pidfile /\ faults' \in 0 .. MaxFaults
    BY <1>1 DEF SpawnRecord, Goto, Fault, registry, handles, vmm, history, network, restarts
<1>3. FCTypeOK'
    BY <1>1, <1>2 DEF FCTypeOK, SpawnStage, KillStage, RestartStage, NoIndex
<1>4. /\ \/ pc'[b] = "register" /\ pidfile'[b] = vm[b]
         \/ pc'[b] = "undo" /\ pidfile'[b] = pidfile[b]
      /\ \A c \in ID \ {b} : pc'[c] = pc[c] /\ pidfile'[c] = pidfile[c]
    BY <1>1, <1>2 DEF FCTypeOK
<1>5. up
    BY <1>1 DEF CallOf
<1>6. OthersSame(b) /\ ProcsGrow(b)
    BY <1>1, <1>2, <1>4, <1>5 DEF OthersSame, ProcsGrow
<1>7. CallOf(b)' /\ IndexNames(b)' \subseteq IndexNames(b) \cup {NoIndex}
    BY <1>1, <1>2, <1>4, <1>5 DEF CallOf, Names, IndexNames, RestartStage
<1>8. b \in raced => Names(b)' \subseteq Names(b) \cup lost' \cup {0}
    BY <1>1, <1>2, <1>4 DEF Names
<1>9. ASSUME b \notin raced PROVE  NothingForgotten(b) /\ Sound(b)' /\ Held(b)' = Held(b)
  <2>1. Waiting(b) /\ b \in rows /\ vms[b] = 0 /\ pidfile[b] = 0
    BY <1>1, <1>5, <1>9 DEF CallOf, OneCall, ProcsOf, IndexOf, GoneOf, Waiting, Released, Held,
       KnownIndex, SpawnStage
  <2>2. NothingForgotten(b)
    BY <1>1, <1>2, <1>4, <2>1 DEF NothingForgotten, Names
  <2>3. OneCall(b)' /\ GoneOf(b)'
    BY <1>1, <1>2, <1>4, <1>9, <2>1 DEF OneCall, GoneOf, Waiting
  <2>4. ProcsOf(b)'
    BY <1>1, <1>2, <1>4, <1>5, <1>9, <2>1 DEF ProcsOf, CallOf, Names, Waiting, SpawnStage
  <2>5. IndexOf(b)' /\ Held(b)' = Held(b)
    BY <1>1, <1>2, <1>4, <1>9, <2>1 DEF IndexOf, Released, Held, KnownIndex
  <2> QED
    BY <2>2, <2>3, <2>4, <2>5 DEF Sound
<1>10. ForksExact'
  <2>1. \A q \in ID : b \in Forking(q)' <=> b \in Forking(q)
    BY <1>1, <1>2, <1>4, <1>5 DEF Forking, SpawnStage, KillStage
  <2> QED
    BY <1>1, <1>6, <2>1, ForksStay
<1> QED
    BY <1>1, <1>3, <1>5, <1>6, <1>7, <1>8, <1>9, <1>10, QuietKeeps

\* The handle names the recorded process.
LEMMA SpawnRegisterKeeps ==
    ASSUME FCInv, NEW b \in ID, SpawnRegister(b)
    PROVE  FCInv'
<1> USE TypeFacts
<1>1. /\ pc[b] = "register"
      /\ UNCHANGED <<rows, up, crashes, pending, forks, procs, started, lost, stray, shared,
                     raced, tangled, pidfile, dirs, saved, idxfile, index, free, next, spaces,
                     veths, vm, parent, idx, restarting, newvm, newidx, faults>>
    BY DEF SpawnRegister, Goto, registry, vmm, history, files, network, restarts
<1>2. pc' = [pc EXCEPT ![b] = "unpend"] /\ vms' = [vms EXCEPT ![b] = vm[b]]
    BY <1>1 DEF SpawnRegister, Goto, registry, vmm, history, files, network, restarts
<1>3. FCTypeOK'
    BY <1>1, <1>2 DEF FCTypeOK, SpawnStage, KillStage, RestartStage, NoIndex
<1>4. /\ pc'[b] = "unpend" /\ vms'[b] = vm[b]
      /\ \A c \in ID \ {b} : pc'[c] = pc[c] /\ vms'[c] = vms[c]
    BY <1>1, <1>2 DEF FCTypeOK
<1>5. up
    BY <1>1 DEF CallOf
<1>6. OthersSame(b) /\ ProcsGrow(b)
    BY <1>1, <1>2, <1>4, <1>5 DEF OthersSame, ProcsGrow
<1>7. CallOf(b)' /\ IndexNames(b)' \subseteq IndexNames(b) \cup {NoIndex}
    BY <1>1, <1>2, <1>4, <1>5 DEF CallOf, Names, IndexNames, RestartStage
<1>8. b \in raced => Names(b)' \subseteq Names(b) \cup lost' \cup {0}
    BY <1>1, <1>2, <1>4 DEF Names
<1>9. ASSUME b \notin raced PROVE  NothingForgotten(b) /\ Sound(b)' /\ Held(b)' = Held(b)
  <2>1. Waiting(b) /\ b \in rows /\ vms[b] = 0 /\ pidfile[b] = vm[b] /\ index[b] # NoIndex
    BY <1>1, <1>5, <1>9 DEF CallOf, OneCall, ProcsOf, IndexOf, GoneOf, Waiting, Released, Held,
       KnownIndex, SpawnStage
  <2>2. NothingForgotten(b)
    BY <1>1, <1>2, <1>4, <2>1 DEF NothingForgotten, Names
  <2>3. OneCall(b)' /\ GoneOf(b)'
    BY <1>1, <1>2, <1>4, <1>9, <2>1 DEF OneCall, GoneOf, Waiting
  <2>4. ProcsOf(b)'
    BY <1>1, <1>2, <1>4, <1>5, <1>9, <2>1 DEF ProcsOf, CallOf, Names, Waiting, SpawnStage
  <2>5. IndexOf(b)' /\ Held(b)' = Held(b)
    BY <1>1, <1>2, <1>4, <1>9, <2>1 DEF IndexOf, Released, Held, KnownIndex
  <2> QED
    BY <2>2, <2>3, <2>4, <2>5 DEF Sound
<1>10. ForksExact'
  <2>1. \A q \in ID : b \in Forking(q)' <=> b \in Forking(q)
    BY <1>1, <1>2, <1>4, <1>5 DEF Forking, SpawnStage, KillStage
  <2> QED
    BY <1>1, <1>6, <2>1, ForksStay
<1> QED
    BY <1>1, <1>3, <1>5, <1>6, <1>7, <1>8, <1>9, <1>10, QuietKeeps

\* Nothing that was removed was in use.
LEMMA SpawnCleanKeeps ==
    ASSUME FCInv, NEW b \in ID, SpawnClean(b)
    PROVE  FCInv'
<1> USE TypeFacts
<1>1. /\ pc[b] = "clean" /\ pc' = [pc EXCEPT ![b] = "unpend"]
      /\ UNCHANGED <<rows, up, crashes, vms, pending, forks, procs, started, lost, stray, shared,
                     raced, tangled, index, free, next, spaces, veths, vm, parent, idx,
                     restarting, newvm, newidx>>
    BY DEF SpawnClean, Goto, Fault, RemoveDir, registry, handles, vmm, history, network, restarts
<1>2. /\ idxfile' = [idxfile EXCEPT ![b] = NoIndex]
      /\ \/ /\ dirs' = dirs \ {b} /\ saved' = saved \ {b}
            /\ pidfile' = [pidfile EXCEPT ![b] = 0] /\ faults' = faults
         \/ UNCHANGED <<dirs, saved, pidfile>> /\ faults' \in 0 .. MaxFaults
    BY <1>1 DEF SpawnClean, Goto, Fault, RemoveDir, registry, handles, vmm, history, network,
       restarts
<1>3. FCTypeOK'
    BY <1>1, <1>2 DEF FCTypeOK, SpawnStage, KillStage, RestartStage, NoIndex
<1>4. /\ pc'[b] = "unpend" /\ idxfile'[b] = NoIndex /\ pidfile'[b] \in {0, pidfile[b]}
      /\ \A c \in ID \ {b} : pc'[c] = pc[c] /\ idxfile'[c] = idxfile[c] /\ pidfile'[c] = pidfile[c]
    BY <1>1, <1>2 DEF FCTypeOK
<1>5. up
    BY <1>1 DEF CallOf
<1>6. OthersSame(b) /\ ProcsGrow(b)
    BY <1>1, <1>2, <1>4, <1>5 DEF OthersSame, ProcsGrow
<1>7. CallOf(b)' /\ IndexNames(b)' \subseteq IndexNames(b) \cup {NoIndex}
    BY <1>1, <1>2, <1>4, <1>5 DEF CallOf, Names, IndexNames, RestartStage
<1>8. b \in raced => Names(b)' \subseteq Names(b) \cup lost' \cup {0}
    BY <1>1, <1>2, <1>4 DEF Names
<1>9. ASSUME b \notin raced PROVE  NothingForgotten(b) /\ Sound(b)' /\ Held(b)' = Held(b)
  <2>1. Waiting(b) /\ b \in rows /\ vms[b] = 0 /\ pidfile[b] = 0 /\ vm[b] \notin procs
        /\ index[b] = NoIndex /\ Held(b) = NoIndex
    BY <1>1, <1>5, <1>9 DEF CallOf, OneCall, ProcsOf, IndexOf, GoneOf, Waiting, Released, Held,
       KnownIndex, SpawnStage
  <2>2. NothingForgotten(b)
    BY <1>1, <1>2, <1>4, <2>1 DEF NothingForgotten, Names
  <2>3. OneCall(b)' /\ GoneOf(b)'
    BY <1>1, <1>2, <1>4, <1>9, <2>1 DEF OneCall, GoneOf, Waiting
  <2>4. ProcsOf(b)'
    BY <1>1, <1>2, <1>4, <1>5, <1>9, <2>1 DEF ProcsOf, CallOf, Names, Waiting, SpawnStage
  <2>5. IndexOf(b)' /\ Held(b)' = Held(b)
    BY <1>1, <1>2, <1>4, <1>9, <2>1 DEF IndexOf, Released, Held, KnownIndex
  <2> QED
    BY <2>2, <2>3, <2>4, <2>5 DEF Sound
<1>10. ForksExact'
  <2>1. \A q \in ID : b \in Forking(q)' <=> b \in Forking(q)
    BY <1>1, <1>2, <1>4, <1>5 DEF Forking, SpawnStage, KillStage
  <2> QED
    BY <1>1, <1>6, <2>1, ForksStay
<1> QED
    BY <1>1, <1>3, <1>5, <1>6, <1>7, <1>8, <1>9, <1>10, QuietKeeps

\* The finally block: the handle is there, or the process is dead.
LEMMA SpawnUnpendKeeps ==
    ASSUME FCInv, NEW b \in ID, SpawnUnpend(b)
    PROVE  FCInv'
<1> USE TypeFacts
<1>1. /\ pc[b] = "unpend" /\ pc' = [pc EXCEPT ![b] = "none"] /\ pending' = pending \ {b}
      /\ UNCHANGED <<rows, up, crashes, vms, procs, started, lost, stray, shared, raced, tangled,
                     pidfile, dirs, saved, idxfile, index, free, next, spaces, veths, idx,
                     restarting, newvm, newidx, faults>>
    BY DEF SpawnUnpend, Goto, registry, vmm, history, files, network, restarts
<1>2. /\ vm' = [vm EXCEPT ![b] = 0] /\ parent' = [parent EXCEPT ![b] = NoBranch]
      /\ forks' = IF parent[b] = NoBranch THEN forks ELSE [forks EXCEPT ![parent[b]] = @ - 1]
    BY <1>1 DEF SpawnUnpend, Goto, registry, vmm, history, files, network, restarts
<1>4. /\ pc'[b] = "none" /\ vm'[b] = 0 /\ parent'[b] = NoBranch
      /\ \A c \in ID \ {b} : pc'[c] = pc[c] /\ vm'[c] = vm[c] /\ parent'[c] = parent[c]
    BY <1>1, <1>2 DEF FCTypeOK
<1>10. ForksExact' /\ forks' \in [ID -> Nat]
    BY <1>1, <1>2, <1>4, ForkUncounted
<1>3. FCTypeOK'
    BY <1>1, <1>2, <1>10 DEF FCTypeOK, SpawnStage, KillStage, RestartStage, NoIndex
<1>5. up
    BY <1>1 DEF CallOf
<1>6. OthersSame(b) /\ ProcsGrow(b)
    BY <1>1, <1>2, <1>4, <1>5 DEF OthersSame, ProcsGrow
<1>7. CallOf(b)' /\ IndexNames(b)' \subseteq IndexNames(b) \cup {NoIndex}
    BY <1>1, <1>2, <1>4, <1>5 DEF CallOf, Names, IndexNames, RestartStage
<1>8. b \in raced => Names(b)' \subseteq Names(b) \cup lost' \cup {0}
    BY <1>1, <1>2, <1>4 DEF Names
<1>9. ASSUME b \notin raced PROVE  NothingForgotten(b) /\ Sound(b)' /\ Held(b)' = Held(b)
  <2>1. Waiting(b) /\ b \in rows /\ (vms[b] = vm[b] \/ vm[b] \notin procs)
    BY <1>1, <1>5, <1>9 DEF CallOf, OneCall, ProcsOf, IndexOf, GoneOf, Waiting, Released, Held,
       KnownIndex, SpawnStage
  <2>2. NothingForgotten(b)
    BY <1>1, <1>2, <1>4, <2>1 DEF NothingForgotten, Names
  <2>3. OneCall(b)' /\ GoneOf(b)'
    BY <1>1, <1>2, <1>4, <1>9, <2>1 DEF OneCall, GoneOf, Waiting
  <2>4. ProcsOf(b)'
    BY <1>1, <1>2, <1>4, <1>5, <1>9, <2>1 DEF ProcsOf, CallOf, Names, Waiting, SpawnStage
  <2>5. IndexOf(b)' /\ Held(b)' = Held(b)
    BY <1>1, <1>2, <1>4, <1>9, <2>1 DEF IndexOf, Released, Held, KnownIndex
  <2> QED
    BY <2>2, <2>3, <2>4, <2>5 DEF Sound
<1> QED
    BY <1>1, <1>3, <1>5, <1>6, <1>7, <1>8, <1>9, <1>10, QuietKeeps
-----------------------------------------------------------------------------
\* kill

\* What a race adds is processes and indices.
LEMMA RaceTypes ==
    ASSUME FCInv, NEW b \in ID, Race(b)
    PROVE  /\ raced' = raced \cup {b} /\ lost \subseteq lost' /\ tangled \subseteq tangled'
           /\ raced' \subseteq ID /\ lost' \subseteq 1 .. started /\ tangled' \subseteq Index
           /\ shared' = shared
<1> USE TypeFacts
<1>1. Names(b) \ {0} \subseteq 1 .. started
    BY DEF CallOf
<1>2. IndexNames(b) \ {NoIndex} \subseteq Index
  <2>1. \A j \in 0 .. Capacity : j = NoIndex \/ j \in Index
    BY DEF NoIndex, Index
  <2> QED
    BY <2>1 DEF FCTypeOK, IndexNames
<1> QED
    BY <1>1, <1>2 DEF Race, Names, IndexNames, FCTypeOK

\* The handle, if there is one, names the process of the pid record; or restart of b is
\* under way, and b has raced.
LEMMA KillKeeps ==
    ASSUME FCInv, NEW b \in ID, Kill(b)
    PROVE  FCInv'
<1> USE TypeFacts
<1>1. /\ up /\ b \in rows /\ pc[b] = "none"
      /\ UNCHANGED <<rows, up, crashes, pending, forks, procs, started, stray, shared, pidfile,
                     dirs, saved, idxfile, index, free, next, spaces, veths, parent, idx,
                     restarting, newvm, newidx>>
      /\ faults' \in 0 .. MaxFaults
    BY DEF Kill, Goto, Fault, Race, registry, vmm, history, files, network, restarts
<1>2. /\ pc' = [pc EXCEPT ![b] = IF vms[b] # 0 THEN "reap" ELSE "recover"]
      /\ vm' = [vm EXCEPT ![b] = vms[b]] /\ vms' = [vms EXCEPT ![b] = 0]
      /\ Race(b) \/ (Waiting(b) /\ UNCHANGED <<lost, raced, tangled>>)
    BY <1>1 DEF Kill, Waiting, Goto, registry, vmm, history, files, network, restarts
<1>3. FCTypeOK'
    BY <1>1, <1>2, RaceTypes DEF FCTypeOK, SpawnStage, KillStage, RestartStage, NoIndex
<1>4. /\ pc'[b] = (IF vms[b] # 0 THEN "reap" ELSE "recover") /\ vm'[b] = vms[b] /\ vms'[b] = 0
      /\ \A c \in ID \ {b} : pc'[c] = pc[c] /\ vm'[c] = vm[c] /\ vms'[c] = vms[c]
    BY <1>1, <1>2 DEF FCTypeOK
<1>5. up /\ vm[b] = 0
    BY <1>1 DEF CallOf
<1>6. OthersSame(b) /\ ProcsGrow(b)
    BY <1>1, <1>2, <1>4, <1>5, RaceTypes DEF OthersSame, ProcsGrow
<1>7. CallOf(b)' /\ IndexNames(b)' \subseteq IndexNames(b) \cup {NoIndex}
    BY <1>1, <1>2, <1>4, <1>5 DEF CallOf, Names, IndexNames, RestartStage
<1>8. Names(b)' \subseteq Names(b) \cup {0}
    BY <1>1, <1>2, <1>4 DEF Names
<1>10. ForksExact'
  <2>1. \A q \in ID : b \in Forking(q)' <=> b \in Forking(q)
    BY <1>1, <1>2, <1>4, <1>5 DEF Forking, SpawnStage, KillStage
  <2> QED
    BY <1>1, <1>6, <2>1, ForksStay
<1>9. ASSUME b \notin raced, UNCHANGED <<lost, raced, tangled>>, ~Race(b)
      PROVE  NothingForgotten(b) /\ Sound(b)' /\ Held(b)' = Held(b)
  <2>1. vm[b] = 0 /\ (vms[b] # 0 => pidfile[b] = vms[b])
    BY <1>1, <1>5, <1>9 DEF CallOf, OneCall, ProcsOf, IndexOf, GoneOf, Waiting, Released, Held,
       KnownIndex, SpawnStage
  <2>2. NothingForgotten(b)
    BY <1>1, <1>2, <1>4, <2>1 DEF NothingForgotten, Names
  <2>3. OneCall(b)' /\ GoneOf(b)'
    BY <1>1, <1>2, <1>4, <1>9, <2>1 DEF OneCall, GoneOf, Waiting
  <2>4. ProcsOf(b)'
    BY <1>1, <1>2, <1>4, <1>5, <1>9, <2>1 DEF ProcsOf, CallOf, Names, Waiting, SpawnStage
  <2>5. IndexOf(b)' /\ Held(b)' = Held(b)
    BY <1>1, <1>2, <1>4, <1>9, <2>1 DEF IndexOf, Released, Held, KnownIndex
  <2> QED
    BY <2>2, <2>3, <2>4, <2>5 DEF Sound
<1>11. CASE Race(b)
    BY <1>1, <1>3, <1>5, <1>6, <1>7, <1>8, <1>10, <1>11, RaceKeeps, RaceTypes
<1>12. CASE ~Race(b)
    BY <1>1, <1>2, <1>3, <1>5, <1>6, <1>7, <1>8, <1>9, <1>10, <1>12, QuietKeeps
<1> QED
    BY <1>11, <1>12

\* The handle's process was the recorded one.
LEMMA KillReapKeeps ==
    ASSUME FCInv, NEW b \in ID, KillReap(b)
    PROVE  FCInv'
<1> USE TypeFacts
<1>1. /\ pc[b] = "reap"
      /\ UNCHANGED <<rows, up, crashes, vms, pending, forks, started, lost, stray, shared, raced,
                     tangled, pidfile, dirs, saved, idxfile, index, free, next, spaces, veths, vm,
                     parent, idx, restarting, newvm, newidx, faults>>
    BY DEF KillReap, Goto, registry, handles, history, files, network, restarts
<1>2. procs' = procs \ {vm[b]} /\ pc' = [pc EXCEPT ![b] = "teardown"]
    BY <1>1 DEF KillReap, Goto, registry, handles, history, files, network, restarts
<1>3. FCTypeOK'
    BY <1>1, <1>2 DEF FCTypeOK, SpawnStage, KillStage, RestartStage, NoIndex
<1>4. pc'[b] = "teardown" /\ \A c \in ID \ {b} : pc'[c] = pc[c]
    BY <1>1, <1>2 DEF FCTypeOK
<1>5. up
    BY <1>1 DEF CallOf
<1>6. OthersSame(b) /\ ProcsGrow(b)
    BY <1>1, <1>2, <1>4, <1>5 DEF OthersSame, ProcsGrow
<1>7. CallOf(b)' /\ IndexNames(b)' \subseteq IndexNames(b) \cup {NoIndex}
    BY <1>1, <1>2, <1>4, <1>5 DEF CallOf, Names, IndexNames, RestartStage
<1>8. b \in raced => Names(b)' \subseteq Names(b) \cup lost' \cup {0}
    BY <1>1, <1>2, <1>4 DEF Names
<1>9. ASSUME b \notin raced PROVE  NothingForgotten(b) /\ Sound(b)' /\ Held(b)' = Held(b)
  <2>1. Waiting(b) /\ b \in rows /\ vms[b] = 0 /\ pidfile[b] = vm[b]
    BY <1>1, <1>5, <1>9 DEF CallOf, OneCall, ProcsOf, IndexOf, GoneOf, Waiting, Released, Held,
       KnownIndex, SpawnStage
  <2>2. NothingForgotten(b)
    BY <1>1, <1>2, <1>4, <2>1 DEF NothingForgotten, Names
  <2>3. OneCall(b)' /\ GoneOf(b)'
    BY <1>1, <1>2, <1>4, <1>9, <2>1 DEF OneCall, GoneOf, Waiting
  <2>4. ProcsOf(b)'
    BY <1>1, <1>2, <1>4, <1>5, <1>9, <2>1 DEF ProcsOf, CallOf, Names, Waiting, SpawnStage
  <2>5. IndexOf(b)' /\ Held(b)' = Held(b)
    BY <1>1, <1>2, <1>4, <1>9, <2>1 DEF IndexOf, Released, Held, KnownIndex
  <2> QED
    BY <2>2, <2>3, <2>4, <2>5 DEF Sound
<1>10. ForksExact'
  <2>1. \A q \in ID : b \in Forking(q)' <=> b \in Forking(q)
    BY <1>1, <1>2, <1>4, <1>5 DEF Forking, SpawnStage, KillStage
  <2> QED
    BY <1>1, <1>6, <2>1, ForksStay
<1> QED
    BY <1>1, <1>3, <1>5, <1>6, <1>7, <1>8, <1>9, <1>10, QuietKeeps

\* Without a handle the record names the process.
LEMMA KillRecoverKeeps ==
    ASSUME FCInv, NEW b \in ID, KillRecover(b)
    PROVE  FCInv'
<1> USE TypeFacts
<1>1. /\ pc[b] = "recover"
      /\ UNCHANGED <<rows, up, crashes, vms, pending, forks, started, lost, stray, shared, raced,
                     tangled, pidfile, dirs, saved, idxfile, index, free, next, spaces, veths, vm,
                     parent, idx, restarting, newvm, newidx, faults>>
    BY DEF KillRecover, Goto, registry, handles, history, files, network, restarts
<1>2. procs' = procs \ {pidfile[b]} /\ pc' = [pc EXCEPT ![b] = "teardown"]
    BY <1>1 DEF KillRecover, Goto, registry, handles, history, files, network, restarts
<1>3. FCTypeOK'
    BY <1>1, <1>2 DEF FCTypeOK, SpawnStage, KillStage, RestartStage, NoIndex
<1>4. pc'[b] = "teardown" /\ \A c \in ID \ {b} : pc'[c] = pc[c]
    BY <1>1, <1>2 DEF FCTypeOK
<1>5. up
    BY <1>1 DEF CallOf
<1>6. OthersSame(b) /\ ProcsGrow(b)
    BY <1>1, <1>2, <1>4, <1>5 DEF OthersSame, ProcsGrow
<1>7. CallOf(b)' /\ IndexNames(b)' \subseteq IndexNames(b) \cup {NoIndex}
    BY <1>1, <1>2, <1>4, <1>5 DEF CallOf, Names, IndexNames, RestartStage
<1>8. b \in raced => Names(b)' \subseteq Names(b) \cup lost' \cup {0}
    BY <1>1, <1>2, <1>4 DEF Names
<1>9. ASSUME b \notin raced PROVE  NothingForgotten(b) /\ Sound(b)' /\ Held(b)' = Held(b)
  <2>1. Waiting(b) /\ b \in rows /\ vms[b] = 0 /\ vm[b] = 0
    BY <1>1, <1>5, <1>9 DEF CallOf, OneCall, ProcsOf, IndexOf, GoneOf, Waiting, Released, Held,
       KnownIndex, SpawnStage
  <2>2. NothingForgotten(b)
    BY <1>1, <1>2, <1>4, <2>1 DEF NothingForgotten, Names
  <2>3. OneCall(b)' /\ GoneOf(b)'
    BY <1>1, <1>2, <1>4, <1>9, <2>1 DEF OneCall, GoneOf, Waiting
  <2>4. ProcsOf(b)'
    BY <1>1, <1>2, <1>4, <1>5, <1>9, <2>1 DEF ProcsOf, CallOf, Names, Waiting, SpawnStage
  <2>5. IndexOf(b)' /\ Held(b)' = Held(b)
    BY <1>1, <1>2, <1>4, <1>9, <2>1 DEF IndexOf, Released, Held, KnownIndex
  <2> QED
    BY <2>2, <2>3, <2>4, <2>5 DEF Sound
<1>10. ForksExact'
  <2>1. \A q \in ID : b \in Forking(q)' <=> b \in Forking(q)
    BY <1>1, <1>2, <1>4, <1>5 DEF Forking, SpawnStage, KillStage
  <2> QED
    BY <1>1, <1>6, <2>1, ForksStay
<1> QED
    BY <1>1, <1>3, <1>5, <1>6, <1>7, <1>8, <1>9, <1>10, QuietKeeps

\* The row goes when process, namespace and files are gone.
LEMMA KillRemoveKeeps ==
    ASSUME FCInv, NEW b \in ID, KillRemove(b)
    PROVE  FCInv'
<1> USE TypeFacts
<1>1. /\ pc[b] = "remove" /\ pc' = [pc EXCEPT ![b] = "none"] /\ vm' = [vm EXCEPT ![b] = 0]
      /\ UNCHANGED <<up, crashes, vms, pending, forks, procs, started, lost, stray, shared, raced,
                     tangled, index, free, next, spaces, veths, parent, idx, restarting, newvm,
                     newidx>>
    BY DEF KillRemove, Goto, Fault, RemoveDir, handles, vmm, history, network, restarts
<1>2. /\ idxfile' = [idxfile EXCEPT ![b] = NoIndex] /\ pidfile' = [pidfile EXCEPT ![b] = 0]
      /\ \/ dirs' = dirs \ {b} /\ saved' = saved \ {b} /\ rows' = rows \ {b} /\ faults' = faults
         \/ UNCHANGED <<dirs, saved, rows>> /\ faults' \in 0 .. MaxFaults
    BY <1>1 DEF KillRemove, Goto, Fault, RemoveDir, handles, vmm, history, network, restarts
<1>3. FCTypeOK'
    BY <1>1, <1>2 DEF FCTypeOK, SpawnStage, KillStage, RestartStage, NoIndex
<1>4. /\ pc'[b] = "none" /\ vm'[b] = 0 /\ idxfile'[b] = NoIndex /\ pidfile'[b] = 0
      /\ \A c \in ID \ {b} : /\ pc'[c] = pc[c] /\ idxfile'[c] = idxfile[c]
                              /\ vm'[c] = vm[c] /\ pidfile'[c] = pidfile[c]
    BY <1>1, <1>2 DEF FCTypeOK
<1>5. up
    BY <1>1 DEF CallOf
<1>6. OthersSame(b) /\ ProcsGrow(b)
    BY <1>1, <1>2, <1>4, <1>5 DEF OthersSame, ProcsGrow
<1>7. CallOf(b)' /\ IndexNames(b)' \subseteq IndexNames(b) \cup {NoIndex}
    BY <1>1, <1>2, <1>4, <1>5 DEF CallOf, Names, IndexNames, RestartStage
<1>8. b \in raced => Names(b)' \subseteq Names(b) \cup lost' \cup {0}
    BY <1>1, <1>2, <1>4 DEF Names
<1>9. ASSUME b \notin raced PROVE  NothingForgotten(b) /\ Sound(b)' /\ Held(b)' = Held(b)
  <2>1. /\ Waiting(b) /\ b \in rows /\ vms[b] = 0 /\ pidfile[b] \notin procs /\ vm[b] \notin procs
        /\ index[b] = NoIndex /\ Held(b) = NoIndex /\ (b \in spaces => b \in stray)
    BY <1>1, <1>5, <1>9 DEF CallOf, OneCall, ProcsOf, IndexOf, GoneOf, Waiting, Released, Held,
       KnownIndex, SpawnStage
  <2>2. NothingForgotten(b)
    BY <1>1, <1>2, <1>4, <2>1 DEF NothingForgotten, Names
  <2>3. OneCall(b)' /\ GoneOf(b)'
    BY <1>1, <1>2, <1>4, <1>9, <2>1 DEF OneCall, GoneOf, Waiting
  <2>4. ProcsOf(b)'
    BY <1>1, <1>2, <1>4, <1>5, <1>9, <2>1 DEF ProcsOf, CallOf, Names, Waiting, SpawnStage
  <2>5. IndexOf(b)' /\ Held(b)' = Held(b)
    BY <1>1, <1>2, <1>4, <1>9, <2>1 DEF IndexOf, Released, Held, KnownIndex
  <2> QED
    BY <2>2, <2>3, <2>4, <2>5 DEF Sound
<1>10. ForksExact'
  <2>1. \A q \in ID : b \in Forking(q)' <=> b \in Forking(q)
    BY <1>1, <1>2, <1>4, <1>5 DEF Forking, SpawnStage, KillStage
  <2> QED
    BY <1>1, <1>6, <2>1, ForksStay
<1> QED
    BY <1>1, <1>3, <1>5, <1>6, <1>7, <1>8, <1>9, <1>10, QuietKeeps

-----------------------------------------------------------------------------
\* restart and checkpoint

\* A dead branch with a handle is listed.
LEMMA SweepDeadKeeps ==
    ASSUME FCInv, NEW b \in ID, SweepDead(b)
    PROVE  FCInv'
<1> USE TypeFacts
<1>1. /\ up /\ b \in rows /\ pc[b] = "none" /\ restarting[b] = "none" /\ vms[b] # 0
      /\ UNCHANGED <<rows, up, crashes, vms, pending, forks, procs, started, lost, stray, shared,
                     raced, tangled, pidfile, dirs, saved, idxfile, index, free, next, spaces,
                     veths, pc, vm, parent, idx, newvm, newidx, faults>>
    BY DEF SweepDead, RGoto, Dead, registry, handles, vmm, history, files, network, calls
<1>2. restarting' = [restarting EXCEPT ![b] = "called"]
    BY <1>1 DEF SweepDead, RGoto, Dead, registry, handles, vmm, history, files, network, calls
<1>3. FCTypeOK'
    BY <1>1, <1>2 DEF FCTypeOK, SpawnStage, KillStage, RestartStage, NoIndex
<1>4. restarting'[b] = "called" /\ \A c \in ID \ {b} : restarting'[c] = restarting[c]
    BY <1>1, <1>2 DEF FCTypeOK
<1>5. up
    BY <1>1 DEF CallOf
<1>6. OthersSame(b) /\ ProcsGrow(b)
    BY <1>1, <1>2, <1>4, <1>5 DEF OthersSame, ProcsGrow
<1>7. CallOf(b)' /\ IndexNames(b)' \subseteq IndexNames(b) \cup {NoIndex}
    BY <1>1, <1>2, <1>4, <1>5 DEF CallOf, Names, IndexNames, RestartStage
<1>8. b \in raced => Names(b)' \subseteq Names(b) \cup lost' \cup {0}
    BY <1>1, <1>2, <1>4 DEF Names
<1>9. ASSUME b \notin raced PROVE  NothingForgotten(b) /\ Sound(b)' /\ Held(b)' = Held(b)
  <2>1. Waiting(b) /\ pidfile[b] = vms[b]
    BY <1>1, <1>5, <1>9 DEF CallOf, OneCall, ProcsOf, IndexOf, GoneOf, Waiting, Released, Held,
       KnownIndex, SpawnStage
  <2>2. NothingForgotten(b)
    BY <1>1, <1>2, <1>4, <2>1 DEF NothingForgotten, Names
  <2>3. OneCall(b)' /\ GoneOf(b)'
    BY <1>1, <1>2, <1>4, <1>9, <2>1 DEF OneCall, GoneOf, Waiting
  <2>4. ProcsOf(b)'
    BY <1>1, <1>2, <1>4, <1>5, <1>9, <2>1 DEF ProcsOf, CallOf, Names, Waiting, SpawnStage
  <2>5. IndexOf(b)' /\ Held(b)' = Held(b)
    BY <1>1, <1>2, <1>4, <1>9, <2>1 DEF IndexOf, Released, Held, KnownIndex
  <2> QED
    BY <2>2, <2>3, <2>4, <2>5 DEF Sound
<1>10. ForksExact'
  <2>1. \A q \in ID : b \in Forking(q)' <=> b \in Forking(q)
    BY <1>1, <1>2, <1>4, <1>5 DEF Forking, SpawnStage, KillStage
  <2> QED
    BY <1>1, <1>6, <2>1, ForksStay
<1> QED
    BY <1>1, <1>3, <1>5, <1>6, <1>7, <1>8, <1>9, <1>10, QuietKeeps

\* The handle that is dropped is of a dead process.
LEMMA RestartKeeps ==
    ASSUME FCInv, NEW b \in ID, Restart(b)
    PROVE  FCInv'
<1> USE TypeFacts
<1>1. /\ restarting[b] = "called"
      /\ UNCHANGED <<rows, up, crashes, pending, forks, procs, started, lost, stray, shared,
                     raced, tangled, pidfile, dirs, saved, idxfile, index, free, next, spaces,
                     veths, pc, vm, parent, idx, newvm, newidx, faults>>
    BY DEF Restart, RGoto, registry, vmm, history, files, network, calls
<1>2. \/ vms[b] \in procs /\ restarting' = [restarting EXCEPT ![b] = "none"] /\ vms' = vms
      \/ /\ vms[b] \notin procs /\ restarting' = [restarting EXCEPT ![b] = "paths"]
         /\ vms' = [vms EXCEPT ![b] = 0]
    BY <1>1 DEF Restart, RGoto, registry, vmm, history, files, network, calls
<1>3. FCTypeOK'
    BY <1>1, <1>2 DEF FCTypeOK, SpawnStage, KillStage, RestartStage, NoIndex
<1>4. /\ \/ restarting'[b] = "none" /\ vms'[b] = vms[b]
         \/ restarting'[b] = "paths" /\ vms'[b] = 0 /\ vms[b] \notin procs
      /\ \A c \in ID \ {b} : restarting'[c] = restarting[c] /\ vms'[c] = vms[c]
    BY <1>1, <1>2 DEF FCTypeOK
<1>5. up
    BY <1>1 DEF CallOf
<1>6. OthersSame(b) /\ ProcsGrow(b)
    BY <1>1, <1>2, <1>4, <1>5 DEF OthersSame, ProcsGrow
<1>7. CallOf(b)' /\ IndexNames(b)' \subseteq IndexNames(b) \cup {NoIndex}
    BY <1>1, <1>2, <1>4, <1>5 DEF CallOf, Names, IndexNames, RestartStage
<1>8. b \in raced => Names(b)' \subseteq Names(b) \cup lost' \cup {0}
    BY <1>1, <1>2, <1>4 DEF Names
<1>9. ASSUME b \notin raced PROVE  NothingForgotten(b) /\ Sound(b)' /\ Held(b)' = Held(b)
  <2>1. pidfile[b] \notin procs \/ pidfile[b] \in {vms[b], vm[b]}
    BY <1>1, <1>5, <1>9 DEF CallOf, OneCall, ProcsOf, IndexOf, GoneOf, Waiting, Released, Held,
       KnownIndex, SpawnStage
  <2>2. NothingForgotten(b)
    BY <1>1, <1>2, <1>4, <2>1 DEF NothingForgotten, Names
  <2>3. OneCall(b)' /\ GoneOf(b)'
    BY <1>1, <1>2, <1>4, <1>9, <2>1 DEF OneCall, GoneOf, Waiting
  <2>4. ProcsOf(b)'
    BY <1>1, <1>2, <1>4, <1>5, <1>9, <2>1 DEF ProcsOf, CallOf, Names, Waiting, SpawnStage
  <2>5. IndexOf(b)' /\ Held(b)' = Held(b)
    BY <1>1, <1>2, <1>4, <1>9, <2>1 DEF IndexOf, Released, Held, KnownIndex
  <2> QED
    BY <2>2, <2>3, <2>4, <2>5 DEF Sound
<1>10. ForksExact'
  <2>1. \A q \in ID : b \in Forking(q)' <=> b \in Forking(q)
    BY <1>1, <1>2, <1>4, <1>5 DEF Forking, SpawnStage, KillStage
  <2> QED
    BY <1>1, <1>6, <2>1, ForksStay
<1> QED
    BY <1>1, <1>3, <1>5, <1>6, <1>7, <1>8, <1>9, <1>10, QuietKeeps

\* restart goes on only for a branch with a row, or b has raced.
LEMMA RestartPathsKeeps ==
    ASSUME FCInv, NEW b \in ID, RestartPaths(b)
    PROVE  FCInv'
<1> USE TypeFacts
<1>1. /\ restarting[b] = "paths" /\ dirs' = dirs \cup {b}
      /\ UNCHANGED <<rows, up, crashes, vms, pending, forks, procs, started, stray, shared,
                     pidfile, saved, idxfile, index, free, next, spaces, veths, pc, vm, parent,
                     idx, newvm, newidx>>
      /\ faults' \in 0 .. MaxFaults
    BY DEF RestartPaths, RGoto, Fault, Race, registry, handles, vmm, history, network, calls
<1>2. /\ restarting' = [restarting EXCEPT ![b] = IF b \in saved THEN "drop" ELSE "none"]
      /\ \/ Race(b)
         \/ /\ b \in saved => pc[b] = "none" /\ vms[b] = 0
            /\ UNCHANGED <<lost, raced, tangled>>
    BY <1>1 DEF RestartPaths, Waiting, RGoto, registry, handles, vmm, history, network, calls
<1>3. FCTypeOK'
    BY <1>1, <1>2, RaceTypes DEF FCTypeOK, SpawnStage, KillStage, RestartStage, NoIndex
<1>4. /\ restarting'[b] = IF b \in saved THEN "drop" ELSE "none"
      /\ \A c \in ID \ {b} : restarting'[c] = restarting[c]
    BY <1>1, <1>2 DEF FCTypeOK
<1>5. up
    BY <1>1 DEF CallOf
<1>6. OthersSame(b) /\ ProcsGrow(b)
    BY <1>1, <1>2, <1>4, <1>5, RaceTypes DEF OthersSame, ProcsGrow
<1>7. CallOf(b)' /\ IndexNames(b)' \subseteq IndexNames(b) \cup {NoIndex}
    BY <1>1, <1>2, <1>4, <1>5 DEF CallOf, Names, IndexNames, RestartStage
<1>8. Names(b)' \subseteq Names(b) \cup {0}
    BY <1>1, <1>2, <1>4 DEF Names
<1>10. ForksExact'
  <2>1. \A q \in ID : b \in Forking(q)' <=> b \in Forking(q)
    BY <1>1, <1>2, <1>4, <1>5 DEF Forking, SpawnStage, KillStage
  <2> QED
    BY <1>1, <1>6, <2>1, ForksStay
<1>9. ASSUME b \notin raced, UNCHANGED <<lost, raced, tangled>>, ~Race(b)
      PROVE  NothingForgotten(b) /\ Sound(b)' /\ Held(b)' = Held(b)
  <2>1. (pidfile[b] \notin procs \/ pidfile[b] \in {vms[b], vm[b]}) /\ (b \in saved => b \in rows)
    BY <1>1, <1>5, <1>9 DEF CallOf, OneCall, ProcsOf, IndexOf, GoneOf, Waiting, Released, Held,
       KnownIndex, SpawnStage
  <2>2. NothingForgotten(b)
    BY <1>1, <1>2, <1>4, <2>1 DEF NothingForgotten, Names
  <2>3. OneCall(b)' /\ GoneOf(b)'
    BY <1>1, <1>2, <1>4, <1>9, <2>1 DEF OneCall, GoneOf, Waiting
  <2>4. ProcsOf(b)'
    BY <1>1, <1>2, <1>4, <1>5, <1>9, <2>1 DEF ProcsOf, CallOf, Names, Waiting, SpawnStage
  <2>5. IndexOf(b)' /\ Held(b)' = Held(b)
    BY <1>1, <1>2, <1>4, <1>9, <2>1 DEF IndexOf, Released, Held, KnownIndex
  <2> QED
    BY <2>2, <2>3, <2>4, <2>5 DEF Sound
<1>11. CASE Race(b)
    BY <1>1, <1>3, <1>5, <1>6, <1>7, <1>8, <1>10, <1>11, RaceKeeps, RaceTypes
<1>12. CASE ~Race(b)
    BY <1>1, <1>2, <1>3, <1>5, <1>6, <1>7, <1>8, <1>9, <1>10, <1>12, QuietKeeps
<1> QED
    BY <1>11, <1>12

\* The records that go are of a dead process and of a released index.
LEMMA RestartUnlinkKeeps ==
    ASSUME FCInv, NEW b \in ID, RestartUnlink(b)
    PROVE  FCInv'
<1> USE TypeFacts
<1>1. /\ restarting[b] \in {"unlink", "clear"}
      /\ UNCHANGED <<rows, up, crashes, vms, pending, forks, procs, started, lost, stray, shared,
                     raced, tangled, saved, index, free, next, spaces, veths, pc, vm, parent, idx,
                     newvm, newidx, faults>>
    BY DEF RestartUnlink, RGoto, registry, handles, vmm, history, network, calls
<1>2. /\ pidfile' = [pidfile EXCEPT ![b] = 0] /\ dirs' = dirs \cup {b}
      /\ idxfile' = IF restarting[b] = "unlink" THEN [idxfile EXCEPT ![b] = NoIndex] ELSE idxfile
      /\ restarting' = [restarting EXCEPT ![b] = "netns"]
    BY <1>1 DEF RestartUnlink, RGoto, registry, handles, vmm, history, network, calls
<1>3. FCTypeOK'
    BY <1>1, <1>2 DEF FCTypeOK, SpawnStage, KillStage, RestartStage, NoIndex
<1>4. /\ restarting'[b] = "netns" /\ pidfile'[b] = 0
      /\ idxfile'[b] = IF restarting[b] = "unlink" THEN NoIndex ELSE idxfile[b]
      /\ \A c \in ID \ {b} : /\ restarting'[c] = restarting[c] /\ pidfile'[c] = pidfile[c]
                              /\ idxfile'[c] = idxfile[c]
    BY <1>1, <1>2 DEF FCTypeOK
<1>5. up
    BY <1>1 DEF CallOf
<1>6. OthersSame(b) /\ ProcsGrow(b)
    BY <1>1, <1>2, <1>4, <1>5 DEF OthersSame, ProcsGrow
<1>7. CallOf(b)' /\ IndexNames(b)' \subseteq IndexNames(b) \cup {NoIndex}
    BY <1>1, <1>2, <1>4, <1>5 DEF CallOf, Names, IndexNames, RestartStage
<1>8. b \in raced => Names(b)' \subseteq Names(b) \cup lost' \cup {0}
    BY <1>1, <1>2, <1>4 DEF Names
<1>9. ASSUME b \notin raced PROVE  NothingForgotten(b) /\ Sound(b)' /\ Held(b)' = Held(b)
  <2>1. /\ pc[b] = "none" /\ b \in rows /\ vms[b] = 0 /\ pidfile[b] \notin procs
        /\ index[b] = NoIndex /\ Held(b) = NoIndex
        /\ restarting[b] = "clear" => idxfile[b] = NoIndex
    BY <1>1, <1>5, <1>9 DEF CallOf, OneCall, ProcsOf, IndexOf, GoneOf, Waiting, Released, Held,
       KnownIndex, SpawnStage
  <2>2. NothingForgotten(b)
    BY <1>1, <1>2, <1>4, <2>1 DEF NothingForgotten, Names
  <2>3. OneCall(b)' /\ GoneOf(b)'
    BY <1>1, <1>2, <1>4, <1>9, <2>1 DEF OneCall, GoneOf, Waiting
  <2>4. ProcsOf(b)'
    BY <1>1, <1>2, <1>4, <1>5, <1>9, <2>1 DEF ProcsOf, CallOf, Names, Waiting, SpawnStage
  <2>5. IndexOf(b)' /\ Held(b)' = Held(b)
    BY <1>1, <1>2, <1>4, <1>9, <2>1 DEF IndexOf, Released, Held, KnownIndex
  <2> QED
    BY <2>2, <2>3, <2>4, <2>5 DEF Sound
<1>10. ForksExact'
  <2>1. \A q \in ID : b \in Forking(q)' <=> b \in Forking(q)
    BY <1>1, <1>2, <1>4, <1>5 DEF Forking, SpawnStage, KillStage
  <2> QED
    BY <1>1, <1>6, <2>1, ForksStay
<1> QED
    BY <1>1, <1>3, <1>5, <1>6, <1>7, <1>8, <1>9, <1>10, QuietKeeps

\* netns.idx names the index that memory already has.
LEMMA RestartJournalKeeps ==
    ASSUME FCInv, NEW b \in ID, RestartJournal(b)
    PROVE  FCInv'
<1> USE TypeFacts
<1>1. /\ restarting[b] = "journal" /\ dirs' = dirs \cup {b}
      /\ newidx' = [newidx EXCEPT ![b] = NoIndex]
      /\ UNCHANGED <<rows, up, crashes, vms, pending, forks, procs, started, lost, stray, shared,
                     raced, tangled, pidfile, saved, index, free, next, spaces, veths, pc, vm,
                     parent, idx, newvm>>
    BY DEF RestartJournal, RGoto, Fault, registry, handles, vmm, history, network, calls
<1>2. \/ /\ restarting' = [restarting EXCEPT ![b] = "start"]
         /\ idxfile' = [idxfile EXCEPT ![b] = newidx[b]] /\ faults' = faults
      \/ /\ restarting' = [restarting EXCEPT ![b] = "none"] /\ idxfile' = idxfile
         /\ faults' \in 0 .. MaxFaults
    BY <1>1 DEF RestartJournal, RGoto, Fault, registry, handles, vmm, history, network, calls
<1>3. FCTypeOK'
    BY <1>1, <1>2 DEF FCTypeOK, SpawnStage, KillStage, RestartStage, NoIndex
<1>4. /\ \/ restarting'[b] = "start" /\ idxfile'[b] = newidx[b]
         \/ restarting'[b] = "none" /\ idxfile'[b] = idxfile[b]
      /\ newidx'[b] = NoIndex
      /\ \A c \in ID \ {b} : /\ restarting'[c] = restarting[c] /\ idxfile'[c] = idxfile[c]
                              /\ newidx'[c] = newidx[c]
    BY <1>1, <1>2 DEF FCTypeOK
<1>5. up
    BY <1>1 DEF CallOf
<1>6. OthersSame(b) /\ ProcsGrow(b)
    BY <1>1, <1>2, <1>4, <1>5 DEF OthersSame, ProcsGrow
<1>7. CallOf(b)' /\ IndexNames(b)' \subseteq IndexNames(b) \cup {NoIndex}
    BY <1>1, <1>2, <1>4, <1>5 DEF CallOf, Names, IndexNames, RestartStage
<1>8. b \in raced => Names(b)' \subseteq Names(b) \cup lost' \cup {0}
    BY <1>1, <1>2, <1>4 DEF Names
<1>9. ASSUME b \notin raced PROVE  NothingForgotten(b) /\ Sound(b)' /\ Held(b)' = Held(b)
  <2>1. /\ pc[b] = "none" /\ b \in rows /\ vms[b] = 0 /\ index[b] # NoIndex /\ newidx[b] = index[b]
        /\ pidfile[b] \notin procs
    BY <1>1, <1>5, <1>9 DEF CallOf, OneCall, ProcsOf, IndexOf, GoneOf, Waiting, Released, Held,
       KnownIndex, SpawnStage
  <2>2. NothingForgotten(b)
    BY <1>1, <1>2, <1>4, <2>1 DEF NothingForgotten, Names
  <2>3. OneCall(b)' /\ GoneOf(b)'
    BY <1>1, <1>2, <1>4, <1>9, <2>1 DEF OneCall, GoneOf, Waiting
  <2>4. ProcsOf(b)'
    BY <1>1, <1>2, <1>4, <1>5, <1>9, <2>1 DEF ProcsOf, CallOf, Names, Waiting, SpawnStage
  <2>5. IndexOf(b)' /\ Held(b)' = Held(b)
    BY <1>1, <1>2, <1>4, <1>9, <2>1 DEF IndexOf, Released, Held, KnownIndex
  <2> QED
    BY <2>2, <2>3, <2>4, <2>5 DEF Sound
<1>10. ForksExact'
  <2>1. \A q \in ID : b \in Forking(q)' <=> b \in Forking(q)
    BY <1>1, <1>2, <1>4, <1>5 DEF Forking, SpawnStage, KillStage
  <2> QED
    BY <1>1, <1>6, <2>1, ForksStay
<1> QED
    BY <1>1, <1>3, <1>5, <1>6, <1>7, <1>8, <1>9, <1>10, QuietKeeps

\* The index was released before.
LEMMA RestartAbortKeeps ==
    ASSUME FCInv, NEW b \in ID, RestartAbort(b)
    PROVE  FCInv'
<1> USE TypeFacts
<1>1. /\ restarting[b] = "abort"
      /\ UNCHANGED <<rows, up, crashes, vms, pending, forks, procs, started, lost, stray, shared,
                     raced, tangled, pidfile, dirs, saved, index, free, next, spaces, veths, pc,
                     vm, parent, idx, newvm, newidx, faults>>
    BY DEF RestartAbort, RGoto, registry, handles, vmm, history, network, calls
<1>2. /\ idxfile' = [idxfile EXCEPT ![b] = NoIndex]
      /\ restarting' = [restarting EXCEPT ![b] = "none"]
    BY <1>1 DEF RestartAbort, RGoto, registry, handles, vmm, history, network, calls
<1>3. FCTypeOK'
    BY <1>1, <1>2 DEF FCTypeOK, SpawnStage, KillStage, RestartStage, NoIndex
<1>4. /\ restarting'[b] = "none" /\ idxfile'[b] = NoIndex
      /\ \A c \in ID \ {b} : restarting'[c] = restarting[c] /\ idxfile'[c] = idxfile[c]
    BY <1>1, <1>2 DEF FCTypeOK
<1>5. up
    BY <1>1 DEF CallOf
<1>6. OthersSame(b) /\ ProcsGrow(b)
    BY <1>1, <1>2, <1>4, <1>5 DEF OthersSame, ProcsGrow
<1>7. CallOf(b)' /\ IndexNames(b)' \subseteq IndexNames(b) \cup {NoIndex}
    BY <1>1, <1>2, <1>4, <1>5 DEF CallOf, Names, IndexNames, RestartStage
<1>8. b \in raced => Names(b)' \subseteq Names(b) \cup lost' \cup {0}
    BY <1>1, <1>2, <1>4 DEF Names
<1>9. ASSUME b \notin raced PROVE  NothingForgotten(b) /\ Sound(b)' /\ Held(b)' = Held(b)
  <2>1. pc[b] = "none" /\ b \in rows /\ vms[b] = 0 /\ index[b] = NoIndex /\ Held(b) = NoIndex
    BY <1>1, <1>5, <1>9 DEF CallOf, OneCall, ProcsOf, IndexOf, GoneOf, Waiting, Released, Held,
       KnownIndex, SpawnStage
  <2>2. NothingForgotten(b)
    BY <1>1, <1>2, <1>4, <2>1 DEF NothingForgotten, Names
  <2>3. OneCall(b)' /\ GoneOf(b)'
    BY <1>1, <1>2, <1>4, <1>9, <2>1 DEF OneCall, GoneOf, Waiting
  <2>4. ProcsOf(b)'
    BY <1>1, <1>2, <1>4, <1>5, <1>9, <2>1 DEF ProcsOf, CallOf, Names, Waiting, SpawnStage
  <2>5. IndexOf(b)' /\ Held(b)' = Held(b)
    BY <1>1, <1>2, <1>4, <1>9, <2>1 DEF IndexOf, Released, Held, KnownIndex
  <2> QED
    BY <2>2, <2>3, <2>4, <2>5 DEF Sound
<1>10. ForksExact'
  <2>1. \A q \in ID : b \in Forking(q)' <=> b \in Forking(q)
    BY <1>1, <1>2, <1>4, <1>5 DEF Forking, SpawnStage, KillStage
  <2> QED
    BY <1>1, <1>6, <2>1, ForksStay
<1> QED
    BY <1>1, <1>3, <1>5, <1>6, <1>7, <1>8, <1>9, <1>10, QuietKeeps

\* fc.pid names the process, or it is lost.
LEMMA RestartRecordKeeps ==
    ASSUME FCInv, NEW b \in ID, RestartRecord(b)
    PROVE  FCInv'
<1> USE TypeFacts
<1>1. /\ restarting[b] = "record"
      /\ UNCHANGED <<rows, up, crashes, vms, pending, forks, procs, started, stray, shared, raced,
                     tangled, dirs, saved, idxfile, index, free, next, spaces, veths, pc, vm,
                     parent, idx, newidx>>
    BY DEF RestartRecord, RGoto, Fault, registry, handles, vmm, network, calls
<1>2. \/ /\ restarting' = [restarting EXCEPT ![b] = "register"] /\ lost' = lost
         /\ pidfile' = [pidfile EXCEPT ![b] = newvm[b]] /\ UNCHANGED <<newvm, faults>>
      \/ /\ restarting' = [restarting EXCEPT ![b] = "none"] /\ pidfile' = pidfile
         /\ lost' = lost \cup {newvm[b]} /\ newvm' = [newvm EXCEPT ![b] = 0]
         /\ faults' \in 0 .. MaxFaults
    BY <1>1 DEF RestartRecord, RGoto, Fault, registry, handles, vmm, network, calls
<1>3. FCTypeOK'
    BY <1>1, <1>2 DEF FCTypeOK, RestartStage, CallOf, Names
<1>4. /\ \/ restarting'[b] = "register" /\ pidfile'[b] = newvm[b] /\ newvm'[b] = newvm[b]
         \/ /\ restarting'[b] = "none" /\ pidfile'[b] = pidfile[b] /\ newvm'[b] = 0
            /\ newvm[b] \in lost'
      /\ \A c \in ID \ {b} : /\ restarting'[c] = restarting[c] /\ pidfile'[c] = pidfile[c]
                              /\ newvm'[c] = newvm[c]
    BY <1>1, <1>2 DEF FCTypeOK
<1>5. up
    BY <1>1 DEF CallOf
<1>6. OthersSame(b) /\ ProcsGrow(b)
    BY <1>1, <1>2, <1>4, <1>5 DEF OthersSame, ProcsGrow
<1>7. CallOf(b)' /\ IndexNames(b)' \subseteq IndexNames(b) \cup {NoIndex}
    BY <1>1, <1>2, <1>4, <1>5 DEF CallOf, Names, IndexNames, RestartStage
<1>8. b \in raced => Names(b)' \subseteq Names(b) \cup lost' \cup {0}
    BY <1>1, <1>2, <1>4 DEF Names
<1>9. ASSUME b \notin raced PROVE  NothingForgotten(b) /\ Sound(b)' /\ Held(b)' = Held(b)
  <2>1. /\ pc[b] = "none" /\ b \in rows /\ vms[b] = 0 /\ vm[b] = 0 /\ newvm[b] # 0
        /\ pidfile[b] \notin procs /\ index[b] # NoIndex
    BY <1>1, <1>5, <1>9 DEF CallOf, OneCall, ProcsOf, IndexOf, GoneOf, Waiting, Released, Held,
       KnownIndex, SpawnStage
  <2>2. NothingForgotten(b)
    BY <1>1, <1>2, <1>4, <2>1 DEF NothingForgotten, Names
  <2>3. OneCall(b)' /\ GoneOf(b)'
    BY <1>1, <1>2, <1>4, <1>9, <2>1 DEF OneCall, GoneOf, Waiting
  <2>4. ProcsOf(b)'
    BY <1>1, <1>2, <1>4, <1>5, <1>9, <2>1 DEF ProcsOf, CallOf, Names, Waiting, SpawnStage
  <2>5. IndexOf(b)' /\ Held(b)' = Held(b)
    BY <1>1, <1>2, <1>4, <1>9, <2>1 DEF IndexOf, Released, Held, KnownIndex
  <2> QED
    BY <2>2, <2>3, <2>4, <2>5 DEF Sound
<1>10. ForksExact'
  <2>1. \A q \in ID : b \in Forking(q)' <=> b \in Forking(q)
    BY <1>1, <1>2, <1>4, <1>5 DEF Forking, SpawnStage, KillStage
  <2> QED
    BY <1>1, <1>6, <2>1, ForksStay
<1> QED
    BY <1>1, <1>3, <1>5, <1>6, <1>7, <1>8, <1>9, <1>10, QuietKeeps

\* The handle names the recorded process.
LEMMA RestartRegisterKeeps ==
    ASSUME FCInv, NEW b \in ID, RestartRegister(b)
    PROVE  FCInv'
<1> USE TypeFacts
<1>1. /\ restarting[b] = "register"
      /\ UNCHANGED <<rows, up, crashes, pending, forks, procs, started, lost, stray, shared,
                     raced, tangled, pidfile, dirs, saved, idxfile, index, free, next, spaces,
                     veths, pc, vm, parent, idx, newidx, faults>>
    BY DEF RestartRegister, RGoto, registry, vmm, history, files, network, calls
<1>2. /\ vms' = [vms EXCEPT ![b] = newvm[b]] /\ newvm' = [newvm EXCEPT ![b] = 0]
      /\ restarting' = [restarting EXCEPT ![b] = "none"]
    BY <1>1 DEF RestartRegister, RGoto, registry, vmm, history, files, network, calls
<1>3. FCTypeOK'
    BY <1>1, <1>2 DEF FCTypeOK, SpawnStage, KillStage, RestartStage, NoIndex
<1>4. /\ restarting'[b] = "none" /\ vms'[b] = newvm[b] /\ newvm'[b] = 0
      /\ \A c \in ID \ {b} : /\ restarting'[c] = restarting[c] /\ vms'[c] = vms[c]
                              /\ newvm'[c] = newvm[c]
    BY <1>1, <1>2 DEF FCTypeOK
<1>5. up
    BY <1>1 DEF CallOf
<1>6. OthersSame(b) /\ ProcsGrow(b)
    BY <1>1, <1>2, <1>4, <1>5 DEF OthersSame, ProcsGrow
<1>7. CallOf(b)' /\ IndexNames(b)' \subseteq IndexNames(b) \cup {NoIndex}
    BY <1>1, <1>2, <1>4, <1>5 DEF CallOf, Names, IndexNames, RestartStage
<1>8. b \in raced => Names(b)' \subseteq Names(b) \cup lost' \cup {0}
    BY <1>1, <1>2, <1>4 DEF Names
<1>9. ASSUME b \notin raced PROVE  NothingForgotten(b) /\ Sound(b)' /\ Held(b)' = Held(b)
  <2>1. /\ pc[b] = "none" /\ b \in rows /\ vms[b] = 0 /\ vm[b] = 0
        /\ pidfile[b] = newvm[b] /\ index[b] # NoIndex
    BY <1>1, <1>5, <1>9 DEF CallOf, OneCall, ProcsOf, IndexOf, GoneOf, Waiting, Released, Held,
       KnownIndex, SpawnStage
  <2>2. NothingForgotten(b)
    BY <1>1, <1>2, <1>4, <2>1 DEF NothingForgotten, Names
  <2>3. OneCall(b)' /\ GoneOf(b)'
    BY <1>1, <1>2, <1>4, <1>9, <2>1 DEF OneCall, GoneOf, Waiting
  <2>4. ProcsOf(b)'
    BY <1>1, <1>2, <1>4, <1>5, <1>9, <2>1 DEF ProcsOf, CallOf, Names, Waiting, SpawnStage
  <2>5. IndexOf(b)' /\ Held(b)' = Held(b)
    BY <1>1, <1>2, <1>4, <1>9, <2>1 DEF IndexOf, Released, Held, KnownIndex
  <2> QED
    BY <2>2, <2>3, <2>4, <2>5 DEF Sound
<1>10. ForksExact'
  <2>1. \A q \in ID : b \in Forking(q)' <=> b \in Forking(q)
    BY <1>1, <1>2, <1>4, <1>5 DEF Forking, SpawnStage, KillStage
  <2> QED
    BY <1>1, <1>6, <2>1, ForksStay
<1> QED
    BY <1>1, <1>3, <1>5, <1>6, <1>7, <1>8, <1>9, <1>10, QuietKeeps

\* A branch with a handle has a row.
LEMMA CheckpointKeeps ==
    ASSUME FCInv, NEW b \in ID, Checkpoint(b)
    PROVE  FCInv'
<1> USE TypeFacts
<1>1. /\ up /\ vms[b] \in procs
      /\ UNCHANGED <<rows, up, crashes, vms, pending, forks, procs, started, lost, stray, shared,
                     raced, tangled, pidfile, idxfile, index, free, next, spaces, veths, pc, vm,
                     parent, idx, restarting, newvm, newidx, faults>>
    BY DEF Checkpoint, registry, handles, vmm, history, network, calls, restarts
<1>2. dirs' = dirs \cup {b} /\ saved' = saved \cup {b}
    BY <1>1 DEF Checkpoint, registry, handles, vmm, history, network, calls, restarts
<1>3. FCTypeOK'
    BY <1>1, <1>2 DEF FCTypeOK, SpawnStage, KillStage, RestartStage, NoIndex
<1>4. \A c \in ID \ {b} : c \in saved' => c \in saved
    BY <1>1, <1>2 DEF FCTypeOK
<1>5. up
    BY <1>1 DEF CallOf
<1>6. OthersSame(b) /\ ProcsGrow(b)
    BY <1>1, <1>2, <1>4, <1>5 DEF OthersSame, ProcsGrow
<1>7. CallOf(b)' /\ IndexNames(b)' \subseteq IndexNames(b) \cup {NoIndex}
    BY <1>1, <1>2, <1>4, <1>5 DEF CallOf, Names, IndexNames, RestartStage
<1>8. b \in raced => Names(b)' \subseteq Names(b) \cup lost' \cup {0}
    BY <1>1, <1>2, <1>4 DEF Names
<1>9. ASSUME b \notin raced PROVE  NothingForgotten(b) /\ Sound(b)' /\ Held(b)' = Held(b)
  <2>1. Waiting(b) /\ b \in rows
    BY <1>1, <1>5, <1>9 DEF CallOf, OneCall, ProcsOf, IndexOf, GoneOf, Waiting, Released, Held,
       KnownIndex, SpawnStage
  <2>2. NothingForgotten(b)
    BY <1>1, <1>2, <1>4, <2>1 DEF NothingForgotten, Names
  <2>3. OneCall(b)' /\ GoneOf(b)'
    BY <1>1, <1>2, <1>4, <1>9, <2>1 DEF OneCall, GoneOf, Waiting
  <2>4. ProcsOf(b)'
    BY <1>1, <1>2, <1>4, <1>5, <1>9, <2>1 DEF ProcsOf, CallOf, Names, Waiting, SpawnStage
  <2>5. IndexOf(b)' /\ Held(b)' = Held(b)
    BY <1>1, <1>2, <1>4, <1>9, <2>1 DEF IndexOf, Released, Held, KnownIndex
  <2> QED
    BY <2>2, <2>3, <2>4, <2>5 DEF Sound
<1>10. ForksExact'
  <2>1. \A q \in ID : b \in Forking(q)' <=> b \in Forking(q)
    BY <1>1, <1>2, <1>4, <1>5 DEF Forking, SpawnStage, KillStage
  <2> QED
    BY <1>1, <1>6, <2>1, ForksStay
<1> QED
    BY <1>1, <1>3, <1>5, <1>6, <1>7, <1>8, <1>9, <1>10, QuietKeeps
-----------------------------------------------------------------------------
\* The steps of spawn, kill and restart that reach the network

\* A step of b with a teardown: what b held is given back, with its namespace.
LEMMA DropKeeps ==
    ASSUME FCInv, NEW b \in ID, Teardown(b), up, lost \subseteq lost', procs' \subseteq procs,
           UNCHANGED <<rows, up, pidfile, idxfile, saved, vm, parent, idx, newidx, forks, started,
                       shared, raced, tangled>>,
           \A c \in ID \ {b} : /\ pc'[c] = pc[c] /\ restarting'[c] = restarting[c]
                               /\ newvm'[c] = newvm[c] /\ vms'[c] = vms[c],
           CallOf(b)', Names(b)' \subseteq Names(b) \cup {0},
           \A p \in ID : b \in Forking(p)' <=> b \in Forking(p),
           b \notin raced =>
              /\ NothingForgotten(b) /\ OneCall(b)' /\ ProcsOf(b)'
              /\ ~Released(b) /\ b \in rows /\ vms'[b] = 0
              /\ \/ Released(b)'
                 \/ /\ KnownIndex(b) = NoIndex
                    /\ pc'[b] = "none" /\ restarting'[b] = "clear",
           NetTypes' => FCTypeOK'
    PROVE  FCInv'
<1> USE TypeFacts
<1>1. index \in [ID -> 0 .. Capacity] /\ idxfile \in [ID -> 0 .. Capacity]
    BY DEF FCTypeOK
<1>2. /\ index'[b] = NoIndex
      /\ \A c \in ID \ {b} : /\ index'[c] = index[c]
                             /\ c \in spaces' <=> c \in spaces
                             /\ c \in stray' <=> c \in stray
    BY <1>1 DEF Teardown, Unplug
<1>3. OthersSame(b) /\ ProcsGrow(b)
    BY <1>2 DEF OthersSame, ProcsGrow
<1>4. Held(b)' = NoIndex
    BY <1>2 DEF Held, KnownIndex
<1>5. IndicesSound' /\ NetTypes'
  <2>1. b \in raced \/ Held(b) = KnownIndex(b)
    BY DEF Held
  <2> QED
    BY <1>3, <1>4, <2>1, TeardownKeeps
<1>6. ForksExact'
    BY <1>3, ForksStay
<1>7. CASE b \in raced
  <2>1. NothingForgotten(b)
    BY <1>5, <1>7, RacedForgets DEF Entangled
  <2>2. IndexNames(b)' \subseteq IndexNames(b) \cup {NoIndex}
    BY <1>2 DEF IndexNames
  <2>3. OwnParts(b)'
    BY <1>7, <2>2 DEF OwnParts, Entangled
  <2> QED
    BY <1>3, <1>5, <1>6, <2>1, <2>3, StepKeeps
<1>8. CASE b \notin raced
  <2>1. b \in spaces' => b \in stray'
    <3>1. CASE KnownIndex(b) = NoIndex
      BY <1>8, <3>1 DEF Teardown, IndexOf, Held
    <3>2. CASE KnownIndex(b) # NoIndex
      BY <3>2 DEF Teardown, Unplug
    <3> QED
      BY <3>1, <3>2
  <2>2. pc'[b] = "none" \/ Waiting(b)'
    BY <1>8 DEF OneCall
  <2>3. CASE Released(b)'
    <3>1. IndexOf(b)'
      BY <1>2, <1>4, <1>8, <2>1, <2>2, <2>3 DEF IndexOf, Released, Waiting
    <3> QED
      BY <1>3, <1>5, <1>6, <1>8, <3>1, StepKeeps DEF OwnParts, Sound, GoneOf
  <2>4. CASE KnownIndex(b) = NoIndex /\ pc'[b] = "none" /\ restarting'[b] = "clear"
    <3>1. idxfile'[b] = NoIndex
      BY <2>4 DEF KnownIndex
    <3>2. IndexOf(b)'
      BY <1>2, <1>4, <1>8, <2>1, <2>4, <3>1 DEF IndexOf, Released
    <3> QED
      BY <1>3, <1>5, <1>6, <1>8, <3>2, StepKeeps DEF OwnParts, Sound, GoneOf
  <2> QED
    BY <1>8, <2>3, <2>4
<1> QED
    BY <1>7, <1>8

\* _allocate returns an index of the subnet.
LEMMA AllocatesIndex ==
    ASSUME FCInv, NEW i \in Allocatable
    PROVE  i \in Index /\ i \in 0 .. Capacity /\ i # NoIndex
<1>1. free \subseteq Index /\ next \in 0 .. Capacity
    BY DEF FCInv, FCTypeOK
<1>2. CASE i \in free
    BY <1>1, <1>2, IndexRange
<1>3. CASE i = next /\ next < Capacity
    BY <1>1, <1>3, IndexRange, FCAssumption DEF NoIndex
<1> QED
    BY <1>2, <1>3 DEF Allocatable

\* A step of b with a setup that succeeds: b holds a new index.
LEMMA NetnsOkKeeps ==
    ASSUME FCInv, NEW b \in ID, NEW i \in Allocatable, SetupOk(b, i), up,
           UNCHANGED <<rows, up, vms, pidfile, idxfile, saved, vm, newvm, parent, forks, procs,
                       started, lost, shared, raced>>,
           \A c \in ID \ {b} : /\ pc'[c] = pc[c] /\ restarting'[c] = restarting[c]
                               /\ idx'[c] = idx[c] /\ newidx'[c] = newidx[c],
           CallOf(b)', {idx'[b], newidx'[b]} \subseteq {i, idx[b], newidx[b]},
           \A p \in ID : b \in Forking(p)' <=> b \in Forking(p),
           b \notin raced =>
              /\ index[b] = NoIndex /\ idxfile[b] = NoIndex /\ vms[b] = 0 /\ b \in rows
              /\ OneCall(b)' /\ ProcsOf(b)'
              /\ \/ pc'[b] = "journal" /\ Waiting(b)' /\ idx'[b] = i
                 \/ pc'[b] = "none" /\ restarting'[b] = "journal" /\ newidx'[b] = i,
           NetTypes' /\ tangled' \subseteq Index => FCTypeOK'
    PROVE  FCInv'
<1> USE TypeFacts
<1>1. index \in [ID -> 0 .. Capacity] /\ tangled \subseteq Index /\ i \in Index /\ i # NoIndex
    BY AllocatesIndex DEF FCTypeOK
<1>2. /\ index'[b] = i /\ i # NoIndex /\ tangled' \subseteq Index /\ tangled \subseteq tangled'
      /\ b \in raced => i \in tangled'
      /\ \A c \in ID \ {b} : /\ index'[c] = index[c]
                             /\ c \in spaces' <=> c \in spaces
                             /\ c \in stray' <=> c \in stray
    BY <1>1 DEF SetupOk
<1>3. OthersSame(b) /\ ProcsGrow(b)
    BY <1>2 DEF OthersSame, ProcsGrow
<1>4. Held(b) = NoIndex
    BY DEF Held, KnownIndex
<1>5. b \notin raced => Held(b)' = i
    BY <1>2 DEF Held, KnownIndex, Released, Waiting
<1>6. IndexNames(b)' \subseteq IndexNames(b) \cup {i}
    BY <1>2 DEF IndexNames
<1>7. IndicesSound' /\ NetTypes'
  <2>1. Held(b)' = i \/ (Held(b)' = NoIndex /\ i \in tangled')
    BY <1>2, <1>5 DEF Held
  <2> QED
    BY <1>3, <1>4, <1>6, <2>1, SetupKeeps
<1>8. FCTypeOK' /\ ForksExact'
    BY <1>2, <1>3, <1>7, ForksStay
<1>9. CASE b \in raced
  <2>1. NothingForgotten(b)
    BY <1>8, <1>9, RacedForgets DEF Entangled
  <2>2. OwnParts(b)'
    BY <1>2, <1>6, <1>9 DEF OwnParts, Entangled, Names
  <2> QED
    BY <1>3, <1>7, <1>8, <2>1, <2>2, StepKeeps
<1>10. CASE b \notin raced
  <2>1. IndexOf(b)'
    BY <1>2, <1>5, <1>10 DEF IndexOf, Released, Waiting
  <2>2. NothingForgotten(b) /\ GoneOf(b)'
    BY <1>10 DEF NothingForgotten, Names, GoneOf
  <2> QED
    BY <1>3, <1>7, <1>8, <1>10, <2>1, <2>2, StepKeeps DEF OwnParts, Sound
<1> QED
    BY <1>9, <1>10

\* A step of b with a setup that fails: b is left with no index.
LEMMA NetnsFailsKeeps ==
    ASSUME FCInv, NEW b \in ID, SetupFails(b), up,
           UNCHANGED <<rows, up, vms, pidfile, idxfile, saved, vm, newvm, idx, newidx, parent,
                       forks, procs, started, lost, shared, raced>>,
           \A c \in ID \ {b} : pc'[c] = pc[c] /\ restarting'[c] = restarting[c],
           CallOf(b)', \A p \in ID : b \in Forking(p)' <=> b \in Forking(p),
           b \notin raced =>
              /\ index[b] = NoIndex /\ idxfile[b] = NoIndex /\ vms[b] = 0 /\ b \in rows
              /\ OneCall(b)' /\ ProcsOf(b)'
              /\ pc'[b] \in {"undo", "none"} /\ Waiting(b)',
           NetTypes' => FCTypeOK'
    PROVE  FCInv'
<1> USE TypeFacts
<1>1. /\ index' = index /\ tangled' = tangled
      /\ \A c \in ID \ {b} : /\ c \in spaces' <=> c \in spaces
                             /\ c \in stray' <=> c \in stray
    BY DEF SetupFails, Unplug, network
<1>2. OthersSame(b) /\ ProcsGrow(b)
    BY <1>1 DEF OthersSame, ProcsGrow
<1>3. Held(b) = NoIndex /\ Held(b)' = NoIndex /\ IndexNames(b)' = IndexNames(b)
    BY <1>1 DEF Held, KnownIndex, IndexNames
<1>4. IndicesSound' /\ NetTypes'
    BY <1>2, <1>3, SetupFailsKeeps
<1>5. FCTypeOK' /\ ForksExact'
    BY <1>2, <1>4, ForksStay
<1>6. CASE b \in raced
  <2>1. NothingForgotten(b)
    BY <1>5, <1>6, RacedForgets DEF Entangled
  <2>2. OwnParts(b)'
    BY <1>1, <1>3, <1>6 DEF OwnParts, Entangled, Names
  <2> QED
    BY <1>2, <1>4, <1>5, <2>1, <2>2, StepKeeps
<1>7. CASE b \notin raced
  <2>1. b \in spaces' => b \in stray'
    BY <1>3, <1>7 DEF SetupFails, Unplug, network, IndexOf
  <2>2. IndexOf(b)'
    BY <1>1, <1>3, <1>7, <2>1 DEF IndexOf, Released, Waiting
  <2>3. NothingForgotten(b) /\ GoneOf(b)'
    BY <1>7 DEF NothingForgotten, Names, GoneOf
  <2> QED
    BY <1>2, <1>4, <1>5, <1>7, <2>2, <2>3, StepKeeps DEF OwnParts, Sound
<1> QED
    BY <1>6, <1>7

\* The namespace of a spawn, or of a restart.
LEMMA SpawnNetnsKeeps ==
    ASSUME FCInv, NEW b \in ID, SpawnNetns(b)
    PROVE  FCInv'
<1> USE TypeFacts
<1>1. /\ pc[b] = "netns"
      /\ UNCHANGED <<rows, up, crashes, vms, pending, forks, procs, started, lost, shared, raced,
                     pidfile, dirs, saved, idxfile, vm, parent, restarting, newvm, newidx>>
    BY DEF SpawnNetns, registry, handles, vmm, files, restarts
<1>2. up
    BY <1>1 DEF CallOf
<1>3. b \notin raced =>
         /\ Waiting(b) /\ b \in rows /\ vms[b] = 0 /\ index[b] = NoIndex /\ idxfile[b] = NoIndex
    BY <1>1 DEF CallOf, OneCall, ProcsOf, IndexOf
<1>4. ASSUME NEW stage \in {"journal", "undo"}, pc' = [pc EXCEPT ![b] = stage]
      PROVE  /\ pc'[b] = stage /\ \A c \in ID \ {b} : pc'[c] = pc[c]
             /\ \A p \in ID : b \in Forking(p)' <=> b \in Forking(p)
             /\ b \notin raced => ProcsOf(b)'
             /\ pc' \in [ID -> {"none"} \cup SpawnStage \cup KillStage]
  <2>1. pc'[b] = stage /\ \A c \in ID \ {b} : pc'[c] = pc[c]
    BY <1>4 DEF FCTypeOK
  <2>2. \A p \in ID : b \in Forking(p)' <=> b \in Forking(p)
    BY <1>1, <2>1 DEF Forking, SpawnStage
  <2>3. b \notin raced => ProcsOf(b)'
    BY <1>1, <1>3, <2>1 DEF ProcsOf, Waiting, SpawnStage
  <2> QED
    BY <1>4, <2>1, <2>2, <2>3 DEF FCTypeOK, SpawnStage
<1>5. ASSUME NEW i \in Allocatable, SetupOk(b, i), idx' = [idx EXCEPT ![b] = i],
             pc' = [pc EXCEPT ![b] = "journal"]
      PROVE  FCInv'
  <2>1. /\ i \in 0 .. Capacity /\ faults' = faults
        /\ idx'[b] = i /\ \A c \in ID \ {b} : idx'[c] = idx[c]
    BY <1>5, AllocatesIndex DEF FCTypeOK, SetupOk
  <2>2. CallOf(b)'
    BY <1>1, <1>2, <1>4, <1>5 DEF CallOf, Names
  <2>3. b \notin raced => OneCall(b)'
    BY <1>1, <1>3, <1>4, <1>5 DEF OneCall, Waiting
  <2>4. NetTypes' /\ tangled' \subseteq Index => FCTypeOK'
    BY <1>1, <1>4, <1>5, <2>1 DEF NetTypes, FCTypeOK
  <2> QED
    BY <1>1, <1>2, <1>3, <1>4, <1>5, <2>1, <2>2, <2>3, <2>4, NetnsOkKeeps DEF Waiting
<1>6. ASSUME SetupFails(b), pc' = [pc EXCEPT ![b] = "undo"], idx' = idx
      PROVE  FCInv'
  <2>1. faults' \in 0 .. MaxFaults /\ index' = index /\ tangled' = tangled
    BY <1>6 DEF SetupFails, Fault, network
  <2>2. CallOf(b)'
    BY <1>1, <1>2, <1>4, <1>6, <2>1 DEF CallOf, Names
  <2>3. b \notin raced => OneCall(b)'
    BY <1>1, <1>3, <1>4, <1>6 DEF OneCall, Waiting
  <2>4. NetTypes' => FCTypeOK'
    BY <1>1, <1>4, <1>6, <2>1 DEF NetTypes, FCTypeOK
  <2> QED
    BY <1>1, <1>2, <1>3, <1>4, <1>6, <2>2, <2>3, <2>4, NetnsFailsKeeps DEF Waiting
<1> QED
    BY <1>5, <1>6 DEF SpawnNetns, Goto

LEMMA RestartNetnsKeeps ==
    ASSUME FCInv, NEW b \in ID, RestartNetns(b)
    PROVE  FCInv'
<1> USE TypeFacts
<1>1. /\ restarting[b] = "netns"
      /\ UNCHANGED <<rows, up, crashes, vms, pending, forks, procs, started, lost, shared, raced,
                     pidfile, dirs, saved, idxfile, pc, vm, parent, idx, newvm>>
    BY DEF RestartNetns, registry, handles, vmm, files, calls, restarts
<1>2. up
    BY <1>1 DEF CallOf
<1>3. b \notin raced =>
         /\ pc[b] = "none" /\ b \in rows /\ vms[b] = 0 /\ index[b] = NoIndex /\ idxfile[b] = NoIndex
    BY <1>1 DEF CallOf, OneCall, ProcsOf, IndexOf, Waiting
<1>4. ASSUME NEW stage \in {"journal", "none"},
             restarting' = [restarting EXCEPT ![b] = stage]
      PROVE  /\ restarting'[b] = stage /\ \A c \in ID \ {b} : restarting'[c] = restarting[c]
             /\ \A p \in ID : b \in Forking(p)' <=> b \in Forking(p)
             /\ b \notin raced => ProcsOf(b)'
             /\ restarting' \in [ID -> RestartStage]
  <2>1. restarting'[b] = stage /\ \A c \in ID \ {b} : restarting'[c] = restarting[c]
    BY <1>4 DEF FCTypeOK
  <2>2. \A p \in ID : b \in Forking(p)' <=> b \in Forking(p)
    BY <1>1 DEF Forking
  <2>3. b \notin raced => ProcsOf(b)'
    BY <1>1, <1>3, <2>1 DEF ProcsOf, Waiting, SpawnStage
  <2> QED
    BY <1>4, <2>1, <2>2, <2>3 DEF FCTypeOK, RestartStage
<1>5. ASSUME NEW i \in Allocatable, SetupOk(b, i), newidx' = [newidx EXCEPT ![b] = i],
             restarting' = [restarting EXCEPT ![b] = "journal"]
      PROVE  FCInv'
  <2>1. /\ i \in 0 .. Capacity /\ faults' = faults
        /\ newidx'[b] = i /\ \A c \in ID \ {b} : newidx'[c] = newidx[c]
    BY <1>5, AllocatesIndex DEF FCTypeOK, SetupOk
  <2>2. CallOf(b)'
    BY <1>1, <1>2, <1>4, <1>5 DEF CallOf, Names
  <2>3. b \notin raced => OneCall(b)'
    BY <1>1, <1>3, <1>4, <1>5 DEF OneCall, Waiting
  <2>4. NetTypes' /\ tangled' \subseteq Index => FCTypeOK'
    BY <1>1, <1>4, <1>5, <2>1 DEF NetTypes, FCTypeOK
  <2> QED
    BY <1>1, <1>2, <1>3, <1>4, <1>5, <2>1, <2>2, <2>3, <2>4, NetnsOkKeeps DEF Waiting
<1>6. ASSUME SetupFails(b), restarting' = [restarting EXCEPT ![b] = "none"], newidx' = newidx
      PROVE  FCInv'
  <2>1. faults' \in 0 .. MaxFaults /\ index' = index /\ tangled' = tangled
    BY <1>6 DEF SetupFails, Fault, network
  <2>2. CallOf(b)'
    BY <1>1, <1>2, <1>4, <1>6, <2>1 DEF CallOf, Names
  <2>3. b \notin raced => OneCall(b)'
    BY <1>1, <1>3, <1>4, <1>6 DEF OneCall, Waiting
  <2>4. NetTypes' => FCTypeOK'
    BY <1>1, <1>4, <1>6, <2>1 DEF NetTypes, FCTypeOK
  <2> QED
    BY <1>1, <1>2, <1>3, <1>4, <1>6, <2>2, <2>3, <2>4, NetnsFailsKeeps DEF Waiting
<1> QED
    BY <1>5, <1>6 DEF RestartNetns, RGoto

LEMMA SpawnUndoKeeps ==
    ASSUME FCInv, NEW b \in ID, SpawnUndo(b)
    PROVE  FCInv'
<1> USE TypeFacts
<1>1. /\ pc[b] = "undo" /\ Teardown(b) /\ pc' = [pc EXCEPT ![b] = "clean"]
      /\ procs' = procs \ {vm[b]} /\ dirs' = dirs \cup {b}
      /\ vms' = IF vm[b] # 0 THEN [vms EXCEPT ![b] = 0] ELSE vms
      /\ UNCHANGED <<rows, up, crashes, pending, forks, started, lost, shared, raced, tangled,
                     pidfile, saved, idxfile, vm, parent, idx, restarting, newvm, newidx,
                     faults>>
    BY DEF SpawnUndo, Teardown, Goto, registry, history, calls, restarts
<1>2. /\ pc'[b] = "clean" /\ vms'[b] \in {0, vms[b]}
      /\ \A c \in ID \ {b} : pc'[c] = pc[c] /\ vms'[c] = vms[c]
    BY <1>1 DEF FCTypeOK
<1>3. up /\ index'[b] = NoIndex
    BY <1>1 DEF CallOf, FCTypeOK, Teardown
<1>4. ASSUME b \notin raced
      PROVE  /\ NothingForgotten(b) /\ OneCall(b)' /\ ProcsOf(b)'
             /\ ~Released(b) /\ b \in rows /\ vms'[b] = 0 /\ Released(b)'
  <2>1. Waiting(b) /\ b \in rows /\ vms[b] = 0 /\ pidfile[b] = 0
    BY <1>1, <1>4 DEF CallOf, OneCall, ProcsOf, SpawnStage
  <2>2. NothingForgotten(b) /\ OneCall(b)'
    BY <1>1, <1>2, <2>1 DEF NothingForgotten, Names, OneCall, Waiting
  <2>3. ProcsOf(b)'
    BY <1>1, <1>2, <1>4, <2>1 DEF ProcsOf, Waiting, SpawnStage
  <2> QED
    BY <1>1, <1>2, <2>1, <2>2, <2>3 DEF Released, Waiting
<1>5. CallOf(b)' /\ Names(b)' \subseteq Names(b) \cup {0}
    BY <1>1, <1>2, <1>3 DEF CallOf, Names
<1>6. \A p \in ID : b \in Forking(p)' <=> b \in Forking(p)
    BY <1>1, <1>2 DEF Forking, SpawnStage
<1>7. NetTypes' => FCTypeOK'
    BY <1>1 DEF NetTypes, FCTypeOK, SpawnStage
<1> QED
    BY <1>1, <1>2, <1>3, <1>4, <1>5, <1>6, <1>7, DropKeeps

LEMMA KillTeardownKeeps ==
    ASSUME FCInv, NEW b \in ID, KillTeardown(b)
    PROVE  FCInv'
<1> USE TypeFacts
<1>1. /\ pc[b] = "teardown" /\ Teardown(b) /\ pc' = [pc EXCEPT ![b] = "remove"]
      /\ dirs' = dirs \cup {b}
      /\ UNCHANGED <<rows, up, crashes, vms, pending, forks, procs, started, lost, shared, raced,
                     tangled, pidfile, saved, idxfile, vm, parent, idx, restarting, newvm,
                     newidx, faults>>
    BY DEF KillTeardown, Teardown, Goto, registry, handles, vmm, history, restarts
<1>2. pc'[b] = "remove" /\ \A c \in ID \ {b} : pc'[c] = pc[c]
    BY <1>1 DEF FCTypeOK
<1>3. up /\ index'[b] = NoIndex
    BY <1>1 DEF CallOf, FCTypeOK, Teardown
<1>4. ASSUME b \notin raced
      PROVE  /\ NothingForgotten(b) /\ OneCall(b)' /\ ProcsOf(b)'
             /\ ~Released(b) /\ b \in rows /\ vms'[b] = 0 /\ Released(b)'
  <2>1. Waiting(b) /\ b \in rows /\ vms[b] = 0
    BY <1>1, <1>4 DEF CallOf, OneCall, ProcsOf
  <2>2. NothingForgotten(b) /\ OneCall(b)'
    BY <1>1, <1>2, <2>1 DEF NothingForgotten, Names, OneCall, Waiting
  <2>3. ProcsOf(b)'
    BY <1>1, <1>2, <1>4, <2>1 DEF ProcsOf, Waiting, SpawnStage
  <2> QED
    BY <1>1, <1>2, <2>1, <2>2, <2>3 DEF Released, Waiting
<1>5. CallOf(b)' /\ Names(b)' \subseteq Names(b) \cup {0}
    BY <1>1, <1>2, <1>3 DEF CallOf, Names
<1>6. \A p \in ID : b \in Forking(p)' <=> b \in Forking(p)
    BY <1>1, <1>2 DEF Forking, SpawnStage
<1>7. NetTypes' => FCTypeOK'
    BY <1>1 DEF NetTypes, FCTypeOK, KillStage
<1> QED
    BY <1>1, <1>2, <1>3, <1>4, <1>5, <1>6, <1>7, DropKeeps

LEMMA RestartDropKeeps ==
    ASSUME FCInv, NEW b \in ID, RestartDrop(b)
    PROVE  FCInv'
<1> USE TypeFacts
<1> DEFINE stage == IF KnownIndex(b) # NoIndex THEN "unlink" ELSE "clear"
<1>1. /\ restarting[b] = "drop" /\ Teardown(b) /\ dirs' = dirs \cup {b}
      /\ restarting' = [restarting EXCEPT ![b] = stage]
      /\ UNCHANGED <<rows, up, crashes, vms, pending, forks, procs, started, lost, shared, raced,
                     tangled, pidfile, saved, idxfile, pc, vm, parent, idx, newvm, newidx,
                     faults>>
    BY DEF RestartDrop, Teardown, RGoto, registry, handles, vmm, history, calls
<1>2. restarting'[b] = stage /\ \A c \in ID \ {b} : restarting'[c] = restarting[c]
    BY <1>1 DEF FCTypeOK
<1>3. up /\ index'[b] = NoIndex
    BY <1>1 DEF CallOf, FCTypeOK, Teardown
<1>4. ASSUME b \notin raced
      PROVE  /\ NothingForgotten(b) /\ OneCall(b)' /\ ProcsOf(b)'
             /\ ~Released(b) /\ b \in rows /\ vms'[b] = 0 /\ pc'[b] = "none"
             /\ Released(b)' \/ (KnownIndex(b) = NoIndex /\ restarting'[b] = "clear")
  <2>1. pc[b] = "none" /\ b \in rows /\ vms[b] = 0 /\ pidfile[b] \notin procs
    BY <1>1, <1>4 DEF CallOf, OneCall, ProcsOf, Waiting
  <2>2. NothingForgotten(b) /\ OneCall(b)'
    BY <1>1, <1>2, <2>1 DEF NothingForgotten, Names, OneCall, Waiting
  <2>3. ProcsOf(b)'
    BY <1>1, <1>2, <1>4, <2>1 DEF ProcsOf, Waiting, SpawnStage
  <2> QED
    BY <1>1, <1>2, <2>1, <2>2, <2>3 DEF Released, Waiting
<1>5. CallOf(b)' /\ Names(b)' \subseteq Names(b) \cup {0}
    BY <1>1, <1>2, <1>3 DEF CallOf, Names
<1>6. \A p \in ID : b \in Forking(p)' <=> b \in Forking(p)
    BY <1>1 DEF Forking
<1>7. NetTypes' => FCTypeOK'
    BY <1>1 DEF NetTypes, FCTypeOK, RestartStage
<1> QED
    BY <1>1, <1>2, <1>3, <1>4, <1>5, <1>6, <1>7, DropKeeps

\* The except block of restart: unraced, the branch has an index, which goes.
LEMMA RestartFailsKeeps ==
    ASSUME FCInv, NEW b \in ID, RestartFails(b), restarting[b] \in {"start", "load"},
           faults' \in 0 .. MaxFaults,
           lost' = lost \cup ({newvm[b]} \ {0}), newvm' = [newvm EXCEPT ![b] = 0],
           UNCHANGED <<rows, up, crashes, vms, pending, forks, procs, started, shared, raced,
                       tangled, pidfile, saved, idxfile, pc, vm, parent, idx, newidx>>
    PROVE  FCInv'
<1> USE TypeFacts
<1> DEFINE stage == IF KnownIndex(b) # NoIndex THEN "abort" ELSE "none"
<1>1. Teardown(b) /\ restarting' = [restarting EXCEPT ![b] = stage] /\ dirs' = dirs \cup {b}
    BY DEF RestartFails, Teardown, RGoto
<1>2. /\ restarting'[b] = stage /\ newvm'[b] = 0
      /\ \A c \in ID \ {b} : restarting'[c] = restarting[c] /\ newvm'[c] = newvm[c]
    BY <1>1 DEF FCTypeOK
<1>3. up /\ index'[b] = NoIndex /\ newvm[b] \in 0 .. started /\ lost \subseteq lost'
    BY <1>1 DEF CallOf, FCTypeOK, Teardown, Names
<1>4. ASSUME b \notin raced
      PROVE  /\ NothingForgotten(b) /\ OneCall(b)' /\ ProcsOf(b)'
             /\ ~Released(b) /\ b \in rows /\ vms'[b] = 0 /\ Released(b)'
  <2>1. /\ pc[b] = "none" /\ b \in rows /\ vms[b] = 0 /\ pidfile[b] \notin procs /\ vm[b] = 0
        /\ KnownIndex(b) # NoIndex
    BY <1>4 DEF CallOf, OneCall, ProcsOf, IndexOf, KnownIndex, Waiting
  <2>2. NothingForgotten(b) /\ OneCall(b)'
    BY <1>2, <2>1 DEF NothingForgotten, Names, OneCall, Waiting
  <2>3. ProcsOf(b)'
    BY <1>2, <1>4, <2>1 DEF ProcsOf, Waiting, SpawnStage
  <2> QED
    BY <1>2, <2>1, <2>2, <2>3 DEF Released, Waiting
<1>5. CallOf(b)' /\ Names(b)' \subseteq Names(b) \cup {0}
    BY <1>2, <1>3 DEF CallOf, Names
<1>6. \A p \in ID : b \in Forking(p)' <=> b \in Forking(p)
    BY DEF Forking
<1>7. NetTypes' => FCTypeOK'
  <2>1. lost' \subseteq 1 .. started' /\ newvm' \in [ID -> 0 .. MaxVMs]
    BY <1>3 DEF FCTypeOK
  <2> QED
    BY <1>1, <2>1 DEF NetTypes, FCTypeOK, RestartStage
<1> QED
    BY <1>1, <1>2, <1>3, <1>4, <1>5, <1>6, <1>7, DropKeeps

\* A new process that restart() knows of, or the except block.
LEMMA RestartStartKeeps ==
    ASSUME FCInv, NEW b \in ID, RestartStart(b)
    PROVE  FCInv'
<1> USE TypeFacts
<1>1. /\ restarting[b] = "start" /\ newvm[b] = 0
      /\ UNCHANGED <<rows, up, crashes, vms, pending, forks, shared, raced, tangled, pidfile,
                     saved, idxfile, pc, vm, parent, idx, newidx>>
    BY DEF RestartStart, CallOf, registry, handles, calls
<1>2. CASE /\ started < MaxVMs /\ started' = started + 1 /\ procs' = procs \cup {started + 1}
           /\ newvm' = [newvm EXCEPT ![b] = started + 1] /\ dirs' = dirs \cup {b}
           /\ lost' = (IF b \in raced THEN lost \cup {started + 1} ELSE lost)
           /\ restarting' = [restarting EXCEPT ![b] = "load"]
           /\ UNCHANGED <<index, free, next, spaces, veths, stray, faults>>
  <2>1. FCTypeOK'
    BY <1>1, <1>2 DEF FCTypeOK, RestartStage
  <2>2. /\ restarting'[b] = "load" /\ newvm'[b] = started + 1
        /\ \A c \in ID \ {b} : restarting'[c] = restarting[c] /\ newvm'[c] = newvm[c]
    BY <1>2 DEF FCTypeOK
  <2>3. OthersSame(b) /\ ProcsGrow(b) /\ up
    BY <1>1, <1>2, <2>2 DEF OthersSame, ProcsGrow, CallOf
  <2>4. CallOf(b)' /\ IndexNames(b)' \subseteq IndexNames(b) \cup {NoIndex}
    BY <1>1, <1>2, <2>2, <2>3 DEF CallOf, Names, IndexNames
  <2>5. b \in raced => Names(b)' \subseteq Names(b) \cup lost' \cup {0}
    BY <1>1, <1>2, <2>2 DEF Names
  <2>6. ASSUME b \notin raced PROVE  NothingForgotten(b) /\ Sound(b)' /\ Held(b)' = Held(b)
    <3>1. pc[b] = "none" /\ b \in rows /\ vms[b] = 0 /\ pidfile[b] \notin procs /\ vm[b] = 0
      BY <1>1, <2>6 DEF CallOf, OneCall, ProcsOf, Waiting
    <3>2. NothingForgotten(b) /\ OneCall(b)' /\ GoneOf(b)'
      BY <1>1, <1>2, <2>2, <3>1 DEF NothingForgotten, Names, OneCall, GoneOf, Waiting
    <3>3. ProcsOf(b)'
      BY <1>1, <1>2, <2>2, <2>6, <3>1 DEF ProcsOf, CallOf, Names, Waiting, SpawnStage
    <3>4. IndexOf(b)' /\ Held(b)' = Held(b)
      BY <1>1, <1>2, <2>2, <2>6, <3>1 DEF IndexOf, Released, Held, KnownIndex
    <3> QED
      BY <3>2, <3>3, <3>4 DEF Sound
  <2>7. ForksExact'
    <3>1. \A q \in ID : b \in Forking(q)' <=> b \in Forking(q)
      BY <1>1 DEF Forking
    <3> QED
      BY <1>1, <2>3, <3>1, ForksStay
  <2> QED
    BY <1>1, <1>2, <2>1, <2>3, <2>4, <2>5, <2>6, <2>7, QuietKeeps
<1>3. CASE Fault /\ RestartFails(b) /\ UNCHANGED <<procs, started, lost, newvm>>
  <2>1. /\ faults' \in 0 .. MaxFaults /\ lost' = lost \cup ({newvm[b]} \ {0})
        /\ newvm' = [newvm EXCEPT ![b] = 0]
    BY <1>1, <1>3 DEF Fault, FCTypeOK
  <2> QED
    BY <1>1, <1>3, <2>1, RestartFailsKeeps
<1> QED
    BY <1>2, <1>3 DEF RestartStart, Start, RGoto, network, vmm

\* When the guest cannot be loaded, the new process is lost and the network goes.
LEMMA RestartLoadKeeps ==
    ASSUME FCInv, NEW b \in ID, RestartLoad(b)
    PROVE  FCInv'
<1> USE TypeFacts
<1>1. /\ restarting[b] = "load" /\ newvm[b] # 0
      /\ UNCHANGED <<rows, up, crashes, vms, pending, forks, procs, started, shared, raced,
                     tangled, pidfile, saved, idxfile, pc, vm, parent, idx, newidx>>
    BY DEF RestartLoad, CallOf, registry, handles, vmm, calls
<1>2. CASE /\ restarting' = [restarting EXCEPT ![b] = "record"]
           /\ UNCHANGED <<index, free, next, spaces, veths, stray, lost, dirs, newvm, faults>>
  <2>1. FCTypeOK'
    BY <1>1, <1>2 DEF FCTypeOK, RestartStage
  <2>2. restarting'[b] = "record" /\ \A c \in ID \ {b} : restarting'[c] = restarting[c]
    BY <1>2 DEF FCTypeOK
  <2>3. OthersSame(b) /\ ProcsGrow(b) /\ up
    BY <1>1, <1>2, <2>2 DEF OthersSame, ProcsGrow, CallOf
  <2>4. CallOf(b)' /\ IndexNames(b)' \subseteq IndexNames(b) \cup {NoIndex}
    BY <1>1, <1>2, <2>2, <2>3 DEF CallOf, Names, IndexNames
  <2>5. b \in raced => Names(b)' \subseteq Names(b) \cup lost' \cup {0}
    BY <1>1, <1>2 DEF Names
  <2>6. ASSUME b \notin raced PROVE  NothingForgotten(b) /\ Sound(b)' /\ Held(b)' = Held(b)
    <3>1. pc[b] = "none" /\ b \in rows /\ vms[b] = 0 /\ pidfile[b] \notin procs
      BY <1>1, <2>6 DEF CallOf, OneCall, ProcsOf, Waiting
    <3>2. NothingForgotten(b) /\ OneCall(b)' /\ GoneOf(b)'
      BY <1>1, <1>2, <2>2, <3>1 DEF NothingForgotten, Names, OneCall, GoneOf, Waiting
    <3>3. ProcsOf(b)'
      BY <1>1, <1>2, <2>2, <2>6, <3>1 DEF ProcsOf, Waiting, SpawnStage
    <3>4. IndexOf(b)' /\ Held(b)' = Held(b)
      BY <1>1, <1>2, <2>2, <2>6, <3>1 DEF IndexOf, Released, Held, KnownIndex
    <3> QED
      BY <3>2, <3>3, <3>4 DEF Sound
  <2>7. ForksExact'
    <3>1. \A q \in ID : b \in Forking(q)' <=> b \in Forking(q)
      BY <1>1 DEF Forking
    <3> QED
      BY <1>1, <2>3, <3>1, ForksStay
  <2> QED
    BY <1>1, <1>2, <2>1, <2>3, <2>4, <2>5, <2>6, <2>7, QuietKeeps
<1>3. CASE /\ RestartFails(b) /\ lost' = lost \cup {newvm[b]}
           /\ newvm' = [newvm EXCEPT ![b] = 0]
  <2>1. faults' \in 0 .. MaxFaults /\ lost' = lost \cup ({newvm[b]} \ {0})
    BY <1>1, <1>3 DEF RestartLoad, Fault
  <2> QED
    BY <1>1, <1>3, <2>1, RestartFailsKeeps
<1> QED
    BY <1>2, <1>3 DEF RestartLoad, RGoto, network

-----------------------------------------------------------------------------
\* Processes die; the supervisor crashes and a new one starts

LEMMA VMMDiesKeeps ==
    ASSUME FCInv, NEW n \in Proc, VMMDies(n)
    PROVE  FCInv'
<1>1. /\ procs' = procs \ {n} /\ faults' \in 0 .. MaxFaults
      /\ UNCHANGED <<rows, up, crashes, vms, pending, forks, started, lost, stray, shared, raced,
                     tangled, pidfile, dirs, saved, idxfile, index, free, next, spaces, veths,
                     pc, vm, parent, idx, restarting, newvm, newidx>>
    BY FCAssumption DEF VMMDies, Fault, registry, handles, history, files, network, calls,
       restarts, FCInv, FCTypeOK
<1>2. FCTypeOK'
    BY <1>1 DEF FCInv, FCTypeOK
<1>3. OnlyKnownOrphans'
    BY <1>1 DEF FCInv, OnlyKnownOrphans, Reachable
<1>4. ForksExact'
    BY <1>1 DEF FCInv, ForksExact, Forking
<1>5. IndicesSound'
    BY <1>1 DEF FCInv, IndicesSound, IndexNames, Held, Released, KnownIndex
<1>6. ASSUME NEW b \in ID
      PROVE  OwnParts(b)'
  <2>1. CallOf(b)' /\ (b \in raced => Entangled(b)')
    BY <1>1, TypeFacts DEF CallOf, Entangled, Names, IndexNames
  <2>2. b \notin raced => OneCall(b)' /\ IndexOf(b)' /\ GoneOf(b)'
    BY <1>1, TypeFacts DEF OneCall, IndexOf, GoneOf, Waiting, Held, Released, KnownIndex
  <2>3. b \notin raced => ProcsOf(b)'
    BY <1>1, TypeFacts DEF ProcsOf, Waiting
  <2> QED
    BY <1>1, <2>1, <2>2, <2>3 DEF OwnParts, Sound
<1> QED
    BY <1>2, <1>3, <1>4, <1>5, <1>6 DEF FCInv

\* A crash loses the processes without a record and strays the namespaces without an
\* index file; the rest is on disk.
LEMMA CrashKeeps ==
    ASSUME FCInv, Crash
    PROVE  FCInv'
<1>1. /\ up' = FALSE
      /\ \A b \in ID : /\ vms'[b] = 0 /\ index'[b] = NoIndex /\ pc'[b] = "none" /\ vm'[b] = 0
                       /\ parent'[b] = NoBranch /\ restarting'[b] = "none" /\ newvm'[b] = 0
                       /\ forks'[b] = 0 /\ idx'[b] = NoIndex /\ newidx'[b] = NoIndex
      /\ UNCHANGED <<rows, procs, started, raced, tangled, pidfile, dirs, saved, idxfile, spaces,
                     veths, faults>>
    BY DEF Crash, files, vmm
<1>2. /\ lost' = lost \cup (procs \ {pidfile[b] : b \in ID})
      /\ stray' = stray \cup {b \in spaces : idxfile[b] = NoIndex}
      /\ shared' = shared \cup {i \in Index : \E b, c \in ID : /\ b # c /\ idxfile[b] = i
                                                               /\ idxfile[c] = i}
    BY DEF Crash
<1>3. FCTypeOK'
  <2>1. crashes' \in 0 .. MaxCrashes /\ 0 \in 0 .. MaxVMs /\ 0 \in 0 .. Capacity
    BY FCAssumption DEF Crash, FCInv, FCTypeOK
  <2>2. lost' \subseteq 1 .. started' /\ stray' \subseteq ID /\ shared' \subseteq Index
    BY <1>1, <1>2 DEF FCInv, FCTypeOK
  <2>3. /\ vms' \in [ID -> 0 .. MaxVMs] /\ vm' \in [ID -> 0 .. MaxVMs]
        /\ newvm' \in [ID -> 0 .. MaxVMs] /\ forks' \in [ID -> Nat]
        /\ index' \in [ID -> 0 .. Capacity] /\ idx' \in [ID -> 0 .. Capacity]
        /\ newidx' \in [ID -> 0 .. Capacity] /\ parent' \in [ID -> ID \cup {NoBranch}]
        /\ pc' \in [ID -> {"none"} \cup SpawnStage \cup KillStage]
        /\ restarting' \in [ID -> RestartStage]
        /\ pending' = {} /\ free' = {} /\ next' = 0
    BY <2>1, FCAssumption DEF Crash, NoIndex, RestartStage
  <2> QED
    BY <1>1, <2>1, <2>2, <2>3 DEF FCInv, FCTypeOK
<1>4. OnlyKnownOrphans'
    BY <1>1, <1>2 DEF FCInv, OnlyKnownOrphans, Reachable
<1>5. ForksExact'
  <2>1. \A p \in ID : Forking(p)' = {}
    BY <1>1 DEF Forking, SpawnStage
  <2>2. IsFiniteSet({}) /\ Cardinality({}) = 0
    BY FS_EmptySet
  <2> QED
    BY <1>1, <2>1, <2>2 DEF ForksExact
<1>6. IndicesSound'
  <2>1. ASSUME NEW b \in ID, NEW c \in ID, b # c, idxfile'[b] = idxfile'[c],
               idxfile'[b] # NoIndex
        PROVE  idxfile'[b] \in shared'
    <3>1. idxfile[b] \in Index
      BY <1>1, <2>1, IndexRange DEF FCInv, FCTypeOK
    <3> QED
      BY <1>1, <1>2, <2>1, <3>1
  <2> QED
    BY <1>1, <2>1 DEF IndicesSound
<1>7. ASSUME NEW b \in ID
      PROVE  OwnParts(b)'
  <2>1. started \in Nat /\ pidfile[b] \in 0 .. started
    BY TypeFacts DEF CallOf, Names
  <2>2. CallOf(b)'
    BY <1>1, <2>1 DEF CallOf, Names
  <2>3. b \in raced => Entangled(b)'
    BY <1>1, <1>2, TypeFacts DEF Entangled, Names, IndexNames
  <2>4. b \notin raced => OneCall(b)' /\ ProcsOf(b)'
    BY <1>1, <2>1 DEF OneCall, ProcsOf, Waiting, SpawnStage
  <2>5. b \notin raced => IndexOf(b)' /\ GoneOf(b)'
    BY <1>1, <1>2, TypeFacts DEF IndexOf, GoneOf, Held, Released, KnownIndex
  <2> QED
    BY <1>1, <2>2, <2>3, <2>4, <2>5 DEF OwnParts, Sound
<1> QED
    BY <1>3, <1>4, <1>5, <1>6, <1>7 DEF FCInv

\* A set of numbers below a bound has a largest one.
LEMMA Largest ==
    ASSUME NEW N \in Nat, NEW S \in SUBSET (0 .. N), S # {}
    PROVE  \E m \in S : \A i \in S : i <= m
<1> DEFINE T == {N - i : i \in S}
           R == OpToRel(<, Nat)
<1> HIDE DEF R
<1>1. T \subseteq Nat /\ T # {}
  <2>1. \A i \in S : i \in Nat /\ i <= N /\ N - i \in Nat
    OBVIOUS
  <2>2. PICK i \in S : TRUE
    OBVIOUS
  <2>3. N - i \in T
    BY <2>2
  <2> QED
    BY <2>1, <2>3
<1>2. PICK x \in T : \A y \in T : ~(<<y, x>> \in R)
  <2> HIDE DEF T
  <2>1. IsWellFoundedOn(R, Nat)
    BY NatLessThanWellFounded DEF R
  <2> QED
    BY <1>1, <2>1, WFMin
<1>3. \A y \in T : ~(y < x)
    BY <1>1, <1>2 DEF R, OpToRel
<1>4. PICK m \in S : x = N - m
    BY <1>2
<1>5. \A i \in S : ~(N - i < N - m)
    BY <1>3, <1>4
<1> QED
    BY <1>5

LEMMA Below ==
    ASSUME NEW n \in Nat, NEW m \in 0 .. n
    PROVE  0 .. m - 1 \subseteq 0 .. n - 1
    OBVIOUS

\* The new supervisor's allocator is what the files say.
LEMMA RecoverKeeps ==
    ASSUME FCInv, Recover
    PROVE  FCInv'
<1> DEFINE used == {idxfile[b] : b \in ID} \ {NoIndex}
<1>1. /\ ~up /\ up' = TRUE
      /\ next' = IF used = {} THEN 0 ELSE (CHOOSE m \in used : \A i \in used : i <= m) + 1
      /\ free' = (0 .. next' - 1) \ used
      /\ UNCHANGED <<rows, crashes, vms, pending, forks, procs, started, lost, stray, shared,
                     raced, tangled, pidfile, dirs, saved, idxfile, index, spaces, veths, pc, vm,
                     parent, idx, restarting, newvm, newidx, faults>>
    BY DEF Recover, handles, vmm, history, files, calls, restarts
<1>2. /\ Capacity \in Nat /\ idxfile \in [ID -> 0 .. Capacity] /\ used \subseteq Index
      /\ NoIndex \notin Index
    BY FCAssumption, IndexRange DEF FCInv, FCTypeOK
<1>3. /\ next' \in 0 .. Capacity /\ used \subseteq 0 .. next' - 1
  <2> HIDE DEF used
  <2>1. CASE used = {}
    BY <1>1, <1>2, <2>1
  <2>2. CASE used # {}
    <3>1. used \in SUBSET (0 .. Capacity)
      BY <1>2 DEF Index
    <3>2. \E m \in used : \A i \in used : i <= m
      BY <1>2, <2>2, <3>1, Largest
    <3>3. PICK m \in used : (\A i \in used : i <= m) /\ next' = m + 1
      BY <1>1, <2>2, <3>2
    <3> QED
      BY <1>2, <3>3 DEF Index
  <2> QED
    BY <2>1, <2>2
<1>4. \A b \in ID : /\ pc[b] = "none" /\ restarting[b] = "none" /\ vms[b] = 0
                    /\ index[b] = NoIndex /\ idx[b] = NoIndex /\ newidx[b] = NoIndex
    BY <1>1, TypeFacts DEF CallOf
<1>5. \A b \in ID : /\ b \notin raced => Held(b)' = idxfile[b]
                    /\ b \in raced => Held(b)' = NoIndex /\ idxfile[b] \in tangled \cup {NoIndex}
                    /\ idxfile[b] = NoIndex \/ idxfile[b] \in used
                    /\ IndexNames(b)' \subseteq used \cup {NoIndex}
    BY <1>1, <1>4, TypeFacts DEF Held, Released, KnownIndex, Entangled, IndexNames
<1>6. FCTypeOK'
  <2>1. Capacity \in Nat /\ next' \in 0 .. Capacity
    BY <1>2, <1>3
  <2> HIDE DEF used
  <2>2. 0 .. next' - 1 \subseteq Index
    BY <2>1, Below DEF Index
  <2>3. free' \subseteq Index
    BY <1>1, <2>2
  <2> QED
    BY <1>1, <1>3, <2>3 DEF FCInv, FCTypeOK
<1>7. IndicesSound'
  <2>1. free' \subseteq 0 .. next' - 1 /\ free' \cap used = {}
    BY <1>1
  <2>2. \A b \in ID : IndexNames(b)' \subseteq (0 .. next' - 1) \cup {NoIndex}
    BY <1>3, <1>5
  <2>3. ASSUME NEW b \in ID, Held(b)' \in Index \ (shared' \cup tangled')
        PROVE  Held(b)' \notin free' /\ \A c \in ID \ {b} : Held(c)' # Held(b)'
    <3>1. Held(b)' = idxfile[b] /\ idxfile[b] \in used /\ idxfile[b] # NoIndex
      BY <1>2, <1>5, <2>3
    <3>2. \A c \in ID \ {b} : idxfile[c] # idxfile[b]
      BY <1>1, <2>3, <3>1 DEF FCInv, IndicesSound
    <3> QED
      BY <1>5, <2>1, <3>1, <3>2
  <2>4. ASSUME NEW i \in (0 .. next' - 1) \ tangled'
        PROVE  i \in free' \/ \E b \in ID : Held(b)' = i
    <3>1. CASE i \in used
      <4>1. PICK b \in ID : idxfile[b] = i /\ i # NoIndex
        BY <3>1
      <4> QED
        BY <1>1, <1>5, <2>4, <4>1
    <3> QED
      BY <1>1, <2>4, <3>1
  <2>5. \A b \in ID : index'[b] \notin Index
    BY <1>1, <1>2, <1>4
  <2> HIDE DEF used
  <2> QED
    BY <1>1, <2>1, <2>2, <2>3, <2>4, <2>5 DEF IndicesSound
<1>8. OnlyKnownOrphans' /\ ForksExact'
    BY <1>1 DEF FCInv, OnlyKnownOrphans, Reachable, ForksExact, Forking
<1>9. ASSUME NEW b \in ID
      PROVE  OwnParts(b)'
  <2>1. CallOf(b)' /\ (b \in raced => Entangled(b)')
    BY <1>1, TypeFacts DEF CallOf, Entangled, Names, IndexNames
  <2>2. b \notin raced => OneCall(b)' /\ ProcsOf(b)'
    BY <1>1, TypeFacts DEF OneCall, ProcsOf, Waiting
  <2>3. b \notin raced => IndexOf(b)' /\ GoneOf(b)'
    BY <1>1, TypeFacts DEF IndexOf, GoneOf, Held, Released, KnownIndex
  <2> QED
    BY <1>1, <2>1, <2>2, <2>3 DEF OwnParts, Sound
<1> QED
    BY <1>6, <1>7, <1>8, <1>9 DEF FCInv

-----------------------------------------------------------------------------
\* The theorems

LEMMA FCInitSound == FCInit => FCInv
<1> SUFFICES ASSUME FCInit PROVE FCInv
    OBVIOUS
<1>1. /\ Capacity \in Nat /\ MaxVMs \in Nat /\ MaxFaults \in Nat /\ MaxCrashes \in Nat
      /\ NoIndex \notin Index
    BY FCAssumption DEF NoIndex, Index
<1>2. FCTypeOK
    BY <1>1 DEF FCInit, FCTypeOK, NoIndex, RestartStage
<1>3. ForksExact
  <2>1. \A p \in ID : Forking(p) = {}
    BY DEF FCInit, Forking, SpawnStage
  <2> QED
    BY <2>1, FS_EmptySet DEF FCInit, ForksExact
<1>4. OnlyKnownOrphans
    BY DEF FCInit, OnlyKnownOrphans
<1>5. IndicesSound
    BY <1>1 DEF FCInit, IndicesSound, IndexNames, Held, Released, KnownIndex
<1>6. ASSUME NEW b \in ID
      PROVE  OwnParts(b)
  <2>1. CallOf(b)
    BY DEF FCInit, CallOf, Names
  <2>2. OneCall(b) /\ ProcsOf(b) /\ IndexOf(b) /\ GoneOf(b)
    BY DEF FCInit, OneCall, ProcsOf, IndexOf, GoneOf, Waiting, SpawnStage, Released, Held
  <2> QED
    BY <2>1, <2>2 DEF FCInit, OwnParts, Sound
<1> QED
    BY <1>2, <1>3, <1>4, <1>5, <1>6 DEF FCInv

LEMMA FCStepSound == FCInv /\ [FCNext]_fcVars => FCInv'
<1> SUFFICES ASSUME FCInv, [FCNext]_fcVars PROVE FCInv'
    OBVIOUS
<1>1. ASSUME NEW b \in ID, NEW p \in ID \cup {NoBranch}, Request(b, p)
      PROVE  FCInv'
    BY <1>1, RequestKeeps
<1>2. ASSUME NEW b \in ID, SpawnStep(b)
      PROVE  FCInv'
    BY <1>2, SpawnBeginKeeps, SpawnNetnsKeeps, SpawnJournalKeeps, SpawnSourceKeeps,
       SpawnStartKeeps, SpawnLoadKeeps, SpawnRecordKeeps, SpawnRegisterKeeps, SpawnUndoKeeps,
       SpawnCleanKeeps, SpawnUnpendKeeps DEF SpawnStep
<1>3. ASSUME NEW b \in ID, Kill(b) \/ KillStep(b)
      PROVE  FCInv'
    BY <1>3, KillKeeps, KillReapKeeps, KillRecoverKeeps, KillTeardownKeeps, KillRemoveKeeps
       DEF KillStep
<1>4. ASSUME NEW b \in ID, SweepDead(b) \/ RestartStep(b)
      PROVE  FCInv'
    BY <1>4, SweepDeadKeeps, RestartKeeps, RestartPathsKeeps, RestartDropKeeps,
       RestartUnlinkKeeps, RestartNetnsKeeps, RestartJournalKeeps, RestartStartKeeps,
       RestartLoadKeeps, RestartRecordKeeps, RestartAbortKeeps, RestartRegisterKeeps DEF RestartStep
<1>5. ASSUME NEW b \in ID, Checkpoint(b)
      PROVE  FCInv'
    BY <1>5, CheckpointKeeps
<1>6. CASE UNCHANGED fcVars
  <2>1. UNCHANGED <<rows, up, crashes, vms, pending, forks, procs, started, lost, stray, shared,
                    raced, tangled, pidfile, dirs, saved, idxfile, index, free, next, spaces,
                    veths, pc, vm, parent, idx, restarting, newvm, newidx, faults>>
    BY <1>6 DEF fcVars, registry, handles, vmm, history, files, network, calls, restarts
  <2>2. FCTypeOK' /\ ForksExact' /\ OnlyKnownOrphans'
    BY <2>1 DEF FCInv, FCTypeOK, ForksExact, Forking, OnlyKnownOrphans, Reachable
  <2>3. IndicesSound'
    BY <2>1 DEF FCInv, IndicesSound, IndexNames, Held, Released, KnownIndex
  <2>4. ASSUME NEW b \in ID
        PROVE  OwnParts(b)'
    <3>1. CallOf(b)' /\ (b \in raced => Entangled(b)')
      BY <2>1, TypeFacts DEF CallOf, Entangled, Names, IndexNames
    <3>2. b \notin raced => OneCall(b)' /\ ProcsOf(b)'
      BY <2>1, TypeFacts DEF OneCall, ProcsOf, Waiting
    <3>3. b \notin raced => IndexOf(b)' /\ GoneOf(b)'
      BY <2>1, TypeFacts DEF IndexOf, GoneOf, Held, Released, KnownIndex
    <3> QED
      BY <2>1, <3>1, <3>2, <3>3 DEF OwnParts, Sound
  <2> QED
    BY <2>2, <2>3, <2>4 DEF FCInv
<1> QED
    BY <1>1, <1>2, <1>3, <1>4, <1>5, <1>6, VMMDiesKeeps, CrashKeeps, RecoverKeeps DEF FCNext

\* The adapter's invariant, for kill, spawn and the reaper's restart in any order the
\* code admits: counts of forks, handles, pid records, indices and namespaces of a branch
\* agree with the stage of its call, whichever step raises and whenever the supervisor
\* crashes.  When a kill or a new spawn of a branch overlaps its restart (raced), that
\* branch's own records no longer agree; then what it names is lost or tangled, and all of
\* it still holds for every other branch.
THEOREM SandboxInvariant == FCSpec => []FCInv
    BY FCInitSound, FCStepSound, PTL DEF FCSpec

\* Every VMM that runs can be killed through its branch, but those that a failed restart, a
\* restart overlapped by a kill, or a crash before the pid record lost (kill, spawn's
\* except block, _kill_orphan).
THEOREM OrphansAreKnown == FCSpec => []OnlyKnownOrphans
<1>1. FCInv => OnlyKnownOrphans
    BY DEF FCInv
<1> QED
    BY <1>1, SandboxInvariant, PTL

\* kill leaves neither process, record, snapshot nor namespace under its id, across
\* failed spawns, failed kills and restarts of the supervisor, and when restart() of the
\* id was called but had not yet found a checkpoint; the exception is the id whose
\* restart had, and went on beside the kill.
THEOREM KillLeavesNothing == FCSpec => []KilledIsGone
<1>1. FCInv => KilledIsGone
    BY DEF FCInv, OwnParts, Sound, GoneOf, KilledIsGone
<1> QED
    BY <1>1, SandboxInvariant, PTL

\* The allocator hands no /30 index out twice and loses none: free list, cursor and
\* netns.idx files agree (_allocate, release, reserve, _recover_netns_indices), but for
\* the indices of raced ids.
THEOREM IndicesNeverLost == FCSpec => []IndicesKept
<1>1. ASSUME FCInv PROVE IndexExclusive
  <2>1. SUFFICES ASSUME up, NEW b \in ID, NEW i \in Index \ (shared \cup tangled),
                        KnownIndex(b) = i, ~Released(b)
                 PROVE  i \notin free /\ \A c \in ID \ {b} : index[c] # i
    BY DEF IndexExclusive, Released
  <2>2. i # NoIndex
    BY <2>1, FCAssumption DEF NoIndex, Index
  <2>3. b \notin raced
    BY <1>1, <2>1, <2>2, TypeFacts DEF Entangled, IndexNames, KnownIndex
  <2>4. Held(b) = i
    BY <2>1, <2>3 DEF Held
  <2>5. i \notin free /\ \A c \in ID \ {b} : Held(c) # i
    BY <1>1, <2>1, <2>4 DEF FCInv, IndicesSound
  <2>6. \A c \in ID : index[c] # NoIndex /\ index[c] \notin tangled => Held(c) = index[c]
    BY <1>1, IndexIsHeld
  <2> QED
    BY <2>1, <2>2, <2>5, <2>6
<1>2. ASSUME FCInv PROVE IndexConserved
  <2>1. SUFFICES ASSUME up, NEW i \in (0 .. next - 1) \ tangled
                 PROVE  i \in free \/ \E b \in ID : KnownIndex(b) = i
    BY DEF IndexConserved
  <2>2. i # NoIndex
    BY <1>2, FCAssumption DEF FCInv, FCTypeOK, NoIndex
  <2>3. i \in free \/ \E b \in ID : Held(b) = i
    BY <1>2, <2>1 DEF FCInv, IndicesSound
  <2> QED
    BY <2>2, <2>3 DEF Held
<1>3. FCInv => IndicesKept
    BY <1>1, <1>2 DEF FCInv, IndicesKept
<1> QED
    BY <1>3, SandboxInvariant, PTL

\* A running branch keeps its veth: no teardown, setup or undo of another branch takes
\* it away, one whose kill and restart overlap included, unless its index came into two
\* hands by a crash or by such a branch.
THEOREM RunningKeepNetwork == FCSpec => []NetworkKept
<1>1. ASSUME FCInv PROVE NetworkKept
  <2>1. SUFFICES ASSUME NEW b \in ID, vms[b] \in procs, b \notin raced,
                        index[b] \notin shared \cup tangled
                 PROVE  veths[index[b]] = b
    BY DEF NetworkKept
  <2>2. vms[b] # 0
    BY <1>1, <2>1, TypeFacts
  <2>3. up /\ index[b] # NoIndex
    BY <1>1, <2>1, <2>2, TypeFacts DEF CallOf, IndexOf
  <2>4. index[b] \in Index
    BY <1>1, <2>3, FCAssumption DEF FCInv, FCTypeOK, NoIndex, Index
  <2> QED
    BY <1>1, <2>1, <2>3, <2>4 DEF FCInv, IndicesSound
<1>2. FCInv => NetworkKept
    BY <1>1
<1> QED
    BY <1>2, SandboxInvariant, PTL

=============================================================================
