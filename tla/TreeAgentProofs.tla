--------------------------- MODULE TreeAgentProofs ---------------------------
(***************************************************************************)
(* Theorems about TreeAgent, for any callers, texts and bounds, where ids   *)
(* are the orchestrator's own (~Reuse).                                     *)
(***************************************************************************)
EXTENDS TreeAgent, FiniteSetTheorems, SequenceTheorems, TLAPS

-----------------------------------------------------------------------------
\* The inductive invariant: the types, and what holds of each caller's tree

Tokens == Seq(Nat \ {0})

CallRecord == [at : Stage, base : Prefix, targets : Seq(Prefix), kids : Seq(ID),
               results : Seq(Results \cup {Pending}), first : Seq(ID), again : Seq(ID),
               reaped : SUBSET ID, broken : BOOLEAN]

\* AgentTypeOK, with the sequences as sequences.
Typed ==
    /\ order \in Seq(ID) /\ Range(order) = {b \in ID : row[b] # "absent"} /\ IsInjective(order)
    /\ row \in [ID -> {"absent", "forking", "live", "killing"}]
    /\ parent \in [ID -> ID \cup {None}]
    /\ kv \in [ID -> Tokens]
    /\ seq \in [Caller -> 0 .. MaxBranches]
    /\ ledger \in [ID -> Prefix \cup {Unknown}]
    /\ call \in [Caller -> CallRecord]
    /\ on \in [Caller -> ID \cup {None}] /\ line \in [Caller -> SUBSET ID]
    /\ rounds \in [Caller -> Nat] /\ \A c \in Caller : rounds[c] <= MaxRounds[c]
    /\ faults \in 0 .. MaxFaults

\* An id that was not handed out yet has no row and no entry.
Fresh(c) == \A b \in ID : b[1] = c /\ b[2] > seq[c] => row[b] = "absent" /\ ledger[b] = Unknown

\* The children before the t-th have had their turn, the others have not.
InTurn(r, t) == \A j \in 1 .. Len(r.results) : r.results[j] = Pending <=> t <= j

\* The turn, the child and its target, of a call with the locals r.
TurnIn(s) == CHOOSE k \in 1 .. Len(s) : s[k] = Pending /\ \A j \in 1 .. k - 1 : s[j] # Pending
ChildOf(r)  == r.kids[TurnIn(r.results)]
TargetOf(r) == r.targets[TurnIn(r.results)]

\* What a call's locals look like at each stage.
Shape(r) ==
    /\ r.at \in {"idle", "round", "done", "raised"} => r = At(r.at)
    /\ r.at # "sweep" => r.first = <<>> /\ r.again = <<>> /\ r.reaped = {}
    /\ Len(r.kids) = Len(r.targets) /\ IsInjective(r.kids)
    /\ r.at \in {"commit", "record", "select"} => Len(r.results) = Len(r.kids)
    /\ r.at \in {"commit", "record"} => \E t \in 1 .. Len(r.results) : InTurn(r, t)
    /\ r.at = "select" => \A j \in 1 .. Len(r.results) : r.results[j] # Pending

\* A round, or the preparation of a root, is under way.
Busy(c) == call[c].at \in {"spawn", "commit", "record", "select"}

\* It is the preparation of a root.
Rooting(c) == on[c] = None \/ call[c].kids = <<on[c]>>

\* Line and children are branches of the caller's tree, the children the newest.
Owned(c) ==
    /\ on[c] = None => line[c] = {}
    /\ on[c] # None => on[c] \in line[c]
    /\ \A b \in line[c] : b[1] = c /\ b[2] <= seq[c] /\ b[2] <= on[c][2] /\ row[b] # "forking"
    /\ \A b \in Range(call[c].kids) : b[1] = c /\ b[2] <= seq[c]
    /\ call[c].at = "idle" => on[c] = None
    /\ call[c].at \in {"commit", "record", "select", "sweep", "round", "done"} => on[c] # None
    /\ Busy(c) /\ Rooting(c) =>
        /\ call[c].base = <<>> /\ Len(call[c].kids) = 1 /\ line[c] \subseteq {on[c]}
        /\ on[c] = None <=> call[c].at = "spawn"
        /\ call[c].at # "select"
    /\ Busy(c) /\ ~Rooting(c) => \A b \in Range(call[c].kids) : b[2] > on[c][2]

\* The parent of a branch of the line is the one before it, and that of a child
\* the branch that is forked, as long as they have rows.
Chained(c) ==
    /\ \A b \in line[c] : parent[b] \in line[c] \cup {None}
    /\ \A b, d \in line[c] : d[2] < b[2] /\ row[b] # "absent" =>
        parent[b] \in line[c] /\ d[2] <= parent[b][2] /\ parent[b][2] < b[2]
    /\ Busy(c) => \A b \in Range(call[c].kids) :
        LET p == IF Rooting(c) THEN None ELSE on[c]
        IN  parent[b] \in {p, None} /\ (row[b] # "absent" => parent[b] = p)

\* What the ledger has of the caller's branches.
Known(c) ==
    /\ \A b \in ID : b[1] = c /\ row[b] = "live" /\ ledger[b] # Unknown =>
        ledger[b] = kv[b] \/ (call[c].at = "record" /\ ChildOf(call[c]) = b)
    /\ on[c] # None /\ row[on[c]] = "live" => ledger[on[c]] # Unknown
    /\ \A b \in Range(call[c].kids) :
        IF call[c].at = "spawn" THEN ledger[b] = Unknown ELSE row[b] = "live" => ledger[b] # Unknown

\* What the caller's branches hold: the children what they inherit, then what
\* they were committed to, and the line prefixes of both.
Held(c) ==
    /\ Busy(c) => \A k \in 1 .. Len(call[c].kids) : LET b == call[c].kids[k] IN
        /\ IsPrefix(call[c].base, call[c].targets[k])
        /\ ~Rooting(c) => Len(call[c].base) < Len(call[c].targets[k])
        /\ call[c].at = "spawn" /\ row[b] = "live" => kv[b] = call[c].base
        /\ call[c].at # "spawn" /\ call[c].results[k] = Pending =>
            ledger[b] \in {call[c].base, Unknown}
        /\ call[c].at # "spawn" /\ call[c].results[k] \notin {Pending, Failed} /\ row[b] = "live" =>
            kv[b] = call[c].targets[k]
    /\ call[c].at = "record" /\ row[ChildOf(call[c])] = "live" =>
        kv[ChildOf(call[c])] = TargetOf(call[c])
    /\ Busy(c) /\ ~Rooting(c) => \A b \in line[c] : row[b] = "live" =>
        IsPrefix(kv[b], call[c].base) /\ (b = on[c] => kv[b] = call[c].base)
    /\ \A b \in line[c] \ {on[c]} :
        row[b] = "live" /\ row[on[c]] = "live" => IsStrictPrefix(kv[b], kv[on[c]])
    /\ call[c].at = "sweep" /\ row[on[c]] = "live" => kv[on[c]] \in Range(call[c].targets)

\* A sweep's lists spare the line and miss nothing else of the caller's tree, and
\* it has receipts only for branches that are gone for good.
Swept(c) ==
    /\ (\A b \in line[c] : row[b] = "live") =>
        line[c] \cap (Range(call[c].first) \cup Range(call[c].again)) = {}
    /\ call[c].at = "sweep" /\ ~call[c].broken => \A b \in ID : b[1] = c /\ row[b] # "absent" =>
        b \in line[c] \cup Range(call[c].first) \cup Range(call[c].again)
    /\ \A b \in call[c].reaped : row[b] = "absent" /\ b[2] <= seq[b[1]]

TreeInv(c) ==
    /\ Fresh(c) /\ Shape(call[c]) /\ Owned(c) /\ Chained(c) /\ Known(c) /\ Held(c) /\ Swept(c)

AgentInv == Typed /\ \A c \in Caller : TreeInv(c)

-----------------------------------------------------------------------------
\* Numbers, recursions and sequences

\* A set of naturals that has an element has a least one.
LEMMA LeastOf ==
    ASSUME NEW S \in SUBSET Nat, S # {}
    PROVE  \E x \in S : \A y \in S : x <= y
<1> DEFINE R == OpToRel(<, Nat)
<1>1. IsWellFoundedOn(R, Nat)
  BY NatLessThanWellFounded
<1> HIDE DEF R
<1>2. PICK x \in S : \A y \in S : ~(<<y, x>> \in R)
  BY <1>1, WFMin
<1>3. \A y \in S : ~(y < x)
  BY <1>2 DEF R, OpToRel
<1> QED
  BY <1>3

\* S holds 0 and, up to n, the successor of each of its members.
Climbs(S, n) == 0 \in S /\ \A i \in 1 .. n : i - 1 \in S => i \in S

\* Such a set holds all the numbers up to n.
LEMMA AllUpTo ==
    ASSUME NEW n \in Nat, NEW S, Climbs(S, n)
    PROVE  \A i \in 0 .. n : i \in S
<1> USE DEF Climbs
<1> SUFFICES ASSUME NEW j \in 0 .. n, j \notin S
             PROVE  FALSE
  OBVIOUS
<1> DEFINE Bad == {i \in 0 .. n : i \notin S}
<1>1. Bad \in SUBSET Nat /\ Bad # {}
  OBVIOUS
<1>2. PICK x \in Bad : \A y \in Bad : x <= y
  BY <1>1, LeastOf
<1>3. x # 0 /\ x \in 1 .. n
  OBVIOUS
<1>4. x - 1 \in S
  BY <1>2, <1>3
<1> QED
  BY <1>3, <1>4

\* f begins with v and goes on by one step after the other.
Walks(f, n, v, step) == f[0] = v /\ \A i \in 1 .. n : f[i] = step[i][f[i - 1]]

\* A function may be defined by its first value and a step to each next one.
LEMMA Stepwise ==
    ASSUME NEW n \in Nat, NEW V, NEW v \in V, NEW step \in [1 .. n -> [V -> V]]
    PROVE  \E f \in [0 .. n -> V] : Walks(f, n, v, step)
<1> DEFINE Upto(m, f) == Walks(f, m, v, step)
           S == {m \in 0 .. n : \E f \in [0 .. m -> V] : Upto(m, f)}
<1>1. 0 \in S
  <2> DEFINE f == [i \in 0 .. 0 |-> v]
  <2>1. f \in [0 .. 0 -> V] /\ Upto(0, f)
    BY DEF Walks
  <2>2. \E g \in [0 .. 0 -> V] : Upto(0, g)
    BY <2>1
  <2> QED
    BY <2>2
<1>2. ASSUME NEW m \in 1 .. n, m - 1 \in S
      PROVE  m \in S
  <2>1. PICK f \in [0 .. m - 1 -> V] : Upto(m - 1, f)
    BY <1>2
  <2> DEFINE g == [i \in 0 .. m |-> IF i = m THEN step[m][f[m - 1]] ELSE f[i]]
  <2>2. f[m - 1] \in V /\ step[m] \in [V -> V]
    OBVIOUS
  <2>3. g \in [0 .. m -> V]
    BY <2>2
  <2>4. g[0] = v
    BY <2>1 DEF Walks
  <2>5. ASSUME NEW i \in 1 .. m
        PROVE  g[i] = step[i][g[i - 1]]
    <3>1. CASE i = m
      BY <3>1
    <3>2. CASE i # m
      <4>1. i \in 1 .. m - 1 /\ g[i] = f[i] /\ g[i - 1] = f[i - 1]
        BY <3>2
      <4> QED
        BY <4>1, <2>1 DEF Walks
    <3> QED
      BY <3>1, <3>2
  <2>6. Upto(m, g)
    BY <2>4, <2>5 DEF Walks
  <2>7. \E h \in [0 .. m -> V] : Upto(m, h)
    BY <2>3, <2>6
  <2>8. m \in 0 .. n
    OBVIOUS
  <2> HIDE DEF Upto
  <2> QED
    BY <2>7, <2>8
<1> HIDE DEF S
<1>3. n \in S
  <2>1. Climbs(S, n)
    BY <1>1, <1>2 DEF Climbs
  <2> QED
    BY <2>1, AllUpTo
<1> QED
  BY <1>3 DEF S

\* Only keeps the elements of a set, each once if they were so before.
LEMMA OnlyIs ==
    ASSUME NEW X, NEW s \in Seq(X), NEW T
    PROVE  /\ Only(s, T) \in Seq(X)
           /\ Range(Only(s, T)) = Range(s) \cap T
           /\ IsInjective(s) => IsInjective(Only(s, T))
<1> DEFINE n == Len(s)
           next(i, t) == IF s[i] \in T THEN Append(t, s[i]) ELSE t
           step == [i \in 1 .. n |-> [t \in Seq(X) |-> next(i, t)]]
           body(g) == [i \in 0 .. n |-> IF i = 0 THEN <<>> ELSE next(i, g[i - 1])]
           upTo == CHOOSE g : g = body(g)
<1>1. Only(s, T) = upTo[n]
  BY DEF Only
<1>2. n \in Nat /\ \A i \in 1 .. n : s[i] \in X
  BY LenProperties, ElementOfSeq
<1>3. \A i \in 1 .. n : \A t \in Seq(X) : next(i, t) \in Seq(X)
  BY <1>2, AppendProperties
<1>4. step \in [1 .. n -> [Seq(X) -> Seq(X)]] /\ <<>> \in Seq(X)
  BY <1>3, EmptySeq
<1> HIDE DEF n
<1>5. PICK f \in [0 .. n -> Seq(X)] : Walks(f, n, <<>>, step)
  <2> HIDE DEF step
  <2> DEFINE V == Seq(X)  v == <<>>
  <2>1. n \in Nat /\ v \in V /\ step \in [1 .. n -> [V -> V]]
    BY <1>2, <1>4 DEF n
  <2> HIDE DEF V, v
  <2>2. \E f \in [0 .. n -> V] : Walks(f, n, v, step)
    BY <2>1, Stepwise
  <2> QED
    BY <2>2 DEF V, v
<1>6. ASSUME NEW i \in 1 .. n
      PROVE  f[i] = next(i, f[i - 1])
  <2>1. f[i - 1] \in Seq(X)
    BY <1>2
  <2>2. step[i][f[i - 1]] = next(i, f[i - 1])
    BY <2>1
  <2> QED
    BY <2>2, <1>5 DEF Walks
<1>7. f = body(f)
  <2> HIDE DEF next
  <2>1. \A i \in 0 .. n : f[i] = IF i = 0 THEN <<>> ELSE next(i, f[i - 1])
    BY <1>2, <1>5, <1>6 DEF Walks
  <2> QED
    BY <2>1
<1>8. upTo = body(upTo)
  BY <1>7
<1> HIDE DEF upTo
<1>9. upTo[0] = <<>> /\ \A i \in 1 .. n : upTo[i] = next(i, upTo[i - 1])
  <2> HIDE DEF next
  <2> QED
    BY <1>2, <1>8
<1> DEFINE Good(i, t) == /\ t \in Seq(X) /\ Range(t) = {s[j] : j \in 1 .. i} \cap T
                         /\ IsInjective(s) => IsInjective(t)
           S == {i \in 0 .. n : Good(i, upTo[i])}
<1>10. 0 \in S
  <2>1. DOMAIN upTo[0] = {} /\ upTo[0] \in Seq(X)
    BY <1>4, <1>9
  <2>2. Range(upTo[0]) = {} /\ IsInjective(upTo[0])
    BY <2>1 DEF Range, IsInjective
  <2>3. {s[j] : j \in 1 .. 0} = {}
    OBVIOUS
  <2> QED
    BY <1>2, <2>1, <2>2, <2>3
<1>11. ASSUME NEW i \in 1 .. n, i - 1 \in S
       PROVE  i \in S
  <2> DEFINE t == upTo[i - 1]
  <2>1. Good(i - 1, t) /\ upTo[i] = next(i, t)
    BY <1>9, <1>11
  <2> HIDE DEF t
  <2>2. {s[j] : j \in 1 .. i} = {s[j] : j \in 1 .. i - 1} \cup {s[i]}
    <3>1. 1 .. i = 1 .. i - 1 \cup {i}
      BY <1>2
    <3> QED
      BY <3>1
  <2>3. CASE s[i] \notin T
    BY <2>1, <2>2, <2>3, <1>2
  <2>4. CASE s[i] \in T
    <3>1. upTo[i] = Append(t, s[i]) /\ s[i] \in X /\ t \in Seq(X)
      BY <2>1, <2>4, <1>2
    <3>2. /\ Append(t, s[i]) \in Seq(X) /\ Len(Append(t, s[i])) = Len(t) + 1 /\ Len(t) \in Nat
          /\ \A j \in 1 .. Len(t) : Append(t, s[i])[j] = t[j]
          /\ Append(t, s[i])[Len(t) + 1] = s[i]
      BY <3>1, AppendProperties, LenProperties
    <3> DEFINE u == Append(t, s[i])
    <3>3. DOMAIN u = 1 .. Len(t) + 1 /\ DOMAIN t = 1 .. Len(t)
      BY <3>1, <3>2, LenProperties
    <3> HIDE DEF u
    <3>4. Range(u) = Range(t) \cup {s[i]}
      BY <3>2, <3>3 DEF Range, u
    <3>5. ASSUME IsInjective(s)
          PROVE  IsInjective(u)
      <4>1. DOMAIN s = 1 .. n
        BY LenProperties DEF n
      <4>2. s[i] \notin Range(t)
        <5>1. \A j \in 1 .. i - 1 : s[j] # s[i]
          <6>1. \A j \in 1 .. i - 1 : j \in 1 .. n /\ j # i
            BY <1>2 DEF n
          <6> QED
            BY <3>5, <4>1, <6>1 DEF IsInjective
        <5> QED
          BY <2>1, <5>1
      <4>3. IsInjective(t)
        BY <2>1, <3>5
      <4>4. \A j \in 1 .. Len(t) : u[j] = t[j] /\ t[j] \in Range(t)
        BY <3>2, <3>3 DEF u, Range
      <4>5. u[Len(t) + 1] = s[i]
        BY <3>2 DEF u
      <4> QED
        BY <3>2, <3>3, <4>2, <4>3, <4>4, <4>5 DEF IsInjective
    <3>6. u \in Seq(X) /\ upTo[i] = u
      BY <3>1, <3>2 DEF u
    <3>7. Range(u) = {s[j] : j \in 1 .. i} \cap T
      BY <3>4, <2>1, <2>2, <2>4
    <3>8. Good(i, u)
      BY <3>5, <3>6, <3>7
    <3> QED
      BY <3>6, <3>8, <1>2
  <2> QED
    BY <2>3, <2>4
<1> HIDE DEF S
<1>12. n \in S
  <2>1. Climbs(S, n) /\ n \in Nat
    BY <1>2, <1>10, <1>11 DEF Climbs, n
  <2> QED
    BY <2>1, AllUpTo
<1>13. Good(n, upTo[n])
  BY <1>12 DEF S
<1>14. Range(s) = {s[j] : j \in 1 .. n}
  BY LenProperties DEF n, Range
<1> QED
  BY <1>1, <1>13, <1>14

-----------------------------------------------------------------------------
\* Ids and chains of parents

\* An id is a caller and a number, and there are at least as many ids as numbers.
LEMMA IdIs ==
    /\ MaxBranches \in Nat /\ Caller \subseteq Nat \ {0}
    /\ \A b \in ID : b = <<b[1], b[2]>> /\ b[1] \in Caller /\ b[2] \in 1 .. MaxBranches
    /\ None \notin ID
    /\ Cardinality(ID) \in Nat
    /\ Caller # {} => MaxBranches <= Cardinality(ID)
<1>1. MaxBranches \in Nat /\ Caller \subseteq Nat \ {0} /\ IsFiniteSet(Caller)
  BY AgentAssumption
<1>2. \A b \in ID : b = <<b[1], b[2]>> /\ b[1] \in Caller /\ b[2] \in 1 .. MaxBranches
  BY DEF ID
<1>3. None \notin ID
  BY <1>1 DEF ID, None
<1>4. IsFiniteSet(1 .. MaxBranches) /\ Cardinality(1 .. MaxBranches) = MaxBranches
  <2>1. 1 \in Int /\ MaxBranches \in Int
    BY <1>1
  <2>2. /\ IsFiniteSet(1 .. MaxBranches)
        /\ Cardinality(1 .. MaxBranches)
              = IF 1 > MaxBranches THEN 0 ELSE MaxBranches - 1 + 1
    BY <2>1, FS_Interval
  <2> QED
    BY <1>1, <2>2
<1>5. IsFiniteSet(ID) /\ Cardinality(ID) = Cardinality(Caller) * Cardinality(1 .. MaxBranches)
  BY <1>1, <1>4, FS_Product DEF ID
<1>6. Cardinality(Caller) \in Nat /\ (Caller # {} => Cardinality(Caller) # 0)
  BY <1>1, FS_CardinalityType, FS_EmptySet
<1>7. Cardinality(ID) \in Nat
  BY <1>5, FS_CardinalityType
<1>8. ASSUME NEW m \in Nat, NEW n \in Nat, m # 0
      PROVE  n <= m * n
  <2>1. m - 1 \in Nat /\ (m - 1) * n \in Nat
    BY <1>8
  <2>2. m * n = (m - 1) * n + n
    OBVIOUS
  <2> QED
    BY <2>1, <2>2
<1>9. Caller # {} => MaxBranches <= Cardinality(ID)
  <2>1. Caller # {} => MaxBranches <= Cardinality(Caller) * MaxBranches
    BY <1>1, <1>6, <1>8
  <2> QED
    BY <2>1, <1>4, <1>5
<1> QED
  BY <1>1, <1>2, <1>3, <1>7, <1>9

\* The branches of s and their parents.
Below(s) == UNION {IF b = None THEN {b} ELSE {b, parent[b]} : b \in s}

\* Kept is what is reached in as many steps as there are ids.
LEMMA KeptIs ==
    ASSUME parent \in [ID -> ID \cup {None}], NEW w \in ID
    PROVE  \E up \in [0 .. Cardinality(ID) -> SUBSET (ID \cup {None})] :
              /\ up[0] = {w}
              /\ \A n \in 1 .. Cardinality(ID) : up[n] = Below(up[n - 1])
              /\ Kept(w) = up[Cardinality(ID)]
<1> DEFINE N == Cardinality(ID)
           V == SUBSET (ID \cup {None})
           step == [n \in 1 .. N |-> [s \in V |-> Below(s)]]
           body(g) == [n \in 0 .. N |-> IF n = 0 THEN {w} ELSE Below(g[n - 1])]
           v == {w}
<1>1. N \in Nat
  BY IdIs
<1> HIDE DEF N
<1>2. \A s \in V : Below(s) \in V
  BY DEF Below
<1>3. v \in V /\ step \in [1 .. N -> [V -> V]]
  BY <1>2
<1> HIDE DEF V
<1>4. PICK f \in [0 .. N -> V] : Walks(f, N, v, step)
  <2> HIDE DEF step, v
  <2> QED
    BY <1>1, <1>3, Stepwise
<1>5. \A n \in 1 .. N : f[n] = Below(f[n - 1]) /\ f[n - 1] \in V
  <2> SUFFICES ASSUME NEW n \in 1 .. N
               PROVE  f[n] = Below(f[n - 1]) /\ f[n - 1] \in V
    OBVIOUS
  <2>1. f[n - 1] \in V
    BY <1>1
  <2>2. f[n] = step[n][f[n - 1]]
    BY <1>4 DEF Walks
  <2> QED
    BY <2>1, <2>2
<1>6. f = body(f)
  <2>1. \A n \in 0 .. N : f[n] = IF n = 0 THEN {w} ELSE Below(f[n - 1])
    BY <1>1, <1>4, <1>5 DEF Walks
  <2> QED
    BY <2>1
<1> DEFINE up == CHOOSE g : g = body(g)
<1>7. up = body(up)
  BY <1>6
<1>8. Kept(w) = up[N]
  BY DEF Kept, Below, N
<1> HIDE DEF up
<1>9. up[0] = {w} /\ \A n \in 1 .. N : up[n] = Below(up[n - 1])
  <2> DEFINE nextTo(s) == Below(s)
  <2>1. up = [n \in 0 .. N |-> IF n = 0 THEN {w} ELSE nextTo(up[n - 1])]
    BY <1>7
  <2> HIDE DEF nextTo
  <2>2. \A n \in 0 .. N : up[n] = IF n = 0 THEN {w} ELSE nextTo(up[n - 1])
    BY <2>1, Zenon
  <2>3. 0 \in 0 .. N /\ \A n \in 1 .. N : n \in 0 .. N /\ n # 0
    BY <1>1
  <2>4. up[0] = {w} /\ \A n \in 1 .. N : up[n] = nextTo(up[n - 1])
    BY <2>2, <2>3, Zenon
  <2> QED
    BY <2>4 DEF nextTo
<1> DEFINE S == {n \in 0 .. N : up[n] \in V}
<1>10. Climbs(S, N)
  <2>1. 0 \in S
    <3>1. up[0] \in V
      BY <1>3, <1>9
    <3> QED
      BY <1>1, <3>1
  <2>2. \A n \in 1 .. N : n - 1 \in S => n \in S
    BY <1>1, <1>2, <1>9
  <2> QED
    BY <2>1, <2>2 DEF Climbs
<1> HIDE DEF S
<1>11. \A n \in 0 .. N : n \in S
  BY <1>1, <1>10, AllUpTo
<1>12. up \in [0 .. N -> V]
  BY <1>7, <1>11 DEF S
<1> QED
  BY <1>8, <1>9, <1>12 DEF N, V

\* A set that holds the parents of its members holds what a member keeps.
LEMMA KeptWithin ==
    ASSUME parent \in [ID -> ID \cup {None}], NEW l \in SUBSET ID, NEW w \in l,
           \A b \in l : parent[b] \in l \cup {None}
    PROVE  Kept(w) \subseteq l \cup {None}
<1> DEFINE N == Cardinality(ID)
<1>1. PICK up \in [0 .. N -> SUBSET (ID \cup {None})] :
        /\ up[0] = {w} /\ (\A n \in 1 .. N : up[n] = Below(up[n - 1])) /\ Kept(w) = up[N]
  BY KeptIs
<1>2. N \in Nat
  BY IdIs
<1> HIDE DEF N
<1> DEFINE S == {n \in 0 .. N : up[n] \subseteq l \cup {None}}
<1>3. Climbs(S, N)
  <2>1. 0 \in S
    BY <1>1, <1>2
  <2>2. ASSUME NEW n \in 1 .. N, n - 1 \in S
        PROVE  n \in S
    <3>1. up[n] = Below(up[n - 1]) /\ up[n - 1] \subseteq l \cup {None}
      BY <1>1, <2>2
    <3>2. Below(up[n - 1]) \subseteq l \cup {None}
      BY <3>1 DEF Below
    <3> QED
      BY <3>1, <3>2, <1>2
  <2> QED
    BY <2>1, <2>2 DEF Climbs
<1> HIDE DEF S
<1>4. N \in S
  BY <1>2, <1>3, AllUpTo
<1> QED
  BY <1>1, <1>4 DEF S

\* l is a chain: the parent of each member but the least is the one before it.
Chain(c, l) ==
    /\ \A b \in l : b[1] = c
    /\ \A b, d \in l : d[2] < b[2] =>
        parent[b] \in l /\ d[2] <= parent[b][2] /\ parent[b][2] < b[2]

\* The greatest of a chain keeps all of it.
LEMMA KeptCovers ==
    ASSUME parent \in [ID -> ID \cup {None}], NEW c \in Caller, NEW l \in SUBSET ID,
           Chain(c, l), NEW w \in l, \A b \in l : b[2] <= w[2]
    PROVE  l \subseteq Kept(w)
<1> DEFINE N == Cardinality(ID)
<1>1. PICK up \in [0 .. N -> SUBSET (ID \cup {None})] :
        /\ up[0] = {w} /\ (\A n \in 1 .. N : up[n] = Below(up[n - 1])) /\ Kept(w) = up[N]
  BY KeptIs
<1>2. N \in Nat /\ MaxBranches \in Nat /\ MaxBranches <= N
  BY IdIs
<1>3. \A b \in l : /\ b = <<c, b[2]>> /\ b[2] \in 1 .. MaxBranches
                   /\ b \in ID /\ b # None
  BY IdIs DEF Chain
<1> HIDE DEF N
<1> DEFINE S == {n \in 0 .. N : \A d \in l : w[2] - d[2] <= n => d \in up[n]}
<1>4. 0 \in S
  <2> SUFFICES ASSUME NEW d \in l, w[2] - d[2] <= 0
               PROVE  d \in up[0]
    BY <1>2
  <2>1. d[2] = w[2]
    BY <1>3
  <2> QED
    BY <2>1, <1>1, <1>3
<1>5. ASSUME NEW n \in 1 .. N, n - 1 \in S
      PROVE  n \in S
  <2> SUFFICES ASSUME NEW d \in l, w[2] - d[2] <= n
               PROVE  d \in up[n]
    BY <1>2
  <2>1. up[n] = Below(up[n - 1])
    BY <1>1
  <2>2. \A e \in l : w[2] - e[2] <= n - 1 => e \in up[n - 1]
    BY <1>5
  <2>3. CASE w[2] - d[2] <= n - 1
    BY <2>1, <2>2, <2>3 DEF Below
  <2>4. CASE ~(w[2] - d[2] <= n - 1)
    <3>1. d[2] < w[2]
      BY <2>4, <1>3
    <3> DEFINE T == {e[2] : e \in {f \in l : d[2] < f[2]}}
    <3>2. T \in SUBSET Nat /\ w[2] \in T
      BY <1>3, <3>1
    <3>3. PICK x \in T : \A y \in T : x <= y
      BY <3>2, LeastOf
    <3>4. PICK e \in l : d[2] < e[2] /\ x = e[2]
      OBVIOUS
    <3>5. \A f \in l : d[2] < f[2] => e[2] <= f[2]
      BY <3>3, <3>4
    <3> HIDE DEF T
    <3>6. e \in up[n - 1]
      BY <1>3, <2>2, <3>4
    <3>7. parent[e] \in l /\ d[2] <= parent[e][2] /\ parent[e][2] < e[2]
      BY <3>4 DEF Chain
    <3>8. parent[e][2] = d[2]
      BY <1>3, <3>5, <3>7
    <3>9. parent[e] = d
      BY <1>3, <3>7, <3>8
    <3> QED
      BY <1>3, <2>1, <3>6, <3>9 DEF Below
  <2> QED
    BY <2>3, <2>4
<1> HIDE DEF S
<1>6. N \in S
  <2>1. Climbs(S, N)
    BY <1>4, <1>5 DEF Climbs
  <2> QED
    BY <1>2, <2>1, AllUpTo
<1>7. \A d \in l : w[2] - d[2] <= N
  <2>1. \A m, k \in 1 .. MaxBranches : m - k <= N
    BY <1>2
  <2> QED
    BY <1>3, <2>1
<1> QED
  BY <1>1, <1>6, <1>7 DEF S

-----------------------------------------------------------------------------
\* Types, texts and turns

\* What the type invariant says of one call.
LEMMA CallIs ==
    ASSUME Typed, NEW c \in Caller
    PROVE  /\ call[c] \in CallRecord
           /\ call[c].at \in Stage /\ call[c].base \in Prefix
           /\ call[c].targets \in Seq(Prefix) /\ call[c].kids \in Seq(ID)
           /\ call[c].results \in Seq(Results \cup {Pending})
           /\ call[c].first \in Seq(ID) /\ call[c].again \in Seq(ID)
           /\ call[c].reaped \subseteq ID /\ call[c].broken \in BOOLEAN
           /\ Len(call[c].kids) \in Nat /\ Len(call[c].targets) \in Nat
           /\ Len(call[c].results) \in Nat
           /\ \A k \in 1 .. Len(call[c].kids) : call[c].kids[k] \in ID
           /\ Range(call[c].kids) = {call[c].kids[k] : k \in 1 .. Len(call[c].kids)}
           /\ Range(call[c].kids) \subseteq ID
           /\ on[c] \in ID \cup {None} /\ line[c] \subseteq ID /\ seq[c] \in 0 .. MaxBranches
<1>1. call[c] \in CallRecord
  BY DEF Typed
<1>2. /\ call[c].at \in Stage /\ call[c].base \in Prefix
      /\ call[c].targets \in Seq(Prefix) /\ call[c].kids \in Seq(ID)
      /\ call[c].results \in Seq(Results \cup {Pending})
      /\ call[c].first \in Seq(ID) /\ call[c].again \in Seq(ID)
      /\ call[c].reaped \subseteq ID /\ call[c].broken \in BOOLEAN
  BY <1>1 DEF CallRecord
<1>3. /\ Len(call[c].kids) \in Nat /\ Len(call[c].targets) \in Nat
      /\ Len(call[c].results) \in Nat
  BY <1>2, LenProperties
<1>4. /\ \A k \in 1 .. Len(call[c].kids) : call[c].kids[k] \in ID
      /\ DOMAIN call[c].kids = 1 .. Len(call[c].kids)
  BY <1>2, ElementOfSeq, LenProperties
<1>5. on[c] \in ID \cup {None} /\ line[c] \subseteq ID /\ seq[c] \in 0 .. MaxBranches
  BY DEF Typed
<1> QED
  BY <1>1, <1>2, <1>3, <1>4, <1>5 DEF Range

\* A prefix is a sequence of tokens, and never what stands for no entry.
LEMMA PrefixIs == Prefix \subseteq Tokens /\ Unknown \notin Prefix /\ <<>> \in Prefix
<1>1. Contexts \subseteq Tokens /\ \A c \in Caller : Rounds[c] \subseteq Seq(Tokens)
  BY AgentAssumption DEF Tokens
<1>2. ASSUME NEW c \in Caller, NEW s \in Rounds[c]
      PROVE  Range(s) \subseteq Tokens
  <2>1. s \in Seq(Tokens)
    BY <1>1
  <2> QED
    BY <2>1, ElementOfSeq, LenProperties DEF Range
<1>3. <<>> \in Tokens
  BY EmptySeq DEF Tokens
<1>4. Prefix \subseteq Tokens
  BY <1>1, <1>2, <1>3 DEF Prefix
<1>5. Unknown \notin Tokens
  BY ElementOfSeq, LenProperties DEF Unknown, Tokens
<1> QED
  BY <1>4, <1>5 DEF Prefix

\* The first n elements of a sequence.
LEMMA Taking ==
    ASSUME NEW X, NEW s \in Seq(X), NEW n \in 0 .. Len(s)
    PROVE  /\ SubSeq(s, 1, n) \in Seq(X) /\ Len(SubSeq(s, 1, n)) = n
           /\ \A i \in 1 .. n : SubSeq(s, 1, n)[i] = s[i]
  BY SubSeqProperties, LenProperties

\* A prefix agrees with the longer sequence as far as it goes.
LEMMA Prefixed ==
    ASSUME NEW s \in Tokens, NEW t \in Tokens
    PROVE  /\ IsPrefix(s, t) <=> Len(s) <= Len(t) /\ \A i \in 1 .. Len(s) : s[i] = t[i]
           /\ Len(s) \in Nat /\ Len(t) \in Nat
<1>1. Len(s) \in Nat /\ Len(t) \in Nat
  BY LenProperties DEF Tokens
<1>2. SubSeq(s, 1, Len(s)) = s
  BY SubSeqFull DEF Tokens
<1>3. ASSUME Len(s) <= Len(t)
      PROVE  s = SubSeq(t, 1, Len(s)) <=> \A i \in 1 .. Len(s) : s[i] = t[i]
  BY <1>1, <1>3, Taking, SeqEqual DEF Tokens
<1> QED
  BY <1>1, <1>2, <1>3 DEF IsPrefix

\* Everything begins with nothing and with itself, and beginnings carry over.
LEMMA PrefixOrder ==
    ASSUME NEW r \in Tokens, NEW s \in Tokens, NEW t \in Tokens
    PROVE  /\ IsPrefix(s, s) /\ IsPrefix(<<>>, s)
           /\ IsPrefix(r, s) /\ IsPrefix(s, t) => IsPrefix(r, t)
           /\ IsPrefix(r, s) /\ IsPrefix(s, t) /\ Len(s) < Len(t) => IsStrictPrefix(r, t)
<1>1. <<>> \in Tokens /\ Len(<<>>) = 0
  BY EmptySeq DEF Tokens
<1>2. IsPrefix(s, s)
  BY Prefixed
<1>3. IsPrefix(<<>>, s)
  <2> DEFINE e == <<>>
  <2>1. e \in Tokens /\ Len(e) = 0 /\ Len(s) \in Nat
    BY <1>1, Prefixed
  <2> HIDE DEF e
  <2>2. IsPrefix(e, s)
    BY <2>1, Prefixed
  <2> QED
    BY <2>2 DEF e
<1>4. IsPrefix(r, s) /\ IsPrefix(s, t) => IsPrefix(r, t)
  BY Prefixed
<1>5. IsPrefix(r, s) /\ Len(s) < Len(t) => r # t
  BY Prefixed
<1> QED
  BY <1>2, <1>3, <1>4, <1>5 DEF IsStrictPrefix

\* StrictlyExtends is to be longer and to begin with the prefix.
LEMMA ExtendsIs ==
    ASSUME NEW s \in Tokens, NEW t \in Tokens, StrictlyExtends(s, t)
    PROVE  IsPrefix(s, t) /\ Len(s) < Len(t)
<1>1. Len(s) \in Nat /\ Len(t) \in Nat /\ SubSeq(s, 1, Len(s)) = s
  BY Prefixed, SubSeqFull DEF Tokens
<1> QED
  BY <1>1 DEF StrictlyExtends, IsPrefix

\* What begins with s is s and the rest.
LEMMA Rest ==
    ASSUME NEW s \in Tokens, NEW t \in Tokens, IsPrefix(s, t)
    PROVE  s \o SubSeq(t, Len(s) + 1, Len(t)) = t
<1>1. /\ Len(s) \in Nat /\ Len(t) \in Nat /\ Len(s) <= Len(t)
      /\ \A i \in 1 .. Len(s) : s[i] = t[i]
  BY Prefixed
<1> DEFINE u == SubSeq(t, Len(s) + 1, Len(t))
<1>2. /\ u \in Tokens /\ Len(u) = Len(t) - Len(s)
      /\ \A i \in 1 .. Len(t) - Len(s) : u[i] = t[Len(s) + i]
  BY <1>1 DEF Tokens
<1> HIDE DEF u
<1>3. s \o u \in Tokens /\ Len(s \o u) = Len(t)
  BY <1>1, <1>2 DEF Tokens
<1>4. ASSUME NEW i \in 1 .. Len(t)
      PROVE  (s \o u)[i] = t[i]
  <2>1. (s \o u)[i] = IF i <= Len(s) THEN s[i] ELSE u[i - Len(s)]
    BY <1>1, <1>2 DEF Tokens
  <2>2. CASE i <= Len(s)
    BY <1>1, <2>1, <2>2
  <2>3. CASE ~(i <= Len(s))
    <3>1. i - Len(s) \in 1 .. Len(t) - Len(s) /\ Len(s) + (i - Len(s)) = i
      BY <1>1, <2>3
    <3> QED
      BY <1>2, <2>1, <2>3, <3>1
  <2> QED
    BY <2>2, <2>3
<1>5. s \o u = t
  BY <1>3, <1>4, SeqEqual DEF Tokens
<1> QED
  BY <1>5 DEF u

\* The turn is the first that is pending.
LEMMA TurnIs ==
    ASSUME NEW r, Len(r.results) \in Nat, NEW t \in 1 .. Len(r.results), InTurn(r, t)
    PROVE  TurnIn(r.results) = t
<1> DEFINE s == r.results
           First(k) == s[k] = Pending /\ \A j \in 1 .. k - 1 : s[j] # Pending
<1>1. \A j \in 1 .. Len(s) : s[j] = Pending <=> t <= j
  BY DEF InTurn
<1>2. First(t)
  BY <1>1
<1>3. ASSUME NEW k \in 1 .. Len(s), First(k)
      PROVE  k = t
  <2>1. t <= k
    BY <1>1, <1>3
  <2>2. ~(t < k)
    BY <1>2, <1>3
  <2> QED
    BY <2>1, <2>2
<1> HIDE DEF s
<1>4. (CHOOSE k \in 1 .. Len(s) : First(k)) = t
  <2> HIDE DEF First
  <2>1. t \in 1 .. Len(s)
    BY DEF s
  <2> QED
    BY <2>1, <1>2, <1>3
<1> QED
  BY <1>4 DEF TurnIn, s

\* The model's names for them.
LEMMA TurnsAre ==
    ASSUME NEW c
    PROVE  /\ Turn(c) = TurnIn(call[c].results)
           /\ Child(c) = ChildOf(call[c]) /\ Target(c) = TargetOf(call[c])
  BY DEF Turn, Child, Target, TurnIn, ChildOf, TargetOf

\* While a commit is under way there is a turn, and its child is pending.
LEMMA TurnOf ==
    ASSUME Typed, NEW c \in Caller, Shape(call[c]), call[c].at \in {"commit", "record"}
    PROVE  LET t == TurnIn(call[c].results) IN
           /\ t \in 1 .. Len(call[c].kids) /\ t \in 1 .. Len(call[c].results)
           /\ InTurn(call[c], t) /\ call[c].results[t] = Pending
           /\ ChildOf(call[c]) = call[c].kids[t] /\ ChildOf(call[c]) \in Range(call[c].kids)
           /\ ChildOf(call[c]) \in ID /\ TargetOf(call[c]) = call[c].targets[t]
           /\ TargetOf(call[c]) \in Prefix
           /\ Len(call[c].results) = Len(call[c].kids) /\ Len(call[c].targets) = Len(call[c].kids)
<1>1. /\ Len(call[c].kids) = Len(call[c].targets)
      /\ Len(call[c].results) = Len(call[c].kids)
      /\ \E t \in 1 .. Len(call[c].results) : InTurn(call[c], t)
  BY DEF Shape
<1>2. PICK t \in 1 .. Len(call[c].results) : InTurn(call[c], t)
  BY <1>1
<1>3. TurnIn(call[c].results) = t
  BY <1>2, TurnIs, CallIs
<1>4. call[c].results[t] = Pending
  BY <1>2, CallIs DEF InTurn
<1>5. call[c].targets[t] \in Prefix
  BY <1>1, CallIs, ElementOfSeq
<1>6. call[c].kids[t] \in Range(call[c].kids) /\ call[c].kids[t] \in ID
  BY <1>1, CallIs
<1> QED
  BY <1>1, <1>2, <1>3, <1>4, <1>5, <1>6 DEF ChildOf, TargetOf

-----------------------------------------------------------------------------
\* The registry

\* The rows are those of order, each once.
RowsInOrder == /\ order \in Seq(ID) /\ IsInjective(order)
               /\ Range(order) = {b \in ID : row[b] # "absent"}
               /\ row \in [ID -> {"absent", "forking", "live", "killing"}]
               /\ parent \in [ID -> ID \cup {None}]

\* The type invariant says so.
LEMMA TypedRows == Typed => RowsInOrder
  BY DEF Typed, RowsInOrder

\* A branch that goes leaves the others' rows in their order.
LEMMA GoneIs ==
    ASSUME Typed, NEW b \in ID, Gone(b)
    PROVE  RowsInOrder' /\ kv' \in [ID -> Tokens]
<1>1. /\ order' \in Seq(ID) /\ Range(order') = Range(order) \cap (ID \ {b})
      /\ IsInjective(order')
  <2>1. order \in Seq(ID) /\ IsInjective(order) /\ order' = Only(order, ID \ {b})
    BY DEF Typed, Gone
  <2> QED
    BY <2>1, OnlyIs
<1>2. /\ row' = [row EXCEPT ![b] = "absent"] /\ parent' = [parent EXCEPT ![b] = None]
      /\ kv' = [kv EXCEPT ![b] = <<>>]
  BY DEF Gone
<1>3. /\ row' \in [ID -> {"absent", "forking", "live", "killing"}]
      /\ parent' \in [ID -> ID \cup {None}]
  BY <1>2 DEF Typed
<1>4. kv' \in [ID -> Tokens]
  <2>1. <<>> \in Tokens
    BY PrefixIs
  <2> QED
    BY <1>2, <2>1 DEF Typed
<1>5. Range(order') = {d \in ID : row'[d] # "absent"}
  BY <1>1, <1>2 DEF Typed
<1> QED
  BY <1>1, <1>3, <1>4, <1>5 DEF RowsInOrder

\* Rows that change state and stay rows leave the order alone.
LEMMA RowChanges ==
    ASSUME Typed, NEW b \in ID, row[b] # "absent", NEW s \in {"forking", "live", "killing"},
           row' = [row EXCEPT ![b] = s], UNCHANGED <<order, parent>>
    PROVE  RowsInOrder'
<1>1. row' \in [ID -> {"absent", "forking", "live", "killing"}]
  BY DEF Typed
<1>2. {d \in ID : row'[d] # "absent"} = {d \in ID : row[d] # "absent"}
  BY DEF Typed
<1> QED
  BY <1>1, <1>2 DEF Typed, RowsInOrder

\* The ids of n new branches are the next n numbers of the caller's tree.
LEMMA FreshIdsAre ==
    ASSUME ~Reuse, Typed, NEW c \in Caller, NEW n \in Nat, NEW ids \in FreshIds(c, n)
    PROVE  /\ ids \in Seq(ID) /\ Len(ids) = n /\ IsInjective(ids)
           /\ seq[c] \in Nat /\ seq[c] + n <= MaxBranches
           /\ \A k \in 1 .. n : ids[k] = <<c, seq[c] + k>>
           /\ Range(ids) = {ids[k] : k \in 1 .. n}
           /\ \A b \in Range(ids) : b[1] = c /\ b[2] > seq[c] /\ b[2] <= seq[c] + n
<1>1. ids = [k \in 1 .. n |-> <<c, seq[c] + k>>] /\ seq[c] + n <= MaxBranches
  BY DEF FreshIds
<1>2. seq[c] \in Nat /\ MaxBranches \in Nat
  BY CallIs, IdIs
<1>3. \A k \in 1 .. n : ids[k] = <<c, seq[c] + k>> /\ seq[c] + k \in 1 .. MaxBranches
  BY <1>1, <1>2
<1>4. \A k \in 1 .. n : ids[k] \in ID
  BY <1>3 DEF ID
<1>5. ids \in Seq(ID) /\ Len(ids) = n
  <2>1. ids \in [1 .. n -> ID]
    BY <1>1, <1>4
  <2> QED
    BY <2>1, LenProperties
<1>6. IsInjective(ids)
  <2>1. DOMAIN ids = 1 .. n
    BY <1>1
  <2>2. \A j, k \in 1 .. n : ids[j] = ids[k] => j = k
    BY <1>2, <1>3
  <2> QED
    BY <2>1, <2>2 DEF IsInjective
<1>7. Range(ids) = {ids[k] : k \in 1 .. n}
  BY <1>1 DEF Range
<1>8. \A b \in Range(ids) : b[1] = c /\ b[2] > seq[c] /\ b[2] <= seq[c] + n
  BY <1>2, <1>3, <1>7
<1> QED
  BY <1>1, <1>2, <1>3, <1>5, <1>6, <1>7, <1>8

\* Two sequences of different elements, without a common one, in a row.
LEMMA Joined ==
    ASSUME NEW X, NEW s \in Seq(X), NEW t \in Seq(X), IsInjective(s), IsInjective(t),
           Range(s) \cap Range(t) = {}
    PROVE  s \o t \in Seq(X) /\ IsInjective(s \o t) /\ Range(s \o t) = Range(s) \cup Range(t)
<1> DEFINE m == Len(s)  n == Len(t)  u == s \o t
<1>1. m \in Nat /\ n \in Nat /\ DOMAIN s = 1 .. m /\ DOMAIN t = 1 .. n
  BY LenProperties
<1>2. /\ u \in Seq(X) /\ Len(u) = m + n
      /\ \A i \in 1 .. m + n : u[i] = IF i <= m THEN s[i] ELSE t[i - m]
  OBVIOUS
<1>3. DOMAIN u = 1 .. m + n
  BY <1>1, <1>2, LenProperties
<1> HIDE DEF m, n, u
<1>4. \A i \in 1 .. m : i \in 1 .. m + n /\ u[i] = s[i]
  BY <1>1, <1>2
<1>5. \A i \in 1 .. n : m + i \in 1 .. m + n /\ u[m + i] = t[i]
  <2> SUFFICES ASSUME NEW i \in 1 .. n
               PROVE  m + i \in 1 .. m + n /\ u[m + i] = t[i]
    OBVIOUS
  <2>1. m + i \in 1 .. m + n /\ ~(m + i <= m) /\ (m + i) - m = i
    BY <1>1
  <2> QED
    BY <1>2, <2>1
<1>6. \A i \in 1 .. m + n : \/ i \in 1 .. m
                            \/ i - m \in 1 .. n /\ m + (i - m) = i
  BY <1>1
<1>7. Range(u) = Range(s) \cup Range(t)
  <2>1. Range(u) = {u[i] : i \in 1 .. m + n}
    BY <1>3 DEF Range
  <2>2. Range(s) = {s[i] : i \in 1 .. m} /\ Range(t) = {t[i] : i \in 1 .. n}
    BY <1>1 DEF Range
  <2>3. ASSUME NEW i \in 1 .. m + n
        PROVE  u[i] \in Range(s) \cup Range(t)
    <3>1. CASE i \in 1 .. m
      BY <1>4, <2>2, <3>1
    <3>2. CASE i - m \in 1 .. n /\ m + (i - m) = i
      <4>1. u[i] = t[i - m]
        BY <1>5, <3>2
      <4> QED
        BY <2>2, <3>2, <4>1
    <3> QED
      BY <1>6, <3>1, <3>2
  <2>4. Range(s) \cup Range(t) \subseteq Range(u)
    BY <1>4, <1>5, <2>1, <2>2
  <2> QED
    BY <2>1, <2>3, <2>4
<1>8. IsInjective(u)
  <2> SUFFICES ASSUME NEW i \in 1 .. m + n, NEW j \in 1 .. m + n, u[i] = u[j]
               PROVE  i = j
    BY <1>3 DEF IsInjective
  <2>1. CASE i \in 1 .. m /\ j \in 1 .. m
    BY <1>1, <1>4, <2>1 DEF IsInjective
  <2>2. CASE i \notin 1 .. m /\ j \notin 1 .. m
    <3>1. i - m \in 1 .. n /\ j - m \in 1 .. n /\ u[i] = t[i - m] /\ u[j] = t[j - m]
      BY <1>5, <1>6, <2>2
    <3>2. i - m = j - m
      BY <1>1, <3>1 DEF IsInjective
    <3> QED
      BY <1>1, <3>2
  <2>3. ASSUME NEW k \in 1 .. m, NEW l \in 1 .. m + n, l \notin 1 .. m
        PROVE  u[k] # u[l]
    <3>1. l - m \in 1 .. n /\ u[l] = t[l - m]
      BY <1>5, <1>6, <2>3
    <3>2. u[k] \in Range(s) /\ u[l] \in Range(t)
      BY <1>1, <1>4, <3>1 DEF Range
    <3> QED
      BY <3>2
  <2> QED
    BY <2>1, <2>2, <2>3
<1> QED
  BY <1>2, <1>7, <1>8 DEF u

\* Journaling new branches.
LEMMA JournalIs ==
    ASSUME ~Reuse, Typed, NEW c \in Caller, Fresh(c), NEW n \in Nat, NEW ids \in FreshIds(c, n),
           NEW p \in ID \cup {None}, Journal(c, ids, p)
    PROVE  /\ RowsInOrder'
           /\ seq' = [seq EXCEPT ![c] = @ + n] /\ seq' \in [Caller -> 0 .. MaxBranches]
           /\ seq'[c] = seq[c] + n /\ \A d \in Caller \ {c} : seq'[d] = seq[d]
           /\ \A b \in Range(ids) : b \in ID /\ row[b] = "absent" /\ ledger[b] = Unknown
           /\ \A b \in ID : row'[b] = IF b \in Range(ids) THEN "forking" ELSE row[b]
           /\ \A b \in ID : parent'[b] = IF b \in Range(ids) THEN p ELSE parent[b]
<1>1. /\ ids \in Seq(ID) /\ Len(ids) = n /\ IsInjective(ids) /\ seq[c] \in Nat
      /\ seq[c] + n <= MaxBranches /\ \A b \in Range(ids) : b[1] = c /\ b[2] > seq[c]
  BY FreshIdsAre
<1>2. Range(ids) \subseteq ID
  BY <1>1, ElementOfSeq, LenProperties DEF Range
<1>3. \A b \in Range(ids) : b \in ID /\ row[b] = "absent" /\ ledger[b] = Unknown
  BY <1>1, <1>2 DEF Fresh
<1>4. /\ order' = order \o ids /\ seq' = [seq EXCEPT ![c] = @ + n]
      /\ row' = [b \in ID |-> IF b \in Range(ids) THEN "forking" ELSE row[b]]
      /\ parent' = [b \in ID |-> IF b \in Range(ids) THEN p ELSE parent[b]]
  BY <1>1 DEF Journal
<1>5. /\ row' \in [ID -> {"absent", "forking", "live", "killing"}]
      /\ parent' \in [ID -> ID \cup {None}]
  BY <1>4 DEF Typed
<1>6. Range(order) \cap Range(ids) = {}
  BY <1>3 DEF Typed
<1>7. /\ order' \in Seq(ID) /\ IsInjective(order')
      /\ Range(order') = Range(order) \cup Range(ids)
  BY <1>1, <1>4, <1>6, Joined DEF Typed
<1>8. Range(order') = {b \in ID : row'[b] # "absent"}
  BY <1>2, <1>4, <1>7 DEF Typed
<1>9. /\ seq' \in [Caller -> 0 .. MaxBranches] /\ seq'[c] = seq[c] + n
      /\ \A d \in Caller \ {c} : seq'[d] = seq[d]
  <2>1. seq[c] + n \in 0 .. MaxBranches
    BY <1>1
  <2> QED
    BY <1>4, <2>1 DEF Typed
<1> QED
  BY <1>3, <1>4, <1>5, <1>7, <1>8, <1>9 DEF RowsInOrder

-----------------------------------------------------------------------------
\* What a step leaves alone

\* Branches of the caller's tree may go, or be left half killed; the others stay
\* as they were, and the ledger drops only what is gone.
Decays(c) == \A b \in ID : b[1] = c =>
    /\ row'[b] \in {row[b], "killing", "absent"} /\ (row[b] = "absent" => row'[b] = "absent")
    /\ parent'[b] \in {parent[b], None} /\ (row'[b] # "absent" => parent'[b] = parent[b])
    /\ row'[b] = "live" => kv'[b] = kv[b]
    /\ ledger'[b] = ledger[b] \/ (row[b] = "absent" /\ ledger'[b] = Unknown)

\* The caller goes on with the same branch, and hands out no ids.
Stays(c) == on'[c] = on[c] /\ line'[c] = line[c] /\ seq'[c] = seq[c]

\* Two calls are at the same point of the same round.
Alike(q, r) == /\ q.at = r.at /\ q.base = r.base /\ q.targets = r.targets /\ q.kids = r.kids
               /\ q.results = r.results

\* Who is gone for good stays so.
GoneStay == \A b \in ID : row[b] = "absent" /\ b[2] <= seq[b[1]] =>
                row'[b] = "absent" /\ b[2] <= seq'[b[1]]

\* What is said of one caller's tree survives its decay.
LEMMA FreshDecays ==
    ASSUME NEW c \in Caller, Fresh(c), Decays(c), Stays(c)
    PROVE  Fresh(c)'
  BY DEF Fresh, Decays, Stays

\* Neither the branch a caller forks nor its line and children are touched.
LEMMA OwnedDecays ==
    ASSUME Typed, NEW c \in Caller, Owned(c), Decays(c), Stays(c), Alike(call'[c], call[c])
    PROVE  Owned(c)'
<1>1. line[c] \subseteq ID
  BY CallIs
<1>2. \A b \in line[c] : row'[b] # "forking"
  <2> SUFFICES ASSUME NEW b \in line[c]
               PROVE  row'[b] # "forking"
    OBVIOUS
  <2>1. b \in ID /\ b[1] = c /\ row[b] # "forking"
    BY <1>1 DEF Owned
  <2> QED
    BY <2>1 DEF Decays
<1>3. (Busy(c)' <=> Busy(c)) /\ (Rooting(c)' <=> Rooting(c))
  BY DEF Busy, Rooting, Stays, Alike
<1> QED
  BY <1>2, <1>3 DEF Owned, Stays, Alike

\* A branch that stays keeps its parent.
LEMMA ChainedDecays ==
    ASSUME Typed, NEW c \in Caller, Owned(c), Chained(c), Decays(c), Stays(c),
           Alike(call'[c], call[c])
    PROVE  Chained(c)'
<1>1. line[c] \subseteq ID /\ Range(call[c].kids) \subseteq ID
  BY CallIs
<1>2. ASSUME NEW b \in line[c] \cup Range(call[c].kids)
      PROVE  /\ parent'[b] \in {parent[b], None} /\ (row'[b] # "absent" => parent'[b] = parent[b])
             /\ row'[b] # "absent" => row[b] # "absent"
  <2>1. b \in ID /\ b[1] = c
    BY <1>1 DEF Owned
  <2> QED
    BY <2>1 DEF Decays
<1>3. \A b \in line[c] : parent'[b] \in line[c] \cup {None}
  BY <1>2 DEF Chained
<1>4. \A b, d \in line[c] : d[2] < b[2] /\ row'[b] # "absent" =>
        parent'[b] \in line[c] /\ d[2] <= parent'[b][2] /\ parent'[b][2] < b[2]
  BY <1>2 DEF Chained
<1>5. (Busy(c)' <=> Busy(c)) /\ (Rooting(c)' <=> Rooting(c)) /\ call'[c].kids = call[c].kids
      /\ on'[c] = on[c] /\ line'[c] = line[c]
  BY DEF Busy, Rooting, Stays, Alike
<1>6. Busy(c) => \A b \in Range(call[c].kids) :
        LET p == IF Rooting(c) THEN None ELSE on[c]
        IN  parent'[b] \in {p, None} /\ (row'[b] # "absent" => parent'[b] = p)
  BY <1>2 DEF Chained
<1> QED
  BY <1>3, <1>4, <1>5, <1>6 DEF Chained

\* The ledger keeps what it has of the branches that stay.
LEMMA KnownDecays ==
    ASSUME Typed, NEW c \in Caller, Owned(c), Known(c), Decays(c), Stays(c),
           Alike(call'[c], call[c])
    PROVE  Known(c)'
<1>1. line[c] \subseteq ID /\ Range(call[c].kids) \subseteq ID
  BY CallIs
<1>2. ChildOf(call'[c]) = ChildOf(call[c])
  BY DEF ChildOf, Alike
<1>3. ASSUME NEW b \in ID, b[1] = c, row'[b] = "live"
      PROVE  row[b] = "live" /\ kv'[b] = kv[b] /\ ledger'[b] = ledger[b]
  BY <1>3 DEF Decays
<1>4. \A b \in ID : b[1] = c /\ row'[b] = "live" /\ ledger'[b] # Unknown =>
        ledger'[b] = kv'[b] \/ (call'[c].at = "record" /\ ChildOf(call'[c]) = b)
  BY <1>2, <1>3 DEF Known, Alike
<1>5. on[c] # None /\ row'[on[c]] = "live" => ledger'[on[c]] # Unknown
  BY <1>1, <1>3 DEF Known, Owned
<1>6. \A b \in Range(call[c].kids) :
        IF call[c].at = "spawn" THEN ledger'[b] = Unknown
        ELSE row'[b] = "live" => ledger'[b] # Unknown
  <2> SUFFICES ASSUME NEW b \in Range(call[c].kids)
               PROVE  IF call[c].at = "spawn" THEN ledger'[b] = Unknown
                      ELSE row'[b] = "live" => ledger'[b] # Unknown
    OBVIOUS
  <2>1. b \in ID /\ b[1] = c
    BY <1>1 DEF Owned
  <2>2. CASE call[c].at = "spawn"
    BY <2>1, <2>2 DEF Known, Decays
  <2>3. CASE call[c].at # "spawn"
    BY <2>1, <2>3, <1>3 DEF Known
  <2> QED
    BY <2>2, <2>3
<1> QED
  BY <1>4, <1>5, <1>6 DEF Known, Stays, Alike

\* What the branches that stay hold is what they held.
LEMMA HeldDecays ==
    ASSUME Typed, NEW c \in Caller, Shape(call[c]), Owned(c), Held(c), Decays(c), Stays(c),
           Alike(call'[c], call[c])
    PROVE  Held(c)'
<1>1. line[c] \subseteq ID /\ \A k \in 1 .. Len(call[c].kids) : call[c].kids[k] \in ID
  BY CallIs
<1>2. /\ ChildOf(call'[c]) = ChildOf(call[c]) /\ TargetOf(call'[c]) = TargetOf(call[c])
      /\ (Busy(c)' <=> Busy(c)) /\ (Rooting(c)' <=> Rooting(c))
  BY DEF ChildOf, TargetOf, Alike, Busy, Rooting, Stays
<1>3. ASSUME NEW b \in ID, b[1] = c
      PROVE  /\ row'[b] = "live" => row[b] = "live" /\ kv'[b] = kv[b]
             /\ ledger'[b] \in {ledger[b], Unknown}
  BY <1>3 DEF Decays
<1>4. \A k \in 1 .. Len(call[c].kids) : call[c].kids[k][1] = c
  BY CallIs DEF Owned
<1>5. Busy(c) => \A k \in 1 .. Len(call[c].kids) : LET b == call[c].kids[k] IN
        /\ IsPrefix(call[c].base, call[c].targets[k])
        /\ ~Rooting(c) => Len(call[c].base) < Len(call[c].targets[k])
        /\ call[c].at = "spawn" /\ row'[b] = "live" => kv'[b] = call[c].base
        /\ call[c].at # "spawn" /\ call[c].results[k] = Pending =>
            ledger'[b] \in {call[c].base, Unknown}
        /\ call[c].at # "spawn" /\ call[c].results[k] \notin {Pending, Failed}
           /\ row'[b] = "live" => kv'[b] = call[c].targets[k]
  <2> SUFFICES ASSUME Busy(c), NEW k \in 1 .. Len(call[c].kids)
               PROVE  LET b == call[c].kids[k] IN
                      /\ IsPrefix(call[c].base, call[c].targets[k])
                      /\ ~Rooting(c) => Len(call[c].base) < Len(call[c].targets[k])
                      /\ call[c].at = "spawn" /\ row'[b] = "live" => kv'[b] = call[c].base
                      /\ call[c].at # "spawn" /\ call[c].results[k] = Pending =>
                          ledger'[b] \in {call[c].base, Unknown}
                      /\ call[c].at # "spawn" /\ call[c].results[k] \notin {Pending, Failed}
                         /\ row'[b] = "live" => kv'[b] = call[c].targets[k]
    OBVIOUS
  <2> DEFINE b == call[c].kids[k]
  <2>1. /\ row'[b] = "live" => row[b] = "live" /\ kv'[b] = kv[b]
        /\ ledger'[b] \in {ledger[b], Unknown}
    BY <1>1, <1>3, <1>4
  <2>2. /\ IsPrefix(call[c].base, call[c].targets[k])
        /\ ~Rooting(c) => Len(call[c].base) < Len(call[c].targets[k])
        /\ call[c].at = "spawn" /\ row[b] = "live" => kv[b] = call[c].base
        /\ call[c].at # "spawn" /\ call[c].results[k] = Pending =>
            ledger[b] \in {call[c].base, Unknown}
        /\ call[c].at # "spawn" /\ call[c].results[k] \notin {Pending, Failed} /\ row[b] = "live" =>
            kv[b] = call[c].targets[k]
    BY DEF Held
  <2> QED
    BY <2>1, <2>2
<1>6. call[c].at = "record" /\ row'[ChildOf(call[c])] = "live" =>
        kv'[ChildOf(call[c])] = TargetOf(call[c])
  <2> SUFFICES ASSUME call[c].at = "record"
               PROVE  row'[ChildOf(call[c])] = "live" =>
                        kv'[ChildOf(call[c])] = TargetOf(call[c])
    OBVIOUS
  <2>1. ChildOf(call[c]) \in ID /\ ChildOf(call[c])[1] = c
    BY TurnOf DEF Owned
  <2> QED
    BY <2>1, <1>3 DEF Held
<1>7. \A b \in line[c] : row'[b] = "live" => row[b] = "live" /\ kv'[b] = kv[b]
  BY <1>1, <1>3 DEF Owned
<1>8. Busy(c) /\ ~Rooting(c) => \A b \in line[c] : row'[b] = "live" =>
        IsPrefix(kv'[b], call[c].base) /\ (b = on[c] => kv'[b] = call[c].base)
  BY <1>7 DEF Held
<1>9. \A b \in line[c] \ {on[c]} : on[c] \in line[c]
  BY DEF Owned
<1>10. \A b \in line[c] \ {on[c]} :
        row'[b] = "live" /\ row'[on[c]] = "live" => IsStrictPrefix(kv'[b], kv'[on[c]])
  BY <1>7, <1>9 DEF Held
<1>11. call[c].at = "sweep" /\ row'[on[c]] = "live" => kv'[on[c]] \in Range(call[c].targets)
  BY <1>7 DEF Held, Owned
<1>12. /\ call'[c].at = call[c].at /\ call'[c].base = call[c].base
       /\ call'[c].targets = call[c].targets /\ call'[c].kids = call[c].kids
       /\ call'[c].results = call[c].results /\ on'[c] = on[c] /\ line'[c] = line[c]
  BY DEF Alike, Stays
<1> QED
  BY <1>2, <1>5, <1>6, <1>8, <1>10, <1>11, <1>12 DEF Held

\* A sweep misses nothing that stays, and its receipts remain true.
LEMMA SweptDecays ==
    ASSUME Typed, NEW c \in Caller, Owned(c), Swept(c), Decays(c), Stays(c), GoneStay,
           call'[c] = call[c]
    PROVE  Swept(c)'
<1>1. line[c] \subseteq ID /\ call[c].reaped \subseteq ID
  BY CallIs
<1>2. \A b \in line[c] : row'[b] = "live" => row[b] = "live"
  BY <1>1 DEF Owned, Decays
<1>3. \A b \in ID : b[1] = c /\ row'[b] # "absent" => row[b] # "absent"
  BY DEF Decays
<1>4. \A b \in call[c].reaped : row'[b] = "absent" /\ b[2] <= seq'[b[1]]
  BY <1>1 DEF Swept, GoneStay
<1> QED
  BY <1>2, <1>3, <1>4 DEF Swept, Stays

\* A caller whose tree decays while it does nothing.
LEMMA Bystander ==
    ASSUME Typed, NEW c \in Caller, TreeInv(c), Decays(c), Stays(c), GoneStay,
           call'[c] = call[c]
    PROVE  TreeInv(c)'
<1>1. Alike(call'[c], call[c])
  BY DEF Alike
<1> QED
  BY <1>1, FreshDecays, OwnedDecays, ChainedDecays, KnownDecays, HeldDecays, SweptDecays
     DEF TreeInv

-----------------------------------------------------------------------------
\* Calls that end, and branches that go

\* A call at a stage without locals.
LEMMA AtIs ==
    ASSUME NEW s \in Stage
    PROVE  /\ At(s) \in CallRecord /\ At(s).at = s /\ At(s).kids = <<>> /\ At(s).first = <<>>
           /\ At(s).again = <<>> /\ At(s).reaped = {} /\ At(s).targets = <<>>
           /\ At(s).base = <<>> /\ At(s).results = <<>> /\ At(s).broken = FALSE
           /\ Range(<<>>) = {} /\ Len(<<>>) = 0 /\ IsInjective(<<>>)
<1>1. <<>> \in Prefix
  BY PrefixIs
<1>2. /\ <<>> \in Seq(Prefix) /\ <<>> \in Seq(ID) /\ <<>> \in Seq(Results \cup {Pending})
      /\ Len(<<>>) = 0
  BY EmptySeq
<1>3. At(s) \in CallRecord
  BY <1>1, <1>2 DEF At, CallRecord
<1>4. DOMAIN <<>> = {}
  OBVIOUS
<1>5. Range(<<>>) = {} /\ IsInjective(<<>>)
  BY <1>4 DEF Range, IsInjective
<1> QED
  BY <1>2, <1>3, <1>5 DEF At

\* A call that returned or raised says nothing but that its caller may go on.
LEMMA Ended ==
    ASSUME Typed, NEW c \in Caller, TreeInv(c), Decays(c), Stays(c),
           NEW s \in {"round", "raised", "done"}, call'[c] = At(s), s # "raised" => on[c] # None,
           call[c].at # "record"
    PROVE  TreeInv(c)'
<1>1. /\ call'[c].at = s /\ call'[c].kids = <<>> /\ call'[c].first = <<>>
      /\ call'[c].again = <<>> /\ call'[c].reaped = {} /\ call'[c].targets = <<>>
      /\ Range(<<>>) = {} /\ Len(<<>>) = 0 /\ IsInjective(<<>>)
  BY AtIs DEF Stage
<1>2. Fresh(c)'
  BY FreshDecays DEF TreeInv
<1>3. Shape(call'[c])
  BY <1>1 DEF Shape
<1>4. line[c] \subseteq ID /\ ~Busy(c)' /\ call'[c].at \notin {"idle", "spawn", "record", "sweep"}
  BY <1>1, CallIs DEF Busy
<1>5. ASSUME NEW b \in ID, b[1] = c
      PROVE  /\ row'[b] = "live" => /\ row[b] = "live" /\ kv'[b] = kv[b]
                                    /\ ledger'[b] = ledger[b]
             /\ row'[b] = "forking" => row[b] = "forking"
             /\ parent'[b] \in {parent[b], None} /\ (row'[b] # "absent" => parent'[b] = parent[b])
             /\ row'[b] # "absent" => row[b] # "absent"
  BY <1>5 DEF Decays
<1>6. \A b \in line[c] : b \in ID /\ b[1] = c
  BY <1>4 DEF TreeInv, Owned
<1>7. Owned(c)'
  <2>1. \A b \in line[c] : row'[b] # "forking"
    BY <1>5, <1>6 DEF TreeInv, Owned
  <2> QED
    BY <1>1, <1>4, <2>1 DEF TreeInv, Owned, Stays
<1>8. Chained(c)'
  <2>1. Chained(c)
    BY DEF TreeInv
  <2>2. \A b \in line[c] : parent'[b] \in line[c] \cup {None}
    BY <1>5, <1>6, <2>1 DEF Chained
  <2>3. \A b, d \in line[c] : d[2] < b[2] /\ row'[b] # "absent" =>
          parent'[b] \in line[c] /\ d[2] <= parent'[b][2] /\ parent'[b][2] < b[2]
    BY <1>5, <1>6, <2>1 DEF Chained
  <2> QED
    BY <1>4, <2>2, <2>3 DEF Chained, Stays
<1>9. Known(c)'
  <2>1. Known(c) /\ (on[c] # None => on[c] \in line[c])
    BY DEF TreeInv, Owned
  <2>2. \A b \in ID : b[1] = c /\ row'[b] = "live" /\ ledger'[b] # Unknown => ledger'[b] = kv'[b]
    BY <1>5, <2>1 DEF Known
  <2>3. on[c] # None /\ row'[on[c]] = "live" => ledger'[on[c]] # Unknown
    BY <1>5, <1>6, <2>1 DEF Known
  <2> QED
    BY <1>1, <2>2, <2>3 DEF Known, Stays
<1>10. Held(c)'
  <2>1. Held(c) /\ \A b \in line[c] \ {on[c]} : on[c] \in line[c]
    BY DEF TreeInv, Owned
  <2>2. \A b \in line[c] \ {on[c]} :
          row'[b] = "live" /\ row'[on[c]] = "live" => IsStrictPrefix(kv'[b], kv'[on[c]])
    BY <1>5, <1>6, <2>1 DEF Held
  <2> QED
    BY <1>4, <2>2 DEF Held, Stays
<1>11. Swept(c)'
  BY <1>1, <1>4 DEF Swept
<1> QED
  BY <1>2, <1>3, <1>7, <1>8, <1>9, <1>10, <1>11 DEF TreeInv

\* A step of one caller, and the others' trees.
LEMMA OneCaller ==
    ASSUME AgentInv, NEW c \in Caller, Typed', TreeInv(c)', GoneStay,
           \A d \in Caller \ {c} : Decays(d) /\ Stays(d) /\ call'[d] = call[d]
    PROVE  AgentInv'
<1>1. ASSUME NEW d \in Caller, d # c
      PROVE  TreeInv(d)'
  <2>1. Decays(d) /\ Stays(d) /\ call'[d] = call[d] /\ Typed /\ TreeInv(d)
    BY <1>1 DEF AgentInv
  <2> QED
    BY <2>1, Bystander
<1> QED
  BY <1>1 DEF AgentInv

\* A row that goes, or that a failed kill leaves behind, is a decay of its tree.
LEMMA GoneDecays ==
    ASSUME Typed, NEW b \in ID, row[b] # "absent", Gone(b) \/ KillFails(b),
           UNCHANGED <<seq, ledger>>
    PROVE  (\A d \in Caller : Decays(d)) /\ GoneStay
<1>1. ASSUME NEW e \in ID
      PROVE  /\ row'[e] \in {row[e], "killing", "absent"}
             /\ row[e] = "absent" => row'[e] = "absent"
             /\ parent'[e] \in {parent[e], None}
             /\ row'[e] # "absent" => parent'[e] = parent[e]
             /\ row'[e] = "live" => kv'[e] = kv[e]
  <2>1. CASE Gone(b)
    BY <2>1 DEF Gone, Typed
  <2>2. CASE KillFails(b)
    BY <2>2 DEF KillFails, Typed
  <2> QED
    BY <2>1, <2>2
<1>2. \A d \in Caller : Decays(d)
  BY <1>1 DEF Decays
<1>3. GoneStay
  BY <1>1 DEF GoneStay
<1> QED
  BY <1>2, <1>3

\* Nothing is a decay too.
LEMMA NothingDecays ==
    ASSUME UNCHANGED <<row, parent, kv, seq, ledger>>
    PROVE  (\A d \in Caller : Decays(d)) /\ GoneStay
  BY DEF Decays, GoneStay

\* Types after a step on the rows.
LEMMA TypedAfter ==
    ASSUME Typed, RowsInOrder', kv' \in [ID -> Tokens], seq' \in [Caller -> 0 .. MaxBranches],
           ledger' \in [ID -> Prefix \cup {Unknown}], faults' \in 0 .. MaxFaults,
           on' \in [Caller -> ID \cup {None}], line' \in [Caller -> SUBSET ID],
           rounds' \in [Caller -> Nat], \A c \in Caller : rounds'[c] <= MaxRounds[c],
           NEW c \in Caller, NEW r \in CallRecord, call' = [call EXCEPT ![c] = r]
    PROVE  Typed'
<1>1. call' \in [Caller -> CallRecord]
  BY DEF Typed
<1> QED
  BY <1>1 DEF Typed, RowsInOrder

\* The types of what a step leaves alone.
LEMMA TypedSame ==
    ASSUME Typed
    PROVE  /\ UNCHANGED <<order, row, parent>> => RowsInOrder'
           /\ UNCHANGED kv => kv' \in [ID -> Tokens]
           /\ UNCHANGED seq => seq' \in [Caller -> 0 .. MaxBranches]
           /\ UNCHANGED ledger => ledger' \in [ID -> Prefix \cup {Unknown}]
           /\ UNCHANGED faults \/ Fault => faults' \in 0 .. MaxFaults
           /\ UNCHANGED on => on' \in [Caller -> ID \cup {None}]
           /\ UNCHANGED line => line' \in [Caller -> SUBSET ID]
           /\ UNCHANGED rounds => rounds' \in [Caller -> Nat]
           /\ UNCHANGED rounds => \A c \in Caller : rounds'[c] <= MaxRounds[c]
<1>1. UNCHANGED faults \/ Fault => faults' \in 0 .. MaxFaults
  BY AgentAssumption DEF Typed, Fault
<1> QED
  BY <1>1 DEF Typed, RowsInOrder

\* A step that ends a call, beside rows that go.
LEMMA EndOfCall ==
    ASSUME AgentInv, NEW c \in Caller, NEW s \in {"round", "raised", "done"},
           call' = [call EXCEPT ![c] = At(s)], s # "raised" => on[c] # None,
           call[c].at # "record", \A d \in Caller : Decays(d), GoneStay,
           RowsInOrder', kv' \in [ID -> Tokens], ledger' \in [ID -> Prefix \cup {Unknown}],
           UNCHANGED faults \/ Fault, rounds' \in [Caller -> Nat],
           \A d \in Caller : rounds'[d] <= MaxRounds[d], UNCHANGED <<seq, on, line>>
    PROVE  AgentInv'
<1>1. Typed /\ TreeInv(c)
  BY DEF AgentInv
<1>2. At(s) \in CallRecord
  BY AtIs DEF Stage
<1>3. Typed'
  BY <1>1, <1>2, TypedAfter, TypedSame
<1>4. call'[c] = At(s) /\ \A d \in Caller \ {c} : call'[d] = call[d]
  BY <1>1 DEF Typed
<1>5. \A d \in Caller : Stays(d)
  BY DEF Stays
<1>6. TreeInv(c)'
  BY <1>1, <1>4, <1>5, Ended
<1> QED
  BY <1>3, <1>4, <1>5, <1>6, OneCaller

-----------------------------------------------------------------------------
\* The steps of a sweep, and forks that fail

\* A call that goes on at the same point of its round, beside rows that go.
LEMMA Onward ==
    ASSUME AgentInv, NEW c \in Caller, NEW r \in CallRecord, call' = [call EXCEPT ![c] = r],
           Alike(r, call[c]), Shape(r), Swept(c)', \A d \in Caller : Decays(d), GoneStay,
           RowsInOrder', kv' \in [ID -> Tokens], UNCHANGED faults \/ Fault,
           UNCHANGED <<seq, ledger, on, rounds, line>>
    PROVE  AgentInv'
<1>1. Typed /\ TreeInv(c)
  BY DEF AgentInv
<1>2. Typed'
  BY <1>1, TypedAfter, TypedSame
<1>3. call'[c] = r /\ \A d \in Caller \ {c} : call'[d] = call[d]
  BY <1>1 DEF Typed
<1>4. \A d \in Caller : Stays(d)
  BY DEF Stays
<1>5. TreeInv(c)'
  <2>1. /\ Fresh(c) /\ Shape(call[c]) /\ Owned(c) /\ Chained(c) /\ Known(c) /\ Held(c)
        /\ Alike(call'[c], call[c]) /\ Decays(c) /\ Stays(c)
    BY <1>1, <1>3, <1>4 DEF TreeInv
  <2>2. Shape(call'[c])
    BY <1>3
  <2> QED
    BY <1>1, <2>1, <2>2, FreshDecays, OwnedDecays, ChainedDecays, KnownDecays, HeldDecays
       DEF TreeInv
<1> QED
  BY <1>2, <1>3, <1>4, <1>5, OneCaller

\* What the lists of a sweep may become when it has dealt with a branch.
LEMMA Sweeps ==
    ASSUME AgentInv, NEW c \in Caller, call[c].at = "sweep", NEW r, call'[c] = r, r.at = "sweep",
           Decays(c), Stays(c),
           Range(r.first) \cup Range(r.again)
               \subseteq Range(call[c].first) \cup Range(call[c].again),
           r.broken \/ (/\ ~call[c].broken
                        /\ \A b \in Range(call[c].first) \cup Range(call[c].again) :
                              row'[b] # "absent" => b \in Range(r.first) \cup Range(r.again)),
           \A b \in r.reaped : row'[b] = "absent" /\ b[2] <= seq'[b[1]]
    PROVE  Swept(c)'
<1>1. Swept(c) /\ Owned(c) /\ line[c] \subseteq ID
  BY CallIs DEF AgentInv, TreeInv
<1>2. \A b \in line[c] : row'[b] = "live" => row[b] = "live"
  BY <1>1 DEF Owned, Decays
<1>3. (\A b \in line[c] : row'[b] = "live") =>
        line[c] \cap (Range(r.first) \cup Range(r.again)) = {}
  BY <1>1, <1>2 DEF Swept
<1>4. ~r.broken => \A b \in ID : b[1] = c /\ row'[b] # "absent" =>
        b \in line[c] \cup Range(r.first) \cup Range(r.again)
  BY <1>1 DEF Swept, Decays
<1> QED
  BY <1>3, <1>4 DEF Swept, Stays

\* A list is its head and its tail, and an element may be appended.
LEMMA HeadTail ==
    ASSUME NEW X, NEW s \in Seq(X), s # <<>>
    PROVE  /\ Head(s) \in X /\ Tail(s) \in Seq(X)
           /\ Range(s) = {Head(s)} \cup Range(Tail(s))
<1>1. /\ Len(s) \in Nat \ {0} /\ Head(s) = s[1] /\ Head(s) \in X /\ Tail(s) \in Seq(X)
      /\ Len(Tail(s)) = Len(s) - 1 /\ \A i \in 1 .. Len(s) - 1 : Tail(s)[i] = s[i + 1]
  BY HeadTailProperties, EmptySeq, LenProperties
<1>2. DOMAIN s = 1 .. Len(s) /\ DOMAIN Tail(s) = 1 .. Len(s) - 1
  BY <1>1, LenProperties
<1>3. Range(s) \subseteq {Head(s)} \cup Range(Tail(s))
  <2> SUFFICES ASSUME NEW i \in 1 .. Len(s), i # 1
               PROVE  s[i] \in Range(Tail(s))
    BY <1>1, <1>2 DEF Range
  <2>1. i - 1 \in 1 .. Len(s) - 1 /\ (i - 1) + 1 = i
    BY <1>1
  <2>2. Tail(s)[i - 1] = s[i]
    BY <1>1, <2>1
  <2> QED
    BY <1>2, <2>1, <2>2 DEF Range
<1>4. {Head(s)} \cup Range(Tail(s)) \subseteq Range(s)
  <2>1. \A i \in 1 .. Len(s) - 1 : i + 1 \in 1 .. Len(s)
    BY <1>1
  <2>2. 1 \in 1 .. Len(s)
    BY <1>1
  <2> QED
    BY <1>1, <1>2, <2>1, <2>2 DEF Range
<1> QED
  BY <1>1, <1>3, <1>4

\* An element at the end is one more.
LEMMA Appended ==
    ASSUME NEW X, NEW s \in Seq(X), NEW e \in X
    PROVE  Append(s, e) \in Seq(X) /\ Range(Append(s, e)) = Range(s) \cup {e}
<1>1. /\ Append(s, e) \in Seq(X) /\ Len(Append(s, e)) = Len(s) + 1 /\ Len(s) \in Nat
      /\ \A i \in 1 .. Len(s) : Append(s, e)[i] = s[i]
      /\ Append(s, e)[Len(s) + 1] = e
  BY AppendProperties, LenProperties
<1>2. DOMAIN s = 1 .. Len(s) /\ DOMAIN Append(s, e) = 1 .. Len(s) + 1
  BY <1>1, LenProperties
<1>3. 1 .. Len(s) + 1 = 1 .. Len(s) \cup {Len(s) + 1}
  BY <1>1
<1> QED
  BY <1>1, <1>2, <1>3 DEF Range

\* A branch that has a row has a number that was handed out.
LEMMA Numbered ==
    ASSUME AgentInv, NEW b \in ID, row[b] # "absent"
    PROVE  b[2] <= seq[b[1]]
<1>1. b[1] \in Caller /\ b[2] \in Nat
  BY IdIs
<1>2. Fresh(b[1]) /\ seq[b[1]] \in Nat
  BY <1>1, CallIs DEF AgentInv, TreeInv
<1> QED
  BY <1>1, <1>2 DEF Fresh

\* The parts of a sweep's locals that a step may change.
LEMMA SweepShape ==
    ASSUME NEW q \in CallRecord, q.at = "sweep", Shape(q), NEW r \in CallRecord, Alike(r, q)
    PROVE  Shape(r)
  BY DEF Shape, Alike

\* One loser is tried.
LEMMA SweepFirstKeeps ==
    ASSUME AgentInv, NEW c \in Caller, SweepFirst(c)
    PROVE  AgentInv'
<1> DEFINE q == call[c]  b == Head(q.first)
<1>1. /\ Typed /\ q \in CallRecord /\ q.first \in Seq(ID) /\ q.again \in Seq(ID)
      /\ q.reaped \subseteq ID /\ Shape(q) /\ Swept(c)
  BY CallIs DEF AgentInv, TreeInv
<1>2. /\ q.at = "sweep" /\ q.first # <<>> /\ UNCHANGED <<seq, ledger, on, rounds, line>>
  BY DEF SweepFirst
<1>3. b \in ID /\ Tail(q.first) \in Seq(ID) /\ Range(q.first) = {b} \cup Range(Tail(q.first))
  BY <1>1, <1>2, HeadTail
<1>4. \A d \in Caller : Stays(d)
  BY <1>2 DEF Stays
<1> HIDE DEF b
<1>5. CASE Reapable(b) /\ Gone(b) /\ UNCHANGED faults
           /\ call' = [call EXCEPT ![c].first = Tail(@), ![c].reaped = @ \cup {b}]
  <2> DEFINE r == [q EXCEPT !.first = Tail(@), !.reaped = @ \cup {b}]
  <2>1. call' = [call EXCEPT ![c] = r]
    BY <1>5
  <2>2. /\ r \in CallRecord /\ Alike(r, q) /\ r.first = Tail(q.first) /\ r.again = q.again
        /\ r.reaped = q.reaped \cup {b} /\ r.broken = q.broken /\ r.at = "sweep"
    BY <1>1, <1>2, <1>3 DEF CallRecord, Alike
  <2> HIDE DEF r
  <2>3. row[b] # "absent" /\ row'[b] = "absent"
    BY <1>1, <1>3, <1>5 DEF Reapable, Gone, Typed
  <2>4. (\A d \in Caller : Decays(d)) /\ GoneStay /\ RowsInOrder' /\ kv' \in [ID -> Tokens]
    BY <1>1, <1>2, <1>3, <1>5, <2>3, GoneDecays, GoneIs
  <2>5. \A d \in r.reaped : row'[d] = "absent" /\ d[2] <= seq'[d[1]]
    BY <1>1, <1>2, <1>3, <2>2, <2>3, <2>4, Numbered DEF Swept, GoneStay
  <2>6. call'[c] = r
    BY <1>1, <2>1 DEF Typed
  <2>7. Swept(c)'
    BY <1>2, <1>3, <1>4, <2>2, <2>3, <2>4, <2>5, <2>6, Sweeps
  <2>8. Shape(r)
    BY <1>1, <1>2, <2>2, SweepShape
  <2> QED
    BY <1>2, <1>5, <2>1, <2>2, <2>4, <2>7, <2>8, Onward
<1>6. CASE ~Reapable(b) /\ UNCHANGED <<order, row, parent, kv, faults>>
           /\ call' = [call EXCEPT ![c].first = Tail(@), ![c].again = Append(@, b)]
  <2> DEFINE r == [q EXCEPT !.first = Tail(@), !.again = Append(@, b)]
  <2>1. call' = [call EXCEPT ![c] = r]
    BY <1>6
  <2>0. Append(q.again, b) \in Seq(ID) /\ Range(Append(q.again, b)) = Range(q.again) \cup {b}
    BY <1>1, <1>3, Appended
  <2>2. /\ r \in CallRecord /\ Alike(r, q) /\ r.first = Tail(q.first)
        /\ r.again = Append(q.again, b) /\ r.reaped = q.reaped /\ r.broken = q.broken
        /\ r.at = "sweep"
    BY <1>1, <1>2, <1>3, <2>0 DEF CallRecord, Alike
  <2> HIDE DEF r
  <2>4. (\A d \in Caller : Decays(d)) /\ GoneStay /\ RowsInOrder' /\ kv' \in [ID -> Tokens]
    BY <1>1, <1>2, <1>6, NothingDecays, TypedSame
  <2>5. \A d \in r.reaped : row'[d] = "absent" /\ d[2] <= seq'[d[1]]
    BY <1>1, <1>2, <1>6, <2>2 DEF Swept
  <2>6. call'[c] = r
    BY <1>1, <2>1 DEF Typed
  <2>9. Range(r.first) \cup Range(r.again) = Range(q.first) \cup Range(q.again)
    BY <1>3, <2>0, <2>2
  <2>10. q.broken \in BOOLEAN
    BY <1>1 DEF CallRecord
  <2>7. Swept(c)'
    BY <1>2, <1>3, <1>4, <2>2, <2>4, <2>5, <2>6, <2>9, <2>10, Sweeps
  <2>8. Shape(r)
    BY <1>1, <1>2, <2>2, SweepShape
  <2> QED
    BY <1>2, <1>6, <2>1, <2>2, <2>4, <2>7, <2>8, Onward
<1>7. CASE KillFails(b) /\ call' = [call EXCEPT ![c].first = Tail(@), ![c].broken = TRUE]
  <2> DEFINE r == [q EXCEPT !.first = Tail(@), !.broken = TRUE]
  <2>1. call' = [call EXCEPT ![c] = r]
    BY <1>7
  <2>2. /\ r \in CallRecord /\ Alike(r, q) /\ r.first = Tail(q.first) /\ r.again = q.again
        /\ r.reaped = q.reaped /\ r.broken = TRUE /\ r.at = "sweep"
    BY <1>1, <1>2, <1>3 DEF CallRecord, Alike
  <2> HIDE DEF r
  <2>3. row[b] # "absent" /\ Fault
    BY <1>7 DEF Reapable, KillFails
  <2>4. (\A d \in Caller : Decays(d)) /\ GoneStay /\ RowsInOrder' /\ kv' \in [ID -> Tokens]
    <3>1. row' = [row EXCEPT ![b] = "killing"] /\ UNCHANGED <<order, parent, kv>>
      BY <1>7 DEF KillFails
    <3>2. RowsInOrder' /\ kv' \in [ID -> Tokens]
      BY <1>1, <1>3, <2>3, <3>1, RowChanges, TypedSame
    <3> QED
      BY <1>1, <1>2, <1>3, <1>7, <2>3, <3>2, GoneDecays
  <2>5. \A d \in r.reaped : row'[d] = "absent" /\ d[2] <= seq'[d[1]]
    BY <1>1, <1>2, <2>2, <2>4 DEF Swept, GoneStay
  <2>6. call'[c] = r
    BY <1>1, <2>1 DEF Typed
  <2>7. Swept(c)'
    BY <1>2, <1>3, <1>4, <2>2, <2>4, <2>5, <2>6, Sweeps
  <2>8. Shape(r)
    BY <1>1, <1>2, <2>2, SweepShape
  <2> QED
    BY <1>2, <2>1, <2>2, <2>3, <2>4, <2>7, <2>8, Onward
<1> QED
  BY <1>5, <1>6, <1>7 DEF SweepFirst, b

\* A loser that a fork was at work on is tried again.
LEMMA SweepAgainKeeps ==
    ASSUME AgentInv, NEW c \in Caller, SweepAgain(c)
    PROVE  AgentInv'
<1> DEFINE q == call[c]  b == Head(q.again)
<1>1. /\ Typed /\ q \in CallRecord /\ q.first \in Seq(ID) /\ q.again \in Seq(ID)
      /\ q.reaped \subseteq ID /\ Shape(q) /\ Swept(c)
  BY CallIs DEF AgentInv, TreeInv
<1>2. /\ q.at = "sweep" /\ q.again # <<>> /\ ~q.broken
      /\ UNCHANGED <<seq, ledger, on, rounds, line>>
  BY DEF SweepAgain, Retrying
<1>3. b \in ID /\ Tail(q.again) \in Seq(ID) /\ Range(q.again) = {b} \cup Range(Tail(q.again))
  BY <1>1, <1>2, HeadTail
<1>4. \A d \in Caller : Stays(d)
  BY <1>2 DEF Stays
<1> HIDE DEF b
<1>5. CASE Reapable(b) /\ Gone(b) /\ UNCHANGED faults
           /\ call' = [call EXCEPT ![c].again = Tail(@), ![c].reaped = @ \cup {b}]
  <2> DEFINE r == [q EXCEPT !.again = Tail(@), !.reaped = @ \cup {b}]
  <2>1. call' = [call EXCEPT ![c] = r]
    BY <1>5
  <2>2. /\ r \in CallRecord /\ Alike(r, q) /\ r.again = Tail(q.again) /\ r.first = q.first
        /\ r.reaped = q.reaped \cup {b} /\ r.broken = q.broken /\ r.at = "sweep"
    BY <1>1, <1>2, <1>3 DEF CallRecord, Alike
  <2> HIDE DEF r
  <2>3. row[b] # "absent" /\ row'[b] = "absent"
    BY <1>1, <1>3, <1>5 DEF Reapable, Gone, Typed
  <2>4. (\A d \in Caller : Decays(d)) /\ GoneStay /\ RowsInOrder' /\ kv' \in [ID -> Tokens]
    BY <1>1, <1>2, <1>3, <1>5, <2>3, GoneDecays, GoneIs
  <2>5. \A d \in r.reaped : row'[d] = "absent" /\ d[2] <= seq'[d[1]]
    BY <1>1, <1>2, <1>3, <2>2, <2>3, <2>4, Numbered DEF Swept, GoneStay
  <2>6. call'[c] = r
    BY <1>1, <2>1 DEF Typed
  <2>7. Swept(c)'
    BY <1>2, <1>3, <1>4, <2>2, <2>3, <2>4, <2>5, <2>6, Sweeps
  <2>8. Shape(r)
    BY <1>1, <1>2, <2>2, SweepShape
  <2> QED
    BY <1>2, <1>5, <2>1, <2>2, <2>4, <2>7, <2>8, Onward
<1>6. CASE row[b] = "absent" /\ UNCHANGED <<order, row, parent, kv, faults>>
           /\ call' = [call EXCEPT ![c].again = Tail(@)]
  <2> DEFINE r == [q EXCEPT !.again = Tail(@)]
  <2>1. call' = [call EXCEPT ![c] = r]
    BY <1>6
  <2>2. /\ r \in CallRecord /\ Alike(r, q) /\ r.again = Tail(q.again) /\ r.first = q.first
        /\ r.reaped = q.reaped /\ r.broken = q.broken /\ r.at = "sweep"
    BY <1>1, <1>2, <1>3 DEF CallRecord, Alike
  <2> HIDE DEF r
  <2>4. (\A d \in Caller : Decays(d)) /\ GoneStay /\ RowsInOrder' /\ kv' \in [ID -> Tokens]
    BY <1>1, <1>2, <1>6, NothingDecays, TypedSame
  <2>5. \A d \in r.reaped : row'[d] = "absent" /\ d[2] <= seq'[d[1]]
    BY <1>1, <1>2, <1>6, <2>2 DEF Swept
  <2>6. call'[c] = r /\ row'[b] = "absent"
    BY <1>1, <1>6, <2>1 DEF Typed
  <2>7. Swept(c)'
    BY <1>2, <1>3, <1>4, <2>2, <2>4, <2>5, <2>6, Sweeps
  <2>8. Shape(r)
    BY <1>1, <1>2, <2>2, SweepShape
  <2> QED
    BY <1>2, <1>6, <2>1, <2>2, <2>4, <2>7, <2>8, Onward
<1>7. CASE KillFails(b) /\ Raise(c)
  <2>1. row[b] # "absent" /\ Fault
    BY <1>7 DEF Reapable, KillFails
  <2>2. row' = [row EXCEPT ![b] = "killing"] /\ UNCHANGED <<order, parent, kv>>
    BY <1>7 DEF KillFails
  <2>3. RowsInOrder' /\ kv' \in [ID -> Tokens]
    BY <1>1, <1>3, <2>1, <2>2, RowChanges, TypedSame
  <2>4. (\A d \in Caller : Decays(d)) /\ GoneStay
    BY <1>1, <1>2, <1>3, <1>7, <2>1, GoneDecays
  <2>5. call' = [call EXCEPT ![c] = At("raised")] /\ call[c].at # "record"
    BY <1>2, <1>7 DEF Raise
  <2>6. /\ ledger' \in [ID -> Prefix \cup {Unknown}] /\ rounds' \in [Caller -> Nat]
        /\ \A d \in Caller : rounds'[d] <= MaxRounds[d]
    BY <1>1, <1>2, TypedSame
  <2> QED
    BY <1>2, <2>1, <2>3, <2>4, <2>5, <2>6, EndOfCall
<1> QED
  BY <1>5, <1>6, <1>7 DEF SweepAgain, b

\* A call that only raises.
LEMMA Raises ==
    ASSUME AgentInv, NEW c \in Caller, call[c].at # "record", Raise(c),
           UNCHANGED <<order, row, parent, kv, seq, ledger, on, line>>,
           UNCHANGED faults \/ Fault, rounds' \in [Caller -> Nat],
           \A d \in Caller : rounds'[d] <= MaxRounds[d]
    PROVE  AgentInv'
<1>1. Typed
  BY DEF AgentInv
<1>2. /\ (\A d \in Caller : Decays(d)) /\ GoneStay /\ RowsInOrder' /\ kv' \in [ID -> Tokens]
      /\ ledger' \in [ID -> Prefix \cup {Unknown}]
  BY <1>1, NothingDecays, TypedSame
<1>3. call' = [call EXCEPT ![c] = At("raised")]
  BY DEF Raise
<1> QED
  BY <1>2, <1>3, EndOfCall

\* A fork or a sweep that raises changes nothing but where its caller stands.
LEMMA JustRaisesKeeps ==
    ASSUME AgentInv, NEW c \in Caller, ForkRaises(c) \/ SweepRaises(c)
    PROVE  AgentInv'
<1>1. /\ call[c].at # "record" /\ Raise(c)
      /\ UNCHANGED <<order, row, parent, kv, seq, ledger, on, line, rounds, faults>>
  BY DEF ForkRaises, SweepRaises, orchVars
<1>2. rounds' \in [Caller -> Nat] /\ \A d \in Caller : rounds'[d] <= MaxRounds[d]
  BY <1>1, TypedSame DEF AgentInv
<1> QED
  BY <1>1, <1>2, Raises

\* The ledger drops what the sweep has receipts for.
LEMMA ForgetKeeps ==
    ASSUME AgentInv, NEW c \in Caller, Forget(c)
    PROVE  AgentInv'
<1>1. Typed /\ Swept(c) /\ Owned(c) /\ call[c].reaped \subseteq ID
  BY CallIs DEF AgentInv, TreeInv
<1>2. /\ call[c].at = "sweep" /\ ledger' = Dropped(call[c].reaped)
      /\ UNCHANGED <<order, row, parent, kv, seq, on, rounds, line, faults>>
  BY DEF Forget, Retrying, orchVars
<1>3. PICK s \in {"round", "done"} : call' = [call EXCEPT ![c] = At(s)]
  BY DEF Forget
<1>4. on[c] # None
  BY <1>1, <1>2 DEF Owned
<1>5. \A b \in ID : ledger'[b] = ledger[b] \/ (row[b] = "absent" /\ ledger'[b] = Unknown)
  BY <1>1, <1>2 DEF Swept, Dropped
<1>6. (\A d \in Caller : Decays(d)) /\ GoneStay
  BY <1>2, <1>5 DEF Decays, GoneStay
<1>7. ledger' \in [ID -> Prefix \cup {Unknown}]
  BY <1>1, <1>2 DEF Dropped, Typed
<1>8. /\ RowsInOrder' /\ kv' \in [ID -> Tokens] /\ rounds' \in [Caller -> Nat]
      /\ \A d \in Caller : rounds'[d] <= MaxRounds[d]
  BY <1>1, <1>2, TypedSame
<1> QED
  BY <1>2, <1>3, <1>4, <1>6, <1>7, <1>8, EndOfCall

\* A root is collected behind the callers' backs.
LEMMA LapseKeeps ==
    ASSUME AgentInv, NEW b \in ID, Lapse(b)
    PROVE  AgentInv'
<1>1. Typed
  BY DEF AgentInv
<1>2. /\ row[b] # "absent" /\ Gone(b) /\ Fault
      /\ UNCHANGED <<seq, ledger, call, on, rounds, line>>
  BY DEF Lapse
<1>3. (\A d \in Caller : Decays(d)) /\ GoneStay /\ RowsInOrder' /\ kv' \in [ID -> Tokens]
  BY <1>1, <1>2, GoneDecays, GoneIs
<1>4. faults' \in 0 .. MaxFaults
  BY <1>1, <1>2, TypedSame
<1>5. Typed'
  BY <1>1, <1>2, <1>3, <1>4 DEF Typed, RowsInOrder
<1>6. ASSUME NEW d \in Caller
      PROVE  TreeInv(d)'
  <2>1. TreeInv(d) /\ Decays(d) /\ Stays(d) /\ call'[d] = call[d]
    BY <1>2, <1>3 DEF AgentInv, Stays
  <2> QED
    BY <1>1, <1>3, <2>1, Bystander
<1> QED
  BY <1>5, <1>6 DEF AgentInv

\* A caller whose branch is there tries another round; one that lost it starts over.
LEMMA RetryKeeps ==
    ASSUME AgentInv, NEW c \in Caller, Retry(c)
    PROVE  AgentInv'
<1>1. Typed /\ TreeInv(c) /\ call[c].at = "raised"
  BY DEF AgentInv, Retry
<1>2. UNCHANGED <<order, row, parent, kv, seq, ledger, rounds, faults>>
  BY DEF Retry, orchVars
<1>3. call[c] = At("raised")
  BY <1>1 DEF TreeInv, Shape
<1>4. ASSUME NEW s, Goto(c, s)
      PROVE  call' = [call EXCEPT ![c] = At(s)]
  <2> DEFINE z == <<>>  y == {}  w == FALSE
             x(a) == [at |-> a, base |-> z, targets |-> z, kids |-> z, results |-> z,
                      first |-> z, again |-> z, reaped |-> y, broken |-> w]
  <2> HIDE DEF z, y, w
  <2>0. [x("raised") EXCEPT !.at = s] = x(s)
    OBVIOUS
  <2>1. [At("raised") EXCEPT !.at = s] = At(s)
    BY <2>0 DEF z, y, w, At
  <2> QED
    BY <1>3, <1>4, <2>1 DEF Goto
<1>5. /\ (\A d \in Caller : Decays(d)) /\ GoneStay /\ RowsInOrder' /\ kv' \in [ID -> Tokens]
      /\ ledger' \in [ID -> Prefix \cup {Unknown}] /\ rounds' \in [Caller -> Nat]
      /\ \A d \in Caller : rounds'[d] <= MaxRounds[d]
  BY <1>1, <1>2, NothingDecays, TypedSame
<1>6. CASE on[c] # None /\ Goto(c, "round") /\ UNCHANGED <<on, line>>
  <2>1. call' = [call EXCEPT ![c] = At("round")] /\ call[c].at # "record"
    BY <1>1, <1>4, <1>6
  <2> QED
    BY <1>2, <1>5, <1>6, <2>1, EndOfCall
<1>7. CASE Goto(c, "idle") /\ on' = [on EXCEPT ![c] = None] /\ line' = [line EXCEPT ![c] = {}]
  <2>1. call' = [call EXCEPT ![c] = At("idle")]
    BY <1>4, <1>7
  <2>2. /\ At("idle") \in CallRecord /\ At("idle").at = "idle" /\ At("idle").kids = <<>>
        /\ At("idle").first = <<>> /\ At("idle").again = <<>> /\ At("idle").reaped = {}
        /\ At("idle").targets = <<>> /\ Range(<<>>) = {} /\ Len(<<>>) = 0 /\ IsInjective(<<>>)
    BY AtIs DEF Stage
  <2>3. on' \in [Caller -> ID \cup {None}] /\ line' \in [Caller -> SUBSET ID]
    BY <1>1, <1>7 DEF Typed
  <2>4. Typed'
    BY <1>1, <1>2, <1>5, <2>1, <2>2, <2>3, TypedAfter, TypedSame
  <2>5. call'[c] = At("idle") /\ on'[c] = None /\ line'[c] = {}
    BY <1>1, <1>7, <2>1 DEF Typed
  <2>6. Fresh(c)'
    BY <1>1, <1>2 DEF TreeInv, Fresh
  <2>7. Shape(call'[c])
    BY <2>2, <2>5 DEF Shape
  <2>8. ~Busy(c)'
    BY <2>2, <2>5 DEF Busy
  <2>9. Owned(c)' /\ Chained(c)' /\ Held(c)' /\ Swept(c)'
    BY <2>2, <2>5, <2>8 DEF Owned, Chained, Held, Swept
  <2>10. Known(c)'
    BY <1>1, <1>2, <2>2, <2>5 DEF Known, TreeInv
  <2>11. TreeInv(c)'
    BY <2>6, <2>7, <2>9, <2>10 DEF TreeInv
  <2>12. \A d \in Caller \ {c} : Stays(d) /\ call'[d] = call[d]
    BY <1>1, <1>2, <1>7, <2>1 DEF Typed, Stays
  <2> QED
    BY <1>5, <2>4, <2>11, <2>12, OneCaller
<1> QED
  BY <1>6, <1>7 DEF Retry


-----------------------------------------------------------------------------
\* The steps of a fork

\* Whose turn it is to be spawned: one of the children, still forking.
LEMMA SpawnedIs ==
    ASSUME AgentInv, NEW c \in Caller, call[c].at = "spawn", ~Settled(c)
    PROVE  LET b == Only(call[c].kids, {k \in ID : row[k] = "forking"})[1] IN
           /\ b \in ID /\ b \in Range(call[c].kids) /\ row[b] = "forking"
           /\ b[1] = c /\ b[2] <= seq[c] /\ b \notin line[c] /\ b # on[c]
           /\ parent[b] = IF Rooting(c) THEN None ELSE on[c]
<1> DEFINE F == {k \in ID : row[k] = "forking"}
           s == Only(call[c].kids, F)
<1>1. /\ call[c].kids \in Seq(ID) /\ Range(call[c].kids) \subseteq ID
      /\ Owned(c) /\ Chained(c) /\ Busy(c)
  BY CallIs DEF AgentInv, TreeInv, Busy
<1>2. s \in Seq(ID) /\ Range(s) = Range(call[c].kids) \cap F
  BY <1>1, OnlyIs
<1>3. Range(s) # {}
  BY <1>1, <1>2 DEF Settled
<1> HIDE DEF s
<1>4. s[1] \in Range(s)
  BY <1>2, <1>3, LenProperties DEF Range
<1> DEFINE b == s[1]
<1>5. b \in ID /\ b \in Range(call[c].kids) /\ row[b] = "forking"
  BY <1>2, <1>4
<1> HIDE DEF F, b
<1>6. b[1] = c /\ b[2] <= seq[c] /\ b \notin line[c] /\ (on[c] # None => on[c] \in line[c])
  BY <1>1, <1>5 DEF Owned
<1>7. None \notin ID
  BY IdIs
<1>8. parent[b] = IF Rooting(c) THEN None ELSE on[c]
  BY <1>1, <1>5 DEF Chained
<1> QED
  BY <1>5, <1>6, <1>7, <1>8 DEF b, s, F

\* A child goes live with what its parent holds, or is rolled back.
LEMMA SpawnKeeps ==
    ASSUME AgentInv, NEW c \in Caller, Spawn(c)
    PROVE  AgentInv'
<1> DEFINE q == call[c]
           b == Only(q.kids, {k \in ID : row[k] = "forking"})[1]
           p == parent[b]
<1>1. /\ Typed /\ TreeInv(c) /\ q \in CallRecord /\ Range(q.kids) \subseteq ID
      /\ Owned(c) /\ Shape(q)
  BY CallIs DEF AgentInv, TreeInv
<1>2. q.at = "spawn" /\ ~Settled(c) /\ UNCHANGED <<seq, ledger, on, rounds, line>>
  BY DEF Spawn
<1>3. /\ b \in ID /\ b \in Range(q.kids) /\ row[b] = "forking"
      /\ b[1] = c /\ b[2] <= seq[c] /\ b \notin line[c] /\ b # on[c]
      /\ p = IF Rooting(c) THEN None ELSE on[c]
  BY <1>2, SpawnedIs
<1>4. /\ q.first = <<>> /\ q.again = <<>> /\ q.reaped = {}
  BY <1>1, <1>2 DEF Shape
<1>5. \/ /\ p = None \/ row[p] = "live"
         /\ row' = [row EXCEPT ![b] = "live"]
         /\ kv' = [kv EXCEPT ![b] = IF p = None THEN <<>> ELSE kv[p]]
         /\ UNCHANGED <<order, parent, call, faults>>
      \/ /\ UNCHANGED faults \/ Fault
         /\ Gone(b)
         /\ call' = [call EXCEPT ![c].broken = TRUE]
  BY DEF Spawn
<1> HIDE DEF b, p
<1>6. CASE /\ UNCHANGED faults \/ Fault
           /\ Gone(b)
           /\ call' = [call EXCEPT ![c].broken = TRUE]
  <2> DEFINE r == [q EXCEPT !.broken = TRUE]
  <2>1. call' = [call EXCEPT ![c] = r]
    BY <1>6
  <2>2. /\ r \in CallRecord /\ Alike(r, q) /\ r.first = q.first /\ r.again = q.again
        /\ r.reaped = q.reaped /\ r.at = "spawn"
    BY <1>1, <1>2 DEF CallRecord, Alike
  <2> HIDE DEF r
  <2>3. (\A d \in Caller : Decays(d)) /\ GoneStay /\ RowsInOrder' /\ kv' \in [ID -> Tokens]
    BY <1>1, <1>2, <1>3, <1>6, GoneDecays, GoneIs
  <2>4. call'[c] = r
    BY <1>1, <2>1 DEF Typed
  <2>5. Range(<<>>) = {}
    BY AtIs DEF Stage
  <2>6. Swept(c)'
    BY <1>4, <2>2, <2>4, <2>5 DEF Swept
  <2>7. Shape(r)
    BY <1>1, <1>2, <2>2 DEF Shape, Alike
  <2> QED
    BY <1>2, <1>6, <2>1, <2>2, <2>3, <2>6, <2>7, Onward
<1>7. CASE /\ p = None \/ row[p] = "live"
           /\ row' = [row EXCEPT ![b] = "live"]
           /\ kv' = [kv EXCEPT ![b] = IF p = None THEN <<>> ELSE kv[p]]
           /\ UNCHANGED <<order, parent, call, faults>>
  <2>1. /\ q.base \in Tokens /\ row \in [ID -> {"absent", "forking", "live", "killing"}]
        /\ kv \in [ID -> Tokens]
    BY <1>1, CallIs, PrefixIs DEF Typed
  <2>2. Busy(c) /\ (on[c] # None => on[c] \in line[c])
    BY <1>1, <1>2 DEF Busy, Owned
  <2>3. kv'[b] = q.base
    <3>1. CASE Rooting(c)
      BY <1>1, <1>3, <1>7, <2>1, <2>2, <3>1 DEF Owned
    <3>2. CASE ~Rooting(c)
      <4>1. on[c] # None /\ p = on[c]
        BY <1>3, <3>2 DEF Rooting
      <4>2. row[on[c]] = "live" /\ on[c] \in line[c]
        BY <1>7, <2>2, <4>1
      <4>3. kv[on[c]] = q.base
        BY <1>1, <2>2, <3>2, <4>2 DEF TreeInv, Held
      <4> QED
        BY <1>3, <1>7, <2>1, <4>1, <4>3
    <3> QED
      BY <3>1, <3>2
  <2>4. /\ row'[b] = "live"
        /\ \A e \in ID \ {b} : row'[e] = row[e] /\ kv'[e] = kv[e]
    BY <1>3, <1>7, <2>1
  <2>5. Typed'
    <3>1. kv' \in [ID -> Tokens]
      <4>1. \A e \in ID : kv'[e] \in Tokens
        BY <2>1, <2>3, <2>4
      <4> QED
        BY <1>7, <2>1, <4>1
    <3>2. RowsInOrder'
      BY <1>1, <1>3, <1>7, RowChanges
    <3>3. call' \in [Caller -> CallRecord] /\ faults' \in 0 .. MaxFaults
      BY <1>1, <1>7 DEF Typed
    <3> QED
      BY <1>1, <1>2, <3>1, <3>2, <3>3 DEF Typed, RowsInOrder
  <2>6. \A e \in ID : row'[e] # "absent" <=> row[e] # "absent"
    BY <1>3, <2>4
  <2>7. GoneStay
    BY <1>2, <2>6 DEF GoneStay
  <2>8. ASSUME NEW d \in Caller \ {c}
        PROVE  Decays(d) /\ Stays(d) /\ call'[d] = call[d]
    <3>1. \A e \in ID : e[1] = d => e # b
      BY <1>3
    <3> QED
      BY <1>2, <1>7, <2>4, <3>1 DEF Decays, Stays
  <2>9. /\ call'[c] = q /\ on'[c] = on[c] /\ line'[c] = line[c] /\ seq'[c] = seq[c]
        /\ ledger' = ledger /\ parent' = parent /\ line[c] \subseteq ID
    BY <1>1, <1>2, <1>7, CallIs
  <2>10. \A e \in line[c] : e # b /\ row'[e] = row[e] /\ kv'[e] = kv[e]
    BY <1>3, <2>4, <2>9
  <2>11. Fresh(c)'
    BY <1>1, <2>6, <2>9 DEF TreeInv, Fresh
  <2>12. (Busy(c)' <=> Busy(c)) /\ (Rooting(c)' <=> Rooting(c))
    BY <2>9 DEF Busy, Rooting
  <2>13. Owned(c)'
    BY <1>1, <2>9, <2>10, <2>12 DEF Owned
  <2>14. Chained(c)'
    <3>1. /\ Chained(c)
          /\ \A e \in line[c] \cup Range(q.kids) : row'[e] # "absent" <=> row[e] # "absent"
      BY <1>1, <2>6, <2>9 DEF TreeInv
    <3> QED
      BY <2>9, <2>12, <3>1 DEF Chained
  <2>15. Known(c) /\ ledger[b] = Unknown
    BY <1>1, <1>2, <1>3 DEF TreeInv, Known
  <2>16. Known(c)'
    <3>1. \A e \in ID : e[1] = c /\ row'[e] = "live" /\ ledger[e] # Unknown =>
            ledger[e] = kv'[e] \/ (q.at = "record" /\ ChildOf(q) = e)
      BY <2>4, <2>15 DEF Known
    <3>2. on[c] # None /\ row'[on[c]] = "live" => ledger[on[c]] # Unknown
      BY <2>2, <2>10, <2>15 DEF Known
    <3>3. \A e \in Range(q.kids) : ledger[e] = Unknown
      BY <1>2, <2>15 DEF Known
    <3> QED
      BY <1>2, <2>9, <3>1, <3>2, <3>3 DEF Known
  <2>17. Held(c)'
    <3>1. Held(c) /\ \A k \in 1 .. Len(q.kids) : q.kids[k] \in ID
      BY <1>1, CallIs DEF TreeInv
    <3>2. Busy(c) => \A k \in 1 .. Len(q.kids) : LET e == q.kids[k] IN
            /\ IsPrefix(q.base, q.targets[k])
            /\ ~Rooting(c) => Len(q.base) < Len(q.targets[k])
            /\ q.at = "spawn" /\ row'[e] = "live" => kv'[e] = q.base
      BY <2>3, <2>4, <3>1, <1>2 DEF Held
    <3>3. Busy(c) /\ ~Rooting(c) => \A e \in line[c] : row'[e] = "live" =>
            IsPrefix(kv'[e], q.base) /\ (e = on[c] => kv'[e] = q.base)
      BY <2>10, <3>1 DEF Held
    <3>4. \A e \in line[c] \ {on[c]} : on[c] \in line[c]
      BY <1>1 DEF Owned
    <3>5. \A e \in line[c] \ {on[c]} :
            row'[e] = "live" /\ row'[on[c]] = "live" => IsStrictPrefix(kv'[e], kv'[on[c]])
      BY <2>10, <3>1, <3>4 DEF Held
    <3> QED
      BY <1>2, <2>9, <2>12, <3>2, <3>3, <3>5 DEF Held
  <2>18. Swept(c)'
    <3>1. Range(<<>>) = {}
      BY AtIs DEF Stage
    <3> QED
      BY <1>2, <1>4, <2>9, <3>1 DEF Swept
  <2>19. TreeInv(c)'
    BY <1>1, <2>9, <2>11, <2>13, <2>14, <2>16, <2>17, <2>18 DEF TreeInv
  <2> QED
    BY <2>5, <2>7, <2>8, <2>19, OneCaller
<1> QED
  BY <1>5, <1>6, <1>7

\* The children enter the ledger; a root becomes the caller's branch.
LEMMA EnterKeeps ==
    ASSUME AgentInv, NEW c \in Caller, Enter(c)
    PROVE  AgentInv'
<1> DEFINE q == call[c]
           at == IF q.kids = <<>> THEN "select" ELSE "commit"
           results == [k \in 1 .. Len(q.kids) |-> Pending]
           r == [q EXCEPT !.at = at, !.results = results]
<1>1. /\ Typed /\ TreeInv(c) /\ q \in CallRecord /\ Range(q.kids) \subseteq ID
      /\ Owned(c) /\ Shape(q) /\ Chained(c) /\ Known(c) /\ Held(c)
      /\ Len(q.kids) \in Nat /\ q.kids \in Seq(ID)
      /\ Range(q.kids) = {q.kids[k] : k \in 1 .. Len(q.kids)}
      /\ q.base \in Prefix /\ q.base # Unknown
  BY CallIs, PrefixIs DEF AgentInv, TreeInv
<1>2. /\ q.at = "spawn" /\ Settled(c)
      /\ UNCHANGED <<order, row, parent, kv, seq, rounds, faults>>
      /\ ledger' = [b \in ID |-> IF b \in Range(q.kids) THEN q.base ELSE ledger[b]]
      /\ on' = IF on[c] = None THEN [on EXCEPT ![c] = q.kids[1]] ELSE on
      /\ line' = IF on[c] = None THEN [line EXCEPT ![c] = {q.kids[1]}] ELSE line
      /\ call' = [call EXCEPT ![c] = r]
  BY DEF Enter, orchVars
<1>3. results \in Seq(Results \cup {Pending}) /\ Len(results) = Len(q.kids)
  <2>1. results \in [1 .. Len(q.kids) -> Results \cup {Pending}]
    OBVIOUS
  <2> QED
    BY <1>1, <2>1, LenProperties
<1>4. \A k \in 1 .. Len(q.kids) : results[k] = Pending
  OBVIOUS
<1> HIDE DEF results
<1>5. /\ r \in CallRecord /\ r.at = at /\ r.results = results /\ r.base = q.base
      /\ r.targets = q.targets /\ r.kids = q.kids /\ r.first = q.first /\ r.again = q.again
      /\ r.reaped = q.reaped /\ r.broken = q.broken
  BY <1>1, <1>3 DEF CallRecord, Stage
<1>6. at = "commit" \/ (at = "select" /\ q.kids = <<>> /\ Len(q.kids) = 0)
  <2>1. q.kids = <<>> => Len(q.kids) = 0
    BY <1>1, EmptySeq
  <2> QED
    BY <2>1
<1>7. q.kids # <<>> => at = "commit"
  OBVIOUS
<1> HIDE DEF r, at
<1>8. call'[c] = r /\ \A d \in Caller \ {c} : call'[d] = call[d]
  BY <1>1, <1>2 DEF Typed
<1>9. Busy(c) /\ (Rooting(c) <=> on[c] = None) /\ Busy(c)'
  BY <1>1, <1>2, <1>5, <1>6, <1>8 DEF Busy, Owned, Rooting
<1>10. /\ q.first = <<>> /\ q.again = <<>> /\ q.reaped = {} /\ Range(<<>>) = {}
  BY <1>1, <1>2, AtIs DEF Shape, Stage
<1>11. \A b \in Range(q.kids) : b \in ID /\ b[1] = c /\ b[2] <= seq[c] /\ row[b] # "forking"
  BY <1>1, <1>2 DEF Owned, Settled
<1>12. \A b \in ID : ledger'[b] = IF b \in Range(q.kids) THEN q.base ELSE ledger[b]
  BY <1>2
<1>13. ledger' \in [ID -> Prefix \cup {Unknown}]
  BY <1>1, <1>2 DEF Typed
<1>14. ASSUME on[c] = None
       PROVE  LET w == q.kids[1] IN
              /\ q.kids = <<w>> /\ w \in ID /\ w \in Range(q.kids) /\ at = "commit"
              /\ on' = [on EXCEPT ![c] = w] /\ line' = [line EXCEPT ![c] = {w}]
              /\ on'[c] = w /\ line'[c] = {w} /\ w # None
  <2>1. Len(q.kids) = 1
    BY <1>1, <1>9, <1>14 DEF Owned
  <2>2. q.kids = <<q.kids[1]>> /\ q.kids[1] \in Range(q.kids)
    BY <1>1, <2>1
  <2>3. on' = [on EXCEPT ![c] = q.kids[1]] /\ line' = [line EXCEPT ![c] = {q.kids[1]}]
    BY <1>2, <1>14
  <2>4. on'[c] = q.kids[1] /\ line'[c] = {q.kids[1]}
    BY <1>1, <2>3 DEF Typed
  <2>5. None \notin ID
    BY IdIs
  <2> QED
    BY <1>6, <1>11, <2>1, <2>2, <2>3, <2>4, <2>5
<1>15. on[c] # None => on' = on /\ line' = line
  BY <1>2
<1>16. /\ on' \in [Caller -> ID \cup {None}] /\ line' \in [Caller -> SUBSET ID]
       /\ \A d \in Caller \ {c} : on'[d] = on[d] /\ line'[d] = line[d]
  <2>1. on \in [Caller -> ID \cup {None}] /\ line \in [Caller -> SUBSET ID]
    BY <1>1 DEF Typed
  <2>2. CASE on[c] = None
    BY <1>14, <2>1, <2>2
  <2>3. CASE on[c] # None
    BY <1>15, <2>1, <2>3
  <2> QED
    BY <2>2, <2>3
<1>17. Typed'
  <2>1. RowsInOrder' /\ kv' \in [ID -> Tokens] /\ seq' \in [Caller -> 0 .. MaxBranches]
    BY <1>1, <1>2, TypedSame
  <2>2. /\ faults' \in 0 .. MaxFaults /\ rounds' \in [Caller -> Nat]
        /\ \A d \in Caller : rounds'[d] <= MaxRounds[d]
    BY <1>1, <1>2, TypedSame
  <2> QED
    BY <1>1, <1>2, <1>5, <1>13, <1>16, <2>1, <2>2, TypedAfter
<1>18. Rooting(c)' <=> Rooting(c)
  BY <1>5, <1>8, <1>9, <1>14, <1>15 DEF Rooting
<1>19. on'[c] # None /\ on'[c] \in line'[c] /\ on'[c] \in ID
  BY <1>1, <1>14, <1>15, CallIs DEF Owned
<1>20. GoneStay
  BY <1>2 DEF GoneStay
<1>21. ASSUME NEW d \in Caller \ {c}
       PROVE  Decays(d) /\ Stays(d) /\ call'[d] = call[d]
  <2>1. \A e \in ID : e[1] = d => ledger'[e] = ledger[e]
    BY <1>11, <1>12
  <2> QED
    BY <1>2, <1>8, <1>16, <2>1 DEF Decays, Stays
<1>22. Fresh(c)'
  <2>1. Fresh(c) /\ seq[c] \in Nat
    BY <1>1, CallIs DEF TreeInv
  <2>2. ASSUME NEW b \in ID, b[1] = c, b[2] > seq[c]
        PROVE  row'[b] = "absent" /\ ledger'[b] = Unknown
    <3>1. b[2] \in Nat
      BY IdIs
    <3>2. b \notin Range(q.kids)
      BY <1>11, <2>1, <2>2, <3>1
    <3> QED
      BY <1>2, <1>12, <2>1, <2>2, <3>2 DEF Fresh
  <2> QED
    BY <1>2, <2>2 DEF Fresh
<1>23. Shape(r)
  <2>1. Len(q.kids) = Len(q.targets) /\ IsInjective(q.kids)
    BY <1>1 DEF Shape
  <2>2. ASSUME at = "commit"
        PROVE  \E t \in 1 .. Len(results) : InTurn(r, t)
    <3>1. Len(q.kids) # 0
      BY <1>1, <2>2, EmptySeq DEF at
    <3>2. 1 \in 1 .. Len(results) /\ \A j \in 1 .. Len(results) : 1 <= j
      BY <1>1, <1>3, <3>1
    <3>3. InTurn(r, 1)
      BY <1>3, <1>4, <1>5, <3>2 DEF InTurn
    <3> QED
      BY <3>2, <3>3
  <2>3. at = "select" => \A j \in 1 .. Len(results) : results[j] # Pending
    BY <1>3, <1>6
  <2> QED
    BY <1>3, <1>5, <1>6, <1>10, <2>1, <2>2, <2>3 DEF Shape
<1>24. Owned(c)'
  <2>1. CASE on[c] = None
    <3> DEFINE w == q.kids[1]
    <3>1. /\ q.kids = <<w>> /\ w \in ID /\ w \in Range(q.kids) /\ at = "commit"
          /\ on'[c] = w /\ line'[c] = {w} /\ w # None
      BY <1>14, <2>1
    <3> HIDE DEF w
    <3>2. w[1] = c /\ w[2] <= seq[c] /\ w[2] \in Nat /\ row[w] # "forking"
      BY <1>11, <3>1, IdIs
    <3>3. \A b \in line'[c] : b[1] = c /\ b[2] <= seq[c] /\ b[2] <= w[2] /\ row[b] # "forking"
      BY <3>1, <3>2
    <3>4. Rooting(c) /\ q.base = <<>> /\ Len(q.kids) = 1
      BY <1>1, <1>9, <2>1 DEF Owned
    <3> QED
      BY <1>2, <1>5, <1>8, <1>11, <1>18, <3>1, <3>3, <3>4 DEF Owned
  <2>2. CASE on[c] # None
    <3>1. ~Rooting(c) /\ on'[c] = on[c] /\ line'[c] = line[c]
      BY <1>9, <1>15, <2>2
    <3> QED
      BY <1>1, <1>2, <1>5, <1>6, <1>8, <1>9, <1>18, <1>19, <3>1 DEF Owned
  <2> QED
    BY <2>1, <2>2
<1>25. Chained(c)'
  <2>1. CASE on[c] = None
    <3> DEFINE w == q.kids[1]
    <3>1. w \in Range(q.kids) /\ line'[c] = {w} /\ w \in ID
      BY <1>14, <2>1
    <3>2. Rooting(c) /\ \A b \in Range(q.kids) : parent[b] = None
      BY <1>1, <1>9, <2>1 DEF Chained
    <3> HIDE DEF w
    <3>3. w[2] \in Nat
      BY <3>1, IdIs
    <3>4. \A b, d \in line'[c] : ~(d[2] < b[2])
      BY <3>1, <3>3
    <3> QED
      BY <1>2, <1>5, <1>8, <1>18, <3>1, <3>2, <3>4 DEF Chained
  <2>2. CASE on[c] # None
    <3>1. ~Rooting(c) /\ on'[c] = on[c] /\ line'[c] = line[c]
      BY <1>9, <1>15, <2>2
    <3> QED
      BY <1>1, <1>2, <1>5, <1>8, <1>9, <1>18, <3>1 DEF Chained
  <2> QED
    BY <2>1, <2>2
<1>26. \A b \in Range(q.kids) : row[b] = "live" => kv[b] = q.base
  BY <1>1, <1>2, <1>9 DEF Held
<1>27. Known(c)'
  <2>1. \A b \in ID : b[1] = c /\ row[b] = "live" /\ ledger'[b] # Unknown => ledger'[b] = kv[b]
    BY <1>1, <1>2, <1>12, <1>26 DEF Known
  <2>2. row[on'[c]] = "live" => ledger'[on'[c]] # Unknown
    BY <1>1, <1>12, <1>14, <1>15, <1>19 DEF Known
  <2>3. \A b \in Range(q.kids) : ledger'[b] # Unknown
    BY <1>1, <1>11, <1>12
  <2> QED
    BY <1>2, <1>5, <1>6, <1>8, <2>1, <2>2, <2>3 DEF Known
<1>28. Held(c)'
  <2>1. \A k \in 1 .. Len(q.kids) :
          /\ IsPrefix(q.base, q.targets[k])
          /\ ~Rooting(c) => Len(q.base) < Len(q.targets[k])
    BY <1>1, <1>9 DEF Held
  <2>2. \A k \in 1 .. Len(q.kids) : ledger'[q.kids[k]] = q.base
    BY <1>1, <1>11, <1>12
  <2>3. on[c] # None => \A b \in line[c] : row[b] = "live" =>
          IsPrefix(kv[b], q.base) /\ (b = on[c] => kv[b] = q.base)
    BY <1>1, <1>9 DEF Held
  <2>4. ASSUME NEW b \in line'[c] \ {on'[c]}, row[b] = "live", row[on'[c]] = "live"
        PROVE  IsStrictPrefix(kv[b], kv[on'[c]])
    BY <1>1, <1>14, <1>15, <2>4 DEF Held
  <2>5. r.at \notin {"spawn", "record", "sweep"}
    BY <1>5, <1>6
  <2>6. ~Rooting(c)' => on'[c] = on[c] /\ line'[c] = line[c] /\ on[c] # None
    BY <1>9, <1>15, <1>18
  <2> QED
    BY <1>2, <1>4, <1>5, <1>8, <1>18, <2>1, <2>2, <2>3, <2>4, <2>5, <2>6 DEF Held
<1>29. Swept(c)'
  BY <1>5, <1>6, <1>8, <1>10 DEF Swept
<1>30. TreeInv(c)'
  BY <1>8, <1>22, <1>23, <1>24, <1>25, <1>27, <1>28, <1>29 DEF TreeInv
<1> QED
  BY <1>17, <1>20, <1>21, <1>30, OneCaller

-----------------------------------------------------------------------------
\* The steps of a commit

\* A branch is committed: what it holds is now its target.
LEMMA ExtendedKeeps ==
    ASSUME AgentInv, NEW c \in Caller, call[c].at = "commit",
           ledger[Child(c)] # Unknown, row[Child(c)] = "live",
           kv' = [kv EXCEPT ![Child(c)] =
                    @ \o SubSeq(Target(c), Len(ledger[Child(c)]) + 1, Len(Target(c)))],
           Goto(c, "record"),
           UNCHANGED <<order, row, parent, seq, ledger, on, rounds, line, faults>>
    PROVE  AgentInv'
<1> DEFINE q == call[c]  b == ChildOf(q)  t == TurnIn(q.results)  r == [q EXCEPT !.at = "record"]
<1>1. /\ Typed /\ TreeInv(c) /\ q \in CallRecord /\ Owned(c) /\ Shape(q) /\ Chained(c)
      /\ Known(c) /\ Held(c) /\ line[c] \subseteq ID /\ q.kids \in Seq(ID)
      /\ q.base \in Tokens /\ q.base # Unknown /\ Len(q.kids) \in Nat
  BY CallIs, PrefixIs DEF AgentInv, TreeInv
<1>2. /\ t \in 1 .. Len(q.kids) /\ q.results[t] = Pending /\ b = q.kids[t] /\ b \in ID
      /\ b \in Range(q.kids) /\ TargetOf(q) = q.targets[t] /\ TargetOf(q) \in Tokens
  BY <1>1, TurnOf, PrefixIs
<1>3. Child(c) = b /\ Target(c) = TargetOf(q)
  BY TurnsAre
<1>4. b[1] = c /\ b[2] <= seq[c] /\ on[c] # None /\ Busy(c) /\ on[c] \in line[c]
  BY <1>1, <1>2 DEF Owned, Busy
<1> HIDE DEF t, b
<1>5. ledger[b] = q.base /\ kv[b] = q.base
  <2>1. ledger[b] = q.base
    BY <1>1, <1>2, <1>3, <1>4 DEF Held
  <2> QED
    BY <1>1, <1>2, <1>3, <1>4, <2>1 DEF Known
<1>6. kv'[b] = TargetOf(q) /\ \A e \in ID \ {b} : kv'[e] = kv[e]
  <2>1. IsPrefix(q.base, TargetOf(q))
    BY <1>1, <1>2, <1>4 DEF Held
  <2>2. q.base \o SubSeq(TargetOf(q), Len(q.base) + 1, Len(TargetOf(q))) = TargetOf(q)
    BY <1>1, <1>2, <2>1, Rest
  <2>3. kv' = [kv EXCEPT ![b] = kv[b] \o SubSeq(TargetOf(q), Len(ledger[b]) + 1, Len(TargetOf(q)))]
    BY <1>3
  <2>4. kv' = [kv EXCEPT ![b] = TargetOf(q)]
    BY <1>5, <2>2, <2>3
  <2> QED
    BY <1>1, <1>2, <2>4 DEF Typed
<1>7. kv' \in [ID -> Tokens]
  <2>1. \A e \in ID : kv'[e] \in Tokens
    BY <1>1, <1>2, <1>6 DEF Typed
  <2> QED
    BY <1>1, <2>1 DEF Typed
<1>8. call' = [call EXCEPT ![c] = r]
  BY DEF Goto
<1>9. /\ r \in CallRecord /\ r.at = "record" /\ r.base = q.base /\ r.targets = q.targets
      /\ r.kids = q.kids /\ r.results = q.results /\ r.first = q.first /\ r.again = q.again
      /\ r.reaped = q.reaped
  BY <1>1 DEF CallRecord, Stage
<1> HIDE DEF r
<1>10. call'[c] = r /\ \A d \in Caller \ {c} : call'[d] = call[d]
  BY <1>1, <1>8 DEF Typed
<1>11. Typed'
  BY <1>1, <1>7, <1>8, <1>9, TypedAfter, TypedSame
<1>12. GoneStay
  BY DEF GoneStay
<1>13. ASSUME NEW d \in Caller \ {c}
       PROVE  Decays(d) /\ Stays(d) /\ call'[d] = call[d]
  <2>1. \A e \in ID : e[1] = d => kv'[e] = kv[e]
    BY <1>4, <1>6
  <2> QED
    BY <1>10, <2>1 DEF Decays, Stays
<1>14. /\ Busy(c)' /\ (Rooting(c)' <=> Rooting(c))
       /\ ChildOf(r) = b /\ TargetOf(r) = TargetOf(q)
  BY <1>9, <1>10 DEF Busy, Rooting, ChildOf, TargetOf, b
<1>15. Fresh(c)'
  BY <1>1 DEF TreeInv, Fresh
<1>16. Shape(r)
  <2>1. \E k \in 1 .. Len(q.results) : InTurn(q, k)
    BY <1>1 DEF Shape
  <2>2. \E k \in 1 .. Len(r.results) : InTurn(r, k)
    BY <1>9, <2>1 DEF InTurn
  <2> QED
    BY <1>1, <1>9, <2>2 DEF Shape
<1>17. Owned(c)'
  BY <1>1, <1>4, <1>9, <1>10, <1>14 DEF Owned
<1>18. Chained(c)'
  BY <1>1, <1>4, <1>9, <1>10, <1>14 DEF Chained
<1>19. Known(c)'
  <2>1. \A e \in ID : e[1] = c /\ row[e] = "live" /\ ledger[e] # Unknown =>
          ledger[e] = kv'[e] \/ e = b
    BY <1>1, <1>6 DEF Known
  <2> QED
    BY <1>1, <1>9, <1>10, <1>14, <2>1 DEF Known
<1>20. Held(c)'
  <2>1. ~Rooting(c) => b \notin line[c]
    <3> SUFFICES ASSUME ~Rooting(c), b \in line[c]
                 PROVE  FALSE
      OBVIOUS
    <3>1. b[2] > on[c][2] /\ b[2] <= on[c][2] /\ on[c] \in ID
      BY <1>1, <1>2, <1>4 DEF Owned
    <3>2. on[c][2] \in Nat /\ b[2] \in Nat
      BY <1>2, <3>1, IdIs
    <3> QED
      BY <3>1, <3>2
  <2>2. Rooting(c) => line[c] \ {on[c]} = {}
    BY <1>1, <1>4 DEF Owned
  <2>3. \A k \in 1 .. Len(q.kids) :
          /\ IsPrefix(q.base, q.targets[k])
          /\ ~Rooting(c) => Len(q.base) < Len(q.targets[k])
          /\ q.results[k] = Pending => ledger[q.kids[k]] \in {q.base, Unknown}
    BY <1>1, <1>4 DEF Held
  <2>4. ASSUME NEW k \in 1 .. Len(q.kids), q.results[k] \notin {Pending, Failed},
               row[q.kids[k]] = "live"
        PROVE  kv'[q.kids[k]] = q.targets[k]
    <3>1. q.kids[k] # b
      <4>1. IsInjective(q.kids) /\ DOMAIN q.kids = 1 .. Len(q.kids) /\ k # t
        BY <1>1, <1>2, <2>4, LenProperties DEF Shape
      <4> QED
        BY <1>2, <4>1 DEF IsInjective
    <3>2. q.kids[k] \in ID
      BY <1>1, ElementOfSeq
    <3>3. kv[q.kids[k]] = q.targets[k]
      BY <1>1, <1>4, <2>4 DEF Held
    <3> QED
      BY <1>6, <3>1, <3>2, <3>3
  <2>5. ~Rooting(c) => \A e \in line[c] : row[e] = "live" =>
          IsPrefix(kv'[e], q.base) /\ (e = on[c] => kv'[e] = q.base)
    <3>1. ~Rooting(c) => \A e \in line[c] : e \in ID \ {b} /\ kv'[e] = kv[e]
      BY <1>1, <1>6, <2>1
    <3>2. ~Rooting(c) => \A e \in line[c] : row[e] = "live" =>
            IsPrefix(kv[e], q.base) /\ (e = on[c] => kv[e] = q.base)
      BY <1>1, <1>4 DEF Held
    <3> QED
      BY <3>1, <3>2
  <2>6. \A e \in line[c] \ {on[c]} :
          row[e] = "live" /\ row[on[c]] = "live" => IsStrictPrefix(kv'[e], kv'[on[c]])
    <3>1. CASE Rooting(c)
      BY <2>2, <3>1
    <3>2. CASE ~Rooting(c)
      <4>1. \A e \in line[c] : kv'[e] = kv[e]
        BY <1>1, <1>6, <2>1, <3>2
      <4> QED
        BY <1>1, <1>4, <4>1 DEF Held
    <3> QED
      BY <3>1, <3>2
  <2>7. kv'[ChildOf(r)] = TargetOf(r)
    BY <1>6, <1>14
  <2> QED
    BY <1>9, <1>10, <1>14, <2>3, <2>4, <2>5, <2>6, <2>7 DEF Held
<1>21. Swept(c)'
  <2>1. q.first = <<>> /\ q.again = <<>> /\ q.reaped = {} /\ Range(<<>>) = {}
    BY <1>1, AtIs DEF Shape, Stage
  <2> QED
    BY <1>9, <1>10, <2>1 DEF Swept
<1>22. TreeInv(c)'
  BY <1>10, <1>15, <1>16, <1>17, <1>18, <1>19, <1>20, <1>21 DEF TreeInv
<1> QED
  BY <1>11, <1>12, <1>13, <1>22, OneCaller

\* A turn that ends, with an error that leaves the ledger alone or with the
\* record of what the branch holds.
LEMMA TurnEndsKeeps ==
    ASSUME AgentInv, NEW c \in Caller, NEW result \in Results, TurnEnds(c, result),
           \/ call[c].at = "commit" /\ result = Failed /\ UNCHANGED ledger
           \/ /\ call[c].at = "record" /\ (IsRoot(c) => result # Failed)
              /\ ledger' = [ledger EXCEPT ![Child(c)] = Target(c)],
           UNCHANGED <<order, row, parent, kv, seq, on, rounds, line>>,
           UNCHANGED faults \/ Fault
    PROVE  AgentInv'
<1> DEFINE q == call[c]  b == ChildOf(q)  t == TurnIn(q.results)
<1>1. /\ Typed /\ TreeInv(c) /\ q \in CallRecord /\ Owned(c) /\ Shape(q) /\ Chained(c)
      /\ Known(c) /\ Held(c) /\ line[c] \subseteq ID /\ q.kids \in Seq(ID) /\ Fresh(c)
      /\ Len(q.kids) \in Nat /\ q.results \in Seq(Results \cup {Pending})
      /\ seq[c] \in Nat /\ Range(q.kids) \subseteq ID
  BY CallIs DEF AgentInv, TreeInv
<1>2. /\ t \in 1 .. Len(q.kids) /\ q.results[t] = Pending /\ b = q.kids[t] /\ b \in ID
      /\ b \in Range(q.kids) /\ TargetOf(q) = q.targets[t] /\ TargetOf(q) \in Prefix
      /\ TargetOf(q) # Unknown /\ InTurn(q, t) /\ Len(q.results) = Len(q.kids)
  BY <1>1, TurnOf, PrefixIs
<1>3. Child(c) = b /\ Target(c) = TargetOf(q) /\ Turn(c) = t
  BY TurnsAre
<1>4. /\ b[1] = c /\ b[2] <= seq[c] /\ on[c] # None /\ Busy(c) /\ on[c] \in line[c]
      /\ Rooting(c) <=> IsRoot(c)
  BY <1>1, <1>2 DEF Owned, Busy, Rooting, IsRoot
<1>5. b[2] \in Nat
  BY <1>2, IdIs
<1> HIDE DEF t, b
<1>6. /\ \A e \in ID \ {b} : ledger'[e] = ledger[e]
      /\ \/ q.at = "commit" /\ result = Failed /\ ledger' = ledger
         \/ q.at = "record" /\ ledger'[b] = TargetOf(q)
  BY <1>1, <1>2, <1>3 DEF Typed
<1>7. ledger' \in [ID -> Prefix \cup {Unknown}]
  BY <1>1, <1>2, <1>3 DEF Typed
<1>8. GoneStay
  BY DEF GoneStay
<1>9. \A d \in Caller \ {c} : Decays(d) /\ Stays(d)
  <2>1. \A d \in Caller \ {c} : \A e \in ID : e[1] = d => ledger'[e] = ledger[e]
    BY <1>4, <1>6
  <2> QED
    BY <2>1 DEF Decays, Stays
<1>10. Fresh(c)'
  <2>1. ASSUME NEW e \in ID, e[1] = c, e[2] > seq[c]
        PROVE  ledger'[e] = ledger[e]
    <3>1. e # b
      BY <1>1, <1>4, <1>5, <2>1
    <3> QED
      BY <1>6, <3>1
  <2> QED
    BY <1>1, <2>1 DEF Fresh
<1>11. /\ \A e \in ID : e[1] = c /\ row[e] = "live" /\ ledger'[e] # Unknown => ledger'[e] = kv[e]
       /\ \A e \in ID : ledger[e] # Unknown => ledger'[e] # Unknown
  <2>1. CASE q.at = "commit" /\ ledger' = ledger
    BY <1>1, <2>1 DEF Known
  <2>2. CASE q.at = "record" /\ ledger'[b] = TargetOf(q)
    <3>1. row[b] = "live" => kv[b] = TargetOf(q)
      BY <1>1, <2>2 DEF Held, b
    <3>2. \A e \in ID \ {b} : e[1] = c /\ row[e] = "live" /\ ledger[e] # Unknown =>
            ledger[e] = kv[e]
      BY <1>1, <2>2 DEF Known, b
    <3> QED
      BY <1>2, <1>6, <2>2, <3>1, <3>2
  <2> QED
    BY <1>6, <2>1, <2>2
<1>12. row[on[c]] = "live" => ledger'[on[c]] # Unknown
  BY <1>1, <1>4, <1>11 DEF Known
<1>13. \A e \in line[c] \ {on[c]} :
        row[e] = "live" /\ row[on[c]] = "live" => IsStrictPrefix(kv[e], kv[on[c]])
  BY <1>1 DEF Held
<1>14. /\ RowsInOrder' /\ kv' \in [ID -> Tokens] /\ rounds' \in [Caller -> Nat]
       /\ \A d \in Caller : rounds'[d] <= MaxRounds[d]
  BY <1>1, TypedSame
<1>15. CASE q.at = "commit" /\ ledger' = ledger /\ result = Failed /\ IsRoot(c)
  <2>1. call' = [call EXCEPT ![c] = At("raised")] /\ q.at # "record"
    BY <1>15 DEF TurnEnds
  <2>2. \A d \in Caller : Decays(d)
    BY <1>15, NothingDecays
  <2> QED
    BY <1>7, <1>8, <1>14, <2>1, <2>2, EndOfCall
<1>16. CASE q.at = "record" /\ result # Failed /\ IsRoot(c)
  <2>1. call' = [call EXCEPT ![c] = At("round")]
    BY <1>16 DEF TurnEnds
  <2>2. /\ At("round") \in CallRecord /\ At("round").at = "round" /\ At("round").kids = <<>>
        /\ At("round").first = <<>> /\ At("round").again = <<>> /\ At("round").reaped = {}
        /\ At("round").targets = <<>> /\ Range(<<>>) = {} /\ Len(<<>>) = 0 /\ IsInjective(<<>>)
    BY AtIs DEF Stage
  <2>3. call'[c] = At("round") /\ \A d \in Caller \ {c} : call'[d] = call[d]
    BY <1>1, <2>1 DEF Typed
  <2>4. Typed'
    BY <1>1, <1>7, <1>14, <2>1, <2>2, TypedAfter, TypedSame
  <2>5. ~Busy(c)'
    BY <2>2, <2>3 DEF Busy
  <2>6. Shape(call'[c])
    BY <2>2, <2>3 DEF Shape
  <2>7. Owned(c)'
    BY <1>1, <1>4, <2>2, <2>3, <2>5 DEF Owned
  <2>8. Chained(c)'
    BY <1>1, <2>5 DEF Chained
  <2>9. Known(c)'
    BY <1>11, <1>12, <2>2, <2>3 DEF Known
  <2>10. Held(c)'
    BY <1>13, <2>2, <2>3, <2>5 DEF Held
  <2>11. Swept(c)'
    BY <2>2, <2>3 DEF Swept
  <2>12. TreeInv(c)'
    BY <1>10, <2>6, <2>7, <2>8, <2>9, <2>10, <2>11 DEF TreeInv
  <2> QED
    BY <1>8, <1>9, <2>3, <2>4, <2>12, OneCaller
<1>17. CASE ~IsRoot(c)
  <2> DEFINE at == IF t < Len(q.results) THEN "commit" ELSE "select"
             results == [q.results EXCEPT ![t] = result]
             r == [q EXCEPT !.results = results, !.at = at]
  <2>1. call' = [call EXCEPT ![c] = r]
    BY <1>3, <1>17 DEF TurnEnds
  <2>2. /\ results \in Seq(Results \cup {Pending}) /\ Len(results) = Len(q.results)
        /\ results[t] = result
        /\ \A k \in 1 .. Len(q.results) : k # t => results[k] = q.results[k]
    BY <1>1, <1>2
  <2>3. (at = "commit" /\ t < Len(q.results)) \/ (at = "select" /\ ~(t < Len(q.results)))
    OBVIOUS
  <2> HIDE DEF results, at
  <2>4. /\ r \in CallRecord /\ r.at = at /\ r.base = q.base /\ r.targets = q.targets
        /\ r.kids = q.kids /\ r.results = results /\ r.first = q.first /\ r.again = q.again
        /\ r.reaped = q.reaped
    BY <1>1, <2>2, <2>3 DEF CallRecord, Stage
  <2> HIDE DEF r
  <2>5. call'[c] = r /\ \A d \in Caller \ {c} : call'[d] = call[d]
    BY <1>1, <2>1 DEF Typed
  <2>6. Typed'
    BY <1>1, <1>7, <1>14, <2>1, <2>4, TypedAfter, TypedSame
  <2>7. Busy(c)' /\ ~Rooting(c)' /\ ~Rooting(c)
    BY <1>4, <1>17, <2>3, <2>4, <2>5 DEF Busy, Rooting, IsRoot
  <2>8. result # Pending
    BY DEF Results, Result, Failed, Pending
  <2>9. /\ q.first = <<>> /\ q.again = <<>> /\ q.reaped = {} /\ Range(<<>>) = {}
        /\ Len(q.kids) = Len(q.targets) /\ IsInjective(q.kids)
    BY <1>1, <1>6, AtIs DEF Shape, Stage
  <2>10. Shape(r)
    <3>1. \A k \in 1 .. Len(q.results) : results[k] = Pending <=> t + 1 <= k
      BY <1>1, <1>2, <2>2, <2>8 DEF InTurn
    <3>2. CASE at = "commit" /\ t < Len(q.results)
      <4>1. t + 1 \in 1 .. Len(r.results) /\ InTurn(r, t + 1)
        BY <1>1, <1>2, <2>2, <2>4, <3>1, <3>2 DEF InTurn
      <4>2. \E k \in 1 .. Len(r.results) : InTurn(r, k)
        BY <4>1
      <4> QED
        BY <1>2, <2>2, <2>4, <2>9, <3>2, <4>2 DEF Shape
    <3>3. CASE at = "select" /\ ~(t < Len(q.results))
      <4>1. \A k \in 1 .. Len(results) : results[k] # Pending
        BY <1>1, <1>2, <2>2, <3>1, <3>3
      <4> QED
        BY <1>2, <2>2, <2>4, <2>9, <3>3, <4>1 DEF Shape
    <3> QED
      BY <2>3, <3>2, <3>3
  <2>11. Owned(c)'
    BY <1>1, <1>4, <2>3, <2>4, <2>5, <2>7 DEF Owned
  <2>12. Chained(c)'
    BY <1>1, <1>4, <2>4, <2>5, <2>7 DEF Chained
  <2>13. Known(c)'
    <3>1. \A e \in Range(q.kids) : row[e] = "live" => ledger'[e] # Unknown
      BY <1>1, <1>6, <1>11 DEF Known
    <3> QED
      BY <1>11, <1>12, <2>3, <2>4, <2>5, <3>1 DEF Known
  <2>14. Held(c)'
    <3>1. \A k \in 1 .. Len(q.kids) :
            /\ IsPrefix(q.base, q.targets[k])
            /\ Len(q.base) < Len(q.targets[k])
      BY <1>1, <1>4, <2>7 DEF Held
    <3>2. ASSUME NEW k \in 1 .. Len(q.kids), k # t
          PROVE  /\ results[k] = q.results[k] /\ ledger'[q.kids[k]] = ledger[q.kids[k]]
      <4>1. IsInjective(q.kids) /\ DOMAIN q.kids = 1 .. Len(q.kids)
        BY <1>1, <2>9, LenProperties
      <4>2. q.kids[k] # b
        BY <1>2, <3>2, <4>1 DEF IsInjective
      <4>3. q.kids[k] \in ID
        BY <1>1, ElementOfSeq
      <4> QED
        BY <1>2, <1>6, <2>2, <3>2, <4>2, <4>3
    <3>3. \A k \in 1 .. Len(q.kids) : results[k] = Pending =>
            ledger'[q.kids[k]] \in {q.base, Unknown}
      <4>1. \A k \in 1 .. Len(q.kids) : q.results[k] = Pending =>
              ledger[q.kids[k]] \in {q.base, Unknown}
        BY <1>1, <1>4, <1>6 DEF Held
      <4> QED
        BY <2>2, <2>8, <3>2, <4>1
    <3>4. \A k \in 1 .. Len(q.kids) : results[k] \notin {Pending, Failed} /\ row[q.kids[k]] = "live"
            => kv[q.kids[k]] = q.targets[k]
      <4>1. \A k \in 1 .. Len(q.kids) :
              q.results[k] \notin {Pending, Failed} /\ row[q.kids[k]] = "live"
                => kv[q.kids[k]] = q.targets[k]
        BY <1>1, <1>4, <1>6 DEF Held
      <4>2. result # Failed /\ row[b] = "live" => kv[b] = TargetOf(q)
        BY <1>1, <1>6 DEF Held, b
      <4> QED
        BY <1>2, <2>2, <3>2, <4>1, <4>2
    <3>5. \A e \in line[c] : row[e] = "live" =>
            IsPrefix(kv[e], q.base) /\ (e = on[c] => kv[e] = q.base)
      BY <1>1, <1>4, <2>7 DEF Held
    <3> QED
      BY <1>13, <2>3, <2>4, <2>5, <3>1, <3>3, <3>4, <3>5 DEF Held
  <2>15. Swept(c)'
    BY <2>3, <2>4, <2>5, <2>9 DEF Swept
  <2>16. TreeInv(c)'
    BY <1>10, <2>5, <2>10, <2>11, <2>12, <2>13, <2>14, <2>15 DEF TreeInv
  <2> QED
    BY <1>8, <1>9, <2>5, <2>6, <2>16, OneCaller
<1> QED
  BY <1>6, <1>15, <1>16, <1>17

\* A commit extends its branch, or fails.
LEMMA CommitExtendKeeps ==
    ASSUME AgentInv, NEW c \in Caller, CommitExtend(c)
    PROVE  AgentInv'
<1>1. call[c].at = "commit" /\ UNCHANGED <<order, row, parent, seq, ledger, on, rounds, line>>
  BY DEF CommitExtend
<1>2. CASE /\ ledger[Child(c)] # Unknown /\ row[Child(c)] = "live" /\ UNCHANGED faults
           /\ kv' = [kv EXCEPT ![Child(c)] =
                       @ \o SubSeq(Target(c), Len(ledger[Child(c)]) + 1, Len(Target(c)))]
           /\ Goto(c, "record")
  BY <1>1, <1>2, ExtendedKeeps
<1>3. CASE TurnEnds(c, Failed) /\ UNCHANGED kv /\ (UNCHANGED faults \/ Fault)
  <2>1. Failed \in Results
    BY DEF Results
  <2> QED
    BY <1>1, <1>3, <2>1, TurnEndsKeeps
<1> QED
  BY <1>2, <1>3 DEF CommitExtend, Extendable

\* A commit is recorded.
LEMMA CommitRecordKeeps ==
    ASSUME AgentInv, NEW c \in Caller, NEW result \in Results, CommitRecord(c, result)
    PROVE  AgentInv'
<1>1. /\ call[c].at = "record" /\ (IsRoot(c) => result # Failed)
      /\ ledger' = [ledger EXCEPT ![Child(c)] = Target(c)] /\ TurnEnds(c, result)
      /\ UNCHANGED <<order, row, parent, kv, seq, on, rounds, line, faults>>
  BY DEF CommitRecord, orchVars
<1> QED
  BY <1>1, TurnEndsKeeps

-----------------------------------------------------------------------------
\* Roots and rounds

\* The locals r of a fork of n branches: a root, or children of the caller's branch.
Begins(c, n, r) ==
    /\ r.at = "spawn" /\ Len(r.targets) = n /\ r.first = <<>> /\ r.again = <<>> /\ r.reaped = {}
    /\ on[c] = None => n = 1 /\ r.base = <<>>
    /\ on[c] # None => /\ row[on[c]] = "live" /\ r.base = ledger[on[c]] /\ r.base # Unknown
                       /\ \A k \in 1 .. n : StrictlyExtends(r.base, r.targets[k])

\* New branches are journaled under the caller's branch, or as a root if it has none.
LEMMA BeginKeeps ==
    ASSUME ~Reuse, AgentInv, NEW c \in Caller, NEW n \in Nat, NEW ids \in FreshIds(c, n),
           Journal(c, ids, on[c]), NEW r \in CallRecord, call' = [call EXCEPT ![c] = r],
           r.kids = ids, Begins(c, n, r), call[c].at \in {"idle", "round"},
           UNCHANGED <<kv, ledger, on, line, faults>>, rounds' \in [Caller -> Nat],
           \A d \in Caller : rounds'[d] <= MaxRounds[d]
    PROVE  AgentInv'
<1> DEFINE q == call[c]
<1>1. /\ Typed /\ TreeInv(c) /\ Owned(c) /\ Shape(q) /\ Chained(c) /\ Known(c) /\ Held(c)
      /\ Fresh(c) /\ line[c] \subseteq ID /\ on[c] \in ID \cup {None} /\ kv \in [ID -> Tokens]
  BY CallIs DEF AgentInv, TreeInv, Typed
<1>2. /\ RowsInOrder' /\ seq' \in [Caller -> 0 .. MaxBranches]
      /\ seq'[c] = seq[c] + n /\ \A d \in Caller \ {c} : seq'[d] = seq[d]
      /\ \A b \in Range(ids) : b \in ID /\ row[b] = "absent" /\ ledger[b] = Unknown
      /\ \A b \in ID : row'[b] = IF b \in Range(ids) THEN "forking" ELSE row[b]
      /\ \A b \in ID : parent'[b] = IF b \in Range(ids) THEN on[c] ELSE parent[b]
  BY <1>1, JournalIs
<1>3. /\ ids \in Seq(ID) /\ Len(ids) = n /\ IsInjective(ids) /\ seq[c] \in Nat
      /\ Range(ids) = {ids[k] : k \in 1 .. n}
      /\ \A b \in Range(ids) : b[1] = c /\ b[2] > seq[c] /\ b[2] <= seq[c] + n
  BY <1>1, FreshIdsAre
<1>4. \A b \in ID : b[2] \in Nat /\ b[1] \in Caller /\ b # None
  BY IdIs
<1>5. \A b \in ID : b[1] = c /\ b[2] <= seq[c] => b \notin Range(ids)
  BY <1>3, <1>4
<1>6. /\ \A b \in line[c] : b \in ID /\ b[1] = c /\ b[2] <= seq[c] /\ b \notin Range(ids)
      /\ on[c] # None => on[c] \in line[c]
  BY <1>1, <1>5 DEF Owned
<1>7. \A b \in line[c] : row'[b] = row[b] /\ parent'[b] = parent[b]
  BY <1>2, <1>6
<1>8. call'[c] = r /\ \A d \in Caller \ {c} : call'[d] = call[d]
  BY <1>1 DEF Typed
<1>9. Typed'
  BY <1>1, <1>2, TypedAfter, TypedSame
<1>10. GoneStay
  <2> SUFFICES ASSUME NEW b \in ID, row[b] = "absent", b[2] <= seq[b[1]]
               PROVE  row'[b] = "absent" /\ b[2] <= seq'[b[1]]
    BY DEF GoneStay
  <2>1. b \notin Range(ids)
    BY <1>3, <1>5
  <2>2. CASE b[1] = c
    <3>1. b[2] <= seq[c] /\ b[2] \in Nat /\ row'[b] = row[b]
      BY <1>2, <1>4, <2>1, <2>2
    <3>2. b[2] <= seq'[c]
      BY <1>2, <1>3, <3>1
    <3> QED
      BY <2>2, <3>1, <3>2
  <2>3. CASE b[1] # c
    BY <1>2, <1>4, <2>1, <2>3
  <2> QED
    BY <2>2, <2>3
<1>11. ASSUME NEW d \in Caller \ {c}
       PROVE  Decays(d) /\ Stays(d) /\ call'[d] = call[d]
  <2>1. \A b \in ID : b[1] = d => b \notin Range(ids)
    BY <1>3
  <2> QED
    BY <1>2, <1>8, <2>1 DEF Decays, Stays
<1>0. /\ r.at = "spawn" /\ Len(r.targets) = n /\ r.first = <<>> /\ r.again = <<>>
      /\ r.reaped = {} /\ r.kids = ids
  BY DEF Begins
<1>12. Busy(c)' /\ (Rooting(c)' <=> on[c] = None)
  <2>1. on[c] # None => ids # <<on[c]>>
    <3> SUFFICES ASSUME on[c] # None, ids = <<on[c]>>
                 PROVE  FALSE
      OBVIOUS
    <3>1. Len(ids) = 1 /\ ids[1] = on[c]
      OBVIOUS
    <3>2. on[c] \in Range(ids)
      BY <1>3, <3>1
    <3> QED
      BY <1>6, <3>2
  <2> QED
    BY <1>0, <1>8, <2>1 DEF Busy, Rooting
<1>13. Fresh(c)'
  <2> SUFFICES ASSUME NEW b \in ID, b[1] = c, b[2] > seq'[c]
               PROVE  row'[b] = "absent" /\ ledger[b] = Unknown
    BY DEF Fresh
  <2>1. b[2] > seq[c] /\ b \notin Range(ids)
    BY <1>2, <1>3, <1>4
  <2> QED
    BY <1>1, <1>2, <2>1 DEF Fresh
<1>14. Shape(r)
  BY <1>0, <1>3 DEF Shape
<1>15. Owned(c)'
  <2>1. ASSUME NEW b \in line[c]
        PROVE  b[1] = c /\ b[2] <= seq'[c] /\ b[2] <= on[c][2] /\ row'[b] # "forking"
    <3>1. b[1] = c /\ b[2] <= seq[c] /\ b[2] <= on[c][2] /\ row[b] # "forking"
      BY <1>1 DEF Owned
    <3>2. b[2] \in Nat /\ row'[b] = row[b]
      BY <1>4, <1>6, <1>7
    <3>3. b[2] <= seq'[c]
      BY <1>2, <1>3, <3>1, <3>2
    <3> QED
      BY <3>1, <3>2, <3>3
  <2>2. \A b \in Range(ids) : b[1] = c /\ b[2] <= seq'[c]
    BY <1>2, <1>3
  <2>3. on[c] # None => \A b \in Range(ids) : b[2] > on[c][2]
    <3> SUFFICES ASSUME on[c] # None, NEW b \in Range(ids)
                 PROVE  b[2] > on[c][2]
      OBVIOUS
    <3>1. /\ b[2] \in Nat /\ on[c][2] \in Nat /\ on[c][2] <= seq[c]
          /\ b[2] > seq[c]
      BY <1>2, <1>3, <1>4, <1>6
    <3> QED
      BY <1>3, <3>1
  <2>4. on[c] = None => line[c] = {}
    BY <1>1 DEF Owned
  <2>5. on[c] = None => Len(ids) = 1 /\ r.base = <<>>
    BY <1>3 DEF Begins
  <2> QED
    BY <1>0, <1>6, <1>8, <1>12, <2>1, <2>2, <2>3, <2>4, <2>5 DEF Owned
<1>16. Chained(c)'
  <2>1. \A b \in Range(ids) : parent'[b] = on[c]
    BY <1>2
  <2>2. /\ \A b \in line[c] : parent'[b] \in line[c] \cup {None}
        /\ \A b, d \in line[c] : d[2] < b[2] /\ row'[b] # "absent" =>
             parent'[b] \in line[c] /\ d[2] <= parent'[b][2] /\ parent'[b][2] < b[2]
    BY <1>1, <1>7 DEF Chained
  <2> QED
    BY <1>0, <1>8, <1>12, <2>1, <2>2 DEF Chained
<1>17. q.at # "record" /\ \A e \in ID : e[1] = c /\ row[e] = "live" /\ ledger[e] # Unknown =>
        ledger[e] = kv[e]
  BY <1>1 DEF Known
<1>18. Known(c)'
  <2>1. \A e \in ID : e[1] = c /\ row'[e] = "live" /\ ledger[e] # Unknown => ledger[e] = kv[e]
    BY <1>2, <1>17
  <2>2. on[c] # None /\ row'[on[c]] = "live" => ledger[on[c]] # Unknown
    BY <1>1, <1>6, <1>7 DEF Known
  <2>3. \A b \in Range(ids) : ledger[b] = Unknown
    BY <1>2
  <2> QED
    BY <1>0, <1>8, <2>1, <2>2, <2>3 DEF Known
<1>19. /\ r.base \in Tokens /\ \A k \in 1 .. n : r.targets[k] \in Tokens
  <2>1. r.base \in Prefix /\ r.targets \in Seq(Prefix)
    BY DEF CallRecord
  <2> QED
    BY <1>0, <2>1, ElementOfSeq, PrefixIs
<1>20. Held(c)'
  <2>1. ASSUME NEW k \in 1 .. n
        PROVE  /\ IsPrefix(r.base, r.targets[k])
               /\ on[c] # None => Len(r.base) < Len(r.targets[k])
    <3>1. CASE on[c] = None
      BY <1>19, <3>1, PrefixOrder DEF Begins
    <3>2. CASE on[c] # None
      BY <1>19, <3>2, ExtendsIs DEF Begins
    <3> QED
      BY <3>1, <3>2
  <2>2. \A k \in 1 .. n : row'[ids[k]] = "forking"
    BY <1>2, <1>3
  <2>3. ASSUME on[c] # None, NEW b \in line[c], row[b] = "live"
        PROVE  IsPrefix(kv[b], r.base) /\ (b = on[c] => kv[b] = r.base)
    <3>1. kv[on[c]] = r.base /\ row[on[c]] = "live"
      BY <1>6, <1>17, <2>3 DEF Begins
    <3>2. CASE b = on[c]
      BY <1>19, <3>1, <3>2, PrefixOrder
    <3>3. CASE b # on[c]
      BY <1>1, <2>3, <3>1, <3>3 DEF Held, IsStrictPrefix
    <3> QED
      BY <3>2, <3>3
  <2>4. \A b \in line[c] \ {on[c]} :
          row'[b] = "live" /\ row'[on[c]] = "live" => IsStrictPrefix(kv[b], kv[on[c]])
    <3>1. \A b \in line[c] \ {on[c]} : on[c] \in line[c]
      BY <1>1, <1>6 DEF Owned
    <3> QED
      BY <1>1, <1>7, <3>1 DEF Held
  <2> QED
    BY <1>0, <1>3, <1>7, <1>8, <1>12, <2>1, <2>2, <2>3, <2>4 DEF Held
<1>21. Swept(c)'
  <2>1. Range(<<>>) = {}
    BY AtIs DEF Stage
  <2> QED
    BY <1>0, <1>8, <2>1 DEF Swept
<1>22. TreeInv(c)'
  BY <1>8, <1>13, <1>14, <1>15, <1>16, <1>18, <1>20, <1>21 DEF TreeInv
<1> QED
  BY <1>9, <1>10, <1>11, <1>22, OneCaller

\* A root is prepared.
LEMMA PrepareRootKeeps ==
    ASSUME ~Reuse, AgentInv, NEW c \in Caller, NEW context \in Contexts, PrepareRoot(c, context)
    PROVE  AgentInv'
<1> DEFINE q == call[c]  targets == <<context>>
<1>1. Typed /\ Owned(c) /\ Shape(q) /\ q \in CallRecord
  BY CallIs DEF AgentInv, TreeInv
<1>2. q.at = "idle" /\ UNCHANGED <<kv, ledger, on, rounds, line, faults>>
  BY DEF PrepareRoot
<1>3. PICK ids \in FreshIds(c, 1) :
        /\ Journal(c, ids, None)
        /\ call' = [call EXCEPT ![c].at = "spawn", ![c].kids = ids, ![c].targets = targets]
  BY DEF PrepareRoot
<1>4. on[c] = None /\ q = At("idle")
  BY <1>1, <1>2 DEF Owned, Shape
<1>5. q.base = <<>> /\ q.first = <<>> /\ q.again = <<>> /\ q.reaped = {}
  BY <1>4, AtIs DEF Stage
<1>6. targets \in Seq(Prefix) /\ Len(targets) = 1 /\ ids \in Seq(ID)
  <2>1. context \in Prefix
    BY DEF Prefix
  <2> QED
    BY <1>1, <2>1, FreshIdsAre
<1> HIDE DEF targets
<1> DEFINE r == [q EXCEPT !.at = "spawn", !.kids = ids, !.targets = targets]
<1>7. call' = [call EXCEPT ![c] = r]
  BY <1>3
<1>8. /\ r \in CallRecord /\ r.at = "spawn" /\ r.base = q.base /\ r.targets = targets
      /\ r.kids = ids /\ r.first = q.first /\ r.again = q.again /\ r.reaped = q.reaped
  BY <1>1, <1>6 DEF CallRecord, Stage
<1> HIDE DEF r
<1>9. rounds' \in [Caller -> Nat] /\ \A d \in Caller : rounds'[d] <= MaxRounds[d]
  BY <1>1, <1>2, TypedSame
<1>10. Begins(c, 1, r)
  BY <1>4, <1>5, <1>6, <1>8 DEF Begins
<1>11. Journal(c, ids, on[c]) /\ 1 \in Nat
  BY <1>3, <1>4
<1> QED
  BY <1>2, <1>7, <1>8, <1>9, <1>10, <1>11, BeginKeeps

\* A round begins, or raises.
LEMMA RoundKeeps ==
    ASSUME ~Reuse, AgentInv, NEW c \in Caller, NEW continuations \in Rounds[c],
           Round(c, continuations)
    PROVE  AgentInv'
<1> DEFINE prefix == ledger[on[c]]
           good == /\ prefix # Unknown /\ row[on[c]] = "live"
                   /\ \A k \in DOMAIN continuations : StrictlyExtends(prefix, continuations[k])
           n == Len(continuations)
           q == At("spawn")
<1>1. Typed /\ Owned(c) /\ on[c] \in ID \cup {None}
  BY CallIs DEF AgentInv, TreeInv
<1>2. /\ call[c].at = "round" /\ rounds[c] < MaxRounds[c]
      /\ rounds' = [rounds EXCEPT ![c] = @ + 1] /\ UNCHANGED <<kv, ledger, on, line, faults>>
  BY DEF Round
<1>3. rounds' \in [Caller -> Nat] /\ \A d \in Caller : rounds'[d] <= MaxRounds[d]
  <2>1. rounds \in [Caller -> Nat] /\ MaxRounds \in [Caller -> Nat]
    BY <1>1, AgentAssumption DEF Typed
  <2> QED
    BY <1>1, <1>2, <2>1 DEF Typed
<1>4. on[c] # None /\ on[c] \in ID
  BY <1>1, <1>2 DEF Owned
<1>5. CASE Raise(c) /\ UNCHANGED <<order, row, parent, seq>>
  BY <1>2, <1>3, <1>5, Raises
<1>6. CASE /\ good
           /\ \E ids \in FreshIds(c, n) :
                /\ Journal(c, ids, on[c])
                /\ call' = [call EXCEPT ![c] = [q EXCEPT !.base = prefix,
                                                  !.targets = continuations, !.kids = ids]]
  <2>1. PICK ids \in FreshIds(c, n) :
          /\ Journal(c, ids, on[c])
          /\ call' = [call EXCEPT ![c] = [q EXCEPT !.base = prefix,
                                            !.targets = continuations, !.kids = ids]]
    BY <1>6
  <2>2. prefix \in Prefix /\ prefix # Unknown
    BY <1>1, <1>4, <1>6 DEF Typed
  <2>3. continuations \in Seq(Prefix) /\ n \in Nat /\ DOMAIN continuations = 1 .. n
    <3>1. continuations \in Seq(Seq(Nat \ {0}))
      BY AgentAssumption
    <3>2. n \in Nat /\ DOMAIN continuations = 1 .. n
      BY <3>1, LenProperties
    <3>3. \A k \in 1 .. n : continuations[k] \in Prefix
      BY <3>2 DEF Prefix, Range
    <3>4. continuations \in [1 .. n -> Prefix]
      BY <3>1, <3>2, <3>3, LenProperties
    <3> QED
      BY <3>2, <3>4
  <2>4. ids \in Seq(ID)
    BY <1>1, <2>3, FreshIdsAre
  <2>5. /\ q \in CallRecord /\ q.at = "spawn" /\ q.first = <<>> /\ q.again = <<>>
        /\ q.reaped = {}
    BY AtIs DEF Stage
  <2> HIDE DEF q
  <2> DEFINE r == [q EXCEPT !.base = prefix, !.targets = continuations, !.kids = ids]
  <2>6. /\ r \in CallRecord /\ r.at = "spawn" /\ r.base = prefix /\ r.targets = continuations
        /\ r.kids = ids /\ r.first = <<>> /\ r.again = <<>> /\ r.reaped = {}
    BY <2>2, <2>3, <2>4, <2>5 DEF CallRecord, Stage
  <2>7. call' = [call EXCEPT ![c] = r]
    BY <2>1
  <2> HIDE DEF r
  <2>8. \A k \in 1 .. n : StrictlyExtends(r.base, r.targets[k])
    BY <1>6, <2>3, <2>6
  <2>9. Begins(c, n, r)
    BY <1>4, <1>6, <2>2, <2>6, <2>8 DEF Begins
  <2> QED
    BY <1>2, <1>3, <2>1, <2>3, <2>6, <2>7, <2>9, BeginKeeps
<1> QED
  BY <1>5, <1>6 DEF Round

-----------------------------------------------------------------------------
\* The winner

\* The first of the best among the indices up to m in S, by score.
BestUpTo(S, score, m, k) ==
    /\ k \in S /\ k <= m
    /\ \A j \in S : j <= m => score[j] < score[k] \/ (score[j] = score[k] /\ j >= k)

\* There is one as soon as there is an index.
LEMMA FirstOfBest ==
    ASSUME NEW n \in Nat, NEW S \in SUBSET (1 .. n), S # {}, NEW score \in [1 .. n -> Nat]
    PROVE  \E k \in S : \A j \in S : score[j] < score[k] \/ (score[j] = score[k] /\ j >= k)
<1> DEFINE Good(m) == (\E j \in S : j <= m) => \E k \in S : BestUpTo(S, score, m, k)
           T == {m \in 0 .. n : Good(m)}
<1>1. 0 \in T
  BY DEF BestUpTo
<1>2. ASSUME NEW m \in 1 .. n, m - 1 \in T
      PROVE  m \in T
  <2> SUFFICES ASSUME NEW i \in S, i <= m
               PROVE  \E k \in S : BestUpTo(S, score, m, k)
    OBVIOUS
  <2>1. \A j \in S : j <= m => j <= m - 1 \/ j = m
    OBVIOUS
  <2>2. CASE \A j \in S : ~(j <= m - 1)
    <3>1. i = m /\ \A j \in S : j <= m => j = m
      BY <2>1, <2>2
    <3>2. BestUpTo(S, score, m, i)
      BY <3>1 DEF BestUpTo
    <3> QED
      BY <3>2
  <2>3. CASE \E j \in S : j <= m - 1
    <3>1. PICK k \in S : BestUpTo(S, score, m - 1, k)
      BY <1>2, <2>3
    <3>2. /\ k <= m - 1 /\ k <= m /\ score[k] \in Nat
          /\ \A j \in S : score[j] \in Nat
          /\ \A j \in S : j <= m - 1 => score[j] < score[k] \/ (score[j] = score[k] /\ j >= k)
      BY <3>1 DEF BestUpTo
    <3>3. CASE m \in S /\ score[m] > score[k]
      <4>1. \A j \in S : j <= m => score[j] < score[m] \/ j = m
        BY <2>1, <3>2, <3>3
      <4>2. BestUpTo(S, score, m, m)
        BY <3>3, <4>1 DEF BestUpTo
      <4> QED
        BY <3>3, <4>2
    <3>4. CASE ~(m \in S /\ score[m] > score[k])
      <4>1. m \in S => score[m] < score[k] \/ (score[m] = score[k] /\ m >= k)
        BY <3>2, <3>4
      <4>2. \A j \in S : j <= m => score[j] < score[k] \/ (score[j] = score[k] /\ j >= k)
        BY <2>1, <3>2, <4>1
      <4>3. BestUpTo(S, score, m, k)
        BY <3>2, <4>2 DEF BestUpTo
      <4> QED
        BY <4>3
    <3> QED
      BY <3>3, <3>4
  <2> QED
    BY <2>2, <2>3
<1>3. Climbs(T, n)
  <2> HIDE DEF T
  <2> QED
    BY <1>1, <1>2 DEF Climbs
<1> HIDE DEF Good
<1>4. Good(n)
  <2>1. n \in T
    <3> HIDE DEF T
    <3> QED
      BY <1>3, AllUpTo
  <2> QED
    BY <2>1
<1>5. \A j \in S : j <= n
  OBVIOUS
<1>6. \E k \in S : BestUpTo(S, score, n, k)
  <2>1. \E j \in S : j <= n
    BY <1>5
  <2> QED
    BY <1>4, <2>1 DEF Good
<1> QED
  BY <1>5, <1>6 DEF BestUpTo

\* select_winner returns a branch that was scored.
LEMMA WinnerIs ==
    ASSUME Typed, NEW c \in Caller, Shape(call[c]), call[c].at = "select", Scored(c) # {}
    PROVE  \E k \in 1 .. Len(call[c].kids) :
              /\ Winner(c) = call[c].kids[k]
              /\ call[c].results[k] \notin {Pending, Failed}
<1> DEFINE s == call[c].results  n == Len(s)  S == Scored(c)
<1>1. /\ s \in Seq(Results \cup {Pending}) /\ n \in Nat /\ n = Len(call[c].kids)
      /\ \A j \in 1 .. n : s[j] # Pending
  BY CallIs DEF Shape
<1>2. S \subseteq 1 .. n /\ \A k \in S : s[k] \notin {Pending, Failed}
  BY <1>1 DEF Scored
<1>3. \A j \in 1 .. n : s[j].score \in Nat
  <2> SUFFICES ASSUME NEW j \in 1 .. n
               PROVE  s[j].score \in Nat
    OBVIOUS
  <2>1. s[j] \in Results \cup {Pending}
    BY <1>1, ElementOfSeq
  <2> QED
    BY <2>1, AgentAssumption DEF Results, Result, Failed, Pending
<1> DEFINE score == [j \in 1 .. n |-> s[j].score]
<1>4. score \in [1 .. n -> Nat] /\ \A j \in S : score[j] = s[j].score
  BY <1>2, <1>3
<1> HIDE DEF n, S, score
<1>5. \E k \in S : \A j \in S : score[j] < score[k] \/ (score[j] = score[k] /\ j >= k)
  BY <1>1, <1>2, <1>4, FirstOfBest DEF S
<1> DEFINE Best(k) == \A j \in S : s[j].score < s[k].score \/ (s[j].score = s[k].score /\ j >= k)
           w == CHOOSE k \in S : Best(k)
<1>6. \E k \in S : Best(k)
  BY <1>4, <1>5
<1>7. w \in S
  <2> HIDE DEF Best
  <2> QED
    BY <1>6
<1>8. Winner(c) = call[c].kids[w]
  BY DEF Winner, S
<1> QED
  BY <1>1, <1>2, <1>7, <1>8

\* The winner is kept, and the sweep has its losers.
LEMMA ChosenKeeps ==
    ASSUME AgentInv, NEW c \in Caller, call[c].at = "select",
           Scored(c) # {}, row[Winner(c)] = "live",
           on' = [on EXCEPT ![c] = Winner(c)], line' = [line EXCEPT ![c] = @ \cup {Winner(c)}],
           call' = [call EXCEPT ![c].at = "sweep", ![c].first = Losers(Winner(c))],
           UNCHANGED <<order, row, parent, kv, seq, ledger, rounds, faults>>
    PROVE  AgentInv'
<1> DEFINE q == call[c]  w == Winner(c)  l == line[c] \cup {w}
           r == [q EXCEPT !.at = "sweep", !.first = Losers(w)]
<1>1. /\ Typed /\ TreeInv(c) /\ q \in CallRecord /\ Owned(c) /\ Shape(q) /\ Chained(c)
      /\ Known(c) /\ Held(c) /\ line[c] \subseteq ID /\ q.kids \in Seq(ID) /\ Fresh(c)
      /\ Len(q.kids) \in Nat /\ q.base \in Tokens /\ q.targets \in Seq(Prefix)
      /\ Range(q.kids) = {q.kids[k] : k \in 1 .. Len(q.kids)} /\ Range(q.kids) \subseteq ID
      /\ parent \in [ID -> ID \cup {None}] /\ kv \in [ID -> Tokens]
  BY CallIs, PrefixIs DEF AgentInv, TreeInv, Typed
<1>2. PICK k \in 1 .. Len(q.kids) : w = q.kids[k] /\ q.results[k] \notin {Pending, Failed}
  BY <1>1, WinnerIs
<1>3. w \in Range(q.kids) /\ w \in ID
  BY <1>1, <1>2
<1>4. Busy(c) /\ ~Rooting(c) /\ on[c] # None /\ on[c] \in line[c] /\ w[1] = c /\ w[2] <= seq[c]
  BY <1>1, <1>3 DEF Busy, Owned
<1> HIDE DEF w
<1>5. on[c] \in ID /\ w[2] > on[c][2] /\ w[2] \in Nat /\ on[c][2] \in Nat /\ w # None
  <2>1. on[c] \in ID /\ w[2] > on[c][2]
    BY <1>1, <1>3, <1>4 DEF Owned
  <2> QED
    BY <1>3, <2>1, IdIs
<1>6. \A b \in line[c] : /\ b \in ID /\ b[1] = c /\ b[2] <= seq[c] /\ row[b] # "forking"
                         /\ b[2] \in Nat /\ b[2] <= on[c][2] /\ b[2] < w[2]
  <2> SUFFICES ASSUME NEW b \in line[c]
               PROVE  /\ b \in ID /\ b[1] = c /\ b[2] <= seq[c] /\ row[b] # "forking"
                      /\ b[2] \in Nat /\ b[2] <= on[c][2] /\ b[2] < w[2]
    OBVIOUS
  <2>1. b \in ID /\ b[1] = c /\ b[2] <= seq[c] /\ row[b] # "forking" /\ b[2] <= on[c][2]
    BY <1>1 DEF Owned
  <2>2. b[2] \in Nat
    BY <2>1, IdIs
  <2> QED
    BY <1>5, <2>1, <2>2
<1>7. parent[w] = on[c]
  BY <1>1, <1>3, <1>4 DEF Chained, w
<1>8. k \in 1 .. Len(q.targets) /\ q.targets[k] \in Tokens /\ q.targets[k] \in Range(q.targets)
  <2>1. k \in 1 .. Len(q.targets) /\ DOMAIN q.targets = 1 .. Len(q.targets)
    BY <1>1, <1>2, LenProperties DEF Shape
  <2> QED
    BY <1>1, <2>1, ElementOfSeq, PrefixIs DEF Range
<1>9. /\ kv[w] = q.targets[k] /\ IsPrefix(q.base, q.targets[k])
      /\ Len(q.base) < Len(q.targets[k])
  BY <1>1, <1>2, <1>4 DEF Held, w
<1>10. order \in Seq(ID) /\ Range(order) = {b \in ID : row[b] # "absent"}
  BY <1>1 DEF Typed
<1>11. Losers(w) \in Seq(ID) /\ Range(Losers(w)) = Range(order) \cap (ID \ Kept(w))
  BY <1>10, OnlyIs DEF Losers
<1>12. call' = [call EXCEPT ![c] = r]
  BY DEF w
<1>13. /\ r \in CallRecord /\ r.at = "sweep" /\ r.kids = q.kids /\ r.targets = q.targets
       /\ r.first = Losers(w) /\ r.again = q.again /\ r.reaped = q.reaped /\ r.broken = q.broken
  BY <1>1, <1>11 DEF CallRecord, Stage
<1> HIDE DEF r
<1>14. /\ call'[c] = r /\ on'[c] = w /\ line'[c] = l
       /\ \A d \in Caller \ {c} : call'[d] = call[d] /\ on'[d] = on[d] /\ line'[d] = line[d]
  BY <1>1, <1>12 DEF Typed, w
<1>15. Typed'
  <2>1. on' \in [Caller -> ID \cup {None}] /\ line' \in [Caller -> SUBSET ID]
    BY <1>1, <1>3 DEF Typed, w
  <2> QED
    BY <1>1, <1>12, <1>13, <2>1, TypedAfter, TypedSame
<1>16. (\A d \in Caller : Decays(d)) /\ GoneStay
  BY NothingDecays
<1>17. \A d \in Caller \ {c} : Stays(d) /\ call'[d] = call[d]
  BY <1>14 DEF Stays
<1>18. ~Busy(c)'
  BY <1>13, <1>14 DEF Busy
<1>19. Fresh(c)'
  BY <1>1 DEF Fresh
<1>20. q.again = <<>> /\ q.reaped = {} /\ Range(<<>>) = {}
  BY <1>1, AtIs DEF Shape, Stage
<1>21. Shape(r)
  BY <1>1, <1>13 DEF Shape
<1>22. Owned(c)'
  <2>1. row[w] = "live"
    BY DEF w
  <2>2. \A b \in l : b[1] = c /\ b[2] <= seq[c] /\ b[2] <= w[2] /\ row[b] # "forking"
    BY <1>4, <1>5, <1>6, <2>1
  <2>3. \A b \in Range(q.kids) : b[1] = c /\ b[2] <= seq[c]
    BY <1>1 DEF Owned
  <2> QED
    BY <1>5, <1>13, <1>14, <1>18, <2>2, <2>3 DEF Owned
<1>23. /\ \A b \in l : parent[b] \in l \cup {None}
       /\ \A b, d \in l : d[2] < b[2] /\ row[b] # "absent" =>
            parent[b] \in l /\ d[2] <= parent[b][2] /\ parent[b][2] < b[2]
  <2>1. \A b \in l : parent[b] \in l \cup {None}
    BY <1>1, <1>4, <1>7 DEF Chained
  <2>2. ASSUME NEW b \in l, NEW d \in l, d[2] < b[2], row[b] # "absent"
        PROVE  parent[b] \in l /\ d[2] <= parent[b][2] /\ parent[b][2] < b[2]
    <3>1. CASE b = w
      <4>1. d # w /\ d \in line[c]
        BY <1>5, <2>2, <3>1
      <4> QED
        BY <1>4, <1>5, <1>6, <1>7, <3>1, <4>1
    <3>2. CASE b # w
      <4>1. b \in line[c] /\ d \in line[c]
        BY <1>5, <1>6, <2>2, <3>2
      <4> QED
        BY <1>1, <2>2, <4>1 DEF Chained
    <3> QED
      BY <3>1, <3>2
  <2> QED
    BY <2>1, <2>2
<1>24. Chained(c)'
  BY <1>14, <1>18, <1>23 DEF Chained
<1>25. Known(c)'
  <2>1. \A b \in ID : b[1] = c /\ row[b] = "live" /\ ledger[b] # Unknown => ledger[b] = kv[b]
    BY <1>1 DEF Known
  <2>2. \A b \in Range(q.kids) : row[b] = "live" => ledger[b] # Unknown
    BY <1>1 DEF Known
  <2> QED
    BY <1>3, <1>13, <1>14, <2>1, <2>2 DEF Known
<1>26. Held(c)'
  <2>1. ASSUME NEW b \in line[c], row[b] = "live"
        PROVE  IsStrictPrefix(kv[b], kv[w])
    <3>1. IsPrefix(kv[b], q.base) /\ kv[b] \in Tokens
      BY <1>1, <1>4, <1>6, <2>1 DEF Held
    <3> QED
      BY <1>1, <1>8, <1>9, <3>1, PrefixOrder
  <2> QED
    BY <1>8, <1>9, <1>13, <1>14, <1>18, <2>1 DEF Held
<1>27. Swept(c)'
  <2>1. l \in SUBSET ID /\ w \in l
    BY <1>1, <1>3
  <2>2. Kept(w) \subseteq l \cup {None}
    <3> HIDE DEF l
    <3> QED
      BY <1>1, <1>23, <2>1, KeptWithin
  <2>3. ASSUME \A b \in l : row[b] = "live"
        PROVE  l \cap Range(Losers(w)) = {}
    <3>1. Chain(c, l)
      BY <1>4, <1>6, <1>23, <2>3 DEF Chain
    <3>2. \A b \in l : b[2] <= w[2]
      BY <1>5, <1>6
    <3>3. l \subseteq Kept(w)
      <4> HIDE DEF l
      <4> QED
        BY <1>1, <2>1, <3>1, <3>2, KeptCovers
    <3> QED
      BY <1>11, <3>3
  <2>4. \A b \in ID : row[b] # "absent" => b \in l \cup Range(Losers(w))
    <3> SUFFICES ASSUME NEW b \in ID, row[b] # "absent", b \notin l
                 PROVE  b \in Range(Losers(w))
      OBVIOUS
    <3>1. b \notin Kept(w)
      <4>1. b # None
        BY IdIs
      <4> QED
        BY <2>2, <4>1
    <3> QED
      BY <1>10, <1>11, <3>1
  <2> HIDE DEF l
  <2> QED
    BY <1>13, <1>14, <1>20, <2>3, <2>4 DEF Swept
<1>28. TreeInv(c)'
  BY <1>14, <1>19, <1>21, <1>22, <1>24, <1>25, <1>26, <1>27 DEF TreeInv
<1> QED
  BY <1>15, <1>16, <1>17, <1>28, OneCaller

\* A winner is kept, or the round raises.
LEMMA SelectKeeps ==
    ASSUME AgentInv, NEW c \in Caller, Select(c)
    PROVE  AgentInv'
<1>1. call[c].at = "select" /\ UNCHANGED <<order, row, parent, kv, seq, ledger, rounds, faults>>
  BY DEF Select, orchVars
<1>2. CASE /\ Scored(c) # {} /\ row[Winner(c)] = "live"
           /\ on' = [on EXCEPT ![c] = Winner(c)]
           /\ line' = [line EXCEPT ![c] = @ \cup {Winner(c)}]
           /\ call' = [call EXCEPT ![c].at = "sweep", ![c].first = Losers(Winner(c))]
  BY <1>1, <1>2, ChosenKeeps
<1>3. CASE Raise(c) /\ UNCHANGED <<on, line>>
  <2>1. rounds' \in [Caller -> Nat] /\ \A d \in Caller : rounds'[d] <= MaxRounds[d]
    BY <1>1, TypedSame DEF AgentInv
  <2> QED
    BY <1>1, <1>3, <2>1, Raises
<1> QED
  BY <1>2, <1>3 DEF Select

-----------------------------------------------------------------------------
\* The invariant, and the theorems

\* Nothing has happened yet.
LEMMA AgentStarts == AgentInit => AgentInv
<1> SUFFICES ASSUME AgentInit
             PROVE  AgentInv
  OBVIOUS
<1>1. /\ At("idle") \in CallRecord /\ At("idle").at = "idle" /\ At("idle").kids = <<>>
      /\ At("idle").first = <<>> /\ At("idle").again = <<>> /\ At("idle").reaped = {}
      /\ At("idle").targets = <<>> /\ Range(<<>>) = {} /\ Len(<<>>) = 0 /\ IsInjective(<<>>)
  BY AtIs DEF Stage
<1>2. Typed
  <2>1. order \in Seq(ID) /\ Range(order) = {} /\ IsInjective(order)
    BY <1>1, EmptySeq DEF AgentInit
  <2>2. kv \in [ID -> Tokens] /\ ledger \in [ID -> Prefix \cup {Unknown}]
    BY PrefixIs DEF AgentInit
  <2>3. /\ row \in [ID -> {"absent", "forking", "live", "killing"}]
        /\ parent \in [ID -> ID \cup {None}] /\ {b \in ID : row[b] # "absent"} = {}
        /\ on \in [Caller -> ID \cup {None}] /\ line \in [Caller -> SUBSET ID]
        /\ call \in [Caller -> CallRecord]
    BY <1>1 DEF AgentInit
  <2>4. /\ seq \in [Caller -> 0 .. MaxBranches] /\ faults \in 0 .. MaxFaults
        /\ rounds \in [Caller -> Nat] /\ \A c \in Caller : rounds[c] <= MaxRounds[c]
    BY AgentAssumption DEF AgentInit
  <2> QED
    BY <2>1, <2>2, <2>3, <2>4 DEF Typed
<1>3. ASSUME NEW c \in Caller
      PROVE  TreeInv(c)
  <2>1. /\ call[c] = At("idle") /\ on[c] = None /\ line[c] = {}
        /\ \A b \in ID : row[b] = "absent" /\ ledger[b] = Unknown
    BY DEF AgentInit
  <2>2. ~Busy(c)
    BY <1>1, <2>1 DEF Busy
  <2>3. Fresh(c)
    BY <2>1 DEF Fresh
  <2>4. Shape(call[c])
    BY <1>1, <2>1 DEF Shape
  <2>5. Owned(c) /\ Chained(c) /\ Known(c)
    BY <1>1, <2>1, <2>2 DEF Owned, Chained, Known
  <2>6. Held(c) /\ Swept(c)
    BY <1>1, <2>1, <2>2 DEF Held, Swept
  <2> QED
    BY <2>3, <2>4, <2>5, <2>6 DEF TreeInv
<1> QED
  BY <1>2, <1>3 DEF AgentInv

\* A step that changes nothing.
LEMMA AgentStutters ==
    ASSUME AgentInv, UNCHANGED agentVars
    PROVE  AgentInv'
<1>1. UNCHANGED <<order, row, parent, kv, seq, ledger, call, on, rounds, line, faults>>
  BY DEF agentVars, orchVars
<1>2. Typed'
  BY <1>1 DEF AgentInv, Typed
<1>3. ASSUME NEW d \in Caller
      PROVE  TreeInv(d)'
  <2>1. Typed /\ TreeInv(d) /\ Decays(d) /\ Stays(d) /\ GoneStay /\ call'[d] = call[d]
    BY <1>1, NothingDecays DEF AgentInv, Stays
  <2> QED
    BY <2>1, Bystander
<1> QED
  BY <1>2, <1>3 DEF AgentInv

\* Every action keeps the invariant.
LEMMA AgentSteps ==
    ASSUME ~Reuse, AgentInv, AgentNext
    PROVE  AgentInv'
<1>1. ASSUME NEW c \in Caller, Step(c)
      PROVE  AgentInv'
  <2>1. CASE ForkRaises(c) \/ SweepRaises(c)
    BY <2>1, JustRaisesKeeps
  <2>2. CASE Enter(c)
    BY <2>2, EnterKeeps
  <2>3. CASE CommitExtend(c)
    BY <2>3, CommitExtendKeeps
  <2>4. CASE Select(c)
    BY <2>4, SelectKeeps
  <2>5. CASE Spawn(c)
    BY <2>5, SpawnKeeps
  <2>6. CASE SweepFirst(c)
    BY <2>6, SweepFirstKeeps
  <2>7. CASE SweepAgain(c)
    BY <2>7, SweepAgainKeeps
  <2>8. CASE Forget(c)
    BY <2>8, ForgetKeeps
  <2>9. CASE \E result \in Results : CommitRecord(c, result)
    BY <2>9, CommitRecordKeeps
  <2> QED
    BY <1>1, <2>1, <2>2, <2>3, <2>4, <2>5, <2>6, <2>7, <2>8, <2>9 DEF Step
<1>2. ASSUME NEW c \in Caller, Retry(c)
      PROVE  AgentInv'
  BY <1>2, RetryKeeps
<1>3. ASSUME NEW c \in Caller, NEW context \in Contexts, PrepareRoot(c, context)
      PROVE  AgentInv'
  BY <1>3, PrepareRootKeeps
<1>4. ASSUME NEW c \in Caller, NEW continuations \in Rounds[c], Round(c, continuations)
      PROVE  AgentInv'
  BY <1>4, RoundKeeps
<1>5. ASSUME NEW b \in ID, Lapse(b)
      PROVE  AgentInv'
  BY <1>5, LapseKeeps
<1> QED
  BY <1>1, <1>2, <1>3, <1>4, <1>5 DEF AgentNext

\* Where ids are the orchestrator's own, the invariant holds whatever callers do
\* and whichever calls of the backends fail.
THEOREM AgentInvariant == ~Reuse => (AgentSpec => []AgentInv)
<1> SUFFICES ASSUME ~Reuse
             PROVE  AgentSpec => []AgentInv
  OBVIOUS
<1>1. AgentInit => AgentInv
  BY AgentStarts
<1>2. AgentInv /\ [AgentNext]_agentVars => AgentInv'
  BY AgentSteps, AgentStutters
<1> QED
  BY <1>1, <1>2, PTL DEF AgentSpec

\* What the invariant says of types.
LEMMA TypesHold == AgentInv => AgentTypeOK
<1> SUFFICES ASSUME AgentInv
             PROVE  AgentTypeOK
  OBVIOUS
<1>1. Typed
  BY DEF AgentInv
<1>2. /\ Range(order) = {b \in ID : row[b] # "absent"} /\ IsInjective(order)
      /\ row \in [ID -> {"absent", "forking", "live", "killing"}]
      /\ parent \in [ID -> ID \cup {None}] /\ seq \in [Caller -> 0 .. MaxBranches]
      /\ ledger \in [ID -> Prefix \cup {Unknown}]
      /\ on \in [Caller -> ID \cup {None}] /\ line \in [Caller -> SUBSET ID]
      /\ faults \in 0 .. MaxFaults
  BY <1>1 DEF Typed
<1>3. ASSUME NEW S, NEW s \in Seq(S)
      PROVE  Range(s) \subseteq S
  BY ElementOfSeq, LenProperties DEF Range
<1>4. ASSUME NEW c \in Caller
      PROVE  /\ call[c].at \in Stage
             /\ call[c].base \in Prefix /\ Range(call[c].targets) \subseteq Prefix
             /\ Range(call[c].kids) \subseteq ID
             /\ Range(call[c].results) \subseteq Results \cup {Pending}
             /\ Range(call[c].first) \cup Range(call[c].again) \cup call[c].reaped \subseteq ID
             /\ call[c].broken \in BOOLEAN /\ rounds[c] \in 0 .. MaxRounds[c]
  <2>1. /\ call[c].at \in Stage /\ call[c].base \in Prefix
        /\ call[c].targets \in Seq(Prefix) /\ call[c].kids \in Seq(ID)
        /\ call[c].results \in Seq(Results \cup {Pending})
        /\ call[c].first \in Seq(ID) /\ call[c].again \in Seq(ID)
        /\ call[c].reaped \subseteq ID /\ call[c].broken \in BOOLEAN
    BY <1>1, CallIs
  <2>2. Range(call[c].targets) \subseteq Prefix
    BY <2>1, <1>3
  <2>3. Range(call[c].kids) \subseteq ID
    BY <2>1, <1>3
  <2>4. Range(call[c].results) \subseteq Results \cup {Pending}
    BY <2>1, <1>3
  <2>5. Range(call[c].first) \subseteq ID /\ Range(call[c].again) \subseteq ID
    BY <2>1, <1>3
  <2>6. rounds[c] \in 0 .. MaxRounds[c]
    BY <1>1, AgentAssumption DEF Typed
  <2> QED
    BY <2>1, <2>2, <2>3, <2>4, <2>5, <2>6
<1> QED
  BY <1>2, <1>4 DEF AgentTypeOK

\* What the invariant says of the ledger.
LEMMA LedgerHolds == AgentInv => LedgerSound
<1> SUFFICES ASSUME AgentInv
             PROVE  LedgerSound
  OBVIOUS
<1>1. Typed /\ \A c \in Caller : Known(c) /\ Owned(c)
  BY DEF AgentInv, TreeInv
<1>2. AgentTypeOK
  BY TypesHold
<1>3. LedgerIsKV
  <2> SUFFICES ASSUME NEW b \in ID, row[b] = "live", ledger[b] # Unknown
               PROVE  ledger[b] = kv[b] \/ \E c \in Caller : call[c].at = "record" /\ Child(c) = b
    BY DEF LedgerIsKV
  <2>1. b[1] \in Caller
    BY IdIs
  <2>2. ledger[b] = kv[b] \/ (call[b[1]].at = "record" /\ ChildOf(call[b[1]]) = b)
    BY <1>1, <2>1 DEF Known
  <2>3. Child(b[1]) = ChildOf(call[b[1]])
    BY TurnsAre
  <2> QED
    BY <2>1, <2>2, <2>3
<1>4. DroppedIsGone
  <2> SUFFICES ASSUME NEW c \in Caller, NEW b \in ID \cap (Range(call[c].kids) \cup {on[c]}),
                      call[c].at # "spawn", row[b] = "live"
               PROVE  ledger[b] # Unknown
    BY DEF DroppedIsGone
  <2>1. CASE b \in Range(call[c].kids)
    BY <1>1, <2>1 DEF Known
  <2>2. CASE b = on[c]
    <3>1. on[c] # None
      BY <2>2, IdIs
    <3> QED
      BY <1>1, <2>2, <3>1 DEF Known
  <2> QED
    BY <2>1, <2>2
<1> QED
  BY <1>2, <1>3, <1>4 DEF LedgerSound

\* The ledger says what the KV backend holds for every branch a caller still
\* works with, and does not lose one: the suffix that _commit charges is right.
THEOREM LedgerIsSound == ~Reuse => (AgentSpec => []LedgerSound)
<1> SUFFICES ASSUME ~Reuse
             PROVE  AgentSpec => []LedgerSound
  OBVIOUS
<1>1. AgentSpec => []AgentInv
  BY AgentInvariant
<1>2. AgentInv => LedgerSound
  BY LedgerHolds
<1> QED
  BY <1>1, <1>2, PTL

\* A round's winner was committed, and strictly extends every live branch of
\* its line.
THEOREM WinnersExtend == ~Reuse => (AgentSpec => []WinnerExtends)
<1> SUFFICES ASSUME ~Reuse
             PROVE  AgentSpec => []WinnerExtends
  OBVIOUS
<1>1. AgentSpec => []AgentInv
  BY AgentInvariant
<1>2. AgentInv => WinnerExtends
  BY DEF AgentInv, TreeInv, Held, WinnerExtends, StrictLineage, WinnerCommitted
<1> QED
  BY <1>1, <1>2, PTL

\* kill_losers spares the winner and all its ancestors.
THEOREM LinesSpared == ~Reuse => (AgentSpec => []LineSpared)
<1> SUFFICES ASSUME ~Reuse
             PROVE  AgentSpec => []LineSpared
  OBVIOUS
<1>1. AgentSpec => []AgentInv
  BY AgentInvariant
<1>2. AgentInv => LineSpared
  BY DEF AgentInv, TreeInv, Swept, LineSpared
<1> QED
  BY <1>1, <1>2, PTL

\* A sweep that returned has left nothing of the caller's tree but the line.
LEMMA SweepReturns ==
    ASSUME AgentInv, [AgentNext]_agentVars, NEW c \in Caller,
           call[c].at = "sweep", call'[c].at \in {"round", "done"},
           NEW b \in ID, b[1] = c, row'[b] # "absent"
    PROVE  b \in line[c]
<1>1. Typed /\ call[c] \in CallRecord /\ Swept(c) /\ Shape(call[c])
  BY CallIs DEF AgentInv, TreeInv
<1>2. At("raised").at = "raised" /\ Range(<<>>) = {}
  BY AtIs DEF Stage
<1>3. ASSUME NEW d \in Caller, NEW r, call' = [call EXCEPT ![d] = r]
      PROVE  d = c /\ r.at \in {"round", "done"}
  <2>1. c # d => call'[c] = call[c]
    BY <1>1, <1>3 DEF Typed
  <2>2. c = d => call'[c] = r
    BY <1>1, <1>3 DEF Typed
  <2> QED
    BY <2>1, <2>2
<1>4. ASSUME NEW d \in Caller, Forget(d)
      PROVE  b \in line[c]
  <2>1. d = c
    BY <1>3, <1>4 DEF Forget
  <2>2. /\ call[c].first = <<>> /\ call[c].again = <<>> /\ ~call[c].broken /\ row' = row
    BY <1>4, <2>1 DEF Forget, Retrying, orchVars
  <2> QED
    BY <1>1, <1>2, <2>2 DEF Swept
<1>5. ASSUME NEW d \in Caller, call[d].at # "sweep", NEW r, call' = [call EXCEPT ![d] = r]
      PROVE  FALSE
  BY <1>3, <1>5
<1>6. ASSUME NEW d \in Caller, NEW r, call' = [call EXCEPT ![d] = r], r.at \notin {"round", "done"}
      PROVE  FALSE
  BY <1>3, <1>6
<1>7. ~UNCHANGED call
  OBVIOUS
<1>8. ASSUME NEW d \in Caller, Step(d), ~Forget(d)
      PROVE  FALSE
  <2>1. call[d] \in CallRecord
    BY <1>1, CallIs
  <2>2. CASE ForkRaises(d) \/ SweepRaises(d)
    BY <1>2, <1>6, <2>2 DEF ForkRaises, SweepRaises, Raise
  <2>3. CASE Enter(d) \/ Select(d)
    BY <1>5, <2>3 DEF Enter, Select, Raise
  <2>4. CASE CommitExtend(d)
    <3>1. call[d].at = "commit" /\ (Goto(d, "record") \/ TurnEnds(d, Failed))
      BY <2>4 DEF CommitExtend
    <3>2. CASE Goto(d, "record")
      BY <1>5, <3>1, <3>2 DEF Goto
    <3>3. CASE TurnEnds(d, Failed)
      BY <1>5, <3>1, <3>3 DEF TurnEnds
    <3> QED
      BY <3>1, <3>2, <3>3
  <2>5. CASE Spawn(d)
    BY <1>5, <1>7, <2>5 DEF Spawn
  <2>6. CASE SweepFirst(d)
    <3>1. call[d].at = "sweep"
      BY <2>6 DEF SweepFirst
    <3> DEFINE q == call[d]
               x == [q EXCEPT !.first = Tail(@), !.reaped = @ \cup {Head(q.first)}]
               y == [q EXCEPT !.first = Tail(@), !.again = Append(@, Head(q.first))]
               z == [q EXCEPT !.first = Tail(@), !.broken = TRUE]
    <3>2. \/ call' = [call EXCEPT ![d] = x]
          \/ call' = [call EXCEPT ![d] = y]
          \/ call' = [call EXCEPT ![d] = z]
      BY <2>6 DEF SweepFirst
    <3>3. x.at = "sweep" /\ y.at = "sweep" /\ z.at = "sweep"
      BY <2>1, <3>1 DEF CallRecord
    <3> HIDE DEF x, y, z
    <3> QED
      BY <1>6, <3>2, <3>3
  <2>7. CASE SweepAgain(d)
    <3>1. call[d].at = "sweep"
      BY <2>7 DEF SweepAgain, Retrying
    <3>2. PICK r : call' = [call EXCEPT ![d] = r] /\ r.at \in {"sweep", "raised"}
      BY <1>2, <2>1, <2>7, <3>1 DEF SweepAgain, CallRecord, Raise
    <3> QED
      BY <1>6, <3>2
  <2>8. CASE \E result \in Results : CommitRecord(d, result)
    BY <1>5, <2>8 DEF CommitRecord, TurnEnds
  <2> QED
    BY <1>8, <2>2, <2>3, <2>4, <2>5, <2>6, <2>7, <2>8 DEF Step
<1>9. ASSUME NEW d \in Caller, Retry(d)
      PROVE  FALSE
  BY <1>5, <1>9 DEF Retry, Goto
<1>10. ASSUME NEW d \in Caller, NEW context \in Contexts, PrepareRoot(d, context)
       PROVE  FALSE
  <2>1. PICK ids : call' = [call EXCEPT ![d].at = "spawn", ![d].kids = ids,
                                        ![d].targets = <<context>>]
    BY <1>10 DEF PrepareRoot
  <2>2. call[d].at = "idle"
    BY <1>10 DEF PrepareRoot
  <2> DEFINE r == [call[d] EXCEPT !.at = "spawn", !.kids = ids, !.targets = <<context>>]
  <2>3. call' = [call EXCEPT ![d] = r]
    BY <2>1
  <2> HIDE DEF r
  <2> QED
    BY <1>5, <2>2, <2>3
<1>11. ASSUME NEW d \in Caller, NEW continuations \in Rounds[d], Round(d, continuations)
       PROVE  FALSE
  BY <1>5, <1>11 DEF Round, Raise
<1>12. ASSUME NEW e \in ID, Lapse(e)
       PROVE  FALSE
  BY <1>7, <1>12 DEF Lapse
<1>13. CASE UNCHANGED agentVars
  BY <1>7, <1>13 DEF agentVars
<1>14. CASE AgentNext
  BY <1>4, <1>8, <1>9, <1>10, <1>11, <1>12, <1>14 DEF AgentNext
<1> QED
  BY <1>13, <1>14

\* The final winner is the only live leaf of the caller's tree.
THEOREM SoleLeafLeft == ~Reuse => (AgentSpec => SoleLeaf)
<1> SUFFICES ASSUME ~Reuse
             PROVE  AgentSpec => SoleLeaf
  OBVIOUS
<1>1. AgentSpec => []AgentInv
  BY AgentInvariant
<1>2. AgentInv /\ [AgentNext]_agentVars =>
        [\A c \in Caller : call[c].at = "sweep" /\ call'[c].at \in {"round", "done"} =>
            \A b \in ID : b[1] = c /\ row'[b] # "absent" => b \in line[c]]_agentVars
  BY SweepReturns
<1> QED
  BY <1>1, <1>2, PTL DEF AgentSpec, SoleLeaf
=============================================================================
