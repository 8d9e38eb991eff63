------------------------------ MODULE TreeAgent ------------------------------
(***************************************************************************)
(* The agent loop of agentfork/harness/agent.py: callers that share one     *)
(* TreeAgent prepare a root, fan out, score, keep a winner, kill the losers *)
(* and fork the winner again, each in a thread of its own.                  *)
(*                                                                         *)
(* The orchestrator is here as the agent sees it: rows that a fork makes    *)
(* one child at a time and a sweep takes away one loser at a time, in order *)
(* (the sandbox is not parallel_lifecycle); what happens inside one spawn   *)
(* or one kill, and the pool, are module Orchestrator.  Roots are also      *)
(* collected behind the agent's back, when their lease runs out.            *)
(* The KV half is the token sequence of each branch.  This is the token     *)
(* path: _unit's encoding maps a text prefix to a token prefix.             *)
(***************************************************************************)
EXTENDS Naturals, FiniteSets, SequencesExt

CONSTANTS
    Caller,       \* threads that use the agent
    Contexts,     \* token sequences a caller may prepare its root with, tokens from 1
    Rounds,       \* per caller: the lists of continuations it may pass to a round
    Scores,       \* what an evaluator returns
    Depth,        \* per caller: rounds it means to run
    Reuse,        \* callers pass child_ids and may pass a dead branch's id again
    MaxBranches,  \* bound: branch ids of one tree
    MaxRounds,    \* bound, per caller: rounds begun
    MaxFaults     \* bound: orchestrator calls that raise, and leases that run out

\* A branch is known by the caller whose tree it is in and a number: the ids
\* _next_child_id makes begin with the parent's.
ID == Caller \X (1 .. MaxBranches)

ASSUME AgentAssumption ==
    /\ Caller \subseteq Nat \ {0} /\ IsFiniteSet(Caller)
    /\ Contexts \subseteq Seq(Nat \ {0}) /\ IsFiniteSet(Contexts)
    /\ \A c \in Caller : Rounds[c] \subseteq Seq(Seq(Nat \ {0})) /\ IsFiniteSet(Rounds[c])
    /\ Scores \subseteq Nat /\ IsFiniteSet(Scores)
    /\ Reuse \in BOOLEAN
    /\ Depth \in [Caller -> Nat] /\ MaxRounds \in [Caller -> Nat]
    /\ MaxBranches \in Nat /\ MaxFaults \in Nat

None    == <<0, 0>>  \* no branch
Unknown == <<0>>     \* no row in the ledger

\* What becomes of a branch of a round.
Pending   == [is |-> "pending", score |-> 0]
Failed    == [is |-> "failed", score |-> 0]
Result(n) == [is |-> "scored", score |-> n]
Results   == {Result(n) : n \in Scores} \cup {Failed}

VARIABLES
    order,    \* _branches of the orchestrator, a dict: its ids as they were entered
    row,      \* the state of each
    parent,   \* parent_id of each row
    kv,       \* tokens the KV backend holds for the branch
    seq,      \* _seq, per tree: ids handed out so far
    ledger,   \* _prefix of the agent
    call,     \* per caller: where its call stands, and the call's locals
    on,       \* per caller: the branch it forks (the root, then a winner)
    rounds,   \* per caller: rounds begun
    line,     \* history, per caller: the root and the winners so far
    faults

orchVars  == <<order, row, parent, kv, seq>>
agentVars == <<orchVars, ledger, call, on, rounds, line, faults>>

Stage  == {"idle", "spawn", "commit", "record", "round", "select", "sweep", "done", "raised"}
Prefix == {<<>>} \cup Contexts \cup UNION {Range(s) : s \in UNION {Rounds[c] : c \in Caller}}

\* Nothing but a stage: no round and no sweep under way.
At(stage) == [at |-> stage, base |-> <<>>, targets |-> <<>>, kids |-> <<>>, results |-> <<>>,
              first |-> <<>>, again |-> <<>>, reaped |-> {}, broken |-> FALSE]

\* Every variable has its type; what the KV backend holds is some sequence.
AgentTypeOK ==
    /\ Range(order) = {b \in ID : row[b] # "absent"} /\ IsInjective(order)
    /\ row \in [ID -> {"absent", "forking", "live", "killing"}]
    /\ parent \in [ID -> ID \cup {None}]
    /\ seq \in [Caller -> 0 .. MaxBranches]
    /\ ledger \in [ID -> Prefix \cup {Unknown}]
    /\ \A c \in Caller :
        /\ call[c].at \in Stage
        /\ call[c].base \in Prefix /\ Range(call[c].targets) \subseteq Prefix
        /\ Range(call[c].kids) \subseteq ID /\ Range(call[c].results) \subseteq Results \cup {Pending}
        /\ Range(call[c].first) \cup Range(call[c].again) \cup call[c].reaped \subseteq ID
        /\ call[c].broken \in BOOLEAN
        /\ rounds[c] \in 0 .. MaxRounds[c]
    /\ on \in [Caller -> ID \cup {None}] /\ line \in [Caller -> SUBSET ID]
    /\ faults \in 0 .. MaxFaults

AgentInit ==
    /\ order = <<>>
    /\ row = [b \in ID |-> "absent"] /\ parent = [b \in ID |-> None]
    /\ kv = [b \in ID |-> <<>>] /\ seq = [c \in Caller |-> 0]
    /\ ledger = [b \in ID |-> Unknown]
    /\ call = [c \in Caller |-> At("idle")]
    /\ on = [c \in Caller |-> None] /\ line = [c \in Caller |-> {}]
    /\ rounds = [c \in Caller |-> 0]
    /\ faults = 0

Fault == faults < MaxFaults /\ faults' = faults + 1
Goto(c, stage) == call' = [call EXCEPT ![c].at = stage]

\* An exception reaches the caller: the locals of the call are gone.
Raise(c) == call' = [call EXCEPT ![c] = At("raised")]

\* The elements of s that are in S, in their order: SelectSeq, as a recursion.
Only(s, S) == LET upTo[n \in 0 .. Len(s)] ==
                      IF n = 0 THEN <<>>
                      ELSE IF s[n] \in S THEN Append(upTo[n - 1], s[n]) ELSE upTo[n - 1]
              IN  upTo[Len(s)]

\* Mutant: the row leaves the registry's file and not its memory.
HalfGone(b) ==
    /\ row' = [row EXCEPT ![b] = "absent"] /\ kv' = [kv EXCEPT ![b] = <<>>]
    /\ parent' = [parent EXCEPT ![b] = None] /\ UNCHANGED order

\* A branch leaves both backends and the registry.
Gone(b) ==
    /\ row' = [row EXCEPT ![b] = "absent"] /\ kv' = [kv EXCEPT ![b] = <<>>]
    /\ order' = Only(order, ID \ {b}) /\ parent' = [parent EXCEPT ![b] = None]

\* Mutant: a continuation only has to be longer.
LongerOnly(prefix, candidate) == Len(candidate) > Len(prefix)

\* Mutant: a continuation may be the committed prefix itself.
SameWillDo(prefix, candidate) == IsPrefix(prefix, candidate)

StrictlyExtends(prefix, candidate) ==
    Len(candidate) > Len(prefix) /\ SubSeq(candidate, 1, Len(prefix)) = prefix

-----------------------------------------------------------------------------
\* The orchestrator's part of prepare_root and fan_out

\* Ids for n new branches: the next numbers, or any the registry does not hold.
FreshIds(c, n) ==
    IF Reuse
    THEN {s \in [1 .. n -> {b \in ID : b[1] = c /\ row[b] = "absent"}] : IsInjective(s)}
    ELSE {s \in {[k \in 1 .. n |-> <<c, seq[c] + k>>]} : seq[c] + n <= MaxBranches}

\* Rows are journaled as forking, all of them in one write.
Journal(c, ids, p) ==
    /\ order' = order \o ids
    /\ row' = [b \in ID |-> IF b \in Range(ids) THEN "forking" ELSE row[b]]
    /\ parent' = [b \in ID |-> IF b \in Range(ids) THEN p ELSE parent[b]]
    /\ seq' = IF Reuse THEN seq ELSE [seq EXCEPT ![c] = @ + Len(ids)]

\* prepare_root: create_parent journals the root.
PrepareRoot(c, context) ==
    /\ call[c].at = "idle"
    /\ \E ids \in FreshIds(c, 1) :
        /\ Journal(c, ids, None)
        /\ call' = [call EXCEPT ![c].at = "spawn", ![c].kids = ids, ![c].targets = <<context>>]
    /\ UNCHANGED <<kv, ledger, on, rounds, line, faults>>

Settled(c) == \A b \in Range(call[c].kids) : row[b] # "forking"

\* One branch is spawned: it shares its parent's tokens and goes live, unless a
\* backend raises or its parent died meanwhile; then it is rolled back.
Spawn(c) ==
    LET b        == Only(call[c].kids, {k \in ID : row[k] = "forking"})[1]
        p        == parent[b]
        orphaned == p # None /\ row[p] # "live"
    IN
    /\ call[c].at = "spawn" /\ ~Settled(c)
    /\ \/ /\ ~orphaned
          /\ row' = [row EXCEPT ![b] = "live"]
          /\ kv' = [kv EXCEPT ![b] = IF p = None THEN <<>> ELSE kv[p]]
          /\ UNCHANGED <<order, parent, call, faults>>
       \/ /\ IF orphaned THEN UNCHANGED faults ELSE Fault
          /\ Gone(b)
          /\ call' = [call EXCEPT ![c].broken = TRUE]
    /\ UNCHANGED <<seq, ledger, on, rounds, line>>

\* Every child settled and one of them failed: fork raises.
ForkRaises(c) ==
    /\ call[c].at = "spawn" /\ Settled(c) /\ call[c].broken
    /\ Raise(c)
    /\ UNCHANGED <<orchVars, ledger, on, rounds, line, faults>>

\* Every child went live: the new branches enter the ledger with what they inherit.
\* A round of no continuations has no commits to make, and nobody to choose from.
Enter(c) ==
    LET kids == call[c].kids IN
    /\ call[c].at = "spawn" /\ Settled(c) /\ ~call[c].broken
    /\ ledger' = [b \in ID |-> IF b \in Range(kids) THEN call[c].base ELSE ledger[b]]
    /\ call' = [call EXCEPT ![c].at = IF kids = <<>> THEN "select" ELSE "commit",
                            ![c].results = [k \in 1 .. Len(kids) |-> Pending]]
    /\ on' = IF on[c] = None THEN [on EXCEPT ![c] = kids[1]] ELSE on
    /\ line' = IF on[c] = None THEN [line EXCEPT ![c] = {kids[1]}] ELSE line
    /\ UNCHANGED <<orchVars, rounds, faults>>

-----------------------------------------------------------------------------
\* _commit, then the branch's work and its score, one child after the other

\* The child whose turn it is, and what it is to hold.
Turn(c)   == CHOOSE k \in 1 .. Len(call[c].results) :
                 /\ call[c].results[k] = Pending
                 /\ \A j \in 1 .. k - 1 : call[c].results[j] # Pending
Child(c)  == call[c].kids[Turn(c)]
Target(c) == call[c].targets[Turn(c)]

\* The turn ends with a score or an error.  An error in prepare_root, where the
\* root is the only child, reaches the caller (it does no work: any score will
\* do); one in fan_out is noted.
IsRoot(c) == call[c].kids = <<on[c]>>

TurnEnds(c, result) ==
    IF IsRoot(c)
    THEN call' = [call EXCEPT ![c] = At(IF result = Failed THEN "raised" ELSE "round")]
    ELSE call' = [call EXCEPT ![c].results[Turn(c)] = result,
                              ![c].at = IF Turn(c) < Len(call[c].results) THEN "commit" ELSE "select"]

\* extend finds the branch live, or raises.
Extendable(b) == row[b] = "live"

\* The committed prefix is read and the suffix after it is charged.  By now the
\* branch may be gone, and its row in the ledger too.
CommitExtend(c) ==
    LET b      == Child(c)
        known  == ledger[b] # Unknown /\ Extendable(b)
        suffix == SubSeq(Target(c), Len(ledger[b]) + 1, Len(Target(c)))
    IN
    /\ call[c].at = "commit"
    /\ \/ /\ known /\ UNCHANGED faults
          /\ kv' = [kv EXCEPT ![b] = @ \o suffix]
          /\ Goto(c, "record")
       \/ /\ IF known THEN Fault ELSE UNCHANGED faults
          /\ TurnEnds(c, Failed) /\ UNCHANGED kv
    /\ UNCHANGED <<order, row, parent, seq, ledger, on, rounds, line>>

\* The commit is recorded; then the caller's work and evaluator, which touch
\* nothing here: any score, or an error.
CommitRecord(c, result) ==
    /\ call[c].at = "record" /\ (IsRoot(c) => result # Failed)
    /\ ledger' = [ledger EXCEPT ![Child(c)] = Target(c)]
    /\ TurnEnds(c, result)
    /\ UNCHANGED <<orchVars, on, rounds, line, faults>>

-----------------------------------------------------------------------------
\* run_round

\* fan_out: every continuation is held against the parent's committed prefix
\* before anything is forked, and fork refuses a parent that is not live.
Round(c, continuations) ==
    LET prefix == ledger[on[c]]
        good   == /\ prefix # Unknown /\ row[on[c]] = "live"
                  /\ \A k \in DOMAIN continuations : StrictlyExtends(prefix, continuations[k])
    IN
    /\ call[c].at = "round" /\ rounds[c] < MaxRounds[c]
    /\ rounds' = [rounds EXCEPT ![c] = @ + 1]
    /\ \/ /\ good
          /\ \E ids \in FreshIds(c, Len(continuations)) :
              /\ Journal(c, ids, on[c])
              /\ call' = [call EXCEPT ![c] = [At("spawn") EXCEPT !.base = prefix,
                                                !.targets = continuations, !.kids = ids]]
       \/ ~good /\ Raise(c) /\ UNCHANGED <<order, row, parent, seq>>
    /\ UNCHANGED <<kv, ledger, on, line, faults>>

\* Mutant: a failed branch competes, with the score it started from.
ScoredOrFailed(c) == 1 .. Len(call[c].results)

Scored(c) == {k \in 1 .. Len(call[c].results) : call[c].results[k] # Failed}

\* select_winner: the first of the best.
Winner(c) == call[c].kids[CHOOSE k \in Scored(c) :
    LET score(j) == call[c].results[j].score IN
    \A j \in Scored(c) : score(j) < score(k) \/ (score(j) = score(k) /\ j >= k)]

\* Mutant: only the winner and its parent are kept.
ParentOnly(w) == {w, parent[w]}

\* The winner and its ancestors, up to the first whose row is gone.
Kept(w) == LET up[n \in 0 .. Cardinality(ID)] ==
                   IF n = 0 THEN {w}
                   ELSE UNION {IF b = None THEN {b} ELSE {b, parent[b]} : b \in up[n - 1]}
           IN  up[Cardinality(ID)]

\* Mutant: the losers are the branches the agent knows.
LedgerLosers(w) == Only(order, {b \in ID : b \notin Kept(w) /\ ledger[b] # Unknown})

Losers(w) == Only(order, ID \ Kept(w))

\* kill_losers: the winner has to be live, and every row outside its chain is a
\* loser, whoever made it.
Select(c) ==
    /\ call[c].at = "select"
    /\ \/ /\ Scored(c) # {} /\ row[Winner(c)] = "live"
          /\ on' = [on EXCEPT ![c] = Winner(c)]
          /\ line' = [line EXCEPT ![c] = @ \cup {Winner(c)}]
          /\ call' = [call EXCEPT ![c].at = "sweep", ![c].first = Losers(Winner(c))]
       \/ /\ Scored(c) # {} => row[Winner(c)] # "live"
          /\ Raise(c) /\ UNCHANGED <<on, line>>
    /\ UNCHANGED <<orchVars, ledger, rounds, faults>>

-----------------------------------------------------------------------------
\* The sweep: the losers are tried one after the other; then the ones a fork
\* was still at work on are waited for

\* kill: a receipt, or an error that leaves the row journaled as killing.
Reapable(b) == row[b] \in {"live", "killing"}

KillFails(b) ==
    /\ Reapable(b) /\ Fault
    /\ row' = [row EXCEPT ![b] = "killing"]
    /\ UNCHANGED <<order, parent, kv>>

SweepFirst(c) ==
    LET b == Head(call[c].first) IN
    /\ call[c].at = "sweep" /\ call[c].first # <<>>
    /\ \/ /\ Reapable(b) /\ Gone(b) /\ UNCHANGED faults
          /\ call' = [call EXCEPT ![c].first = Tail(@), ![c].reaped = @ \cup {b}]
       \/ /\ ~Reapable(b) /\ UNCHANGED <<order, row, parent, kv, faults>>
          /\ call' = [call EXCEPT ![c].first = Tail(@), ![c].again = Append(@, b)]
       \/ /\ KillFails(b)
          /\ call' = [call EXCEPT ![c].first = Tail(@), ![c].broken = TRUE]
    /\ UNCHANGED <<seq, ledger, on, rounds, line>>

\* Mutant: the ledger drops a sweep's losers even when the sweep raised.
SweepRaisesForgets(c) ==
    /\ call[c].at = "sweep" /\ call[c].first = <<>> /\ call[c].broken
    /\ Raise(c)
    /\ ledger' = [b \in ID |-> IF b \in Kept(on[c]) THEN ledger[b] ELSE Unknown]
    /\ UNCHANGED <<orchVars, on, rounds, line, faults>>

\* All were tried: an error among them is raised now, and the receipts are lost.
SweepRaises(c) ==
    /\ call[c].at = "sweep" /\ call[c].first = <<>> /\ call[c].broken
    /\ Raise(c)
    /\ UNCHANGED <<orchVars, ledger, on, rounds, line, faults>>

Retrying(c) == call[c].at = "sweep" /\ call[c].first = <<>> /\ ~call[c].broken

\* Mutant: a row that is gone is not noticed.
NeverGivesUp(c) ==
    LET b == Head(call[c].again) IN
    /\ Retrying(c) /\ call[c].again # <<>>
    /\ Reapable(b) /\ Gone(b) /\ UNCHANGED faults
    /\ call' = [call EXCEPT ![c].again = Tail(@), ![c].reaped = @ \cup {b}]
    /\ UNCHANGED <<seq, ledger, on, rounds, line>>

\* A fork in flight settles; a row that is gone needs no receipt.
SweepAgain(c) ==
    LET b == Head(call[c].again) IN
    /\ Retrying(c) /\ call[c].again # <<>>
    /\ \/ /\ Reapable(b) /\ Gone(b) /\ UNCHANGED faults
          /\ call' = [call EXCEPT ![c].again = Tail(@), ![c].reaped = @ \cup {b}]
       \/ /\ row[b] = "absent" /\ UNCHANGED <<order, row, parent, kv, faults>>
          /\ call' = [call EXCEPT ![c].again = Tail(@)]
       \/ KillFails(b) /\ Raise(c)
    /\ UNCHANGED <<seq, ledger, on, rounds, line>>

\* _forget: the ledger without what the sweep has receipts for.
Dropped(receipts) == [b \in ID |-> IF b \in receipts THEN Unknown ELSE ledger[b]]

\* The agent drops the reaped branches; the round is over.
Forget(c) ==
    /\ Retrying(c) /\ call[c].again = <<>>
    /\ ledger' = Dropped(call[c].reaped)
    /\ call' = [call EXCEPT ![c] = At(IF Cardinality(line[c]) > Depth[c] THEN "done" ELSE "round")]
    /\ UNCHANGED <<orchVars, on, rounds, line, faults>>

-----------------------------------------------------------------------------
\* A caller that got an exception tries another round if its branch is still
\* there, and starts over from a root if not.
Retry(c) ==
    /\ call[c].at = "raised" /\ rounds[c] < MaxRounds[c]
    /\ IF on[c] # None /\ row[on[c]] = "live"
       THEN Goto(c, "round") /\ UNCHANGED <<on, line>>
       ELSE /\ Goto(c, "idle")
            /\ on' = [on EXCEPT ![c] = None] /\ line' = [line EXCEPT ![c] = {}]
    /\ UNCHANGED <<orchVars, ledger, rounds, faults>>

\* The lease reaper collects a root: prepare_root takes a lease, fan_out none.
Lapse(b) ==
    /\ row[b] = "live" /\ parent[b] = None /\ Fault
    /\ Gone(b)
    /\ UNCHANGED <<seq, ledger, call, on, rounds, line>>

Step(c) ==
    \/ ForkRaises(c) \/ Enter(c) \/ CommitExtend(c) \/ Select(c)
    \/ Spawn(c) \/ SweepFirst(c) \/ SweepRaises(c) \/ SweepAgain(c) \/ Forget(c)
    \/ \E result \in Results : CommitRecord(c, result)

AgentNext ==
    \/ \E c \in Caller :
        \/ Step(c)
        \/ Retry(c)
        \/ \E context \in Contexts : PrepareRoot(c, context)
        \/ \E continuations \in Rounds[c] : Round(c, continuations)
    \/ \E b \in ID : Lapse(b)

AgentSpec == AgentInit /\ [][AgentNext]_agentVars

\* A call under way goes on, and the caller's work and evaluator return.
AgentFairSpec == AgentSpec /\ \A c \in Caller : WF_agentVars(Step(c))

-----------------------------------------------------------------------------
\* The ledger says what the KV backend holds: for a live branch in the ledger
\* the two are the same tokens, but between _commit's extend and its record.
\* This is what makes the suffix that _commit charges the right one.
LedgerIsKV ==
    \A b \in ID : row[b] = "live" /\ ledger[b] # Unknown =>
        \/ ledger[b] = kv[b]
        \/ \E c \in Caller : call[c].at = "record" /\ Child(c) = b

\* The ledger never loses a branch that still exists: a live branch without a
\* row there is one whose fork has not returned, or raised for a sibling's sake.
DroppedIsGone ==
    \A c \in Caller : \A b \in ID \cap (Range(call[c].kids) \cup {on[c]}) :
        call[c].at # "spawn" /\ row[b] = "live" => ledger[b] # Unknown

\* The ledger is right about every branch a caller still works with, through
\* failed commits, sweeps that raise and roots collected behind its back.
LedgerSound == AgentTypeOK /\ LedgerIsKV /\ DroppedIsGone

\* A winner strictly extends what the caller forked: its tokens begin with
\* those of every live branch of its line and go on from there, whatever
\* commits failed and whoever else swept ("a continuation must *strictly*
\* extend it").
StrictLineage ==
    \A c \in Caller : \A b \in line[c] \ {on[c]} :
        row[b] = "live" /\ row[on[c]] = "live" => IsStrictPrefix(kv[b], kv[on[c]])

\* The branch a round keeps was committed: it holds a whole continuation, not
\* what it inherited (a failed branch "is dropped at winner selection").
WinnerCommitted ==
    \A c \in Caller : call[c].at = "sweep" /\ row[on[c]] = "live" =>
        kv[on[c]] \in Range(call[c].targets)

\* Whom a round keeps has got further than the caller was, by a continuation that
\* was asked for (_commit, select_winner, run_round).
WinnerExtends == StrictLineage /\ WinnerCommitted

\* A sweep never takes a branch of the caller's own line while the rows of that
\* line are all there (kill_losers keeps the winner and its ancestors).
LineSpared ==
    \A c \in Caller : (\A b \in line[c] : row[b] = "live") =>
        line[c] \cap (Range(call[c].first) \cup Range(call[c].again)) = {}

\* "The final winner is the only live leaf": when a sweep of a caller returned,
\* nothing the caller ever forked is left outside the line of its winner, not
\* even children of failed forks, of rounds without a winner and of sweeps that
\* raised.
SoleLeaf ==
    [][\A c \in Caller : call[c].at = "sweep" /\ call'[c].at \in {"round", "done"} =>
          \A b \in ID : b[1] = c /\ row'[b] # "absent" => b \in line[c]]_agentVars

\* Callers that sweep away each other's branches and wait for each other's
\* forks never hang: every call returns or raises.
CallsEnd ==
    \A c \in Caller : []<>(call[c].at \in {"idle", "round", "done", "raised"})

=============================================================================
