---------------------------- MODULE TreeKVCache -----------------------------
(***************************************************************************)
(* agentfork/kv/tree_cache.py: the tree-keyed copy-on-write radix cache,    *)
(* the reference KV backend of the orchestrator.  Every public method runs  *)
(* under the cache's lock, so each is one action.                           *)
(*                                                                         *)
(* A radix node is represented by its path, the tokens from its namespace's *)
(* root to the end of the node's edge; the parent of a node is the longest  *)
(* node that is a proper prefix of it.  Splitting an edge adds the path in  *)
(* the middle.  Left out: last_access (any eviction order is allowed) and   *)
(* the counters of charged, saved and evicted tokens.                       *)
(***************************************************************************)
EXTENDS Naturals, Integers, FiniteSets, SequencesExt

CONSTANTS
    ID,             \* tree ids; a namespace is named by the id that created it
    NoTree,
    Token,
    MaxLen,         \* bound: tokens of one tree
    MaxStep,        \* bound: tokens of one extend
    Capacity,       \* capacity_tokens
    Budget,         \* per_tree_budget (a large number for None)
    ReuseNamespace  \* TRUE: an id is created again while forks of its former
                    \*       tree are still alive

ASSUME KVAssumption ==
    /\ IsFiniteSet(ID) /\ NoTree \notin ID /\ ReuseNamespace \in BOOLEAN
    /\ MaxLen \in Nat /\ MaxStep \in Nat /\ Capacity \in Nat /\ Budget \in Nat

VARIABLES
    namespace,  \* trees: per id its namespace, or NoTree
    tokens,     \* _tree_tokens
    roots,      \* the keys of root.children
    nodes,      \* per namespace: path -> [ref, owners]
    resident,   \* stats.resident_tokens
    logical     \* stats.logical_tokens

kvVars == <<namespace, tokens, roots, nodes, resident, logical>>

Seqs(n) == BoundedSeq(Token, n)
NodeData == [ref : Int, owners : SUBSET ID]
Trees == {t \in ID : namespace[t] # NoTree}
Members(ns) == {t \in ID : namespace[t] = ns}

\* Every variable has its type; the root of a namespace is no node.
KVTypeOK ==
    /\ namespace \in [ID -> ID \cup {NoTree}]
    /\ \A t \in ID : tokens[t] \in Seq(Token)
    /\ roots \subseteq ID
    /\ \A ns \in ID : \A p \in DOMAIN nodes[ns] :
          p \in Seq(Token) \ {<<>>} /\ nodes[ns][p] \in NodeData
    /\ resident \in Int /\ logical \in Int

-----------------------------------------------------------------------------
\* The radix tree of one namespace; N maps the paths of its nodes to their data

\* The nodes that the descent along s passes, each matched in full.
Path(N, s) == {p \in DOMAIN N : IsPrefix(p, s)}

\* node.children.get(s[m + 1]) for the node that ends after m tokens of s.
Child(N, s, m) ==
    {p \in DOMAIN N :
        /\ Len(p) > m /\ IsPrefix(SubSeq(s, 1, m), p) /\ p[m + 1] = s[m + 1]
        /\ \A q \in DOMAIN N : IsStrictPrefix(q, p) => Len(q) <= m}

\* Length of the longest common prefix of two sequences.
Common(s, t) == Len(LongestCommonPrefix({s, t}))

\* Mutant: the walk does not look inside an edge.
WalkWholeEdges(N, s) == Max({0} \cup {Len(p) : p \in Path(N, s)})

\* _walk: the number of tokens of s that the cache holds.
Walk(N, s) ==
    LET from[m \in 0 .. Len(s)] ==
          IF m = Len(s) \/ Child(N, s, m) = {} THEN m
          ELSE LET nxt == CHOOSE p \in Child(N, s, m) : TRUE
               IN  IF IsPrefix(nxt, s) THEN from[Len(nxt)] ELSE Common(nxt, s)
    IN  from[0]

\* Mutants: edges are never cut; or also where nothing matches.
NoSplit(N, s) == N
SplitAtZero(N, s) ==
    LET head == SubSeq(s, 1, Walk(N, s))
    IN  IF DOMAIN N = {} \/ head \in DOMAIN N THEN N
        ELSE [p \in DOMAIN N \cup {head} |->
                IF p = head THEN [ref |-> 1, owners |-> {}] ELSE N[p]]

\* _walk's effect: where the match ends inside an edge, _split cuts it there and
\* the head gets the data of the node that is cut.
Split(N, s) ==
    LET head == SubSeq(s, 1, Walk(N, s))
        cut == {p \in DOMAIN N : IsStrictPrefix(head, p)
                   /\ \A q \in DOMAIN N : IsStrictPrefix(q, p) => ~IsStrictPrefix(head, q)}
    IN  IF head = <<>> \/ head \in DOMAIN N THEN N
        ELSE [p \in DOMAIN N \cup {head} |->
                IF p = head THEN N[CHOOSE q \in cut : TRUE] ELSE N[p]]

\* Mutant: the length of the whole path instead of the edge's.
PathLength(N, p) == Len(p)

\* len(node.tokens)
Edge(N, p) ==
    LET above == {Len(q) : q \in {r \in DOMAIN N : IsStrictPrefix(r, p)}}
    IN  Len(p) - (IF above = {} THEN 0 ELSE Max(above))

SizeOf(N, P) == MapThenSumSet(LAMBDA p : Edge(N, p), P)

\* Mutant: only the top level is counted.
TopLevelTokens(N) ==
    SizeOf(N, {p \in DOMAIN N : \A q \in DOMAIN N : ~IsStrictPrefix(q, p)})

\* _namespace_tokens
NamespaceTokens(N) == SizeOf(N, DOMAIN N)

\* fork_branch's loop: another reference on every node of the parent's path.
Share(N, s, t) ==
    [p \in DOMAIN N |-> IF p \in Path(N, s)
                        THEN [ref |-> N[p].ref + 1, owners |-> N[p].owners \cup {t}]
                        ELSE N[p]]

\* Mutant: a reference per call, owner or not.
AddRefsAlways(N, s, t) == Share(N, s, t)

\* _add_refs: the same, where t is not an owner yet.
AddRefs(N, s, t) ==
    [p \in DOMAIN N |-> IF p \in Path(N, s) /\ t \notin N[p].owners
                        THEN [ref |-> N[p].ref + 1, owners |-> N[p].owners \cup {t}]
                        ELSE N[p]]

\* Mutant: nodes go by their children alone, whoever still references them.
FreedIfChildless(N, s) ==
    {p \in Path(N, s) : \A q \in DOMAIN N : IsPrefix(p, q) => q \in Path(N, s)}

\* kill's loop over the path, deepest node first: a node goes when its last
\* reference and its last child are gone.
Freed(N, s) ==
    {p \in Path(N, s) : \A q \in DOMAIN N :
        IsPrefix(p, q) => q \in Path(N, s) /\ N[q].ref <= 1}

DropRefs(N, s, t) ==
    [p \in DOMAIN N \ Freed(N, s) |->
        IF p \in Path(N, s)
        THEN [ref |-> N[p].ref - 1, owners |-> N[p].owners \ {t}]
        ELSE N[p]]

Without(N, P) == [p \in DOMAIN N \ P |-> N[p]]
NoNodes == [p \in {} |-> [ref |-> 0, owners |-> {}]]

-----------------------------------------------------------------------------
KVInit ==
    /\ namespace = [t \in ID |-> NoTree]
    /\ tokens = [t \in ID |-> <<>>]
    /\ roots = {}
    /\ nodes = [ns \in ID |-> NoNodes]
    /\ resident = 0 /\ logical = 0

\* A new, empty root node takes the key of the id, whatever was there before.
create_tree(t) ==
    /\ namespace[t] = NoTree
    /\ ReuseNamespace \/ t \notin roots
    /\ namespace' = [namespace EXCEPT ![t] = t]
    /\ tokens' = [tokens EXCEPT ![t] = <<>>]
    /\ roots' = roots \cup {t}
    /\ nodes' = [nodes EXCEPT ![t] = NoNodes]
    /\ UNCHANGED <<resident, logical>>

fork_branch(p, t) ==
    LET ns == namespace[p]
    IN  /\ p \in Trees /\ namespace[t] = NoTree
        /\ namespace' = [namespace EXCEPT ![t] = ns]
        /\ tokens' = [tokens EXCEPT ![t] = tokens[p]]
        /\ nodes' = [nodes EXCEPT ![ns] = Share(@, tokens[p], t)]
        /\ logical' = logical + Len(tokens[p])
        /\ UNCHANGED <<roots, resident>>

kill(t) ==
    LET ns == namespace[t]
        left == Members(ns) \ {t}
    IN  /\ t \in Trees
        /\ namespace' = [namespace EXCEPT ![t] = NoTree]
        /\ tokens' = [tokens EXCEPT ![t] = <<>>]
        /\ nodes' = [nodes EXCEPT ![ns] =
                        IF left = {} THEN NoNodes ELSE DropRefs(@, tokens[t], t)]
        /\ roots' = IF left = {} THEN roots \ {ns} ELSE roots
        /\ resident' = resident - SizeOf(nodes[ns], Freed(nodes[ns], tokens[t]))
        /\ logical' = logical - Len(tokens[t])

\* _maybe_evict may remove the leaves that nobody references, one by one until
\* the new tokens fit.
Leaves(N) == {p \in DOMAIN N : N[p].ref <= 0 /\ \A q \in DOMAIN N : ~IsStrictPrefix(p, q)}

\* extend up to the point where it raises or inserts: the walk has split an edge.
extend(t, s) ==
    LET ns == namespace[t]
        full == tokens[t] \o s
        N == Split(nodes[ns], full)
        charged == Len(full) - Walk(nodes[ns], full)
        idle == UNION {{<<n, p>> : p \in Leaves(IF n = ns THEN N ELSE nodes[n])} : n \in roots}
        size(E) == MapThenSumSet(
                     LAMBDA e : Edge(IF e[1] = ns THEN N ELSE nodes[e[1]], e[2]), E)
        fits(E) == charged = 0 \/ resident - size(E) + charged <= Capacity
        evicted(E, n) == {e[2] : e \in {f \in E : f[1] = n}}
        kept(E) == [n \in ID |-> Without(IF n = ns THEN N ELSE nodes[n], evicted(E, n))]
    IN  /\ t \in Trees /\ Len(full) <= MaxLen
        /\ \/ \* over the namespace's budget: MemoryError
              /\ NamespaceTokens(N) + charged > Budget
              /\ nodes' = [nodes EXCEPT ![ns] = N]
              /\ UNCHANGED <<tokens, resident, logical>>
           \/ \* over capacity with every idle leaf evicted: MemoryError
              /\ NamespaceTokens(N) + charged <= Budget
              /\ ~fits(idle)
              /\ nodes' = kept(idle)
              /\ resident' = resident - size(idle)
              /\ UNCHANGED <<tokens, logical>>
           \/ /\ NamespaceTokens(N) + charged <= Budget
              /\ \E E \in SUBSET idle :
                    /\ fits(E) /\ (E # {} => \E e \in E : ~fits(E \ {e}))
                    /\ nodes' = [kept(E) EXCEPT ![ns] =
                         AddRefs(IF charged = 0 THEN @
                                 ELSE [p \in DOMAIN @ \cup {full} |->
                                         IF p = full THEN [ref |-> 1, owners |-> {t}] ELSE @[p]],
                                 full, t)]
                    /\ resident' = resident - size(E) + charged
              /\ tokens' = [tokens EXCEPT ![t] = full]
              /\ logical' = logical + Len(s)
        /\ UNCHANGED <<namespace, roots>>

\* Lookups walk, and so they split edges too: in every namespace, or in one.
match_prefix(s) ==
    /\ nodes' = [ns \in ID |-> IF ns \in roots THEN Split(nodes[ns], s) ELSE nodes[ns]]
    /\ UNCHANGED <<namespace, tokens, roots, resident, logical>>

match_tree_prefix(t, s) ==
    /\ t \in Trees
    /\ nodes' = [nodes EXCEPT ![namespace[t]] = Split(@, s)]
    /\ UNCHANGED <<namespace, tokens, roots, resident, logical>>

KVNext ==
    \/ \E t \in ID : create_tree(t) \/ kill(t)
    \/ \E p, t \in ID : fork_branch(p, t)
    \/ \E t \in ID, s \in Seqs(MaxStep) : extend(t, s)
    \/ \E s \in Seqs(MaxLen) : match_prefix(s)
    \/ \E t \in ID, s \in Seqs(MaxLen) : match_tree_prefix(t, s)

KVSpec == KVInit /\ [][KVNext]_kvVars

-----------------------------------------------------------------------------
\* Correctness

\* The tokens a namespace has to hold: the prefixes of its live trees.
Needed(ns) == UNION {Prefixes(tokens[t]) \ {<<>>} : t \in Members(ns)}

\* A live tree's whole prefix is resident, whatever became of its parent
\* ("A killed parent's children survive by design"): the descent along its
\* tokens reaches their end.
PrefixResident ==
    \A t \in Trees : tokens[t] = <<>> \/ tokens[t] \in DOMAIN nodes[namespace[t]]

\* References are exact: a node counts its owners, and a tree owns the nodes on
\* its path and no others.  In particular nothing unreferenced stays behind,
\* and no node is freed twice.
RefsExact ==
    \A ns \in ID : \A p \in DOMAIN nodes[ns] :
        /\ nodes[ns][p].owners = {t \in Members(ns) : IsPrefix(p, tokens[t])}
        /\ nodes[ns][p].ref = Cardinality(nodes[ns][p].owners)
        /\ nodes[ns][p].ref > 0

\* The accounting is exact: resident tokens are the distinct prefixes of the
\* live trees of each namespace, logical tokens what they would cost unshared.
AccountsExact ==
    /\ resident = MapThenSumSet(LAMBDA ns : Cardinality(Needed(ns)), ID)
    /\ logical = MapThenSumSet(LAMBDA t : Len(tokens[t]), Trees)

\* The limits hold: never more than Capacity resident, never more than Budget in
\* a namespace.
WithinLimits ==
    /\ resident <= Capacity
    /\ \A ns \in ID :
          Cardinality(UNION {Prefixes(p) \ {<<>>} : p \in DOMAIN nodes[ns]}) <= Budget

\* The books are kept: counters that extend, fork and kill change bit by bit add
\* up after every order of them, and the limits they are compared with hold.
BooksKept == AccountsExact /\ WithinLimits

\* The tree is a radix tree: where two paths part there is a node, so that no
\* two children of a node start with the same token.
RadixShape ==
    \A ns \in ID : \A p, q \in DOMAIN nodes[ns] :
        LET lcp == LongestCommonPrefix({p, q})
        IN  lcp = <<>> \/ lcp \in DOMAIN nodes[ns]

\* _walk finds the longest prefix that any cached path shares with its argument.
WalkIsLongest ==
    \A ns \in ID, s \in Seqs(MaxLen) :
        LET N == nodes[ns]
        IN  Walk(N, s) = Max({0} \cup {Common(p, s) : p \in DOMAIN N})

\* After any splits and frees the nodes are a radix tree, and a greedy descent of
\* it finds what a search of all paths would (_walk, _split, kill).
LookupsSound == KVTypeOK /\ RadixShape /\ WalkIsLongest

=============================================================================
