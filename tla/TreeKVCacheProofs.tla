------------------------- MODULE TreeKVCacheProofs --------------------------
(***************************************************************************)
(* Theorems about TreeKVCache: the radix cache keeps its shape, its         *)
(* references and its accounts, for any finite set of ids, any tokens and   *)
(* any limits.                                                              *)
(***************************************************************************)
EXTENDS TreeKVCache, FiniteSetTheorems, SequenceTheorems, TLAPS

-----------------------------------------------------------------------------
\* Numbers and sequences

\* A set of naturals that has an element has a least one.
LEMMA LeastOf ==
    ASSUME NEW S \in SUBSET Nat, S # {}
    PROVE  \E x \in S : \A y \in S : x <= y
<1> DEFINE R == OpToRel(<, Nat)
<1>1. IsWellFoundedOn(R, Nat)
  BY NatLessThanWellFounded
<1> HIDE DEF R
<1>2. PICK x \in S : \A y \in S : ~(<<y, x>> \in R)
  BY <1>1, WFMin
<1>3. \A y \in S : ~(y < x)
  BY <1>2 DEF R, OpToRel
<1> QED
  BY <1>3

\* A bounded one has a greatest, which is its Max.
LEMMA MaxOf ==
    ASSUME NEW n \in Nat, NEW S \in SUBSET (0 .. n), S # {}
    PROVE  Max(S) \in S /\ \A y \in S : y <= Max(S)
<1> DEFINE T == {n - x : x \in S}
<1>1. T \in SUBSET Nat /\ T # {}
  OBVIOUS
<1> HIDE DEF T
<1>2. PICK y \in T : \A z \in T : y <= z
  BY <1>1, LeastOf
<1>3. PICK m \in S : y = n - m
  BY DEF T
<1>4. \A x \in S : n - m <= n - x
  BY <1>2, <1>3 DEF T
<1>5. \A x \in S : m >= x
  BY <1>4
<1>6. Max(S) \in S /\ \A x \in S : Max(S) >= x
  BY <1>5 DEF Max
<1> QED
  BY <1>6

\* The first n elements of a sequence.
LEMMA Taking ==
    ASSUME NEW s \in Seq(Token), NEW n \in 0 .. Len(s)
    PROVE  /\ SubSeq(s, 1, n) \in Seq(Token) /\ Len(SubSeq(s, 1, n)) = n
           /\ \A i \in 1 .. n : SubSeq(s, 1, n)[i] = s[i]
  BY SubSeqProperties, LenProperties

\* A prefix agrees with the longer sequence as far as it goes.
LEMMA Prefixed ==
    ASSUME NEW s \in Seq(Token), NEW t \in Seq(Token)
    PROVE  IsPrefix(s, t) <=> Len(s) <= Len(t) /\ \A i \in 1 .. Len(s) : s[i] = t[i]
<1>1. Len(s) \in Nat /\ Len(t) \in Nat
  BY LenProperties
<1>2. SubSeq(s, 1, Len(s)) = s
  BY SubSeqFull
<1>3. ASSUME Len(s) <= Len(t)
      PROVE  s = SubSeq(t, 1, Len(s)) <=> \A i \in 1 .. Len(s) : s[i] = t[i]
  BY <1>1, <1>3, Taking, SeqEqual
<1> QED
  BY <1>2, <1>3 DEF IsPrefix

\* Prefixes are partially ordered, and those of one sequence totally.
LEMMA PrefixOrder ==
    ASSUME NEW r \in Seq(Token), NEW s \in Seq(Token), NEW t \in Seq(Token)
    PROVE  /\ IsPrefix(s, s) /\ IsPrefix(<<>>, s) /\ Len(s) \in Nat
           /\ s = <<>> <=> Len(s) = 0
           /\ IsPrefix(r, s) => Len(r) <= Len(s)
           /\ IsPrefix(r, s) /\ Len(s) <= Len(r) => r = s
           /\ IsPrefix(r, s) /\ IsPrefix(s, t) => IsPrefix(r, t)
           /\ IsPrefix(r, t) /\ IsPrefix(s, t) /\ Len(r) <= Len(s) => IsPrefix(r, s)
<1>1. Len(r) \in Nat /\ Len(s) \in Nat /\ Len(t) \in Nat
  BY LenProperties
<1>2. <<>> \in Seq(Token) /\ Len(<<>>) = 0
  BY EmptySeq
<1>3. s = <<>> <=> Len(s) = 0
  BY <1>1, <1>2, EmptySeq
<1>4. IsPrefix(s, s)
  BY <1>1, Prefixed
<1>8. \A e \in Seq(Token) : Len(e) = 0 => IsPrefix(e, s)
  <2> SUFFICES ASSUME NEW e \in Seq(Token), Len(e) = 0  PROVE IsPrefix(e, s)
    OBVIOUS
  <2>1. Len(e) <= Len(s) /\ \A i \in 1 .. Len(e) : e[i] = s[i]
    BY <1>1
  <2> QED
    BY <2>1, Prefixed
<1>9. IsPrefix(<<>>, s)
  BY <1>2, <1>8
<1>5. IsPrefix(r, s) /\ Len(s) <= Len(r) => r = s
  BY <1>1, Prefixed, SeqEqual
<1>6. IsPrefix(r, s) /\ IsPrefix(s, t) => IsPrefix(r, t)
  BY <1>1, Prefixed
<1>7. IsPrefix(r, t) /\ IsPrefix(s, t) /\ Len(r) <= Len(s) => IsPrefix(r, s)
  BY <1>1, Prefixed
<1> QED
  BY <1>1, <1>3, <1>4, <1>5, <1>6, <1>7, <1>9, Prefixed

\* Two sequences, one a prefix of the other.
LEMMA PrefixPair ==
    ASSUME NEW r \in Seq(Token), NEW s \in Seq(Token)
    PROVE  /\ IsPrefix(s, s) /\ Len(r) \in Nat /\ Len(s) \in Nat
           /\ IsPrefix(r, s) => Len(r) <= Len(s)
           /\ IsPrefix(r, s) /\ Len(s) <= Len(r) => r = s
  BY PrefixOrder, LenProperties

\* The prefixes of a sequence are what it begins with.
LEMMA PrefixesOf ==
    ASSUME NEW s \in Seq(Token)
    PROVE  /\ \A n \in 0 .. Len(s) : IsPrefix(SubSeq(s, 1, n), s)
           /\ \A u \in Seq(Token) : IsPrefix(u, s) => u = SubSeq(s, 1, Len(u))
           /\ Prefixes(s) = {u \in Seq(Token) : IsPrefix(u, s)}
<1>1. Len(s) \in Nat
  BY LenProperties
<1>2. ASSUME NEW n \in 0 .. Len(s)
      PROVE  SubSeq(s, 1, n) \in Seq(Token) /\ IsPrefix(SubSeq(s, 1, n), s)
  <2> DEFINE u == SubSeq(s, 1, n)
  <2>1. u \in Seq(Token) /\ Len(u) = n /\ \A i \in 1 .. n : u[i] = s[i]
    BY Taking
  <2> HIDE DEF u
  <2>2. IsPrefix(u, s)
    BY <1>1, <2>1, Prefixed
  <2> QED
    BY <2>1, <2>2 DEF u
<1>3. ASSUME NEW u \in Seq(Token), IsPrefix(u, s)
      PROVE  Len(u) \in 0 .. Len(s) /\ u = SubSeq(s, 1, Len(u))
  <2>1. Len(u) \in 0 .. Len(s) /\ \A i \in 1 .. Len(u) : u[i] = s[i]
    BY <1>1, <1>3, Prefixed, LenProperties
  <2> DEFINE v == SubSeq(s, 1, Len(u))
  <2>2. v \in Seq(Token) /\ Len(v) = Len(u) /\ \A i \in 1 .. Len(u) : v[i] = s[i]
    BY <2>1, Taking
  <2> HIDE DEF v
  <2>3. Len(u) = Len(v) /\ \A i \in 1 .. Len(u) : u[i] = v[i]
    BY <2>1, <2>2
  <2>4. u = v
    BY <2>2, <2>3, SeqEqual
  <2> QED
    BY <2>1, <2>4 DEF v
<1> QED
  BY <1>2, <1>3 DEF Prefixes

\* Two sequences have a longest common prefix.
Meet(s, t) == LongestCommonPrefix({s, t})

\* It is one, and every common prefix is a prefix of it.
LEMMA Meeting ==
    ASSUME NEW s \in Seq(Token), NEW t \in Seq(Token)
    PROVE  /\ Meet(s, t) \in Seq(Token) /\ Meet(s, t) = Meet(t, s)
           /\ IsPrefix(Meet(s, t), s) /\ IsPrefix(Meet(s, t), t)
           /\ \A u \in Seq(Token) : IsPrefix(u, s) /\ IsPrefix(u, t) => IsPrefix(u, Meet(s, t))
           /\ Common(s, t) = Len(Meet(s, t)) /\ Common(s, t) \in 0 .. Len(s)
<1> DEFINE C == CommonPrefixes({s, t})
<1>1. C = {u \in Seq(Token) : IsPrefix(u, s) /\ IsPrefix(u, t)}
  BY PrefixesOf DEF CommonPrefixes
<1>2. <<>> \in C
  BY <1>1, PrefixOrder, EmptySeq
<1>3. \A u \in C : Len(u) \in 0 .. Len(s)
  BY <1>1, PrefixOrder
<1> HIDE DEF C
<1> DEFINE L == {Len(u) : u \in C}
<1>4. L \in SUBSET (0 .. Len(s)) /\ L # {} /\ Len(s) \in Nat
  <2>1. Len(<<>>) \in L
    BY <1>2
  <2>2. Len(s) \in Nat
    BY LenProperties
  <2> QED
    BY <1>3, <2>1, <2>2
<1>5. Max(L) \in L /\ \A n \in L : n <= Max(L)
  <2> HIDE DEF L
  <2> QED  BY <1>4, MaxOf
<1>6. \E u \in C : \A v \in C : Len(v) <= Len(u)
  BY <1>5
<1>7. Meet(s, t) \in C /\ \A v \in C : Len(v) <= Len(Meet(s, t))
  BY <1>6 DEF Meet, LongestCommonPrefix, C
<1>8. Meet(s, t) = Meet(t, s)
  <2>1. {s, t} = {t, s}
    OBVIOUS
  <2> QED  BY <2>1 DEF Meet
<1>9. \A u \in Seq(Token) : IsPrefix(u, s) /\ IsPrefix(u, t) => IsPrefix(u, Meet(s, t))
  BY <1>1, <1>7, PrefixOrder
<1> QED
  BY <1>1, <1>3, <1>7, <1>8, <1>9 DEF Common, Meet

\* How far two sequences agree.
LEMMA Agreeing ==
    ASSUME NEW s \in Seq(Token), NEW t \in Seq(Token), NEW k \in 0 .. Len(s)
    PROVE  /\ k <= Common(t, s) <=> IsPrefix(SubSeq(s, 1, k), t)
           /\ Common(t, s) \in 0 .. Len(s)
<1> DEFINE u == SubSeq(s, 1, k)
<1>1. u \in Seq(Token) /\ Len(u) = k /\ IsPrefix(u, s)
  BY Taking, PrefixesOf
<1> HIDE DEF u
<1>2. /\ Meet(t, s) \in Seq(Token) /\ IsPrefix(Meet(t, s), s) /\ IsPrefix(Meet(t, s), t)
      /\ IsPrefix(u, t) => IsPrefix(u, Meet(t, s))
      /\ Common(t, s) = Len(Meet(t, s))
  BY <1>1, Meeting
<1>3. k <= Common(t, s) => IsPrefix(u, Meet(t, s))
  BY <1>1, <1>2, PrefixOrder
<1>4. IsPrefix(u, t) <=> IsPrefix(u, Meet(t, s))
  BY <1>1, <1>2, PrefixOrder
<1>5. IsPrefix(u, Meet(t, s)) => k <= Common(t, s)
  BY <1>1, <1>2, PrefixOrder
<1>6. Common(t, s) \in 0 .. Len(s)
  BY <1>2, PrefixOrder
<1> QED
  BY <1>3, <1>4, <1>5, <1>6 DEF u

-----------------------------------------------------------------------------
\* The descent

\* A radix tree: its nodes are not empty, and where two of them part there is one.
Radix(N) ==
    /\ N \in [DOMAIN N -> NodeData]
    /\ DOMAIN N \subseteq Seq(Token) \ {<<>>}
    /\ \A p, q \in DOMAIN N : Meet(p, q) = <<>> \/ Meet(p, q) \in DOMAIN N

\* The nodes that begin with u, of which there is at least one, have a first
\* one on the way to all of them.
LEMMA FirstBelow ==
    ASSUME NEW N, Radix(N), NEW u \in Seq(Token) \ {<<>>},
           NEW x \in DOMAIN N, IsPrefix(u, x)
    PROVE  \E p \in DOMAIN N : /\ IsPrefix(u, p)
                               /\ \A q \in DOMAIN N : IsPrefix(u, q) => IsPrefix(p, q)
<1> DEFINE S == {Len(p) : p \in {q \in DOMAIN N : IsPrefix(u, q)}}
<1>1. DOMAIN N \subseteq Seq(Token) \ {<<>>}
  BY DEF Radix
<1>2. S \in SUBSET Nat /\ S # {}
  <2>1. Len(x) \in S
    OBVIOUS
  <2>2. \A p \in DOMAIN N : Len(p) \in Nat
    BY <1>1, LenProperties
  <2> QED
    BY <2>1, <2>2
<1>3. \E n \in S : \A k \in S : n <= k
  <2> HIDE DEF S
  <2> QED  BY <1>2, LeastOf
<1>4. PICK p \in DOMAIN N : IsPrefix(u, p) /\ \A q \in DOMAIN N : IsPrefix(u, q) => Len(p) <= Len(q)
  BY <1>3
<1>5. ASSUME NEW q \in DOMAIN N, IsPrefix(u, q)
      PROVE  IsPrefix(p, q)
  <2> DEFINE m == Meet(p, q)
  <2>1. m \in Seq(Token) /\ IsPrefix(m, p) /\ IsPrefix(m, q) /\ IsPrefix(u, m)
    BY <1>1, <1>4, <1>5, Meeting
  <2>2. m # <<>>
    BY <2>1, PrefixOrder, EmptySeq
  <2>3. m \in DOMAIN N
    BY <2>2 DEF Radix
  <2> HIDE DEF m
  <2>4. m = p
    BY <1>1, <1>4, <2>1, <2>3, PrefixOrder
  <2> QED
    BY <2>1, <2>4
<1> QED
  BY <1>4, <1>5

\* children.get: the edge that goes on with the next token leads to the first
\* node of those that do.
LEMMA ChildIs ==
    ASSUME NEW N, Radix(N), NEW s \in Seq(Token), NEW m \in 0 .. Len(s) - 1
    PROVE  /\ Child(N, s, m) = {} => \A p \in DOMAIN N : Common(p, s) <= m
           /\ \A c \in Child(N, s, m) :
                /\ c \in DOMAIN N /\ IsPrefix(SubSeq(s, 1, m + 1), c)
                /\ \A q \in DOMAIN N : IsPrefix(SubSeq(s, 1, m + 1), q) => IsPrefix(c, q)
<1> DEFINE u == SubSeq(s, 1, m + 1)
<1>1. DOMAIN N \subseteq Seq(Token) \ {<<>>} /\ Len(s) \in Nat /\ m + 1 \in 0 .. Len(s)
  BY LenProperties DEF Radix
<1>2. u \in Seq(Token) /\ Len(u) = m + 1 /\ \A i \in 1 .. m + 1 : u[i] = s[i]
  BY <1>1, Taking
<1>3. u # <<>>
  BY <1>2, EmptySeq
<1>4. ASSUME NEW p \in DOMAIN N
      PROVE  /\ IsPrefix(u, p) <=> /\ Len(p) > m /\ IsPrefix(SubSeq(s, 1, m), p)
                                   /\ p[m + 1] = s[m + 1]
             /\ m + 1 <= Common(p, s) <=> IsPrefix(u, p)
             /\ Common(p, s) \in Nat /\ Len(p) \in Nat
  <2> DEFINE v == SubSeq(s, 1, m)
  <2>1. v \in Seq(Token) /\ Len(v) = m /\ \A i \in 1 .. m : v[i] = s[i]
    BY <1>1, Taking
  <2>2. p \in Seq(Token) /\ Len(p) \in Nat
    BY <1>1, LenProperties
  <2> HIDE DEF u, v
  <2>3. IsPrefix(v, p) <=> m <= Len(p) /\ \A i \in 1 .. m : s[i] = p[i]
    BY <2>1, <2>2, Prefixed
  <2>4. IsPrefix(u, p) <=> m + 1 <= Len(p) /\ \A i \in 1 .. m + 1 : s[i] = p[i]
    BY <1>2, <2>2, Prefixed
  <2>5. IsPrefix(u, p) <=> Len(p) > m /\ IsPrefix(v, p) /\ p[m + 1] = s[m + 1]
    BY <2>2, <2>3, <2>4
  <2>6. m + 1 <= Common(p, s) <=> IsPrefix(u, p)
    BY <1>1, <2>2, Agreeing DEF u
  <2>7. Common(p, s) \in Nat
    BY <1>1, <2>2, Agreeing
  <2> QED
    BY <2>2, <2>5, <2>6, <2>7 DEF v
<1> HIDE DEF u
<1>5. Child(N, s, m) = {p \in DOMAIN N :
        IsPrefix(u, p) /\ \A q \in DOMAIN N : IsStrictPrefix(q, p) => Len(q) <= m}
  BY <1>4 DEF Child
<1>6. ASSUME NEW p \in DOMAIN N, IsPrefix(u, p)
      PROVE  Child(N, s, m) # {}
  <2>1. PICK c \in DOMAIN N : IsPrefix(u, c) /\ \A q \in DOMAIN N : IsPrefix(u, q) => IsPrefix(c, q)
    BY <1>2, <1>3, <1>6, FirstBelow
  <2>2. ASSUME NEW q \in DOMAIN N, IsStrictPrefix(q, c), Len(q) > m
        PROVE  FALSE
    <3>1. IsPrefix(q, c) /\ q # c /\ q \in Seq(Token) /\ c \in Seq(Token)
      BY <1>1, <2>2 DEF IsStrictPrefix
    <3>2. IsPrefix(u, q)
      BY <1>2, <2>1, <2>2, <3>1, PrefixOrder
    <3>3. IsPrefix(c, q)
      BY <2>1, <3>2
    <3> QED
      BY <3>1, <3>3, PrefixOrder
  <2>3. \A q \in DOMAIN N : IsStrictPrefix(q, c) => Len(q) <= m
    BY <1>4, <2>2
  <2> QED
    BY <1>5, <2>1, <2>3
<1>7. ASSUME NEW c \in Child(N, s, m), NEW q \in DOMAIN N, IsPrefix(u, q)
      PROVE  IsPrefix(c, q)
  <2>1. /\ c \in DOMAIN N /\ c \in Seq(Token) /\ q \in Seq(Token)
        /\ IsPrefix(u, c) /\ \A r \in DOMAIN N : IsStrictPrefix(r, c) => Len(r) <= m
    BY <1>1, <1>5
  <2> DEFINE l == Meet(c, q)
  <2>2. l \in Seq(Token) /\ IsPrefix(l, c) /\ IsPrefix(l, q) /\ IsPrefix(u, l)
    BY <1>2, <1>7, <2>1, Meeting
  <2>3. Len(l) >= m + 1 /\ l # <<>>
    BY <1>2, <2>2, PrefixOrder
  <2>4. l \in DOMAIN N
    BY <2>1, <2>3 DEF Radix
  <2> HIDE DEF l
  <2>5. l = c
    BY <2>1, <2>2, <2>3, <2>4, LenProperties DEF IsStrictPrefix
  <2> QED
    BY <2>2, <2>5
<1>8. Child(N, s, m) = {} => \A p \in DOMAIN N : Common(p, s) <= m
  BY <1>4, <1>6
<1> QED
  BY <1>5, <1>7, <1>8 DEF u

\* The longest match from m on: what a search of all nodes would find.
Best(N, s, m) == Max({m} \cup {Common(p, s) : p \in DOMAIN N})

\* No node matches longer, and one matches as long, unless m itself is the best.
LEMMA BestIs ==
    ASSUME NEW N, Radix(N), NEW s \in Seq(Token), NEW m \in 0 .. Len(s)
    PROVE  /\ Best(N, s, m) \in m .. Len(s)
           /\ \A p \in DOMAIN N : Common(p, s) <= Best(N, s, m) /\ Common(p, s) \in 0 .. Len(s)
           /\ Best(N, s, m) = m \/ \E p \in DOMAIN N : Best(N, s, m) = Common(p, s)
<1> DEFINE S == {m} \cup {Common(p, s) : p \in DOMAIN N}
<1>1. \A p \in DOMAIN N : Common(p, s) \in 0 .. Len(s)
  BY Agreeing, LenProperties DEF Radix
<1>2. S \in SUBSET (0 .. Len(s)) /\ S # {} /\ m \in S /\ Len(s) \in Nat
  BY <1>1, LenProperties
<1>3. Max(S) \in S /\ \A y \in S : y <= Max(S)
  <2> HIDE DEF S
  <2> QED  BY <1>2, MaxOf
<1>4. Best(N, s, m) = Max(S)
  BY DEF Best
<1>5. Max(S) >= m /\ \A p \in DOMAIN N : Common(p, s) <= Max(S)
  BY <1>3
<1>6. Max(S) \in 0 .. Len(s) /\ (Max(S) = m \/ \E p \in DOMAIN N : Max(S) = Common(p, s))
  BY <1>2, <1>3
<1> HIDE DEF S
<1> QED
  BY <1>1, <1>2, <1>4, <1>5, <1>6

\* Nothing else is the best.
LEMMA BestIfLongest ==
    ASSUME NEW N, Radix(N), NEW s \in Seq(Token), NEW m \in 0 .. Len(s), NEW b \in m .. Len(s),
           \A p \in DOMAIN N : Common(p, s) <= b,
           b = m \/ \E p \in DOMAIN N : Common(p, s) = b
    PROVE  Best(N, s, m) = b
  BY BestIs, LenProperties

\* One step of the descent gets nearer to it.
LEMMA Descends ==
    ASSUME NEW N, Radix(N), NEW s \in Seq(Token), NEW m \in 0 .. Len(s)
    PROVE  /\ m = Len(s) \/ Child(N, s, m) = {} => Best(N, s, m) = m
           /\ \A c \in Child(N, s, m) : m < Len(s) =>
                /\ IsPrefix(c, s) => /\ Len(c) \in m + 1 .. Len(s)
                                     /\ Best(N, s, m) = Best(N, s, Len(c))
                /\ ~IsPrefix(c, s) => Best(N, s, m) = Common(c, s)
<1>1. DOMAIN N \subseteq Seq(Token) \ {<<>>} /\ Len(s) \in Nat
  BY LenProperties DEF Radix
<1>2. m = Len(s) \/ Child(N, s, m) = {} => Best(N, s, m) = m
  <2>1. CASE m = Len(s)
    BY <1>1, <2>1, BestIs
  <2>2. CASE m # Len(s) /\ Child(N, s, m) = {}
    BY <1>1, <2>2, ChildIs, BestIfLongest
  <2> QED
    BY <2>1, <2>2
<1>3. ASSUME NEW c \in Child(N, s, m), m < Len(s)
      PROVE  /\ IsPrefix(c, s) => /\ Len(c) \in m + 1 .. Len(s)
                                  /\ Best(N, s, m) = Best(N, s, Len(c))
             /\ ~IsPrefix(c, s) => Best(N, s, m) = Common(c, s)
  <2> DEFINE u == SubSeq(s, 1, m + 1)
  <2>1. u \in Seq(Token) /\ Len(u) = m + 1 /\ m + 1 \in 0 .. Len(s)
    BY <1>1, <1>3, Taking
  <2>2. /\ c \in DOMAIN N /\ c \in Seq(Token) /\ Len(c) \in Nat /\ IsPrefix(u, c)
        /\ \A q \in DOMAIN N : IsPrefix(u, q) => IsPrefix(c, q)
    BY <1>1, <1>3, ChildIs, LenProperties
  <2>3. /\ m + 1 <= Common(c, s) /\ m + 1 <= Len(c)
        /\ \A p \in DOMAIN N : m + 1 <= Common(p, s) => IsPrefix(c, p)
    <3>1. \A p \in DOMAIN N : m + 1 <= Common(p, s) <=> IsPrefix(u, p)
      BY <1>1, <2>1, Agreeing
    <3>2. m + 1 <= Len(c)
      BY <2>1, <2>2, PrefixPair
    <3> QED
      BY <2>2, <3>1, <3>2
  <2> HIDE DEF u
  <2>4. ASSUME IsPrefix(c, s)
        PROVE  Len(c) \in m + 1 .. Len(s) /\ Best(N, s, m) = Best(N, s, Len(c))
    <3>1. Len(c) \in m + 1 .. Len(s)
      BY <1>1, <2>2, <2>3, <2>4, PrefixOrder
    <3>2. Common(c, s) = Len(c)
      <4>1. SubSeq(s, 1, Len(c)) = c /\ IsPrefix(c, c)
        BY <2>2, <2>4, PrefixesOf, PrefixPair
      <4>4. Len(c) \in 0 .. Len(s)
        BY <1>1, <2>2, <3>1
      <4>5. Len(c) <= Common(c, s) <=> IsPrefix(SubSeq(s, 1, Len(c)), c)
        BY <2>2, <4>4, Agreeing
      <4>2. Len(c) <= Common(c, s)
        BY <4>1, <4>5
      <4>3. Common(c, s) <= Len(c) /\ Common(c, s) \in Nat
        BY <2>2, Meeting
      <4> QED
        BY <2>2, <4>2, <4>3
    <3>3. /\ Best(N, s, Len(c)) \in Len(c) .. Len(s)
          /\ \A p \in DOMAIN N : Common(p, s) <= Best(N, s, Len(c))
          /\ \E p \in DOMAIN N : Best(N, s, Len(c)) = Common(p, s)
      BY <1>1, <2>2, <3>1, <3>2, BestIs
    <3>4. Best(N, s, Len(c)) \in m .. Len(s)
      BY <1>1, <3>1, <3>3
    <3> QED
      BY <3>1, <3>3, <3>4, BestIfLongest
  <2>5. ASSUME ~IsPrefix(c, s)
        PROVE  Best(N, s, m) = Common(c, s)
    <3>1. ASSUME NEW p \in DOMAIN N
          PROVE  Common(p, s) <= Common(c, s)
      <4> SUFFICES ASSUME Common(p, s) > Common(c, s)  PROVE FALSE
        BY <1>1, <2>2, Agreeing
      <4> DEFINE k == Common(p, s)
                 v == SubSeq(s, 1, k)
      <4>1. /\ k \in 0 .. Len(s) /\ p \in Seq(Token) /\ IsPrefix(v, p) /\ IsPrefix(c, p)
            /\ Common(c, s) \in Nat
        BY <1>1, <2>2, <2>3, Agreeing
      <4>2. v \in Seq(Token) /\ Len(v) = k /\ IsPrefix(v, s)
        BY <4>1, Taking, PrefixesOf
      <4>3. ~IsPrefix(v, c)
        BY <2>2, <4>1, Agreeing
      <4> HIDE DEF k, v
      <4>4. IsPrefix(c, v)
        BY <2>2, <4>1, <4>2, <4>3, PrefixOrder
      <4> QED
        BY <2>2, <2>5, <4>2, <4>4, PrefixOrder
    <3>2. Common(c, s) \in m .. Len(s)
      BY <1>1, <2>2, <2>3, Agreeing
    <3> QED
      BY <2>2, <3>1, <3>2, BestIfLongest
  <2> QED
    BY <2>4, <2>5
<1> QED
  BY <1>2, <1>3

\* _walk finds the longest prefix that any cached path shares with its argument.
LEMMA WalkIs ==
    ASSUME NEW N, Radix(N), NEW s \in Seq(Token)
    PROVE  Walk(N, s) = Best(N, s, 0)
<1> DEFINE nxt(m) == CHOOSE p \in Child(N, s, m) : TRUE
           body(f) == [m \in 0 .. Len(s) |->
                         IF m = Len(s) \/ Child(N, s, m) = {} THEN m
                         ELSE IF IsPrefix(nxt(m), s) THEN f[Len(nxt(m))] ELSE Common(nxt(m), s)]
           from == CHOOSE f : f = body(f)
           best == [m \in 0 .. Len(s) |-> Best(N, s, m)]
<1>1. Walk(N, s) = from[0]
  BY DEF Walk
<1>2. Len(s) \in Nat
  BY LenProperties
<1>3. \A m \in 0 .. Len(s) : ~(m = Len(s) \/ Child(N, s, m) = {}) =>
        /\ nxt(m) \in Child(N, s, m)
        /\ IsPrefix(nxt(m), s) => Len(nxt(m)) \in m + 1 .. Len(s)
  BY <1>2, Descends
<1>4. best = body(best)
  <2>1. ASSUME NEW m \in 0 .. Len(s)
        PROVE  Best(N, s, m) = IF m = Len(s) \/ Child(N, s, m) = {} THEN m
                               ELSE IF IsPrefix(nxt(m), s) THEN best[Len(nxt(m))]
                               ELSE Common(nxt(m), s)
    <3>1. CASE m = Len(s) \/ Child(N, s, m) = {}
      BY <3>1, Descends
    <3>2. CASE ~(m = Len(s) \/ Child(N, s, m) = {})
      <4>1. nxt(m) \in Child(N, s, m) /\ (IsPrefix(nxt(m), s) => Len(nxt(m)) \in m + 1 .. Len(s))
        BY <1>3, <3>2
      <4> HIDE DEF nxt
      <4>2. IsPrefix(nxt(m), s) => best[Len(nxt(m))] = Best(N, s, Len(nxt(m)))
        BY <1>2, <4>1
      <4>3. /\ IsPrefix(nxt(m), s) => Best(N, s, m) = Best(N, s, Len(nxt(m)))
            /\ ~IsPrefix(nxt(m), s) => Best(N, s, m) = Common(nxt(m), s)
        BY <1>2, <3>2, <4>1, Descends
      <4> HIDE DEF best
      <4> QED
        BY <3>2, <4>2, <4>3
    <3> QED
      BY <3>1, <3>2
  <2> HIDE DEF nxt
  <2> QED
    BY <2>1
<1> HIDE DEF nxt
<1>5. from = body(from)
  <2> HIDE DEF best
  <2>1. \E f : f = body(f)
    BY <1>4
  <2> HIDE DEF body
  <2> QED
    BY <2>1
<1> HIDE DEF from
<1>6. \A m \in 0 .. Len(s) : from[m] = best[m]
  <2> DEFINE wrong == {m \in 0 .. Len(s) : from[m] # best[m]}
  <2> SUFFICES ASSUME wrong # {}  PROVE FALSE
    OBVIOUS
  <2>1. PICK m \in wrong : \A k \in wrong : k <= m
    <3>1. wrong \in SUBSET (0 .. Len(s))
      OBVIOUS
    <3> HIDE DEF wrong
    <3> QED  BY <1>2, <3>1, MaxOf
  <2>2. m \in 0 .. Len(s) /\ from[m] # best[m]
    OBVIOUS
  <2>3. \A k \in 0 .. Len(s) : k > m => from[k] = best[k]
    BY <1>2, <2>1
  <2> HIDE DEF wrong
  <2>4. /\ from[m] = body(from)[m] /\ best[m] = body(best)[m]
    BY <1>4, <1>5
  <2>5. body(from)[m] = body(best)[m]
    <3> HIDE DEF best
    <3> QED
      BY <1>2, <1>3, <2>2, <2>3
  <2> QED
    BY <2>2, <2>4, <2>5
<1> QED
  BY <1>1, <1>2, <1>6

-----------------------------------------------------------------------------
\* Splitting and inserting

\* Cutting b behind the point where it parts from p does not move that point.
LEMMA MeetOfPrefix ==
    ASSUME NEW a \in Seq(Token), NEW b \in Seq(Token), NEW p \in Seq(Token),
           IsPrefix(a, b), IsPrefix(Meet(b, p), a)
    PROVE  Meet(a, p) = Meet(b, p)
<1>1. /\ Meet(a, p) \in Seq(Token) /\ Meet(b, p) \in Seq(Token)
      /\ IsPrefix(Meet(a, p), a) /\ IsPrefix(Meet(a, p), p) /\ IsPrefix(Meet(b, p), p)
      /\ \A u \in Seq(Token) : IsPrefix(u, b) /\ IsPrefix(u, p) => IsPrefix(u, Meet(b, p))
      /\ \A u \in Seq(Token) : IsPrefix(u, a) /\ IsPrefix(u, p) => IsPrefix(u, Meet(a, p))
  BY Meeting
<1>2. IsPrefix(Meet(a, p), b)
  BY <1>1, PrefixOrder
<1>3. IsPrefix(Meet(a, p), Meet(b, p)) /\ IsPrefix(Meet(b, p), Meet(a, p))
  BY <1>1, <1>2
<1> QED
  BY <1>1, <1>3, PrefixPair

\* Another node keeps a radix tree one where it parts from the others at nodes.
LEMMA AddingNode ==
    ASSUME NEW N, Radix(N), NEW h \in Seq(Token) \ {<<>>},
           NEW M \in [DOMAIN N \cup {h} -> NodeData],
           \A p \in DOMAIN N : Meet(h, p) \in DOMAIN N \cup {h, <<>>}
    PROVE  Radix(M)
<1>1. DOMAIN M = DOMAIN N \cup {h} /\ DOMAIN N \subseteq Seq(Token) \ {<<>>}
  BY DEF Radix
<1>2. Meet(h, h) = h
  <2>1. IsPrefix(h, Meet(h, h)) /\ IsPrefix(Meet(h, h), h) /\ Meet(h, h) \in Seq(Token)
    BY Meeting, PrefixPair
  <2> QED
    BY <2>1, PrefixPair
<1>3. ASSUME NEW p \in DOMAIN M, NEW q \in DOMAIN M
      PROVE  Meet(p, q) = <<>> \/ Meet(p, q) \in DOMAIN M
  <2>1. Meet(p, q) = Meet(q, p)
    BY <1>1, Meeting
  <2> QED
    BY <1>1, <1>2, <2>1 DEF Radix
<1> QED
  BY <1>1, <1>3 DEF Radix

\* The head of a split is where the walk ends.
HeadOf(N, s) == SubSeq(s, 1, Walk(N, s))

\* No node goes on with s beyond the head, and some node begins with it.
LEMMA HeadIs ==
    ASSUME NEW N, Radix(N), NEW s \in Seq(Token)
    PROVE  /\ Walk(N, s) \in 0 .. Len(s)
           /\ HeadOf(N, s) \in Seq(Token) /\ Len(HeadOf(N, s)) = Walk(N, s)
           /\ IsPrefix(HeadOf(N, s), s)
           /\ \A p \in DOMAIN N : Common(p, s) <= Walk(N, s)
           /\ HeadOf(N, s) = <<>> \/ \E p \in DOMAIN N : IsPrefix(HeadOf(N, s), p)
<1>1. Walk(N, s) = Best(N, s, 0) /\ 0 \in 0 .. Len(s) /\ Len(s) \in Nat
  BY WalkIs, LenProperties
<1>2. /\ Walk(N, s) \in 0 .. Len(s)
      /\ \A p \in DOMAIN N : Common(p, s) <= Walk(N, s)
      /\ Walk(N, s) = 0 \/ \E p \in DOMAIN N : Walk(N, s) = Common(p, s)
  BY <1>1, BestIs
<1>3. /\ HeadOf(N, s) \in Seq(Token) /\ Len(HeadOf(N, s)) = Walk(N, s)
      /\ IsPrefix(HeadOf(N, s), s)
  BY <1>2, Taking, PrefixesOf DEF HeadOf
<1>4. Walk(N, s) = 0 => HeadOf(N, s) = <<>>
  BY <1>3, PrefixOrder
<1>5. \A p \in DOMAIN N : Walk(N, s) = Common(p, s) => IsPrefix(HeadOf(N, s), p)
  <2> SUFFICES ASSUME NEW p \in DOMAIN N, Walk(N, s) = Common(p, s)
               PROVE  IsPrefix(HeadOf(N, s), p)
    OBVIOUS
  <2>1. p \in Seq(Token) /\ Walk(N, s) <= Common(p, s)
    BY <1>1, <1>2 DEF Radix
  <2> QED
    BY <1>2, <2>1, Agreeing DEF HeadOf
<1> QED
  BY <1>2, <1>3, <1>4, <1>5

\* What _split makes of a tree: the head has the data of the first node below it.
LEMMA SplitIs ==
    ASSUME NEW N, Radix(N), NEW s \in Seq(Token)
    PROVE  /\ Radix(Split(N, s))
           /\ DOMAIN Split(N, s) = DOMAIN N \cup ({HeadOf(N, s)} \ {<<>>})
           /\ \A p \in DOMAIN N : Split(N, s)[p] = N[p]
           /\ HeadOf(N, s) \notin DOMAIN N \cup {<<>>} =>
                \E q \in DOMAIN N : /\ IsPrefix(HeadOf(N, s), q) /\ Split(N, s)[HeadOf(N, s)] = N[q]
                                    /\ \A r \in DOMAIN N :
                                         IsPrefix(HeadOf(N, s), r) => IsPrefix(q, r)
<1> DEFINE h == HeadOf(N, s)
           cut == {p \in DOMAIN N : IsStrictPrefix(h, p)
                     /\ \A q \in DOMAIN N : IsStrictPrefix(q, p) => ~IsStrictPrefix(h, q)}
           M == [p \in DOMAIN N \cup {h} |-> IF p = h THEN N[CHOOSE q \in cut : TRUE] ELSE N[p]]
<1>1. Split(N, s) = IF h = <<>> \/ h \in DOMAIN N THEN N ELSE M
  BY DEF Split, HeadOf
<1>2. CASE h = <<>> \/ h \in DOMAIN N
  BY <1>1, <1>2 DEF Radix
<1>3. CASE h # <<>> /\ h \notin DOMAIN N
  <2>1. DOMAIN N \subseteq Seq(Token) \ {<<>>} /\ h \in Seq(Token) \ {<<>>}
    BY <1>3, HeadIs DEF Radix
  <2>2. PICK x \in DOMAIN N : IsPrefix(h, x)
    BY <1>3, HeadIs
  <2> HIDE DEF h
  <2>3. PICK q \in DOMAIN N : IsPrefix(h, q) /\ \A r \in DOMAIN N : IsPrefix(h, r) => IsPrefix(q, r)
    BY <2>1, <2>2, FirstBelow
  <2>4. q \in cut
    <3>1. ASSUME NEW r \in DOMAIN N, IsStrictPrefix(r, q), IsStrictPrefix(h, r)
          PROVE  FALSE
      <4>1. IsPrefix(r, q) /\ IsPrefix(q, r) /\ r # q
        BY <2>3, <3>1 DEF IsStrictPrefix
      <4> QED
        BY <2>1, <4>1, PrefixPair
    <3> QED
      BY <1>3, <2>3, <3>1 DEF IsStrictPrefix
  <2>5. \A c \in cut : c = q
    BY <1>3, <2>3 DEF IsStrictPrefix
  <2>6. (CHOOSE c \in cut : TRUE) = q
    <3> HIDE DEF cut
    <3> QED  BY <2>4, <2>5
  <2>7. /\ M \in [DOMAIN N \cup {h} -> NodeData]
        /\ M[h] = N[q] /\ \A p \in DOMAIN N : M[p] = N[p]
    <3> HIDE DEF cut
    <3> QED  BY <1>3, <2>6 DEF Radix
  <2>8. ASSUME NEW p \in DOMAIN N
        PROVE  Meet(h, p) \in DOMAIN N \cup {h, <<>>}
    <3>1. /\ Meet(q, p) \in Seq(Token) /\ IsPrefix(Meet(q, p), q) /\ IsPrefix(Meet(q, p), p)
          /\ Meet(h, p) \in Seq(Token) /\ IsPrefix(Meet(h, p), h)
          /\ IsPrefix(h, p) => IsPrefix(h, Meet(h, p))
          /\ Meet(q, p) \in DOMAIN N \cup {<<>>}
      BY <2>1, Meeting, PrefixPair DEF Radix
    <3>2. CASE IsPrefix(h, p)
      BY <2>1, <3>1, <3>2, PrefixPair
    <3>3. CASE ~IsPrefix(h, p)
      <4>1. ~IsPrefix(h, Meet(q, p))
        BY <2>1, <3>1, <3>3, PrefixOrder
      <4>2. Len(Meet(q, p)) \in Nat /\ Len(h) \in Nat
        BY <2>1, <3>1, PrefixPair
      <4>3. Len(h) <= Len(Meet(q, p)) => IsPrefix(h, Meet(q, p))
        BY <2>1, <2>3, <3>1, PrefixOrder
      <4>4. IsPrefix(Meet(q, p), h)
        BY <2>1, <2>3, <3>1, <4>1, <4>2, <4>3, PrefixOrder
      <4> QED
        BY <2>1, <2>3, <3>1, <4>4, MeetOfPrefix
    <3> QED
      BY <3>2, <3>3
  <2> HIDE DEF M
  <2>9. Radix(M)
    BY <2>1, <2>7, <2>8, AddingNode
  <2>10. Split(N, s) = M /\ DOMAIN M = DOMAIN N \cup {h} /\ {h} \ {<<>>} = {h}
    BY <1>1, <1>3, <2>7
  <2> QED
    BY <2>3, <2>7, <2>9, <2>10 DEF h
<1> QED
  BY <1>2, <1>3

-----------------------------------------------------------------------------
\* One namespace: the trees T with the tokens k and the nodes N

Well(N, T, k) ==
    /\ Radix(N)
    /\ \A t \in T : k[t] = <<>> \/ k[t] \in DOMAIN N
    /\ \A p \in DOMAIN N :
          /\ N[p].owners = {t \in T : IsPrefix(p, k[t])}
          /\ N[p].ref = Cardinality(N[p].owners) /\ N[p].ref > 0

\* _split keeps a namespace well: the head has the owners of the node it is cut from.
LEMMA SplitKeeps ==
    ASSUME NEW N, NEW T \in SUBSET ID, NEW k \in [ID -> Seq(Token)], Well(N, T, k),
           NEW s \in Seq(Token)
    PROVE  Well(Split(N, s), T, k)
<1> DEFINE h == HeadOf(N, s)
           M == Split(N, s)
<1>0. Radix(N) /\ DOMAIN N \subseteq Seq(Token) \ {<<>>}
  BY DEF Well, Radix
<1>1. /\ Radix(N) /\ Radix(M) /\ h \in Seq(Token) /\ DOMAIN N \subseteq Seq(Token) \ {<<>>}
      /\ DOMAIN M = DOMAIN N \cup ({h} \ {<<>>}) /\ \A p \in DOMAIN N : M[p] = N[p]
  BY <1>0, SplitIs, HeadIs
<1>2. ASSUME h \notin DOMAIN N \cup {<<>>}
      PROVE  /\ M[h].owners = {t \in T : IsPrefix(h, k[t])}
             /\ M[h].ref = Cardinality(M[h].owners) /\ M[h].ref > 0
  <2>1. PICK q \in DOMAIN N : /\ IsPrefix(h, q) /\ M[h] = N[q]
                              /\ \A r \in DOMAIN N : IsPrefix(h, r) => IsPrefix(q, r)
    BY <1>1, <1>2, SplitIs
  <2>2. ASSUME NEW t \in T
        PROVE  IsPrefix(h, k[t]) <=> IsPrefix(q, k[t])
    <3>1. k[t] \in Seq(Token) /\ (k[t] = <<>> \/ k[t] \in DOMAIN N)
      BY DEF Well
    <3>2. IsPrefix(h, k[t]) => k[t] # <<>>
      BY <1>1, <1>2, <3>1, PrefixOrder, EmptySeq
    <3>3. IsPrefix(q, k[t]) => IsPrefix(h, k[t])
      BY <1>1, <2>1, <3>1, PrefixOrder
    <3> HIDE DEF h
    <3> QED
      BY <2>1, <3>1, <3>2, <3>3
  <2> QED
    BY <2>1, <2>2 DEF Well
<1> HIDE DEF h, M
<1>3. Well(M, T, k)
  BY <1>1, <1>2 DEF Well
<1> QED
  BY <1>3 DEF M

\* fork_branch: the child is one more owner of its parent's path.
LEMMA ShareKeeps ==
    ASSUME NEW N, NEW T \in SUBSET ID, NEW k \in [ID -> Seq(Token)], Well(N, T, k),
           IsFiniteSet(T), NEW p \in T, NEW t \in ID \ T
    PROVE  Well(Share(N, k[p], t), T \cup {t}, [k EXCEPT ![t] = k[p]])
<1> DEFINE M == Share(N, k[p], t)
           l == [k EXCEPT ![t] = k[p]]
<1>1. /\ Radix(N) /\ DOMAIN M = DOMAIN N /\ N \in [DOMAIN N -> NodeData]
      /\ \A x \in DOMAIN N : M[x] = IF IsPrefix(x, k[p])
                                    THEN [ref |-> N[x].ref + 1, owners |-> N[x].owners \cup {t}]
                                    ELSE N[x]
  BY DEF Share, Path, Well, Radix
<1>2. l[t] = k[p] /\ \A u \in T : l[u] = k[u]
  OBVIOUS
<1>3. M = [x \in DOMAIN M |-> M[x]]
  BY DEF Share
<1> HIDE DEF M, l
<1>4. ASSUME NEW x \in DOMAIN N
      PROVE  /\ M[x] \in NodeData /\ M[x].owners = {u \in T \cup {t} : IsPrefix(x, l[u])}
             /\ M[x].ref = Cardinality(M[x].owners) /\ M[x].ref > 0
  <2>1. /\ N[x] \in NodeData /\ N[x].owners = {u \in T : IsPrefix(x, k[u])}
        /\ N[x].ref = Cardinality(N[x].owners) /\ N[x].ref > 0
    BY DEF Well, Radix
  <2>2. IsFiniteSet(N[x].owners) /\ t \notin N[x].owners
    BY <2>1, FS_Subset
  <2>3. Cardinality(N[x].owners \cup {t}) = Cardinality(N[x].owners) + 1
    BY <2>2, FS_AddElement
  <2>4. CASE IsPrefix(x, k[p])
    <3>1. M[x] = [ref |-> N[x].ref + 1, owners |-> N[x].owners \cup {t}]
      BY <1>1, <2>4
    <3>2. N[x].owners \cup {t} = {u \in T \cup {t} : IsPrefix(x, l[u])}
      BY <1>2, <2>1, <2>4
    <3>3. N[x].ref \in Int /\ N[x].owners \in SUBSET ID
      BY <2>1 DEF NodeData
    <3> QED
      BY <2>1, <2>3, <3>1, <3>2, <3>3 DEF NodeData
  <2>5. CASE ~IsPrefix(x, k[p])
    <3>1. M[x] = N[x]
      BY <1>1, <2>5
    <3>2. N[x].owners = {u \in T \cup {t} : IsPrefix(x, l[u])}
      BY <1>2, <2>1, <2>5
    <3> QED
      BY <2>1, <3>1, <3>2
  <2> QED
    BY <2>4, <2>5
<1>5. Radix(M)
  BY <1>1, <1>3, <1>4 DEF Radix
<1>6. \A u \in T \cup {t} : l[u] = <<>> \/ l[u] \in DOMAIN M
  BY <1>1, <1>2 DEF Well
<1>7. Well(M, T \cup {t}, l)
  BY <1>1, <1>4, <1>5, <1>6 DEF Well
<1> QED
  BY <1>7 DEF M, l

\* Sets of none and of one.
LEMMA Count ==
    ASSUME NEW S, IsFiniteSet(S)
    PROVE  /\ Cardinality(S) \in Nat /\ (S = {} <=> Cardinality(S) = 0)
           /\ Cardinality(S) = 1 <=> \E u : S = {u}
  BY FS_CardinalityType, FS_EmptySet, FS_Singleton

\* kill: the nodes that go are those that t alone owns.
LEMMA FreedIs ==
    ASSUME NEW N, NEW T \in SUBSET ID, NEW k \in [ID -> Seq(Token)], Well(N, T, k),
           IsFiniteSet(T), NEW t \in T
    PROVE  Freed(N, k[t]) = {p \in DOMAIN N : N[p].owners = {t}}
<1>1. /\ DOMAIN N \subseteq Seq(Token) \ {<<>>} /\ k[t] \in Seq(Token)
      /\ \A p \in DOMAIN N : /\ N[p].owners = {u \in T : IsPrefix(p, k[u])}
                             /\ N[p].ref = Cardinality(N[p].owners) /\ N[p].ref > 0
  BY DEF Well, Radix
<1>2. \A p \in DOMAIN N : /\ IsFiniteSet(N[p].owners) /\ N[p].owners # {}
                          /\ N[p].ref \in Nat /\ (N[p].ref <= 1 <=> \E u : N[p].owners = {u})
  <2> SUFFICES ASSUME NEW p \in DOMAIN N
               PROVE  /\ IsFiniteSet(N[p].owners) /\ N[p].owners # {}
                      /\ N[p].ref \in Nat /\ (N[p].ref <= 1 <=> \E u : N[p].owners = {u})
    OBVIOUS
  <2>1. IsFiniteSet(N[p].owners)
    BY <1>1, FS_Subset
  <2>2. Cardinality(N[p].owners) \in Nat /\ N[p].ref = Cardinality(N[p].owners) /\ N[p].ref > 0
    BY <1>1, <2>1, FS_CardinalityType
  <2>3. N[p].owners # {}
    <3>1. N[p].owners = {} => Cardinality(N[p].owners) = 0
      BY <2>1, Count
    <3> QED
      BY <2>2, <3>1
  <2>4. Cardinality(N[p].owners) = 1 <=> \E u : N[p].owners = {u}
    BY <2>1, Count
  <2>5. N[p].ref \in Nat /\ (N[p].ref <= 1 <=> Cardinality(N[p].owners) = 1)
    BY <2>2
  <2> QED
    BY <2>1, <2>3, <2>4, <2>5
<1>3. Freed(N, k[t]) = {p \in DOMAIN N : IsPrefix(p, k[t]) /\ \A q \in DOMAIN N :
                          IsPrefix(p, q) => IsPrefix(q, k[t]) /\ N[q].ref <= 1}
  BY DEF Freed, Path
<1>4. ASSUME NEW p \in DOMAIN N, p \in Freed(N, k[t])
      PROVE  N[p].owners = {t}
  <2>1. IsPrefix(p, k[t]) /\ N[p].ref <= 1
    BY <1>1, <1>3, <1>4, PrefixPair
  <2>2. t \in N[p].owners
    BY <1>1, <2>1
  <2> QED
    BY <1>2, <2>1, <2>2
<1>5. ASSUME NEW p \in DOMAIN N, N[p].owners = {t}
      PROVE  p \in Freed(N, k[t])
  <2>1. ASSUME NEW q \in DOMAIN N, IsPrefix(p, q)
        PROVE  IsPrefix(q, k[t]) /\ N[q].ref <= 1
    <3>1. \A u \in T : IsPrefix(q, k[u]) => IsPrefix(p, k[u])
      BY <1>1, <2>1, PrefixOrder
    <3>2. N[q].owners \subseteq {t}
      BY <1>1, <1>5, <3>1
    <3>3. N[q].owners = {t}
      BY <1>2, <3>2
    <3> QED
      BY <1>1, <1>2, <3>3
  <2>2. IsPrefix(p, k[t])
    BY <1>1, <1>5
  <2> QED
    BY <1>3, <2>1, <2>2
<1>6. Freed(N, k[t]) \subseteq DOMAIN N
  BY <1>3
<1> QED
  BY <1>4, <1>5, <1>6

\* Only the tokens of the trees matter.
LEMMA WellSame ==
    ASSUME NEW N, NEW T \in SUBSET ID, NEW k, NEW l, Well(N, T, k), \A u \in T : l[u] = k[u]
    PROVE  Well(N, T, l)
<1>1. \A p \in DOMAIN N : {u \in T : IsPrefix(p, l[u])} = {u \in T : IsPrefix(p, k[u])}
  OBVIOUS
<1> QED
  BY <1>1 DEF Well

\* kill: without t, the nodes that are left count their owners again.
LEMMA DropKeeps ==
    ASSUME NEW N, NEW T \in SUBSET ID, NEW k \in [ID -> Seq(Token)], Well(N, T, k),
           IsFiniteSet(T), NEW t \in T
    PROVE  Well(DropRefs(N, k[t], t), T \ {t}, k)
<1> DEFINE M == DropRefs(N, k[t], t)
<1>0. /\ Radix(N) /\ N \in [DOMAIN N -> NodeData] /\ DOMAIN N \subseteq Seq(Token) \ {<<>>}
      /\ \A p, q \in DOMAIN N : Meet(p, q) = <<>> \/ Meet(p, q) \in DOMAIN N
  BY DEF Well, Radix
<1>1. /\ k[t] \in Seq(Token)
      /\ \A p \in DOMAIN N : /\ N[p].owners = {u \in T : IsPrefix(p, k[u])}
                             /\ N[p].ref = Cardinality(N[p].owners) /\ N[p].ref > 0
  BY DEF Well
<1>2. DOMAIN M = {p \in DOMAIN N : N[p].owners # {t}}
  <2>1. DOMAIN M = DOMAIN N \ Freed(N, k[t])
    BY DEF DropRefs
  <2>2. Freed(N, k[t]) = {p \in DOMAIN N : N[p].owners = {t}}
    BY FreedIs
  <2> HIDE DEF M
  <2> QED
    BY <2>1, <2>2
<1>3. /\ M = [p \in DOMAIN M |-> M[p]]
      /\ \A p \in DOMAIN M : M[p] = IF IsPrefix(p, k[t])
                                    THEN [ref |-> N[p].ref - 1, owners |-> N[p].owners \ {t}]
                                    ELSE N[p]
  BY <1>2 DEF DropRefs, Path
<1> HIDE DEF M
<1>4. ASSUME NEW p \in DOMAIN M
      PROVE  /\ M[p] \in NodeData /\ M[p].owners = {u \in T \ {t} : IsPrefix(p, k[u])}
             /\ M[p].ref = Cardinality(M[p].owners) /\ M[p].ref > 0
  <2>1. /\ N[p] \in NodeData /\ N[p].owners = {u \in T : IsPrefix(p, k[u])}
        /\ N[p].ref = Cardinality(N[p].owners) /\ N[p].ref > 0 /\ N[p].owners # {t}
    BY <1>0, <1>1, <1>2
  <2>2. IsFiniteSet(N[p].owners) /\ Cardinality(N[p].owners) \in Nat
    BY <2>1, FS_Subset, FS_CardinalityType
  <2>3. {u \in T \ {t} : IsPrefix(p, k[u])} = N[p].owners \ {t}
    BY <2>1
  <2>4. CASE IsPrefix(p, k[t])
    <3>1. M[p] = [ref |-> N[p].ref - 1, owners |-> N[p].owners \ {t}]
      BY <1>3, <2>4
    <3>2. t \in N[p].owners
      BY <2>1, <2>4
    <3>3. /\ Cardinality(N[p].owners \ {t}) = Cardinality(N[p].owners) - 1
          /\ IsFiniteSet(N[p].owners \ {t})
      BY <2>2, <3>2, FS_RemoveElement
    <3>4. Cardinality(N[p].owners \ {t}) # 0
      <4>1. N[p].owners \ {t} # {}
        <5>1. \E u \in N[p].owners : u # t
          BY <2>1, <3>2
        <5> QED
          BY <5>1
      <4> DEFINE o == N[p].owners \ {t}
      <4>2. IsFiniteSet(o) /\ o # {}
        BY <3>3, <4>1
      <4> HIDE DEF o
      <4>3. Cardinality(o) # 0
        BY <4>2, Count
      <4> QED
        BY <4>3 DEF o
    <3>5. N[p].ref \in Int /\ N[p].owners \in SUBSET ID
      BY <2>1 DEF NodeData
    <3>6. /\ M[p].ref = Cardinality(N[p].owners) - 1 /\ M[p].owners = N[p].owners \ {t}
          /\ M[p] \in NodeData
      BY <2>1, <3>1, <3>5 DEF NodeData
    <3>7. M[p].ref > 0
      BY <2>1, <2>2, <3>3, <3>4, <3>6
    <3> QED
      BY <2>3, <3>3, <3>6, <3>7
  <2>5. CASE ~IsPrefix(p, k[t])
    <3>1. M[p] = N[p] /\ t \notin N[p].owners
      BY <1>3, <2>1, <2>5
    <3> QED
      BY <2>1, <2>3, <3>1
  <2> QED
    BY <2>4, <2>5
<1>5. ASSUME NEW p \in DOMAIN M, NEW q \in DOMAIN M
      PROVE  Meet(p, q) = <<>> \/ Meet(p, q) \in DOMAIN M
  <2> DEFINE m == Meet(p, q)
  <2> SUFFICES ASSUME m # <<>>  PROVE m \in DOMAIN M
    OBVIOUS
  <2>1. p \in DOMAIN N /\ q \in DOMAIN N /\ N[p].owners # {t}
    BY <1>2
  <2>2. m \in DOMAIN N /\ m \in Seq(Token) /\ IsPrefix(m, p)
    BY <1>0, <1>1, <2>1, Meeting
  <2> HIDE DEF m
  <2>3. \A u \in T : IsPrefix(p, k[u]) => IsPrefix(m, k[u])
    BY <1>0, <1>1, <2>1, <2>2, PrefixOrder
  <2>4. N[p].owners \subseteq N[m].owners /\ N[p].owners # {}
    <3>1. N[p].owners \subseteq T /\ Cardinality(N[p].owners) > 0
      BY <1>1, <2>1
    <3>2. IsFiniteSet(N[p].owners)
      BY <3>1, FS_Subset
    <3>3. N[p].owners # {}
      BY <3>1, <3>2, Count
    <3> QED
      BY <1>1, <2>1, <2>2, <2>3, <3>3
  <2> QED
    BY <1>2, <2>1, <2>2, <2>4
<1>6. Radix(M)
  BY <1>0, <1>2, <1>3, <1>4, <1>5 DEF Radix
<1>7. ASSUME NEW u \in T \ {t}, k[u] # <<>>
      PROVE  k[u] \in DOMAIN M
  <2>1. k[u] \in DOMAIN N /\ k[u] \in Seq(Token)
    BY <1>7 DEF Well
  <2>2. u \in N[k[u]].owners
    BY <1>0, <1>1, <2>1, PrefixPair
  <2> QED
    BY <1>2, <2>1, <2>2
<1>8. Well(M, T \ {t}, k)
  BY <1>4, <1>6, <1>7 DEF Well
<1> QED
  BY <1>8 DEF M

\* extend: the rest of the tokens becomes a node of its own, unless there is none.
Insert(N, s, t) == [p \in DOMAIN N \cup {s} |-> IF p = s THEN [ref |-> 1, owners |-> {t}] ELSE N[p]]

\* What the walk and its split leave to be inserted parts from the tree at the head.
LEMMA InsertRadix ==
    ASSUME NEW N, Radix(N), NEW s \in Seq(Token), NEW w \in 0 .. Len(s) - 1, NEW t \in ID,
           \A p \in DOMAIN N : Common(p, s) <= w,
           SubSeq(s, 1, w) = <<>> \/ SubSeq(s, 1, w) \in DOMAIN N
    PROVE  /\ Radix(Insert(N, s, t)) /\ s # <<>> /\ \A p \in DOMAIN N : ~IsPrefix(s, p)
<1> DEFINE h == SubSeq(s, 1, w)
           M == Insert(N, s, t)
<1>1. DOMAIN N \subseteq Seq(Token) \ {<<>>} /\ Len(s) \in Nat /\ w \in 0 .. Len(s)
  BY LenProperties DEF Radix
<1>2. h \in Seq(Token) /\ Len(h) = w /\ IsPrefix(h, s)
  BY <1>1, Taking, PrefixesOf
<1>3. s # <<>>
  BY <1>1, PrefixOrder
<1>4. ASSUME NEW p \in DOMAIN N, IsPrefix(s, p)
      PROVE  FALSE
  <2>1. SubSeq(s, 1, Len(s)) = s
    BY SubSeqFull
  <2>2. Len(s) \in 0 .. Len(s) /\ p \in Seq(Token)
    BY <1>1
  <2>3. Len(s) <= Common(p, s) <=> IsPrefix(SubSeq(s, 1, Len(s)), p)
    BY <2>2, Agreeing
  <2>4. Common(p, s) \in 0 .. Len(p) /\ Len(p) \in Nat
    BY <2>2, Meeting, PrefixPair
  <2>5. Common(p, s) <= w
    OBVIOUS
  <2>6. Len(s) <= Common(p, s)
    BY <1>4, <2>1, <2>3
  <2> QED
    BY <1>1, <2>4, <2>5, <2>6
<1>5. ASSUME NEW p \in DOMAIN N
      PROVE  Meet(s, p) \in DOMAIN N \cup {s, <<>>}
  <2> DEFINE m == Meet(s, p)
  <2>0. p \in Seq(Token)
    BY <1>1
  <2>1. /\ p \in Seq(Token) /\ m \in Seq(Token) /\ IsPrefix(m, s) /\ IsPrefix(m, p)
        /\ Len(m) <= w
    <3>1. Common(p, s) = Len(Meet(p, s)) /\ Meet(p, s) = m
      BY <2>0, Meeting
    <3>2. Common(p, s) <= w
      OBVIOUS
    <3>3. m \in Seq(Token) /\ IsPrefix(m, s) /\ IsPrefix(m, p)
      BY <2>0, Meeting
    <3> QED
      BY <2>0, <3>1, <3>2, <3>3
  <2>2. IsPrefix(m, h)
    <3> HIDE DEF m, h
    <3> QED  BY <1>2, <2>1, PrefixOrder
  <2>3. Meet(h, p) = m
    BY <1>2, <2>1, <2>2, MeetOfPrefix
  <2>4. CASE h = <<>>
    <3>1. m = <<>>
      BY <1>2, <2>1, <2>2, <2>4, PrefixOrder, PrefixPair
    <3> QED
      BY <3>1
  <2>5. CASE h \in DOMAIN N
    BY <2>3, <2>5 DEF Radix
  <2> QED
    BY <2>4, <2>5
<1>6. M \in [DOMAIN N \cup {s} -> NodeData]
  <2>1. [ref |-> 1, owners |-> {t}] \in NodeData
    BY DEF NodeData
  <2> QED
    BY <2>1 DEF Insert, Radix
<1> HIDE DEF M
<1>7. Radix(M)
  BY <1>3, <1>5, <1>6, AddingNode
<1> QED
  BY <1>3, <1>4, <1>7 DEF M

\* With them t owns its new path, and every node counts its owners again.
LEMMA RefsKeep ==
    ASSUME NEW N, NEW T \in SUBSET ID, NEW k \in [ID -> Seq(Token)], Well(N, T, k),
           IsFiniteSet(T), NEW t \in T, NEW s \in Seq(Token), IsPrefix(k[t], s),
           NEW M, Radix(M),
           \/ M = N /\ (s = <<>> \/ s \in DOMAIN N)
           \/ M = Insert(N, s, t) /\ \A p \in DOMAIN N : ~IsPrefix(s, p)
    PROVE  Well(AddRefs(M, s, t), T, [k EXCEPT ![t] = s])
<1> DEFINE l == [k EXCEPT ![t] = s]
           A == AddRefs(M, s, t)
<1>1. /\ DOMAIN N \subseteq Seq(Token) \ {<<>>} /\ k[t] \in Seq(Token)
      /\ \A u \in T : k[u] = <<>> \/ k[u] \in DOMAIN N
      /\ \A p \in DOMAIN N : /\ N[p].owners = {u \in T : IsPrefix(p, k[u])} /\ N[p] \in NodeData
                             /\ N[p].ref = Cardinality(N[p].owners) /\ N[p].ref > 0
  BY DEF Well, Radix
<1>2. l[t] = s /\ \A u \in T \ {t} : l[u] = k[u]
  OBVIOUS
<1>3. /\ DOMAIN A = DOMAIN M /\ A = [p \in DOMAIN A |-> A[p]]
      /\ \A p \in DOMAIN M : A[p] = IF IsPrefix(p, s) /\ t \notin M[p].owners
                                    THEN [ref |-> M[p].ref + 1, owners |-> M[p].owners \cup {t}]
                                    ELSE M[p]
  BY DEF AddRefs, Path
<1>4. /\ DOMAIN N \subseteq DOMAIN M /\ DOMAIN M \subseteq DOMAIN N \cup {s}
      /\ \A p \in DOMAIN N : M[p] = N[p]
      /\ s = <<>> \/ s \in DOMAIN M
      /\ \A p \in DOMAIN M \ DOMAIN N :
           p = s /\ M[p].ref = 1 /\ M[p].owners = {t} /\ \A q \in DOMAIN N : ~IsPrefix(s, q)
  <2>1. s \in Seq(Token) /\ IsPrefix(s, s)
    BY PrefixPair
  <2> QED
    BY <2>1 DEF Insert
<1> HIDE DEF l, A
<1>5. ASSUME NEW p \in DOMAIN N
      PROVE  /\ A[p] \in NodeData /\ A[p].owners = {u \in T : IsPrefix(p, l[u])}
             /\ A[p].ref = Cardinality(A[p].owners) /\ A[p].ref > 0
  <2>1. /\ N[p].owners = {u \in T : IsPrefix(p, k[u])} /\ N[p] \in NodeData
        /\ N[p].ref = Cardinality(N[p].owners) /\ N[p].ref > 0 /\ p \in Seq(Token)
    BY <1>1
  <2>2. IsFiniteSet(N[p].owners) /\ N[p].ref \in Int /\ N[p].owners \in SUBSET ID
    BY <2>1, FS_Subset DEF NodeData
  <2>3. IsPrefix(p, k[t]) => IsPrefix(p, s)
    BY <1>1, <2>1, PrefixOrder
  <2>4. CASE IsPrefix(p, s) /\ t \notin N[p].owners
    <3>1. A[p] = [ref |-> N[p].ref + 1, owners |-> N[p].owners \cup {t}]
      BY <1>3, <1>4, <2>4
    <3>2. Cardinality(N[p].owners \cup {t}) = Cardinality(N[p].owners) + 1
      BY <2>2, <2>4, FS_AddElement
    <3>3. N[p].owners \cup {t} = {u \in T : IsPrefix(p, l[u])}
      BY <1>2, <2>1, <2>4
    <3> QED
      BY <2>1, <2>2, <3>1, <3>2, <3>3 DEF NodeData
  <2>5. CASE ~(IsPrefix(p, s) /\ t \notin N[p].owners)
    <3>1. A[p] = N[p]
      BY <1>3, <1>4, <2>5
    <3>2. N[p].owners = {u \in T : IsPrefix(p, l[u])}
      BY <1>2, <2>1, <2>3, <2>5
    <3> QED
      BY <2>1, <3>1, <3>2
  <2> QED
    BY <2>4, <2>5
<1>6. ASSUME NEW p \in DOMAIN M \ DOMAIN N
      PROVE  /\ A[p] \in NodeData /\ A[p].owners = {u \in T : IsPrefix(p, l[u])}
             /\ A[p].ref = Cardinality(A[p].owners) /\ A[p].ref > 0
  <2>1. /\ p = s /\ M[p].ref = 1 /\ M[p].owners = {t} /\ A[p] = M[p] /\ M[p] \in NodeData
        /\ \A q \in DOMAIN N : ~IsPrefix(s, q)
    BY <1>3, <1>4 DEF Radix
  <2>2. \A u \in T \ {t} : ~IsPrefix(s, k[u])
    <3> SUFFICES ASSUME NEW u \in T \ {t}, IsPrefix(s, k[u])  PROVE FALSE
      OBVIOUS
    <3>1. k[u] = <<>> /\ k[u] \in Seq(Token)
      BY <1>1, <2>1
    <3>2. s = <<>>
      BY <3>1, PrefixOrder, PrefixPair
    <3> QED
      BY <2>1, <3>2 DEF Radix
  <2>3. {u \in T : IsPrefix(p, l[u])} = {t}
    BY <1>2, <2>1, <2>2, PrefixPair
  <2>4. Cardinality({t}) = 1
    BY FS_Singleton
  <2>5. A[p].owners = {t} /\ A[p].ref = 1 /\ A[p] \in NodeData
    BY <2>1
  <2>6. A[p].owners = {u \in T : IsPrefix(p, l[u])}
    BY <2>3, <2>5
  <2>7. A[p].ref = Cardinality(A[p].owners) /\ A[p].ref > 0
    BY <2>4, <2>5
  <2> QED
    BY <2>5, <2>6, <2>7
<1>7. Radix(A)
  BY <1>3, <1>5, <1>6 DEF Radix
<1>8. \A u \in T : l[u] = <<>> \/ l[u] \in DOMAIN A
  BY <1>1, <1>2, <1>3, <1>4
<1>9. Well(A, T, l)
  BY <1>3, <1>5, <1>6, <1>7, <1>8 DEF Well
<1> QED
  BY <1>9 DEF A, l

-----------------------------------------------------------------------------
\* Sums

\* A function has finitely many values on a finite set.
LEMMA FiniteImage ==
    ASSUME NEW S, IsFiniteSet(S), NEW f, S = DOMAIN f, f = [x \in DOMAIN f |-> f[x]]
    PROVE  IsFiniteSet({f[x] : x \in S})
<1> DEFINE T == {f[x] : x \in S}
<1>1. f \in Surjection(S, T)
  BY DEF Surjection
<1> HIDE DEF T
<1>2. IsFiniteSet(T)
  BY <1>1, FS_Surjection
<1> QED
  BY <1>2 DEF T

\* A sum counts a mark for every unit of every element.
Marks(c, S) == UNION {{x} \X (1 .. c[x]) : x \in S}
Total(c, S) == Cardinality(Marks(c, S))

\* Finitely many numbers have finitely many marks.
LEMMA MarksFinite ==
    ASSUME NEW S, IsFiniteSet(S), NEW c, \A x \in S : c[x] \in Nat
    PROVE  IsFiniteSet(Marks(c, S))
<1> DEFINE f == [x \in S |-> {x} \X (1 .. c[x])]
           T == {f[x] : x \in S}
<1>1. IsFiniteSet(T)
  <2>1. S = DOMAIN f /\ f = [x \in DOMAIN f |-> f[x]]
    OBVIOUS
  <2> HIDE DEF f
  <2> QED
    BY <2>1, FiniteImage
<1>2. ASSUME NEW x \in S
      PROVE  IsFiniteSet(f[x])
  <2>1. IsFiniteSet({x})
    BY FS_Singleton
  <2>2. IsFiniteSet(1 .. c[x])
    BY FS_Interval
  <2> QED
    BY <2>1, <2>2, FS_Product
<1>3. \A E \in T : IsFiniteSet(E)
  BY <1>2
<1>4. Marks(c, S) = UNION T
  BY DEF Marks
<1> HIDE DEF T
<1> QED
  BY <1>1, <1>3, <1>4, FS_UNION

\* One addend and the others make the sum.
LEMMA TotalStep ==
    ASSUME NEW S, IsFiniteSet(S), NEW c, \A y \in S : c[y] \in Nat, NEW x \in S
    PROVE  /\ Total(c, S) = c[x] + Total(c, S \ {x})
           /\ Total(c, S) \in Nat /\ Total(c, S \ {x}) \in Nat
<1> DEFINE A == {x} \X (1 .. c[x])
           B == Marks(c, S \ {x})
<1>1. Marks(c, S) = A \cup B /\ A \cap B = {}
  BY DEF Marks
<1>2. IsFiniteSet(A) /\ Cardinality(A) = c[x]
  <2>1. IsFiniteSet({x}) /\ Cardinality({x}) = 1
    BY FS_Singleton
  <2>2. c[x] \in Nat
    OBVIOUS
  <2>3. IsFiniteSet(1 .. c[x]) /\ Cardinality(1 .. c[x]) = c[x]
    <3>1. 1 \in Int /\ c[x] \in Int
      BY <2>2
    <3>2. /\ IsFiniteSet(1 .. c[x])
          /\ Cardinality(1 .. c[x]) = IF 1 > c[x] THEN 0 ELSE c[x] - 1 + 1
      BY ONLY <3>1, FS_Interval
    <3> QED
      BY <2>2, <3>2
  <2>4. IsFiniteSet(A) /\ Cardinality(A) = Cardinality({x}) * Cardinality(1 .. c[x])
    BY <2>1, <2>3, FS_Product
  <2>5. Cardinality(A) = 1 * c[x]
    BY <2>1, <2>3, <2>4
  <2> QED
    BY <2>2, <2>4, <2>5
<1>3. IsFiniteSet(B)
  <2>1. IsFiniteSet(S \ {x})
    BY FS_RemoveElement
  <2> QED
    BY <2>1, MarksFinite
<1> HIDE DEF A, B
<1>4. Cardinality(A \cup B) = Cardinality(A) + Cardinality(B) - Cardinality(A \cap B)
  BY <1>2, <1>3, FS_Union
<1>5. Cardinality(B) \in Nat /\ Cardinality({}) = 0 /\ c[x] \in Nat
  BY <1>3, FS_CardinalityType, FS_EmptySet
<1>6. Total(c, S) = Cardinality(A \cup B) /\ Total(c, S \ {x}) = Cardinality(B)
  BY <1>1 DEF Total, B
<1>7. Cardinality(A \cap B) = 0
  BY <1>1, <1>5
<1>8. Cardinality(A \cup B) = c[x] + Cardinality(B) /\ Cardinality(A \cup B) \in Nat
  BY <1>2, <1>4, <1>5, <1>7
<1> QED
  BY <1>5, <1>6, <1>8

\* The sum of numbers is one.
LEMMA TotalIsNat ==
    ASSUME NEW S, IsFiniteSet(S), NEW c, \A x \in S : c[x] \in Nat
    PROVE  Total(c, S) \in Nat
  BY MarksFinite, FS_CardinalityType DEF Total

\* Addends are numbers; and they are the same ones.
Addends(c, S) == \A y \in S : c[y] \in Nat
Alike(c, d, S) == \A y \in S : d[y] = c[y]

\* Changing one addend changes the sum by as much.
LEMMA TotalChange ==
    ASSUME NEW S, IsFiniteSet(S), NEW c, Addends(c, S), NEW d, Addends(d, S),
           NEW x \in S, Alike(c, d, S \ {x})
    PROVE  Total(d, S) = Total(c, S) - c[x] + d[x] /\ Total(c, S) \in Nat
<1>1. Marks(c, S \ {x}) = Marks(d, S \ {x})
  BY DEF Marks, Alike
<1>2. Total(c, S \ {x}) = Total(d, S \ {x})
  BY <1>1 DEF Total
<1>3. (\A y \in S : c[y] \in Nat) /\ \A y \in S : d[y] \in Nat
  BY DEF Addends
<1>4. /\ Total(c, S) = c[x] + Total(c, S \ {x})
      /\ Total(c, S) \in Nat /\ Total(c, S \ {x}) \in Nat
  BY <1>3, TotalStep
<1>5. Total(d, S) = d[x] + Total(d, S \ {x})
  BY <1>3, TotalStep
<1>6. c[x] \in Nat /\ d[x] \in Nat
  BY <1>3
<1> QED
  BY <1>2, <1>4, <1>5, <1>6

\* What MapThenSumSet computes: there is a function that it describes, and each such
\* function gives the sum.
Adds(c, S, f) ==
    f = [s \in SUBSET S |-> IF s = {} THEN 0
                            ELSE LET x == CHOOSE y \in s : TRUE IN c[x] + f[s \ {x}]]

\* The recursion has a solution, and every solution is the sum: a smallest set on which
\* one were not would have a smaller such set in it.
LEMMA AddsIs ==
    ASSUME NEW S, IsFiniteSet(S), NEW c, \A x \in S : c[x] \in Nat
    PROVE  /\ \E f : Adds(c, S, f)
           /\ \A f : Adds(c, S, f) => f[S] = Total(c, S)
<1> DEFINE pick(s) == CHOOSE y \in s : TRUE
           sums == [s \in SUBSET S |-> Total(c, s)]
<1>0. \A s \in SUBSET S : s # {} => pick(s) \in s
  OBVIOUS
<1>1. \A s \in SUBSET S : s # {} => Total(c, s) = c[pick(s)] + Total(c, s \ {pick(s)})
  <2> SUFFICES ASSUME NEW s \in SUBSET S, s # {}
               PROVE  Total(c, s) = c[pick(s)] + Total(c, s \ {pick(s)})
    OBVIOUS
  <2>1. IsFiniteSet(s) /\ \A x \in s : c[x] \in Nat
    BY FS_Subset
  <2>2. pick(s) \in s
    BY <1>0
  <2> HIDE DEF pick
  <2> QED
    BY <2>1, <2>2, TotalStep
<1>2. Total(c, {}) = 0
  <2>1. Marks(c, {}) = {}
    BY DEF Marks
  <2> QED
    BY <2>1, FS_EmptySet DEF Total
<1>3. Adds(c, S, sums)
  <2>1. sums = [s \in SUBSET S |-> IF s = {} THEN 0 ELSE c[pick(s)] + sums[s \ {pick(s)}]]
    <3>1. \A s \in SUBSET S : sums[s] = IF s = {} THEN 0 ELSE c[pick(s)] + sums[s \ {pick(s)}]
      <4> HIDE DEF pick
      <4> QED
        BY <1>1, <1>2
    <3> HIDE DEF pick
    <3> QED
      BY <3>1
  <2> QED
    BY <2>1 DEF Adds
<1>4. ASSUME NEW f, Adds(c, S, f)
      PROVE  f[S] = Total(c, S)
  <2>1. \A s \in SUBSET S : f[s] = IF s = {} THEN 0 ELSE c[pick(s)] + f[s \ {pick(s)}]
    BY <1>4 DEF Adds
  <2> DEFINE wrong == {s \in SUBSET S : f[s] # Total(c, s)}
  <2> SUFFICES ASSUME wrong # {}  PROVE FALSE
    OBVIOUS
  <2>2. \A s \in SUBSET S : IsFiniteSet(s) /\ Cardinality(s) \in Nat
    BY FS_Subset, FS_CardinalityType
  <2>3. PICK s \in wrong : \A r \in wrong : Cardinality(s) <= Cardinality(r)
    <3> DEFINE sizes == {Cardinality(r) : r \in wrong}
    <3>1. sizes \in SUBSET Nat /\ sizes # {}
      BY <2>2
    <3>2. \E n \in sizes : \A m \in sizes : n <= m
      <4> HIDE DEF sizes
      <4> QED  BY <3>1, LeastOf
    <3> QED
      BY <3>2
  <2>4. s \in SUBSET S /\ f[s] # Total(c, s)
    OBVIOUS
  <2>5. s # {}
    BY <1>2, <2>1, <2>4
  <2>6. pick(s) \in s
    BY <1>0, <2>4, <2>5
  <2>7. f[s \ {pick(s)}] = Total(c, s \ {pick(s)})
    <3> HIDE DEF pick
    <3>1. Cardinality(s \ {pick(s)}) = Cardinality(s) - 1
      BY <2>2, <2>4, <2>6, FS_RemoveElement
    <3>2. s \ {pick(s)} \in SUBSET S /\ s \ {pick(s)} \notin wrong
      BY <2>2, <2>3, <2>4, <3>1
    <3> QED
      BY <3>2
  <2> HIDE DEF pick, wrong
  <2> QED
    BY <1>1, <2>1, <2>4, <2>5, <2>7
<1> QED
  BY <1>3, <1>4

-----------------------------------------------------------------------------
\* Tokens resident

\* The paths that end on the edge of p: p is the first node that has them.
FirstOf(N, u, p) ==
    /\ p \in DOMAIN N /\ IsPrefix(u, p)
    /\ \A q \in DOMAIN N : IsPrefix(u, q) => IsPrefix(p, q)

\* len(node.tokens) counts the paths that end on the edge, from the longest down.
LEMMA EdgeIs ==
    ASSUME NEW N, Radix(N), NEW p \in DOMAIN N
    PROVE  /\ Edge(N, p) \in 1 .. Len(p) /\ Len(p) \in Nat
           /\ \A n \in 1 .. Len(p) :
                FirstOf(N, SubSeq(p, 1, n), p) <=> n > Len(p) - Edge(N, p)
<1> DEFINE above == {Len(q) : q \in {r \in DOMAIN N : IsStrictPrefix(r, p)}}
           a == IF above = {} THEN 0 ELSE Max(above)
<1>1. DOMAIN N \subseteq Seq(Token) \ {<<>>} /\ p \in Seq(Token) /\ Len(p) \in Nat /\ Len(p) > 0
  <2>1. DOMAIN N \subseteq Seq(Token) \ {<<>>} /\ p \in Seq(Token) \ {<<>>}
    BY DEF Radix
  <2> QED
    BY <2>1, EmptySeq, LenProperties
<1>2. \A q \in DOMAIN N : IsStrictPrefix(q, p) => Len(q) \in 0 .. Len(p) - 1
  <2> SUFFICES ASSUME NEW q \in DOMAIN N, IsStrictPrefix(q, p)
               PROVE  Len(q) \in 0 .. Len(p) - 1
    OBVIOUS
  <2>1. q \in Seq(Token) /\ IsPrefix(q, p) /\ q # p
    BY <1>1 DEF IsStrictPrefix
  <2>2. Len(q) \in Nat /\ Len(q) <= Len(p) /\ ~(Len(p) <= Len(q))
    BY <1>1, <2>1, PrefixPair
  <2> QED
    BY <1>1, <2>2
<1>3. above # {} => Max(above) \in above /\ \A n \in above : n <= Max(above)
  <2>1. above \in SUBSET (0 .. Len(p))
    BY <1>1, <1>2
  <2> HIDE DEF above
  <2> QED
    BY <1>1, <2>1, MaxOf
<1>4. /\ a \in 0 .. Len(p) - 1 /\ \A q \in DOMAIN N : IsStrictPrefix(q, p) => Len(q) <= a
      /\ a = 0 \/ \E q \in DOMAIN N : IsStrictPrefix(q, p) /\ Len(q) = a
  <2>1. CASE above = {}
    <3>1. \A q \in DOMAIN N : ~IsStrictPrefix(q, p)
      BY <2>1
    <3>2. a = 0
      BY <2>1
    <3> HIDE DEF above, a
    <3> QED
      BY <1>1, <3>1, <3>2
  <2>2. CASE above # {}
    BY <1>1, <1>2, <1>3, <2>2
  <2> QED
    BY <2>1, <2>2
<1>5. Edge(N, p) = Len(p) - a
  BY DEF Edge
<1> HIDE DEF above, a
<1>6. Edge(N, p) \in 1 .. Len(p) /\ Len(p) - Edge(N, p) = a
  BY <1>1, <1>4, <1>5
<1>7. ASSUME NEW n \in 1 .. Len(p)
      PROVE  FirstOf(N, SubSeq(p, 1, n), p) <=> n > a
  <2> DEFINE u == SubSeq(p, 1, n)
  <2>1. u \in Seq(Token) /\ Len(u) = n /\ IsPrefix(u, p) /\ u # <<>>
    <3>1. n \in 0 .. Len(p)
      BY <1>1
    <3>2. u \in Seq(Token) /\ Len(u) = n /\ IsPrefix(u, p)
      BY <1>1, <3>1, Taking, PrefixesOf
    <3> QED
      BY <3>2, EmptySeq
  <2> HIDE DEF u
  <2>2. ASSUME FirstOf(N, u, p), n <= a
        PROVE  FALSE
    <3>1. PICK q \in DOMAIN N : IsStrictPrefix(q, p) /\ Len(q) = a
      BY <1>4, <2>2
    <3>2. q \in Seq(Token) /\ IsPrefix(q, p) /\ q # p
      BY <1>1, <3>1 DEF IsStrictPrefix
    <3>3. IsPrefix(u, q)
      BY <1>1, <2>1, <2>2, <3>1, <3>2, PrefixOrder
    <3>4. IsPrefix(p, q)
      BY <2>2, <3>3 DEF FirstOf
    <3> QED
      BY <1>1, <1>4, <3>1, <3>2, <3>4, PrefixPair
  <2>3. ASSUME n > a
        PROVE  FirstOf(N, u, p)
    <3>1. PICK r \in DOMAIN N : /\ IsPrefix(u, r)
                                /\ \A q \in DOMAIN N : IsPrefix(u, q) => IsPrefix(r, q)
      BY <2>1, FirstBelow
    <3>2. r \in Seq(Token) /\ IsPrefix(r, p) /\ Len(r) \in Nat /\ n <= Len(r)
      BY <1>1, <2>1, <3>1, PrefixPair
    <3>3. r = p
      BY <1>4, <2>3, <3>2 DEF IsStrictPrefix
    <3> QED
      BY <3>1, <3>3 DEF FirstOf
  <2>4. a \in Nat
    BY <1>1, <1>4
  <2>5. FirstOf(N, u, p) <=> n > a
    BY <2>2, <2>3, <2>4
  <2> QED
    BY <2>5 DEF u
<1> QED
  BY <1>1, <1>6, <1>7

\* The paths that the nodes P are the first to have.
Ends(N, P) == {u \in Seq(Token) \ {<<>>} : \E p \in P : FirstOf(N, u, p)}

\* The sizes of edges add up to the number of paths that end on them.
LEMMA SizeIs ==
    ASSUME NEW N, Radix(N), NEW P \in SUBSET DOMAIN N, IsFiniteSet(P)
    PROVE  IsFiniteSet(Ends(N, P)) /\ SizeOf(N, P) = Cardinality(Ends(N, P))
<1> DEFINE c == [p \in P |-> Edge(N, p)]
           g == CHOOSE f : f = [s \in SUBSET P |->
                  IF s = {} THEN 0 ELSE LET x == CHOOSE y \in s : TRUE IN Edge(N, x) + f[s \ {x}]]
<1>1. \A p \in P : c[p] = Edge(N, p) /\ c[p] \in Nat
  <2>1. \A p \in P : Edge(N, p) \in Nat
    BY EdgeIs
  <2> QED
    BY <2>1
<1>2. SizeOf(N, P) = g[P]
  BY DEF SizeOf, MapThenSumSet, MapThenFoldSet
<1>3. \A f : Adds(c, P, f) <=> f = [s \in SUBSET P |->
                  IF s = {} THEN 0 ELSE LET x == CHOOSE y \in s : TRUE IN Edge(N, x) + f[s \ {x}]]
  <2> SUFFICES ASSUME NEW f
               PROVE  Adds(c, P, f) <=> f = [s \in SUBSET P |->
                  IF s = {} THEN 0 ELSE LET x == CHOOSE y \in s : TRUE IN Edge(N, x) + f[s \ {x}]]
    OBVIOUS
  <2> DEFINE pick(s) == CHOOSE y \in s : TRUE
  <2>1. \A s \in SUBSET P : s # {} => c[pick(s)] = Edge(N, pick(s))
    <3>1. \A s \in SUBSET P : s # {} => pick(s) \in s
      OBVIOUS
    <3> HIDE DEF c, pick
    <3> QED
      BY <1>1, <3>1
  <2>2. [s \in SUBSET P |-> IF s = {} THEN 0 ELSE c[pick(s)] + f[s \ {pick(s)}]]
          = [s \in SUBSET P |-> IF s = {} THEN 0 ELSE Edge(N, pick(s)) + f[s \ {pick(s)}]]
    <3> HIDE DEF c, pick
    <3> QED
      BY <2>1
  <2> QED
    BY <2>2 DEF Adds
<1>4. \A x \in P : c[x] \in Nat
  BY <1>1
<1> HIDE DEF c
<1>5. \E f : Adds(c, P, f)
  BY <1>4, AddsIs
<1>6. Adds(c, P, g)
  BY <1>3, <1>5
<1> HIDE DEF g
<1>7. SizeOf(N, P) = Total(c, P)
  BY <1>2, <1>4, <1>6, AddsIs
<1> DEFINE E == Ends(N, P)
           M == Marks(c, P)
           path == [m \in M |-> SubSeq(m[1], 1, Len(m[1]) - m[2] + 1)]
<1>8. \A m : m \in M <=> \E p \in P : \E i \in 1 .. Edge(N, p) : m = <<p, i>>
  BY <1>1 DEF Marks
<1>9. ASSUME NEW p \in P, NEW i \in Nat, i \in 1 .. Edge(N, p)
      PROVE  /\ path[<<p, i>>] \in Seq(Token) \ {<<>>}
             /\ Len(path[<<p, i>>]) = Len(p) - i + 1 /\ FirstOf(N, path[<<p, i>>], p)
             /\ path[<<p, i>>] = SubSeq(p, 1, Len(p) - i + 1)
  <2> DEFINE n == Len(p) - i + 1
  <2>1. /\ Edge(N, p) \in 1 .. Len(p) /\ Len(p) \in Nat /\ p \in Seq(Token)
        /\ \A k \in 1 .. Len(p) : FirstOf(N, SubSeq(p, 1, k), p) <=> k > Len(p) - Edge(N, p)
    BY EdgeIs DEF Radix
  <2>2. n \in 1 .. Len(p) /\ n > Len(p) - Edge(N, p) /\ i = Len(p) - n + 1
    BY <1>9, <2>1
  <2>3. path[<<p, i>>] = SubSeq(p, 1, n)
    <3>1. <<p, i>> \in M
      BY <1>8, <1>9
    <3> HIDE DEF M
    <3> QED
      BY <3>1
  <2> HIDE DEF n, path
  <2>4. SubSeq(p, 1, n) \in Seq(Token) /\ Len(SubSeq(p, 1, n)) = n
    <3>1. n \in 0 .. Len(p)
      BY <2>1, <2>2
    <3> QED
      BY <2>1, <3>1, Taking
  <2>5. SubSeq(p, 1, n) # <<>>
    BY <2>2, <2>4, EmptySeq
  <2>6. FirstOf(N, SubSeq(p, 1, n), p)
    BY <2>1, <2>2
  <2> QED
    BY <2>3, <2>4, <2>5, <2>6 DEF n
<1> HIDE DEF M
<1>10. DOMAIN path = M /\ path = [m \in M |-> path[m]]
  OBVIOUS
<1> HIDE DEF path
<1>11. path \in [M -> E]
  <2>1. ASSUME NEW m \in M
        PROVE  path[m] \in E
    <3>1. PICK p \in P : \E i \in 1 .. Edge(N, p) : m = <<p, i>>
      BY <1>8
    <3>2. PICK i \in 1 .. Edge(N, p) : m = <<p, i>>
      BY <3>1
    <3>3. Edge(N, p) \in Nat
      BY EdgeIs
    <3>4. i \in Nat
      BY <3>3
    <3> QED
      BY <1>9, <3>2, <3>4 DEF Ends
  <2> QED
    BY <1>10, <2>1
<1>12. ASSUME NEW m1 \in M, NEW m2 \in M, path[m1] = path[m2]
       PROVE  m1 = m2
  <2>1. PICK p \in P : \E i \in 1 .. Edge(N, p) : m1 = <<p, i>>
    BY <1>8
  <2>2. PICK q \in P : \E j \in 1 .. Edge(N, q) : m2 = <<q, j>>
    BY <1>8
  <2>6. PICK i \in 1 .. Edge(N, p) : m1 = <<p, i>>
    BY <2>1
  <2>7. PICK j \in 1 .. Edge(N, q) : m2 = <<q, j>>
    BY <2>2
  <2>8. i \in Nat /\ j \in Nat
    <3>1. Edge(N, p) \in Nat /\ Edge(N, q) \in Nat
      BY EdgeIs
    <3> QED
      BY <3>1
  <2> DEFINE u == path[m1]
  <2>3. /\ FirstOf(N, u, p) /\ FirstOf(N, u, q) /\ p \in Seq(Token) /\ q \in Seq(Token)
        /\ i = Len(p) - Len(u) + 1 /\ j = Len(q) - Len(u) + 1
    <3>1. p \in Seq(Token) /\ q \in Seq(Token) /\ Len(p) \in Nat /\ Len(q) \in Nat
      <4>1. p \in Seq(Token) /\ q \in Seq(Token)
        BY DEF Radix
      <4> QED
        BY <4>1, LenProperties
    <3>2. FirstOf(N, u, p) /\ Len(u) = Len(p) - i + 1
      BY <1>9, <2>6, <2>8
    <3>3. FirstOf(N, u, q) /\ Len(u) = Len(q) - j + 1
      BY <1>9, <1>12, <2>7, <2>8
    <3> HIDE DEF u
    <3> QED
      BY <2>8, <3>1, <3>2, <3>3
  <2> HIDE DEF u
  <2>4. p = q
    <3>1. IsPrefix(p, q) /\ IsPrefix(q, p)
      BY <2>3 DEF FirstOf
    <3> QED
      BY <2>3, <3>1, PrefixPair
  <2> QED
    BY <2>3, <2>4, <2>6, <2>7
<1>13. ASSUME NEW u \in E
       PROVE  \E m \in M : path[m] = u
  <2>1. PICK p \in P : u \in Seq(Token) \ {<<>>} /\ FirstOf(N, u, p)
    BY DEF Ends
  <2>2. /\ Edge(N, p) \in 1 .. Len(p) /\ Len(p) \in Nat /\ p \in Seq(Token)
        /\ \A k \in 1 .. Len(p) : FirstOf(N, SubSeq(p, 1, k), p) <=> k > Len(p) - Edge(N, p)
    BY EdgeIs DEF Radix
  <2>3. u = SubSeq(p, 1, Len(u)) /\ Len(u) \in 1 .. Len(p)
    <3>1. IsPrefix(u, p) /\ u \in Seq(Token) /\ Len(u) \in Nat /\ Len(u) # 0
      BY <2>1, LenProperties, EmptySeq DEF FirstOf
    <3> QED
      BY <2>2, <3>1, PrefixPair, PrefixesOf
  <2>4. Len(u) > Len(p) - Edge(N, p)
    BY <2>1, <2>2, <2>3
  <2> DEFINE i == Len(p) - Len(u) + 1
  <2>5. i \in 1 .. Edge(N, p) /\ Len(p) - i + 1 = Len(u)
    BY <2>2, <2>3, <2>4
  <2>6. <<p, i>> \in M
    BY <1>8, <2>5
  <2>7. path[<<p, i>>] = u
    <3>1. i \in Nat
      BY <2>2, <2>5
    <3> HIDE DEF i
    <3> QED
      BY <1>9, <2>3, <2>5, <3>1
  <2> QED
    BY <2>6, <2>7
<1> HIDE DEF E
<1>14. path \in Bijection(M, E)
  BY <1>11, <1>12, <1>13 DEF Bijection, Injection, IsInjective, Surjection
<1>15. IsFiniteSet(M)
  BY <1>4, MarksFinite DEF M
<1>16. IsFiniteSet(E) /\ Cardinality(E) = Cardinality(M)
  BY <1>14, <1>15, FS_Bijection DEF ExistsBijection
<1> QED
  BY <1>7, <1>16 DEF Total, M, E

-----------------------------------------------------------------------------
\* Tokens needed

\* The paths that begin the tokens of a tree of T: what the namespace has to hold.
NeededOf(T, k) == {u \in Seq(Token) \ {<<>>} : \E t \in T : IsPrefix(u, k[t])}

\* A sequence has one prefix of every length.
LEMMA PrefixCount ==
    ASSUME NEW s \in Seq(Token), NEW m \in 0 .. Len(s)
    PROVE  LET longer == {u \in Seq(Token) : IsPrefix(u, s) /\ Len(u) > m}
           IN  IsFiniteSet(longer) /\ Cardinality(longer) = Len(s) - m
<1> DEFINE longer == {u \in Seq(Token) : IsPrefix(u, s) /\ Len(u) > m}
           I == m + 1 .. Len(s)
           f == [n \in I |-> SubSeq(s, 1, n)]
<1>1. Len(s) \in Nat /\ m \in Nat /\ m <= Len(s)
  BY LenProperties
<1>2. \A n \in I : n \in 0 .. Len(s) /\ n > m
  BY <1>1
<1>3. \A n \in I : f[n] \in longer /\ Len(f[n]) = n
  BY <1>2, Taking, PrefixesOf
<1>4. \A u \in longer : Len(u) \in I /\ u = SubSeq(s, 1, Len(u))
  <2>1. \A u \in longer : Len(u) \in Nat /\ Len(u) <= Len(s) /\ Len(u) > m
    BY PrefixPair, LenProperties
  <2>2. \A u \in longer : u = SubSeq(s, 1, Len(u))
    BY PrefixesOf
  <2> QED
    BY <1>1, <2>1, <2>2
<1>5. \A u \in longer : f[Len(u)] = u /\ Len(u) \in I
  BY <1>4
<1>6. f = [n \in I |-> f[n]] /\ DOMAIN f = I
  OBVIOUS
<1>7. IsFiniteSet(I) /\ Cardinality(I) = Len(s) - m
  <2>1. m + 1 \in Int /\ Len(s) \in Int
    BY <1>1
  <2>2. IsFiniteSet(I) /\ Cardinality(I) = IF m + 1 > Len(s) THEN 0 ELSE Len(s) - (m + 1) + 1
    BY <2>1, FS_Interval
  <2> QED
    BY <1>1, <2>2
<1> HIDE DEF longer, I, f
<1>8. f \in Bijection(I, longer)
  BY <1>3, <1>5, <1>6 DEF Bijection, Injection, IsInjective, Surjection
<1>9. IsFiniteSet(longer) /\ Cardinality(longer) = Cardinality(I)
  BY <1>7, <1>8, FS_Bijection DEF ExistsBijection
<1> QED
  BY <1>7, <1>9 DEF longer

\* Finitely many trees need finitely many paths.
LEMMA NeededFinite ==
    ASSUME NEW T \in SUBSET ID, IsFiniteSet(T), NEW k \in [ID -> Seq(Token)]
    PROVE  IsFiniteSet(NeededOf(T, k)) /\ Cardinality(NeededOf(T, k)) \in Nat
<1> DEFINE f == [t \in T |-> {u \in Seq(Token) : IsPrefix(u, k[t]) /\ Len(u) > 0}]
           F == {f[t] : t \in T}
<1>1. IsFiniteSet(F)
  <2>1. T = DOMAIN f /\ f = [x \in DOMAIN f |-> f[x]]
    OBVIOUS
  <2> HIDE DEF f
  <2> QED
    BY <2>1, FiniteImage
<1>2. ASSUME NEW t \in T
      PROVE  IsFiniteSet(f[t])
  <2>1. k[t] \in Seq(Token) /\ 0 \in 0 .. Len(k[t])
    BY LenProperties
  <2> QED
    BY <2>1, PrefixCount
<1>3. \A E \in F : IsFiniteSet(E)
  BY <1>2
<1>4. NeededOf(T, k) \subseteq UNION F
  <2>1. \A u \in Seq(Token) \ {<<>>} : Len(u) > 0
    BY LenProperties, EmptySeq
  <2>2. \A u \in NeededOf(T, k) : \E t \in T : u \in f[t]
    BY <2>1 DEF NeededOf
  <2> HIDE DEF f
  <2> QED
    BY <2>2
<1> HIDE DEF F
<1>5. IsFiniteSet(UNION F)
  BY <1>1, <1>3, FS_UNION
<1> QED
  BY <1>4, <1>5, FS_Subset, FS_CardinalityType

\* A well-kept namespace holds what its trees need, no more and no less.
LEMMA HoldsNeeded ==
    ASSUME NEW N, NEW T \in SUBSET ID, NEW k \in [ID -> Seq(Token)], Well(N, T, k),
           IsFiniteSet(T)
    PROVE  /\ \A p \in DOMAIN N : N[p].owners # {} /\ N[p].owners \subseteq T
           /\ \A p \in DOMAIN N : \A t \in N[p].owners : IsPrefix(p, k[t])
           /\ Ends(N, DOMAIN N) = NeededOf(T, k)
           /\ \A u \in Seq(Token) \ {<<>>} :
                u \in NeededOf(T, k) <=> \E p \in DOMAIN N : IsPrefix(u, p)
           /\ IsFiniteSet(DOMAIN N)
<1>1. \A p \in DOMAIN N : N[p].owners # {}
  <2>1. \A p \in DOMAIN N : Cardinality(N[p].owners) > 0
    BY DEF Well
  <2>2. Cardinality({}) = 0
    BY FS_EmptySet
  <2>3. \A p \in DOMAIN N : N[p].owners = {} => Cardinality(N[p].owners) = 0
    BY <2>2
  <2> QED
    BY <2>1, <2>3
<1>2. /\ \A p \in DOMAIN N : N[p].owners \subseteq T
      /\ \A p \in DOMAIN N : \A t \in N[p].owners : IsPrefix(p, k[t])
  BY DEF Well
<1>3. DOMAIN N \subseteq Seq(Token) \ {<<>>} /\ \A t \in T : k[t] \in Seq(Token)
  BY DEF Well, Radix
<1>4. \A u \in Seq(Token) \ {<<>>}, p \in DOMAIN N : IsPrefix(u, p) => u \in NeededOf(T, k)
  <2> SUFFICES ASSUME NEW u \in Seq(Token) \ {<<>>}, NEW p \in DOMAIN N, IsPrefix(u, p)
               PROVE  \E t \in T : IsPrefix(u, k[t])
    BY DEF NeededOf
  <2>1. PICK t \in T : IsPrefix(p, k[t])
    BY <1>1, <1>2
  <2>2. p \in Seq(Token) /\ k[t] \in Seq(Token)
    BY <1>3
  <2> QED
    BY <2>1, <2>2, PrefixOrder
<1>5. \A u \in Seq(Token) \ {<<>>} : u \in NeededOf(T, k) => \E p \in DOMAIN N : IsPrefix(u, p)
  <2> SUFFICES ASSUME NEW u \in Seq(Token) \ {<<>>}, NEW t \in T, IsPrefix(u, k[t])
               PROVE  \E p \in DOMAIN N : IsPrefix(u, p)
    BY DEF NeededOf
  <2>1. k[t] # <<>>
    <3>1. Len(u) \in Nat /\ Len(u) # 0 /\ Len(u) <= Len(k[t])
      BY <1>3, PrefixPair, LenProperties, EmptySeq
    <3> QED
      BY <3>1, EmptySeq
  <2> QED
    BY <2>1 DEF Well
<1>6. Ends(N, DOMAIN N) = NeededOf(T, k)
  <2>1. \A u \in Ends(N, DOMAIN N) : u \in NeededOf(T, k)
    BY <1>4 DEF Ends, FirstOf
  <2>2. ASSUME NEW u \in NeededOf(T, k)
        PROVE  u \in Ends(N, DOMAIN N)
    <3>1. u \in Seq(Token) \ {<<>>}
      BY DEF NeededOf
    <3>2. PICK x \in DOMAIN N : IsPrefix(u, x)
      BY <1>5, <3>1
    <3>3. \E p \in DOMAIN N : IsPrefix(u, p) /\ \A q \in DOMAIN N : IsPrefix(u, q) => IsPrefix(p, q)
      <4>1. Radix(N)
        BY DEF Well
      <4> QED
        BY <3>1, <3>2, <4>1, FirstBelow
    <3> QED
      BY <3>1, <3>3 DEF Ends, FirstOf
  <2> QED
    BY <2>1, <2>2
<1>7. IsFiniteSet(DOMAIN N)
  <2>1. \A p \in DOMAIN N : IsPrefix(p, p)
    BY <1>3, PrefixPair
  <2>2. DOMAIN N \subseteq NeededOf(T, k)
    BY <1>3, <1>4, <2>1
  <2> QED
    BY <2>2, NeededFinite, FS_Subset
<1> QED
  BY <1>1, <1>2, <1>4, <1>5, <1>6, <1>7

\* _namespace_tokens counts the paths needed.
LEMMA NamespaceTokensIs ==
    ASSUME NEW N, NEW T \in SUBSET ID, NEW k \in [ID -> Seq(Token)], Well(N, T, k),
           IsFiniteSet(T)
    PROVE  NamespaceTokens(N) = Cardinality(NeededOf(T, k))
<1>1. Ends(N, DOMAIN N) = NeededOf(T, k) /\ IsFiniteSet(DOMAIN N)
  BY HoldsNeeded
<1>2. DOMAIN N \in SUBSET DOMAIN N /\ Radix(N)
  BY DEF Well
<1>3. SizeOf(N, DOMAIN N) = Cardinality(Ends(N, DOMAIN N))
  BY <1>1, <1>2, SizeIs
<1> QED
  BY <1>1, <1>3 DEF NamespaceTokens

\* kill gives back exactly the paths that only t needed.
LEMMA FreedTokens ==
    ASSUME NEW N, NEW T \in SUBSET ID, NEW k \in [ID -> Seq(Token)], Well(N, T, k),
           IsFiniteSet(T), NEW t \in T
    PROVE  SizeOf(N, Freed(N, k[t]))
              = Cardinality(NeededOf(T, k)) - Cardinality(NeededOf(T \ {t}, k))
<1> DEFINE P == {p \in DOMAIN N : N[p].owners = {t}}
           A == NeededOf(T, k)
           B == NeededOf(T \ {t}, k)
<1>1. Freed(N, k[t]) = P
  BY FreedIs
<1>2. /\ \A p \in DOMAIN N : N[p].owners # {} /\ N[p].owners \subseteq T
      /\ \A p \in DOMAIN N : \A v \in N[p].owners : IsPrefix(p, k[v])
      /\ Ends(N, DOMAIN N) = A
      /\ IsFiniteSet(DOMAIN N)
  BY HoldsNeeded
<1>3. DOMAIN N \subseteq Seq(Token) \ {<<>>} /\ \A v \in T : k[v] \in Seq(Token) /\ Radix(N)
  BY DEF Well, Radix
<1>4. \A p \in DOMAIN N : \A v \in T : v \in N[p].owners <=> IsPrefix(p, k[v])
  BY DEF Well
<1>5. ASSUME NEW u \in Seq(Token) \ {<<>>}, NEW p \in DOMAIN N, FirstOf(N, u, p)
      PROVE  u \in B <=> N[p].owners # {t}
  <2>1. ASSUME NEW v \in T \ {t}, IsPrefix(u, k[v])
        PROVE  v \in N[p].owners
    <3>1. k[v] # <<>>
      <4>1. Len(u) \in Nat /\ Len(u) # 0 /\ Len(u) <= Len(k[v])
        BY <1>3, <2>1, PrefixPair, LenProperties, EmptySeq
      <4> QED
        BY <4>1, EmptySeq
    <3>2. k[v] \in DOMAIN N
      BY <3>1 DEF Well
    <3>3. IsPrefix(p, k[v])
      BY <1>5, <2>1, <3>2 DEF FirstOf
    <3> QED
      BY <1>4, <3>3
  <2>2. ASSUME N[p].owners # {t}
        PROVE  u \in B
    <3>1. PICK v \in N[p].owners : v # t /\ v \in T
      BY <1>2, <2>2
    <3>2. IsPrefix(p, k[v]) /\ IsPrefix(u, p) /\ p \in Seq(Token) /\ k[v] \in Seq(Token)
      BY <1>2, <1>3, <1>5, <3>1 DEF FirstOf
    <3>3. IsPrefix(u, k[v])
      BY <3>2, PrefixOrder
    <3> QED
      BY <3>1, <3>3 DEF NeededOf
  <2>3. u \in B => N[p].owners # {t}
    BY <2>1 DEF NeededOf
  <2> QED
    BY <2>2, <2>3
<1>6. Ends(N, P) = A \ B
  <2>1. \A u \in Ends(N, P) : u \in A \ B
    BY <1>2, <1>5 DEF Ends
  <2>2. \A u \in A \ B : u \in Ends(N, P)
    BY <1>2, <1>5 DEF Ends
  <2> QED
    BY <2>1, <2>2
<1>7. SizeOf(N, P) = Cardinality(Ends(N, P))
  <2>1. P \in SUBSET DOMAIN N /\ IsFiniteSet(P)
    BY <1>2, FS_Subset
  <2> HIDE DEF P
  <2> QED
    BY <1>3, <2>1, SizeIs
<1>8. B \subseteq A
  BY DEF NeededOf
<1>9. IsFiniteSet(A) /\ IsFiniteSet(B) /\ Cardinality(A) \in Nat /\ Cardinality(B) \in Nat
  <2>1. IsFiniteSet(A) /\ Cardinality(A) \in Nat
    BY NeededFinite
  <2>2. IsFiniteSet(B)
    BY <1>8, <2>1, FS_Subset
  <2> QED
    BY <2>1, <2>2, FS_CardinalityType
<1> HIDE DEF A, B, P
<1>10. Cardinality(A \ B) = Cardinality(A) - Cardinality(B)
  <2>1. Cardinality(A \ B) = Cardinality(A) - Cardinality(A \cap B)
    BY <1>9, FS_Difference
  <2>2. A \cap B = B
    BY <1>8
  <2> QED
    BY <2>1, <2>2
<1> QED
  BY <1>1, <1>6, <1>7, <1>10 DEF A, B

\* extend is charged for exactly the paths that were not needed before.
LEMMA MoreTokens ==
    ASSUME NEW N, NEW T \in SUBSET ID, NEW k \in [ID -> Seq(Token)], Well(N, T, k),
           IsFiniteSet(T), NEW t \in T, NEW s \in Seq(Token), IsPrefix(k[t], s)
    PROVE  Cardinality(NeededOf(T, [k EXCEPT ![t] = s]))
              = Cardinality(NeededOf(T, k)) + (Len(s) - Walk(N, s))
<1> DEFINE l == [k EXCEPT ![t] = s]
           A == NeededOf(T, k)
           B == NeededOf(T, l)
           new == {u \in Seq(Token) : IsPrefix(u, s) /\ Len(u) > Walk(N, s)}
<1>1. l \in [ID -> Seq(Token)] /\ l[t] = s /\ \A v \in T \ {t} : l[v] = k[v]
  OBVIOUS
<1>2. /\ Walk(N, s) \in 0 .. Len(s) /\ Radix(N) /\ Len(s) \in Nat
      /\ HeadOf(N, s) \in Seq(Token) /\ Len(HeadOf(N, s)) = Walk(N, s)
      /\ IsPrefix(HeadOf(N, s), s)
      /\ \A p \in DOMAIN N : Common(p, s) <= Walk(N, s)
      /\ HeadOf(N, s) = <<>> \/ \E p \in DOMAIN N : IsPrefix(HeadOf(N, s), p)
  <2>1. Radix(N) /\ Len(s) \in Nat
    BY LenProperties DEF Well
  <2> QED
    BY <2>1, HeadIs
<1>3. /\ \A u \in Seq(Token) \ {<<>>} : u \in A <=> \E p \in DOMAIN N : IsPrefix(u, p)
      /\ DOMAIN N \subseteq Seq(Token) /\ \A v \in T : k[v] \in Seq(Token)
  <2>1. DOMAIN N \subseteq Seq(Token)
    BY DEF Well, Radix
  <2> QED
    BY <2>1, HoldsNeeded
<1> HIDE DEF l
<1>4. A \subseteq B
  <2> SUFFICES ASSUME NEW u \in Seq(Token) \ {<<>>}, NEW v \in T, IsPrefix(u, k[v])
               PROVE  \E w \in T : IsPrefix(u, l[w])
    BY DEF NeededOf
  <2>1. CASE v = t
    <3>1. IsPrefix(u, s)
      BY <1>3, <2>1, PrefixOrder
    <3> QED
      BY <1>1, <3>1
  <2>2. CASE v # t
    BY <1>1, <2>2
  <2> QED
    BY <2>1, <2>2
<1>5. new \subseteq B
  <2> SUFFICES ASSUME NEW u \in new
               PROVE  u \in B
    OBVIOUS
  <2>1. u \in Seq(Token) /\ IsPrefix(u, s) /\ u # <<>>
    <3>1. u \in Seq(Token) /\ IsPrefix(u, s) /\ Len(u) > 0
      BY <1>2
    <3> QED
      BY <3>1, EmptySeq
  <2> QED
    BY <1>1, <2>1 DEF NeededOf
<1>6. B \subseteq A \cup new
  <2> SUFFICES ASSUME NEW u \in Seq(Token) \ {<<>>}, NEW v \in T, IsPrefix(u, l[v]), u \notin new
               PROVE  u \in A
    BY DEF NeededOf
  <2>1. CASE v # t
    BY <1>1, <2>1 DEF NeededOf
  <2>2. CASE v = t
    <3>1. IsPrefix(u, s) /\ Len(u) <= Walk(N, s) /\ Len(u) \in Nat /\ Len(u) # 0
      <4>1. IsPrefix(u, s) /\ Len(u) \in Nat /\ Len(u) # 0
        BY <1>1, <2>2, LenProperties, EmptySeq
      <4> QED
        BY <1>2, <4>1
    <3>2. IsPrefix(u, HeadOf(N, s))
      BY <1>2, <3>1, PrefixOrder
    <3>3. HeadOf(N, s) # <<>>
      BY <1>2, <3>1, EmptySeq
    <3>4. PICK p \in DOMAIN N : IsPrefix(HeadOf(N, s), p)
      BY <1>2, <3>3
    <3>5. IsPrefix(u, p)
      BY <1>2, <1>3, <3>2, <3>4, PrefixOrder
    <3> QED
      BY <1>3, <3>5
  <2> QED
    BY <2>1, <2>2
<1>7. A \cap new = {}
  <2> SUFFICES ASSUME NEW u \in A, u \in new
               PROVE  FALSE
    OBVIOUS
  <2>1. u \in Seq(Token) \ {<<>>} /\ IsPrefix(u, s) /\ Len(u) > Walk(N, s) /\ Len(u) \in Nat
    BY LenProperties DEF NeededOf
  <2>2. PICK p \in DOMAIN N : IsPrefix(u, p)
    BY <1>3, <2>1
  <2>3. u = SubSeq(s, 1, Len(u)) /\ Len(u) \in 0 .. Len(s) /\ p \in Seq(Token)
    BY <1>2, <1>3, <2>1, PrefixPair, PrefixesOf
  <2>4. Len(u) <= Common(p, s) <=> IsPrefix(SubSeq(s, 1, Len(u)), p)
    BY <2>3, Agreeing
  <2>5. Common(p, s) \in 0 .. Len(s)
    BY <1>2, <2>3, Agreeing
  <2> QED
    <3>1. Len(u) <= Common(p, s)
      BY <2>2, <2>3, <2>4
    <3>2. Common(p, s) <= Walk(N, s)
      BY <1>2
    <3> QED
      BY <1>2, <2>1, <2>5, <3>1, <3>2
<1>8. IsFiniteSet(new) /\ Cardinality(new) = Len(s) - Walk(N, s)
  BY <1>2, PrefixCount
<1>9. IsFiniteSet(A) /\ Cardinality(A) \in Nat
  BY NeededFinite
<1> HIDE DEF A, B, new
<1>10. B = A \cup new
  BY <1>4, <1>5, <1>6
<1>11. Cardinality(B) = Cardinality(A) + Cardinality(new) - Cardinality({})
  BY <1>7, <1>8, <1>9, <1>10, FS_Union
<1>12. Cardinality(B) = Cardinality(A) + (Len(s) - Walk(N, s))
  BY <1>2, <1>8, <1>9, <1>11, FS_EmptySet
<1> QED
  BY <1>12 DEF A, B, l

-----------------------------------------------------------------------------
\* The invariant
\*
\* It speaks of the current state or of the next one: n, k, R and M stand for
\* namespace, tokens, roots and nodes.

MembersOf(n, ns) == {t \in ID : n[t] = ns}

\* What each namespace needs, and what each tree has.
Load(n, k) == [ns \in ID |-> Cardinality(NeededOf(MembersOf(n, ns), k))]
Lengths(k) == [t \in ID |-> Len(k[t])]

\* A namespace with a tree has its root, and an id without a tree no tokens.
Typed(n, k, R, M) ==
    /\ n \in [ID -> ID \cup {NoTree}] /\ k \in [ID -> Seq(Token)] /\ R \subseteq ID
    /\ M = [ns \in ID |-> M[ns]]
    /\ \A t \in ID : n[t] # NoTree => n[t] \in R
    /\ \A t \in ID : n[t] = NoTree => k[t] = <<>>

Sound(n, k, M) == \A ns \in ID : Well(M[ns], MembersOf(n, ns), k)

Booked(n, k, res, log) ==
    /\ res = Total(Load(n, k), ID) /\ log = Total(Lengths(k), ID)
    /\ res <= Capacity /\ \A ns \in ID : Load(n, k)[ns] <= Budget

KVInv ==
    /\ Typed(namespace, tokens, roots, nodes)
    /\ Sound(namespace, tokens, nodes)
    /\ Booked(namespace, tokens, resident, logical)

-----------------------------------------------------------------------------
\* What a step of one namespace changes

\* The members of a namespace are finitely many, and so are their needs.
LEMMA LoadIs ==
    ASSUME NEW n, NEW k \in [ID -> Seq(Token)], NEW ns \in ID
    PROVE  /\ IsFiniteSet(MembersOf(n, ns)) /\ MembersOf(n, ns) \in SUBSET ID
           /\ Load(n, k)[ns] = Cardinality(NeededOf(MembersOf(n, ns), k))
           /\ Load(n, k)[ns] \in Nat
<1>1. MembersOf(n, ns) \in SUBSET ID
  BY DEF MembersOf
<1>2. IsFiniteSet(MembersOf(n, ns))
  BY <1>1, KVAssumption, FS_Subset
<1>3. Load(n, k)[ns] = Cardinality(NeededOf(MembersOf(n, ns), k))
  BY DEF Load
<1>4. Cardinality(NeededOf(MembersOf(n, ns), k)) \in Nat
  BY <1>1, <1>2, NeededFinite
<1> QED
  BY <1>1, <1>2, <1>3, <1>4

\* A tree without tokens needs nothing, and nothing is a namespace for it.
LEMMA WellEmpty ==
    ASSUME NEW T \in SUBSET ID, NEW k \in [ID -> Seq(Token)], \A t \in T : k[t] = <<>>
    PROVE  Well(NoNodes, T, k) /\ Cardinality(NeededOf(T, k)) = 0
<1>1. DOMAIN NoNodes = {} /\ NoNodes = [p \in {} |-> NoNodes[p]]
  BY DEF NoNodes
<1>2. NoNodes \in [{} -> NodeData]
  BY <1>1
<1>3. Well(NoNodes, T, k)
  BY <1>1, <1>2 DEF Well, Radix
<1>4. \A u \in Seq(Token) \ {<<>>} : ~IsPrefix(u, <<>>)
  <2> SUFFICES ASSUME NEW u \in Seq(Token) \ {<<>>}, IsPrefix(u, <<>>)
               PROVE  FALSE
    OBVIOUS
  <2>1. <<>> \in Seq(Token) /\ Len(<<>>) = 0
    BY EmptySeq
  <2>2. Len(u) \in Nat /\ Len(u) <= 0 /\ Len(u) # 0
    BY <2>1, PrefixPair, EmptySeq
  <2> QED
    BY <2>2
<1>5. NeededOf(T, k) = {}
  BY <1>4 DEF NeededOf
<1> QED
  BY <1>3, <1>5, FS_EmptySet

\* Namespaces other than ns do not change.
Elsewhere(n, m, k, l, M, O, ns) ==
    \A j \in ID \ {ns} : /\ O[j] = M[j] /\ MembersOf(m, j) = MembersOf(n, j)
                         /\ \A t \in MembersOf(n, j) : l[t] = k[t]

\* What is needed in all changes by what is needed in ns.
Moves(n, m, k, l, ns) ==
    /\ Total(Load(m, l), ID) = Total(Load(n, k), ID) - Load(n, k)[ns] + Load(m, l)[ns]
    /\ \A j \in ID \ {ns} : Load(m, l)[j] = Load(n, k)[j]
    /\ \A j \in ID : Load(m, l)[j] \in Nat /\ Load(n, k)[j] \in Nat
    /\ Total(Load(n, k), ID) \in Nat

\* Where only the namespace ns changes, the others stay well.
LEMMA OneNamespace ==
    ASSUME NEW n, NEW m, NEW k \in [ID -> Seq(Token)], NEW l \in [ID -> Seq(Token)],
           NEW M, NEW O, Sound(n, k, M), NEW ns \in ID, Well(O[ns], MembersOf(m, ns), l),
           Elsewhere(n, m, k, l, M, O, ns)
    PROVE  Sound(m, l, O) /\ Moves(n, m, k, l, ns)
<1>1. ASSUME NEW j \in ID \ {ns}
      PROVE  Well(O[j], MembersOf(m, j), l)
  <2> DEFINE T == MembersOf(n, j)
  <2>1. Well(M[j], T, k) /\ T \in SUBSET ID
    BY DEF Sound, MembersOf
  <2>2. O[j] = M[j] /\ MembersOf(m, j) = T /\ \A t \in T : l[t] = k[t]
    BY DEF Elsewhere
  <2> HIDE DEF T
  <2>3. Well(M[j], T, l)
    BY <2>1, <2>2, WellSame
  <2> QED
    BY <2>2, <2>3
<1>2. Sound(m, l, O)
  BY <1>1 DEF Sound
<1>3. \A j \in ID : Load(m, l)[j] \in Nat /\ Load(n, k)[j] \in Nat
  BY LoadIs
<1>4. ASSUME NEW j \in ID \ {ns}
      PROVE  Load(m, l)[j] = Load(n, k)[j]
  <2>1. NeededOf(MembersOf(m, j), l) = NeededOf(MembersOf(n, j), k)
    BY DEF NeededOf, Elsewhere
  <2>2. Load(m, l)[j] = Cardinality(NeededOf(MembersOf(m, j), l))
    BY DEF Load
  <2>3. Load(n, k)[j] = Cardinality(NeededOf(MembersOf(n, j), k))
    BY DEF Load
  <2> QED
    BY <2>1, <2>2, <2>3
<1>5. IsFiniteSet(ID)
  BY KVAssumption
<1> DEFINE c == Load(n, k)
           d == Load(m, l)
<1>6. Addends(c, ID) /\ Addends(d, ID)
  BY <1>3 DEF Addends
<1>7. Alike(c, d, ID \ {ns})
  BY <1>4 DEF Alike
<1> HIDE DEF c, d
<1>8. Total(d, ID) = Total(c, ID) - c[ns] + d[ns] /\ Total(c, ID) \in Nat
  BY <1>5, <1>6, <1>7, TotalChange
<1> QED
  BY <1>2, <1>3, <1>4, <1>8 DEF Moves, c, d

\* Where only the tokens of t change, the lengths change by as much.
LEMMA OneTree ==
    ASSUME NEW k \in [ID -> Seq(Token)], NEW t \in ID, NEW s \in Seq(Token)
    PROVE  /\ Total(Lengths([k EXCEPT ![t] = s]), ID) = Total(Lengths(k), ID) - Len(k[t]) + Len(s)
           /\ Total(Lengths(k), ID) \in Nat /\ Len(k[t]) \in Nat /\ Len(s) \in Nat
<1> DEFINE l == [k EXCEPT ![t] = s]
           c == Lengths(k)
           d == Lengths(l)
<1>1. \A u \in ID : k[u] \in Seq(Token) /\ l[u] \in Seq(Token)
  OBVIOUS
<1>2. \A u \in ID : c[u] = Len(k[u]) /\ d[u] = Len(l[u])
  BY DEF Lengths
<1>3. Addends(c, ID) /\ Addends(d, ID)
  <2>1. \A u \in ID : Len(k[u]) \in Nat /\ Len(l[u]) \in Nat
    BY <1>1, LenProperties
  <2> HIDE DEF c, d, l
  <2> QED
    BY <1>2, <2>1 DEF Addends
<1>4. Alike(c, d, ID \ {t})
  BY <1>2 DEF Alike
<1>5. c[t] = Len(k[t]) /\ d[t] = Len(s) /\ IsFiniteSet(ID)
  BY <1>2, KVAssumption
<1> HIDE DEF c, d, l
<1>6. Total(d, ID) = Total(c, ID) - c[t] + d[t] /\ Total(c, ID) \in Nat
  BY <1>3, <1>4, <1>5, TotalChange
<1> QED
  BY <1>3, <1>5, <1>6 DEF Addends, c, d, l

-----------------------------------------------------------------------------
\* The steps

\* An empty cache is well kept.
LEMMA KVInitInv == KVInit => KVInv
<1> SUFFICES ASSUME KVInit PROVE KVInv
  OBVIOUS
<1>1. Typed(namespace, tokens, roots, nodes)
  <2>1. <<>> \in Seq(Token)
    BY EmptySeq
  <2> QED
    BY <2>1, KVAssumption DEF KVInit, Typed
<1>2. tokens \in [ID -> Seq(Token)] /\ \A t \in ID : tokens[t] = <<>>
  BY <1>1 DEF Typed, KVInit
<1>3. ASSUME NEW ns \in ID
      PROVE  /\ Well(nodes[ns], MembersOf(namespace, ns), tokens)
             /\ Load(namespace, tokens)[ns] = 0
  <2>1. MembersOf(namespace, ns) \in SUBSET ID /\ nodes[ns] = NoNodes
    BY DEF MembersOf, KVInit
  <2>2. /\ Well(NoNodes, MembersOf(namespace, ns), tokens)
        /\ Cardinality(NeededOf(MembersOf(namespace, ns), tokens)) = 0
    BY <1>2, <2>1, WellEmpty
  <2> QED
    BY <2>1, <2>2 DEF Load
<1>4. Total(Load(namespace, tokens), ID) = 0
  <2> DEFINE c == Load(namespace, tokens)
  <2>1. \A ns \in ID : c[ns] = 0
    BY <1>3
  <2> HIDE DEF c
  <2>2. Marks(c, ID) = {}
    BY <2>1 DEF Marks
  <2>3. Total(c, ID) = 0
    BY <2>2, FS_EmptySet DEF Total
  <2> QED
    BY <2>3 DEF c
<1>5. Total(Lengths(tokens), ID) = 0
  <2> DEFINE c == Lengths(tokens)
  <2>1. \A t \in ID : c[t] = 0
    BY <1>2, EmptySeq DEF Lengths
  <2> HIDE DEF c
  <2>2. Marks(c, ID) = {}
    BY <2>1 DEF Marks
  <2>3. Total(c, ID) = 0
    BY <2>2, FS_EmptySet DEF Total
  <2> QED
    BY <2>3 DEF c
<1>6. resident = 0 /\ logical = 0
  BY DEF KVInit
<1>7. Booked(namespace, tokens, resident, logical)
  BY <1>3, <1>4, <1>5, <1>6, KVAssumption DEF Booked
<1> QED
  BY <1>1, <1>3, <1>7 DEF KVInv, Sound

\* create_tree: a fresh namespace needs nothing.
LEMMA CreateKeeps ==
    ASSUME KVInv, ~ReuseNamespace, NEW t \in ID, create_tree(t)
    PROVE  KVInv'
<1>1. /\ namespace \in [ID -> ID \cup {NoTree}] /\ tokens \in [ID -> Seq(Token)]
      /\ namespace[t] = NoTree /\ t \notin roots /\ tokens[t] = <<>>
      /\ Sound(namespace, tokens, nodes) /\ Booked(namespace, tokens, resident, logical)
      /\ nodes = [ns \in ID |-> nodes[ns]]
  BY DEF create_tree, KVInv, Typed
<1>2. /\ namespace' = [namespace EXCEPT ![t] = t] /\ roots' = roots \cup {t}
      /\ nodes' = [nodes EXCEPT ![t] = NoNodes] /\ resident' = resident /\ logical' = logical
      /\ tokens' = tokens
  <2>1. tokens' = [tokens EXCEPT ![t] = <<>>]
    BY DEF create_tree
  <2>2. tokens' = tokens
    BY <1>1, <2>1
  <2> QED
    BY <2>2 DEF create_tree
<1>3. Typed(namespace, tokens, roots, nodes)'
  BY <1>1, <1>2 DEF KVInv, Typed
<1>4. \A u \in ID : namespace[u] # t
  BY <1>1, KVAssumption DEF KVInv, Typed
<1>5. MembersOf(namespace, t) = {} /\ MembersOf(namespace', t) = {t}
  BY <1>1, <1>2, <1>4 DEF MembersOf
<1>6. \A j \in ID \ {t} : MembersOf(namespace', j) = MembersOf(namespace, j) /\ nodes'[j] = nodes[j]
  BY <1>1, <1>2, KVAssumption DEF MembersOf
<1>7. /\ Well(NoNodes, {t}, tokens) /\ Cardinality(NeededOf({t}, tokens)) = 0
      /\ Cardinality(NeededOf({}, tokens)) = 0 /\ nodes'[t] = NoNodes
  BY <1>1, <1>2, WellEmpty
<1>8. Well(nodes'[t], MembersOf(namespace', t), tokens)
  BY <1>5, <1>7
<1>9. Sound(namespace', tokens, nodes') /\ Moves(namespace, namespace', tokens, tokens, t)
  <2>1. Elsewhere(namespace, namespace', tokens, tokens, nodes, nodes', t)
    BY <1>6 DEF Elsewhere
  <2>2. tokens \in [ID -> Seq(Token)] /\ Sound(namespace, tokens, nodes)
    BY <1>1
  <2> QED
    BY <1>8, <2>1, <2>2, OneNamespace
<1>10. Load(namespace, tokens)[t] = 0 /\ Load(namespace', tokens)[t] = 0
  BY <1>5, <1>7 DEF Load
<1>11. Booked(namespace', tokens, resident, logical)
  BY <1>1, <1>9, <1>10 DEF Booked, Moves
<1> QED
  BY <1>2, <1>3, <1>9, <1>11 DEF KVInv

\* fork_branch: a reference more on the parent's path, and no token.
LEMMA ForkKeeps ==
    ASSUME KVInv, NEW p \in ID, NEW t \in ID, fork_branch(p, t)
    PROVE  KVInv'
<1> DEFINE ns == namespace[p]
           T == MembersOf(namespace, ns)
           l == [tokens EXCEPT ![t] = tokens[p]]
<1>1. /\ namespace \in [ID -> ID \cup {NoTree}] /\ tokens \in [ID -> Seq(Token)]
      /\ namespace[t] = NoTree /\ tokens[t] = <<>>
      /\ Sound(namespace, tokens, nodes) /\ Booked(namespace, tokens, resident, logical)
      /\ nodes = [j \in ID |-> nodes[j]]
  BY DEF fork_branch, KVInv, Typed
<1>2. ns \in ID /\ ns \in roots /\ p # t /\ ns # NoTree
  <2>1. namespace[p] # NoTree
    BY DEF fork_branch, Trees
  <2> QED
    BY <1>1, <2>1, KVAssumption DEF KVInv, Typed
<1>3. /\ namespace' = [namespace EXCEPT ![t] = ns] /\ roots' = roots /\ tokens' = l
      /\ nodes' = [nodes EXCEPT ![ns] = Share(nodes[ns], tokens[p], t)]
      /\ resident' = resident /\ logical' = logical + Len(tokens[p])
  BY DEF fork_branch
<1>4. l \in [ID -> Seq(Token)]
  BY <1>1
<1>5. Typed(namespace, tokens, roots, nodes)'
  <2>1. \A u \in ID : namespace'[u] # NoTree => namespace'[u] \in roots'
    BY <1>1, <1>2, <1>3 DEF KVInv, Typed
  <2>2. \A u \in ID : namespace'[u] = NoTree => tokens'[u] = <<>>
    BY <1>1, <1>2, <1>3 DEF KVInv, Typed
  <2>3. namespace' \in [ID -> ID \cup {NoTree}] /\ roots' \subseteq ID
    BY <1>1, <1>2, <1>3 DEF KVInv, Typed
  <2>4. nodes' = [j \in ID |-> nodes'[j]]
    BY <1>1, <1>3
  <2> QED
    BY <1>3, <1>4, <2>1, <2>2, <2>3, <2>4 DEF Typed
<1>6. p \in T /\ t \notin T /\ T \in SUBSET ID /\ MembersOf(namespace', ns) = T \cup {t}
  BY <1>1, <1>2, <1>3, KVAssumption DEF MembersOf
<1>7. Elsewhere(namespace, namespace', tokens, l, nodes, nodes', ns)
  <2> SUFFICES ASSUME NEW j \in ID \ {ns}
               PROVE  /\ nodes'[j] = nodes[j] /\ MembersOf(namespace', j) = MembersOf(namespace, j)
                      /\ \A u \in MembersOf(namespace, j) : l[u] = tokens[u]
    BY DEF Elsewhere
  <2>1. nodes'[j] = nodes[j]
    BY <1>1, <1>3
  <2>2. MembersOf(namespace', j) = MembersOf(namespace, j) /\ t \notin MembersOf(namespace, j)
    BY <1>1, <1>3, KVAssumption DEF MembersOf
  <2> QED
    BY <1>1, <2>1, <2>2 DEF MembersOf
<1>8. Well(nodes[ns], T, tokens) /\ IsFiniteSet(T)
  BY <1>1, <1>2, LoadIs DEF Sound
<1>9. nodes'[ns] = Share(nodes[ns], tokens[p], t)
  BY <1>1, <1>2, <1>3
<1> HIDE DEF ns, T
<1>10. Well(Share(nodes[ns], tokens[p], t), T \cup {t}, l)
  BY <1>1, <1>6, <1>8, ShareKeeps
<1>11. Well(nodes'[ns], MembersOf(namespace', ns), l)
  BY <1>6, <1>9, <1>10
<1>12. NeededOf(T \cup {t}, l) = NeededOf(T, tokens)
  <2>1. l[t] = tokens[p] /\ \A u \in T : l[u] = tokens[u]
    BY <1>1, <1>6
  <2> HIDE DEF l
  <2> QED
    BY <1>6, <2>1 DEF NeededOf
<1> HIDE DEF l
<1>13. Sound(namespace', l, nodes') /\ Moves(namespace, namespace', tokens, l, ns)
  BY <1>1, <1>2, <1>4, <1>7, <1>11, OneNamespace
<1>14. Load(namespace', l)[ns] = Load(namespace, tokens)[ns]
  BY <1>2, <1>6, <1>12 DEF Load, T
<1>15. logical' = Total(Lengths(l), ID)
  <2>1. /\ Total(Lengths(l), ID) = Total(Lengths(tokens), ID) - Len(tokens[t]) + Len(tokens[p])
        /\ Total(Lengths(tokens), ID) \in Nat /\ Len(tokens[p]) \in Nat
    BY <1>1, OneTree DEF l
  <2>2. Len(tokens[t]) = 0 /\ logical = Total(Lengths(tokens), ID)
    BY <1>1, EmptySeq DEF Booked
  <2> QED
    BY <1>3, <2>1, <2>2
<1>16. Total(Load(namespace', l), ID) = resident /\ resident <= Capacity
  <2>1. /\ Total(Load(namespace', l), ID)
             = Total(Load(namespace, tokens), ID) - Load(namespace, tokens)[ns]
                 + Load(namespace', l)[ns]
        /\ Total(Load(namespace, tokens), ID) \in Nat /\ Load(namespace, tokens)[ns] \in Nat
    BY <1>2, <1>13 DEF Moves
  <2>2. resident = Total(Load(namespace, tokens), ID) /\ resident <= Capacity
    BY <1>1 DEF Booked
  <2> QED
    BY <1>14, <2>1, <2>2
<1>17. \A j \in ID : Load(namespace', l)[j] <= Budget
  BY <1>1, <1>13, <1>14 DEF Booked, Moves
<1>18. Booked(namespace', l, resident, logical')
  BY <1>15, <1>16, <1>17 DEF Booked
<1> QED
  BY <1>3, <1>5, <1>13, <1>18 DEF KVInv

\* kill: what only this tree needed goes, also with the last tree of the namespace.
LEMMA KillKeeps ==
    ASSUME KVInv, NEW t \in ID, kill(t)
    PROVE  KVInv'
<1> DEFINE ns == namespace[t]
           T == MembersOf(namespace, ns)
           l == [tokens EXCEPT ![t] = <<>>]
<1>1. /\ namespace \in [ID -> ID \cup {NoTree}] /\ tokens \in [ID -> Seq(Token)]
      /\ Sound(namespace, tokens, nodes) /\ Booked(namespace, tokens, resident, logical)
      /\ nodes = [j \in ID |-> nodes[j]] /\ <<>> \in Seq(Token)
  BY EmptySeq DEF KVInv, Typed
<1>2. ns \in ID /\ ns \in roots /\ ns # NoTree
  <2>1. namespace[t] # NoTree
    BY DEF kill, Trees
  <2> QED
    BY <1>1, <2>1, KVAssumption DEF KVInv, Typed
<1>3. /\ namespace' = [namespace EXCEPT ![t] = NoTree] /\ tokens' = l
      /\ nodes' = [nodes EXCEPT ![ns] = IF T \ {t} = {} THEN NoNodes
                                        ELSE DropRefs(nodes[ns], tokens[t], t)]
      /\ roots' = IF T \ {t} = {} THEN roots \ {ns} ELSE roots
      /\ resident' = resident - SizeOf(nodes[ns], Freed(nodes[ns], tokens[t]))
      /\ logical' = logical - Len(tokens[t])
  BY DEF kill, Members, MembersOf
<1>4. l \in [ID -> Seq(Token)] /\ l[t] = <<>> /\ \A u \in ID \ {t} : l[u] = tokens[u]
  BY <1>1
<1>5. Typed(namespace, tokens, roots, nodes)'
  <2>1. \A u \in ID : namespace'[u] # NoTree => namespace'[u] \in roots'
    <3> SUFFICES ASSUME NEW u \in ID, namespace'[u] # NoTree
                 PROVE  namespace'[u] \in roots'
      OBVIOUS
    <3>1. u # t /\ namespace'[u] = namespace[u] /\ namespace[u] \in roots
      BY <1>1, <1>3 DEF KVInv, Typed
    <3>2. T \ {t} = {} => namespace[u] # ns
      BY <3>1 DEF MembersOf
    <3> QED
      BY <1>3, <3>1, <3>2
  <2>2. \A u \in ID : namespace'[u] = NoTree => tokens'[u] = <<>>
    BY <1>1, <1>3, <1>4 DEF KVInv, Typed
  <2>3. namespace' \in [ID -> ID \cup {NoTree}] /\ roots' \subseteq ID
    BY <1>1, <1>2, <1>3 DEF KVInv, Typed
  <2>4. nodes' = [j \in ID |-> nodes'[j]]
    BY <1>1, <1>3
  <2> QED
    BY <1>3, <1>4, <2>1, <2>2, <2>3, <2>4 DEF Typed
<1>6. t \in T /\ T \in SUBSET ID /\ MembersOf(namespace', ns) = T \ {t}
  BY <1>1, <1>2, <1>3, KVAssumption DEF MembersOf
<1>7. Elsewhere(namespace, namespace', tokens, l, nodes, nodes', ns)
  <2> SUFFICES ASSUME NEW j \in ID \ {ns}
               PROVE  /\ nodes'[j] = nodes[j] /\ MembersOf(namespace', j) = MembersOf(namespace, j)
                      /\ \A u \in MembersOf(namespace, j) : l[u] = tokens[u]
    BY DEF Elsewhere
  <2>1. nodes'[j] = nodes[j]
    BY <1>1, <1>3
  <2>2. MembersOf(namespace', j) = MembersOf(namespace, j) /\ t \notin MembersOf(namespace, j)
    BY <1>1, <1>3, KVAssumption DEF MembersOf
  <2> QED
    BY <1>1, <2>1, <2>2 DEF MembersOf
<1>8. Well(nodes[ns], T, tokens) /\ IsFiniteSet(T)
  BY <1>1, <1>2, LoadIs DEF Sound
<1>9. nodes'[ns] = IF T \ {t} = {} THEN NoNodes ELSE DropRefs(nodes[ns], tokens[t], t)
  BY <1>1, <1>2, <1>3
<1> HIDE DEF ns, T, l
<1>10. Well(DropRefs(nodes[ns], tokens[t], t), T \ {t}, l)
  <2>1. Well(DropRefs(nodes[ns], tokens[t], t), T \ {t}, tokens)
    BY <1>1, <1>6, <1>8, DropKeeps
  <2>2. T \ {t} \in SUBSET ID /\ \A u \in T \ {t} : l[u] = tokens[u]
    BY <1>4, <1>6
  <2> QED
    BY <2>1, <2>2, WellSame
<1>11. Well(nodes'[ns], MembersOf(namespace', ns), l)
  <2>1. T \ {t} = {} => Well(NoNodes, T \ {t}, l)
    <3>1. {} \in SUBSET ID /\ \A u \in {} : l[u] = <<>>
      OBVIOUS
    <3>2. Well(NoNodes, {}, l)
      BY <1>4, <3>1, WellEmpty
    <3> QED
      BY <3>2
  <2> QED
    BY <1>6, <1>9, <1>10, <2>1
<1>12. NeededOf(T \ {t}, l) = NeededOf(T \ {t}, tokens)
  BY <1>4, <1>6 DEF NeededOf
<1>13. Sound(namespace', l, nodes') /\ Moves(namespace, namespace', tokens, l, ns)
  BY <1>1, <1>2, <1>4, <1>7, <1>11, OneNamespace
<1>14. /\ Load(namespace', l)[ns] = Cardinality(NeededOf(T \ {t}, tokens))
       /\ Load(namespace, tokens)[ns] = Cardinality(NeededOf(T, tokens))
  BY <1>2, <1>6, <1>12 DEF Load, T
<1>15. SizeOf(nodes[ns], Freed(nodes[ns], tokens[t]))
         = Load(namespace, tokens)[ns] - Load(namespace', l)[ns]
  <2>1. SizeOf(nodes[ns], Freed(nodes[ns], tokens[t]))
          = Cardinality(NeededOf(T, tokens)) - Cardinality(NeededOf(T \ {t}, tokens))
    BY <1>1, <1>6, <1>8, FreedTokens
  <2> QED
    BY <1>14, <2>1
<1>16. /\ Load(namespace', l)[ns] <= Load(namespace, tokens)[ns]
       /\ Load(namespace', l)[ns] \in Nat /\ Load(namespace, tokens)[ns] \in Nat
  <2> DEFINE A == NeededOf(T, tokens)
             B == NeededOf(T \ {t}, tokens)
  <2>1. IsFiniteSet(A)
    BY <1>1, <1>6, <1>8, NeededFinite
  <2>2. B \subseteq A
    BY DEF NeededOf
  <2> HIDE DEF A, B
  <2>3. Cardinality(B) <= Cardinality(A)
    BY <2>1, <2>2, FS_Subset
  <2> QED
    BY <1>2, <1>13, <1>14, <2>3 DEF A, B, Moves
<1>17. logical' = Total(Lengths(l), ID)
  <2>1. /\ Total(Lengths(l), ID) = Total(Lengths(tokens), ID) - Len(tokens[t]) + Len(<<>>)
        /\ Total(Lengths(tokens), ID) \in Nat /\ Len(tokens[t]) \in Nat
    BY <1>1, OneTree DEF l
  <2>2. Len(<<>>) = 0 /\ logical = Total(Lengths(tokens), ID)
    BY <1>1, EmptySeq DEF Booked
  <2> QED
    BY <1>3, <2>1, <2>2
<1>18. resident' = Total(Load(namespace', l), ID) /\ resident' <= Capacity
  <2>1. /\ Total(Load(namespace', l), ID)
             = Total(Load(namespace, tokens), ID) - Load(namespace, tokens)[ns]
                 + Load(namespace', l)[ns]
        /\ Total(Load(namespace, tokens), ID) \in Nat
    BY <1>13 DEF Moves
  <2>2. resident = Total(Load(namespace, tokens), ID) /\ resident <= Capacity /\ Capacity \in Nat
    BY <1>1, KVAssumption DEF Booked
  <2>3. resident' = resident - (Load(namespace, tokens)[ns] - Load(namespace', l)[ns])
    BY <1>3, <1>15
  <2> QED
    BY <1>16, <2>1, <2>2, <2>3
<1>19. \A j \in ID : Load(namespace', l)[j] <= Budget
  <2>1. \A j \in ID : Load(namespace, tokens)[j] <= Budget /\ Budget \in Nat
    BY <1>1, KVAssumption DEF Booked
  <2>2. \A j \in ID \ {ns} : Load(namespace', l)[j] = Load(namespace, tokens)[j]
    BY <1>13 DEF Moves
  <2>3. Load(namespace', l)[ns] <= Budget
    BY <1>2, <1>16, <2>1
  <2> QED
    BY <2>1, <2>2, <2>3
<1>20. Booked(namespace', l, resident', logical')
  BY <1>17, <1>18, <1>19 DEF Booked
<1> QED
  BY <1>3, <1>5, <1>13, <1>20 DEF KVInv

\* Sequences of bounded length are sequences.
LEMMA SeqsAre == \A n \in Nat : Seqs(n) \subseteq Seq(Token)
  BY SeqDef DEF Seqs, BoundedSeq, SeqOf

\* Lookups: splitting edges changes nothing that is counted.
LEMMA SplitsKeep ==
    ASSUME KVInv, NEW s \in Seq(Token), NEW S \in SUBSET ID,
           nodes' = [ns \in ID |-> IF ns \in S THEN Split(nodes[ns], s) ELSE nodes[ns]],
           UNCHANGED <<namespace, tokens, roots, resident, logical>>
    PROVE  KVInv'
<1>1. Typed(namespace, tokens, roots, nodes)'
  <2>1. nodes' = [ns \in ID |-> nodes'[ns]]
    OBVIOUS
  <2> QED
    BY <2>1 DEF KVInv, Typed
<1>2. ASSUME NEW ns \in ID
      PROVE  Well(nodes'[ns], MembersOf(namespace, ns), tokens)
  <2>1. /\ Well(nodes[ns], MembersOf(namespace, ns), tokens) /\ tokens \in [ID -> Seq(Token)]
        /\ MembersOf(namespace, ns) \in SUBSET ID
    BY DEF KVInv, Sound, Typed, MembersOf
  <2>2. Well(Split(nodes[ns], s), MembersOf(namespace, ns), tokens)
    BY <2>1, SplitKeeps
  <2>3. nodes'[ns] = Split(nodes[ns], s) \/ nodes'[ns] = nodes[ns]
    OBVIOUS
  <2> QED
    BY <2>1, <2>2, <2>3
<1>3. Sound(namespace, tokens, nodes')
  BY <1>2 DEF Sound
<1> QED
  BY <1>1, <1>3 DEF KVInv

\* Nobody's leaves: every node of a well-kept namespace has a reference, so that
\* _maybe_evict finds nothing to evict.
LEMMA NothingIdle ==
    ASSUME NEW N, NEW T, NEW k, Well(N, T, k)
    PROVE  Leaves(N) = {} /\ Without(N, {}) = N /\ Radix(N)
<1>1. \A p \in DOMAIN N : N[p].ref > 0 /\ N[p].ref \in Int
  BY DEF Well, Radix, NodeData
<1>2. Leaves(N) = {}
  BY <1>1 DEF Leaves
<1>3. Radix(N) /\ N = [p \in DOMAIN N |-> N[p]]
  BY DEF Well, Radix
<1>4. Without(N, {}) = [p \in DOMAIN N |-> N[p]]
  BY DEF Without
<1> QED
  BY <1>2, <1>3, <1>4

\* extend, without the eviction that never happens: it raises, and the walk has
\* split an edge, or it inserts what the walk did not find.
Extended(t, s) ==
    LET ns == namespace[t]
        full == tokens[t] \o s
        N == Split(nodes[ns], full)
        charged == Len(full) - Walk(nodes[ns], full)
    IN  /\ namespace[t] # NoTree /\ UNCHANGED <<namespace, roots>>
        /\ \/ /\ nodes' = [nodes EXCEPT ![ns] = N]
              /\ UNCHANGED <<tokens, resident, logical>>
           \/ /\ NamespaceTokens(N) + charged <= Budget
              /\ charged = 0 \/ resident + charged <= Capacity
              /\ nodes' = [nodes EXCEPT ![ns] =
                             AddRefs(IF charged = 0 THEN N ELSE Insert(N, full, t), full, t)]
              /\ resident' = resident + charged
              /\ tokens' = [tokens EXCEPT ![t] = full]
              /\ logical' = logical + Len(s)

\* extend is that: with no idle leaf, the sum over the evicted ones is over nothing.
LEMMA ExtendIs ==
    ASSUME KVInv, NEW t \in ID, NEW s \in Seq(Token), extend(t, s)
    PROVE  Extended(t, s)
<1> DEFINE ns == namespace[t]
           full == tokens[t] \o s
           N == Split(nodes[ns], full)
           charged == Len(full) - Walk(nodes[ns], full)
           tree(n) == IF n = ns THEN N ELSE nodes[n]
           idle == UNION {{<<n, p>> : p \in Leaves(tree(n))} : n \in roots}
           size(E) == MapThenSumSet(LAMBDA e : Edge(tree(e[1]), e[2]), E)
           fits(E) == charged = 0 \/ resident - size(E) + charged <= Capacity
           evicted(E, n) == {e[2] : e \in {f \in E : f[1] = n}}
           kept(E) == [n \in ID |-> Without(tree(n), evicted(E, n))]
<1>1. /\ t \in Trees /\ UNCHANGED <<namespace, roots>>
      /\ \/ /\ nodes' = [nodes EXCEPT ![ns] = N]
            /\ UNCHANGED <<tokens, resident, logical>>
         \/ /\ nodes' = kept(idle)
            /\ resident' = resident - size(idle)
            /\ UNCHANGED <<tokens, logical>>
         \/ /\ NamespaceTokens(N) + charged <= Budget
            /\ \E E \in SUBSET idle :
                  /\ fits(E)
                  /\ nodes' = [kept(E) EXCEPT ![ns] =
                       AddRefs(IF charged = 0 THEN @ ELSE Insert(@, full, t), full, t)]
                  /\ resident' = resident - size(E) + charged
            /\ tokens' = [tokens EXCEPT ![t] = full]
            /\ logical' = logical + Len(s)
  BY DEF extend, Insert
<1>2. /\ namespace \in [ID -> ID \cup {NoTree}] /\ tokens \in [ID -> Seq(Token)]
      /\ roots \subseteq ID
      /\ nodes = [j \in ID |-> nodes[j]] /\ ns \in ID
      /\ \A j \in ID : Well(nodes[j], MembersOf(namespace, j), tokens)
  BY <1>1 DEF KVInv, Typed, Sound, Trees
<1>3. \A j \in ID : Well(tree(j), MembersOf(namespace, j), tokens)
  <2>1. full \in Seq(Token) /\ MembersOf(namespace, ns) \in SUBSET ID
    BY <1>2, ConcatProperties DEF MembersOf
  <2> HIDE DEF full, ns
  <2>2. Well(N, MembersOf(namespace, ns), tokens)
    BY <1>2, <2>1, SplitKeeps
  <2> HIDE DEF N
  <2> QED
    BY <1>2, <2>2
<1> HIDE DEF ns, full, N, charged, tree
<1>4. \A j \in ID : Leaves(tree(j)) = {} /\ Without(tree(j), {}) = tree(j)
  BY <1>3, NothingIdle
<1>5. idle = {}
  BY <1>2, <1>4
<1>6. size({}) = 0
  <2> DEFINE g == CHOOSE f : f = [e \in SUBSET {} |->
                    IF e = {} THEN 0
                    ELSE LET x == CHOOSE y \in e : TRUE IN Edge(tree(x[1]), x[2]) + f[e \ {x}]]
             z == [e \in SUBSET {} |-> 0]
  <2>1. size({}) = g[{}]
    BY DEF MapThenSumSet, MapThenFoldSet
  <2>2. z = [e \in SUBSET {} |->
              IF e = {} THEN 0
              ELSE LET x == CHOOSE y \in e : TRUE IN Edge(tree(x[1]), x[2]) + z[e \ {x}]]
    <3>1. \A e \in SUBSET {} : e = {}
      OBVIOUS
    <3> QED
      BY <3>1
  <2>3. g = [e \in SUBSET {} |->
              IF e = {} THEN 0
              ELSE LET x == CHOOSE y \in e : TRUE IN Edge(tree(x[1]), x[2]) + g[e \ {x}]]
    <3> HIDE DEF z
    <3> QED
      BY <2>2
  <2> HIDE DEF g
  <2>4. g[{}] = 0
    BY <2>3
  <2> QED
    BY <2>1, <2>4
<1>7. kept({}) = [nodes EXCEPT ![ns] = N]
  <2>1. \A n \in ID : evicted({}, n) = {}
    OBVIOUS
  <2>2. kept({}) = [n \in ID |-> tree(n)]
    BY <1>4, <2>1
  <2> HIDE DEF kept
  <2> QED
    BY <1>2, <2>2 DEF tree
<1> HIDE DEF idle, size, kept
<1>8. resident \in Int /\ charged \in Int
  <2>1. resident \in Int
    <3>1. \A j \in ID : Load(namespace, tokens)[j] \in Nat
      BY <1>2, LoadIs
    <3>2. Total(Load(namespace, tokens), ID) \in Nat
      BY <3>1, KVAssumption, TotalIsNat
    <3> QED
      BY <3>2 DEF KVInv, Booked
  <2>2. charged \in Int
    <3>1. full \in Seq(Token)
      BY <1>2, ConcatProperties DEF full
    <3>2. Radix(nodes[ns])
      BY <1>2 DEF Well
    <3>3. Walk(nodes[ns], full) \in 0 .. Len(full) /\ Len(full) \in Nat
      BY <3>1, <3>2, HeadIs, LenProperties
    <3> QED
      BY <3>3 DEF charged
  <2> QED
    BY <2>1, <2>2
<1>9. /\ namespace[t] # NoTree
      /\ \/ /\ nodes' = [nodes EXCEPT ![ns] = N]
            /\ UNCHANGED <<tokens, resident, logical>>
         \/ /\ NamespaceTokens(N) + charged <= Budget
            /\ charged = 0 \/ resident + charged <= Capacity
            /\ nodes' = [nodes EXCEPT ![ns] =
                           AddRefs(IF charged = 0 THEN N ELSE Insert(N, full, t), full, t)]
            /\ resident' = resident + charged
            /\ tokens' = [tokens EXCEPT ![t] = full]
            /\ logical' = logical + Len(s)
  <2>1. namespace[t] # NoTree
    BY <1>1 DEF Trees
  <2>2. CASE /\ nodes' = kept(idle)
             /\ resident' = resident - size(idle)
             /\ UNCHANGED <<tokens, logical>>
    BY <1>5, <1>6, <1>7, <1>8, <2>1, <2>2
  <2>3. CASE /\ NamespaceTokens(N) + charged <= Budget
             /\ \E E \in SUBSET idle :
                   /\ fits(E)
                   /\ nodes' = [kept(E) EXCEPT ![ns] =
                        AddRefs(IF charged = 0 THEN @ ELSE Insert(@, full, t), full, t)]
                   /\ resident' = resident - size(E) + charged
             /\ tokens' = [tokens EXCEPT ![t] = full]
             /\ logical' = logical + Len(s)
    <3>1. PICK E \in SUBSET idle :
                   /\ fits(E)
                   /\ nodes' = [kept(E) EXCEPT ![ns] =
                        AddRefs(IF charged = 0 THEN @ ELSE Insert(@, full, t), full, t)]
                   /\ resident' = resident - size(E) + charged
      BY <2>3
    <3>2. E = {}
      BY <1>5
    <3>3. charged = 0 \/ resident + charged <= Capacity
      BY <1>6, <1>8, <3>1, <3>2
    <3>4. resident' = resident + charged
      BY <1>6, <1>8, <3>1, <3>2
    <3>5. nodes' = [nodes EXCEPT ![ns] =
                      AddRefs(IF charged = 0 THEN N ELSE Insert(N, full, t), full, t)]
      BY <1>2, <1>7, <3>1, <3>2
    <3> QED
      BY <2>1, <2>3, <3>3, <3>4, <3>5
  <2> QED
    BY <1>1, <2>1, <2>2, <2>3
<1> QED
  BY <1>1, <1>9 DEF Extended, ns, full, N, charged

\* extend: the new node parts from the others at the head that the split has made.
LEMMA ExtendKeeps ==
    ASSUME KVInv, NEW t \in ID, NEW s \in Seq(Token), Extended(t, s)
    PROVE  KVInv'
<1> DEFINE ns == namespace[t]
           T == MembersOf(namespace, ns)
           full == tokens[t] \o s
           W == Walk(nodes[ns], full)
           charged == Len(full) - W
           N == Split(nodes[ns], full)
           l == [tokens EXCEPT ![t] = full]
<1>1. /\ namespace \in [ID -> ID \cup {NoTree}] /\ tokens \in [ID -> Seq(Token)]
      /\ roots \subseteq ID
      /\ Sound(namespace, tokens, nodes) /\ Booked(namespace, tokens, resident, logical)
      /\ nodes = [j \in ID |-> nodes[j]]
      /\ namespace' = namespace /\ roots' = roots /\ ns \in ID
      /\ ns # NoTree
  BY DEF KVInv, Typed, Extended
<1>2. CASE /\ nodes' = [nodes EXCEPT ![ns] = N]
           /\ UNCHANGED <<tokens, resident, logical>>
  <2>1. nodes' = [j \in ID |-> IF j \in {ns} THEN Split(nodes[j], full) ELSE nodes[j]]
    BY <1>1, <1>2
  <2>2. full \in Seq(Token) /\ {ns} \in SUBSET ID
    BY <1>1, ConcatProperties
  <2>3. UNCHANGED <<namespace, tokens, roots, resident, logical>>
    BY <1>1, <1>2
  <2> HIDE DEF full, ns
  <2> QED
    BY <2>1, <2>2, <2>3, SplitsKeep
<1>3. CASE /\ NamespaceTokens(N) + charged <= Budget
           /\ charged = 0 \/ resident + charged <= Capacity
           /\ nodes' = [nodes EXCEPT ![ns] =
                          AddRefs(IF charged = 0 THEN N ELSE Insert(N, full, t), full, t)]
           /\ resident' = resident + charged
           /\ tokens' = [tokens EXCEPT ![t] = full]
           /\ logical' = logical + Len(s)
  <2>1. full \in Seq(Token) /\ Len(full) = Len(tokens[t]) + Len(s) /\ IsPrefix(tokens[t], full)
    <3>1. /\ full \in Seq(Token) /\ Len(full) = Len(tokens[t]) + Len(s)
          /\ \A i \in 1 .. Len(tokens[t]) + Len(s) :
               full[i] = IF i <= Len(tokens[t]) THEN tokens[t][i] ELSE s[i - Len(tokens[t])]
      BY <1>1, ConcatProperties
    <3>2. tokens[t] \in Seq(Token) /\ Len(tokens[t]) \in Nat /\ Len(s) \in Nat
      BY <1>1, LenProperties
    <3> HIDE DEF full
    <3>3. \A i \in 1 .. Len(tokens[t]) : tokens[t][i] = full[i]
      BY <3>1, <3>2
    <3>4. IsPrefix(tokens[t], full)
      <4>1. IsPrefix(tokens[t], full) <=>
              /\ Len(tokens[t]) <= Len(full)
              /\ \A i \in 1 .. Len(tokens[t]) : tokens[t][i] = full[i]
        BY <3>1, <3>2, Prefixed
      <4>2. Len(tokens[t]) <= Len(full)
        BY <3>1, <3>2
      <4> QED
        BY <3>3, <4>1, <4>2
    <3> QED
      BY <3>1, <3>4
  <2>2. t \in T /\ T \in SUBSET ID /\ IsFiniteSet(T) /\ Well(nodes[ns], T, tokens)
    <3>1. IsFiniteSet(T) /\ T \in SUBSET ID
      BY <1>1, LoadIs
    <3> QED
      BY <1>1, <3>1 DEF Sound, MembersOf
  <2>3. l \in [ID -> Seq(Token)] /\ tokens' = l /\ \A u \in ID \ {t} : l[u] = tokens[u]
    BY <1>1, <1>3, <2>1
  <2>4. /\ nodes'[ns] = AddRefs(IF charged = 0 THEN N ELSE Insert(N, full, t), full, t)
        /\ \A j \in ID \ {ns} : nodes'[j] = nodes[j]
        /\ nodes' = [j \in ID |-> nodes'[j]]
    BY <1>1, <1>3
  <2>5. Typed(namespace, tokens, roots, nodes)'
    <3>1. \A u \in ID : namespace[u] = NoTree => l[u] = <<>>
      BY <1>1, <2>3 DEF KVInv, Typed
    <3> QED
      BY <1>1, <2>3, <2>4, <3>1 DEF KVInv, Typed
  <2>6. Elsewhere(namespace, namespace, tokens, l, nodes, nodes', ns)
    BY <2>3, <2>4 DEF Elsewhere, MembersOf
  <2> HIDE DEF ns, T, full, N, W, l
  <2>7. Well(N, T, tokens) /\ Radix(N) /\ Radix(nodes[ns])
    <3>1. Well(N, T, tokens)
      BY <1>1, <2>1, <2>2, SplitKeeps DEF N
    <3> QED
      BY <2>2, <3>1 DEF Well
  <2>8. /\ W \in 0 .. Len(full) /\ Len(full) \in Nat
        /\ SubSeq(full, 1, W) = HeadOf(nodes[ns], full)
        /\ HeadOf(nodes[ns], full) \in Seq(Token) /\ Len(HeadOf(nodes[ns], full)) = W
        /\ IsPrefix(HeadOf(nodes[ns], full), full)
        /\ \A p \in DOMAIN nodes[ns] : Common(p, full) <= W
        /\ DOMAIN N = DOMAIN nodes[ns] \cup ({HeadOf(nodes[ns], full)} \ {<<>>})
    <3>1. Len(full) \in Nat
      BY <2>1, LenProperties
    <3> QED
      BY <2>1, <2>7, <3>1, HeadIs, SplitIs DEF W, N, HeadOf
  <2>9. SubSeq(full, 1, W) = <<>> \/ SubSeq(full, 1, W) \in DOMAIN N
    BY <2>8
  <2>10. \A p \in DOMAIN N : Common(p, full) <= W
    <3>1. Common(HeadOf(nodes[ns], full), full) \in 0 .. W
      BY <2>1, <2>8, Meeting
    <3>2. Common(HeadOf(nodes[ns], full), full) <= W
      BY <2>8, <3>1
    <3> QED
      BY <2>8, <3>2
  <2> DEFINE M == IF charged = 0 THEN N ELSE Insert(N, full, t)
  <2>11. /\ Radix(M)
         /\ \/ M = N /\ (full = <<>> \/ full \in DOMAIN N)
            \/ M = Insert(N, full, t) /\ \A p \in DOMAIN N : ~IsPrefix(full, p)
    <3>1. CASE charged = 0
      <4>1. W = Len(full)
        BY <2>8, <3>1
      <4>2. SubSeq(full, 1, W) = full
        <5>1. IsPrefix(SubSeq(full, 1, W), full) /\ Len(full) <= Len(SubSeq(full, 1, W))
          <6>1. IsPrefix(SubSeq(full, 1, W), full) /\ Len(SubSeq(full, 1, W)) = W
            BY <2>8
          <6> QED
            BY <2>8, <4>1, <6>1
        <5> QED
          BY <2>1, <2>8, <5>1, PrefixPair
      <4> QED
        BY <2>7, <2>9, <3>1, <4>2
    <3>2. CASE charged # 0
      <4>1. W \in 0 .. Len(full) - 1
        BY <2>8, <3>2
      <4>2. /\ Radix(Insert(N, full, t)) /\ \A p \in DOMAIN N : ~IsPrefix(full, p)
        BY <2>1, <2>7, <2>9, <2>10, <4>1, InsertRadix
      <4> QED
        BY <3>2, <4>2
    <3> QED
      BY <3>1, <3>2
  <2> HIDE DEF M
  <2>12. Well(AddRefs(M, full, t), T, l)
    <3>1. Well(AddRefs(M, full, t), T, [tokens EXCEPT ![t] = full])
      BY <1>1, <2>1, <2>2, <2>7, <2>11, RefsKeep
    <3> QED
      BY <3>1 DEF l
  <2>13. Well(nodes'[ns], MembersOf(namespace, ns), l)
    BY <2>4, <2>12 DEF M, T
  <2>14. Sound(namespace, l, nodes') /\ Moves(namespace, namespace, tokens, l, ns)
    BY <1>1, <2>3, <2>6, <2>13, OneNamespace
  <2>15. /\ Load(namespace, l)[ns] = Cardinality(NeededOf(T, l))
         /\ Load(namespace, tokens)[ns] = Cardinality(NeededOf(T, tokens))
    BY <1>1 DEF Load, T
  <2>16. Load(namespace, l)[ns] = Load(namespace, tokens)[ns] + charged
    <3>1. Cardinality(NeededOf(T, [tokens EXCEPT ![t] = full]))
            = Cardinality(NeededOf(T, tokens)) + (Len(full) - Walk(nodes[ns], full))
      BY <1>1, <2>1, <2>2, MoreTokens
    <3> QED
      BY <2>15, <3>1 DEF l, W
  <2>17. NamespaceTokens(N) = Load(namespace, tokens)[ns]
    BY <1>1, <2>2, <2>7, <2>15, NamespaceTokensIs
  <2>18. charged \in Nat
    BY <2>8
  <2> HIDE DEF charged
  <2>19. logical' = Total(Lengths(l), ID)
    <3>1. /\ Total(Lengths(l), ID) = Total(Lengths(tokens), ID) - Len(tokens[t]) + Len(full)
          /\ Total(Lengths(tokens), ID) \in Nat /\ Len(tokens[t]) \in Nat
      BY <1>1, <2>1, OneTree DEF l
    <3>2. logical = Total(Lengths(tokens), ID) /\ Len(s) \in Nat
      BY <1>1, LenProperties DEF Booked
    <3> QED
      BY <1>3, <2>1, <3>1, <3>2
  <2>20. resident' = Total(Load(namespace, l), ID) /\ resident' <= Capacity
    <3>1. /\ Total(Load(namespace, l), ID)
               = Total(Load(namespace, tokens), ID) - Load(namespace, tokens)[ns]
                   + Load(namespace, l)[ns]
          /\ Total(Load(namespace, tokens), ID) \in Nat /\ Load(namespace, tokens)[ns] \in Nat
      BY <1>1, <2>14 DEF Moves
    <3>2. resident = Total(Load(namespace, tokens), ID) /\ resident <= Capacity
      BY <1>1 DEF Booked
    <3> QED
      BY <1>3, <2>16, <2>18, <3>1, <3>2
  <2>21. \A j \in ID : Load(namespace, l)[j] <= Budget
    <3>1. \A j \in ID \ {ns} : Load(namespace, l)[j] = Load(namespace, tokens)[j]
      BY <2>14 DEF Moves
    <3>2. \A j \in ID : Load(namespace, tokens)[j] <= Budget
      BY <1>1 DEF Booked
    <3>3. Load(namespace, l)[ns] <= Budget
      BY <1>3, <2>16, <2>17
    <3> QED
      BY <3>1, <3>2, <3>3
  <2>22. Booked(namespace, l, resident', logical')
    BY <2>19, <2>20, <2>21 DEF Booked
  <2> QED
    BY <1>1, <2>3, <2>5, <2>14, <2>22 DEF KVInv
<1> QED
  BY <1>2, <1>3 DEF Extended

\* Every operation of the cache keeps the invariant.
LEMMA KVStepInv ==
    ASSUME KVInv, ~ReuseNamespace, [KVNext]_kvVars
    PROVE  KVInv'
<1>1. ASSUME NEW t \in ID, create_tree(t)
      PROVE  KVInv'
  BY <1>1, CreateKeeps
<1>2. ASSUME NEW t \in ID, kill(t)
      PROVE  KVInv'
  BY <1>2, KillKeeps
<1>3. ASSUME NEW p \in ID, NEW t \in ID, fork_branch(p, t)
      PROVE  KVInv'
  BY <1>3, ForkKeeps
<1>4. ASSUME NEW t \in ID, NEW s \in Seqs(MaxStep), extend(t, s)
      PROVE  KVInv'
  <2>1. s \in Seq(Token)
    BY SeqsAre, KVAssumption
  <2>2. Extended(t, s)
    BY <1>4, <2>1, ExtendIs
  <2> QED
    BY <2>1, <2>2, ExtendKeeps
<1>5. ASSUME NEW s \in Seqs(MaxLen), match_prefix(s)
      PROVE  KVInv'
  <2>1. s \in Seq(Token) /\ roots \in SUBSET ID
    BY SeqsAre, KVAssumption DEF KVInv, Typed
  <2>2. /\ nodes' = [ns \in ID |-> IF ns \in roots THEN Split(nodes[ns], s) ELSE nodes[ns]]
        /\ UNCHANGED <<namespace, tokens, roots, resident, logical>>
    BY <1>5 DEF match_prefix
  <2> QED
    BY <2>1, <2>2, SplitsKeep
<1>6. ASSUME NEW t \in ID, NEW s \in Seqs(MaxLen), match_tree_prefix(t, s)
      PROVE  KVInv'
  <2> DEFINE S == {namespace[t]}
  <2>1. s \in Seq(Token)
    BY SeqsAre, KVAssumption
  <2>2. /\ S \in SUBSET ID
        /\ nodes' = [ns \in ID |-> IF ns \in S THEN Split(nodes[ns], s) ELSE nodes[ns]]
        /\ UNCHANGED <<namespace, tokens, roots, resident, logical>>
    BY <1>6 DEF match_tree_prefix, Trees, KVInv, Typed
  <2> HIDE DEF S
  <2> QED
    BY <2>1, <2>2, SplitsKeep
<1>7. CASE UNCHANGED kvVars
  BY <1>7 DEF kvVars, KVInv, Typed, Sound, Booked
<1> QED
  BY <1>1, <1>2, <1>3, <1>4, <1>5, <1>6, <1>7 DEF KVNext

-----------------------------------------------------------------------------
\* Theorems

\* The inductive invariant holds of every behaviour in which no id is created
\* again while forks of its former tree live.
THEOREM CacheInvariant == ~ReuseNamespace => (KVSpec => []KVInv)
<1> SUFFICES ASSUME ~ReuseNamespace  PROVE KVSpec => []KVInv
  OBVIOUS
<1>1. KVInit => KVInv
  BY KVInitInv
<1>2. KVInv /\ [KVNext]_kvVars => KVInv'
  BY KVStepInv
<1> QED
  BY <1>1, <1>2, PTL DEF KVSpec

\* A live tree's prefix is resident after any order of forks, kills, extensions and
\* lookups: kill frees no node that a child or a sibling still needs.
THEOREM PrefixesStay == ~ReuseNamespace => (KVSpec => []PrefixResident)
<1>1. KVInv => PrefixResident
  <2> SUFFICES ASSUME KVInv, NEW t \in Trees
               PROVE  tokens[t] = <<>> \/ tokens[t] \in DOMAIN nodes[namespace[t]]
    BY DEF PrefixResident
  <2>1. t \in ID /\ namespace[t] \in ID /\ t \in MembersOf(namespace, namespace[t])
    BY DEF Trees, KVInv, Typed, MembersOf
  <2>2. Well(nodes[namespace[t]], MembersOf(namespace, namespace[t]), tokens)
    BY <2>1 DEF KVInv, Sound
  <2> QED
    BY <2>1, <2>2 DEF Well
<1> QED
  BY <1>1, CacheInvariant, PTL

\* Every node's count is the number of trees whose tokens go through it, and no
\* node is left without one: splits, shared paths and kills never lose or double
\* a reference.
THEOREM ReferencesExact == ~ReuseNamespace => (KVSpec => []RefsExact)
<1>1. KVInv => RefsExact
  <2>1. \A ns : Members(ns) = MembersOf(namespace, ns)
    BY DEF Members, MembersOf
  <2> QED
    BY <2>1 DEF RefsExact, KVInv, Sound, Well
<1> QED
  BY <1>1, CacheInvariant, PTL

\* The nodes stay a radix tree, and the descent of _walk finds the longest prefix
\* that any cached path shares with its argument.
THEOREM LookupsFind == ~ReuseNamespace => (KVSpec => []LookupsSound)
<1>1. KVInv => LookupsSound
  <2> SUFFICES ASSUME KVInv
               PROVE  KVTypeOK /\ RadixShape /\ WalkIsLongest
    BY DEF LookupsSound
  <2>1. \A ns \in ID : Radix(nodes[ns])
    BY DEF KVInv, Sound, Well
  <2>2. KVTypeOK
    <3>1. \A ns \in ID : \A p \in DOMAIN nodes[ns] :
             p \in Seq(Token) \ {<<>>} /\ nodes[ns][p] \in NodeData
      BY <2>1 DEF Radix
    <3>2. /\ namespace \in [ID -> ID \cup {NoTree}] /\ roots \subseteq ID
          /\ tokens \in [ID -> Seq(Token)]
      BY DEF KVInv, Typed
    <3>3. resident \in Int
      <4>1. \A j \in ID : Load(namespace, tokens)[j] \in Nat
        BY <3>2, LoadIs
      <4>2. Total(Load(namespace, tokens), ID) \in Nat
        BY <4>1, KVAssumption, TotalIsNat
      <4> QED
        BY <4>2 DEF KVInv, Booked
    <3>4. logical \in Int
      <4>1. \A t \in ID : Lengths(tokens)[t] \in Nat
        BY <3>2, LenProperties DEF Lengths
      <4>2. Total(Lengths(tokens), ID) \in Nat
        BY <4>1, KVAssumption, TotalIsNat
      <4> QED
        BY <4>2 DEF KVInv, Booked
    <3> QED
      BY <3>1, <3>2, <3>3, <3>4 DEF KVTypeOK
  <2>3. RadixShape
    BY <2>1 DEF RadixShape, Radix, Meet
  <2>4. WalkIsLongest
    <3> SUFFICES ASSUME NEW ns \in ID, NEW s \in Seqs(MaxLen)
                 PROVE  Walk(nodes[ns], s)
                          = Max({0} \cup {Common(p, s) : p \in DOMAIN nodes[ns]})
      BY DEF WalkIsLongest
    <3>1. s \in Seq(Token) /\ Radix(nodes[ns])
      BY <2>1, SeqsAre, KVAssumption
    <3>2. Walk(nodes[ns], s) = Best(nodes[ns], s, 0)
      BY <3>1, WalkIs
    <3> QED
      BY <3>2 DEF Best
  <2> QED
    BY <2>2, <2>3, <2>4
<1> QED
  BY <1>1, CacheInvariant, PTL

\* The accounts of a cache whose invariant holds: both counters are the sums that
\* MapThenSumSet computes.
LEMMA AccountsAre ==
    ASSUME KVInv
    PROVE  AccountsExact
<1>1. /\ tokens \in [ID -> Seq(Token)] /\ IsFiniteSet(ID)
      /\ \A t \in ID : namespace[t] = NoTree => tokens[t] = <<>>
      /\ resident = Total(Load(namespace, tokens), ID) /\ logical = Total(Lengths(tokens), ID)
  BY KVAssumption DEF KVInv, Typed, Booked
<1>2. \A ns \in ID : Cardinality(Needed(ns)) = Load(namespace, tokens)[ns]
  <2> SUFFICES ASSUME NEW ns \in ID
               PROVE  Needed(ns) = NeededOf(MembersOf(namespace, ns), tokens)
    BY DEF Load
  <2>1. Members(ns) = MembersOf(namespace, ns) /\ Members(ns) \subseteq ID
    BY DEF Members, MembersOf
  <2>2. \A t \in Members(ns) : Prefixes(tokens[t]) = {u \in Seq(Token) : IsPrefix(u, tokens[t])}
    BY <1>1, <2>1, PrefixesOf
  <2> QED
    BY <2>1, <2>2 DEF Needed, NeededOf
<1>3. resident = MapThenSumSet(LAMBDA ns : Cardinality(Needed(ns)), ID)
  <2> DEFINE c == Load(namespace, tokens)
             g == CHOOSE f : f = [s \in SUBSET ID |->
                    IF s = {} THEN 0
                    ELSE LET x == CHOOSE y \in s : TRUE IN Cardinality(Needed(x)) + f[s \ {x}]]
  <2>1. MapThenSumSet(LAMBDA ns : Cardinality(Needed(ns)), ID) = g[ID]
    BY DEF MapThenSumSet, MapThenFoldSet
  <2>2. \A x \in ID : c[x] = Cardinality(Needed(x)) /\ c[x] \in Nat
    BY <1>1, <1>2, LoadIs
  <2> HIDE DEF c
  <2>3. ASSUME NEW f
        PROVE  Adds(c, ID, f) <=> f = [s \in SUBSET ID |->
                    IF s = {} THEN 0
                    ELSE LET x == CHOOSE y \in s : TRUE IN Cardinality(Needed(x)) + f[s \ {x}]]
    <3> DEFINE pick(s) == CHOOSE y \in s : TRUE
    <3>1. \A s \in SUBSET ID : s # {} => pick(s) \in s
      OBVIOUS
    <3>2. [s \in SUBSET ID |-> IF s = {} THEN 0 ELSE c[pick(s)] + f[s \ {pick(s)}]]
            = [s \in SUBSET ID |-> IF s = {} THEN 0
                                   ELSE Cardinality(Needed(pick(s))) + f[s \ {pick(s)}]]
      <4> HIDE DEF pick
      <4> QED
        BY <2>2, <3>1
    <3> QED
      BY <3>2 DEF Adds
  <2>4. \A x \in ID : c[x] \in Nat
    BY <2>2
  <2>5. \E f : Adds(c, ID, f)
    BY <1>1, <2>4, AddsIs
  <2>6. Adds(c, ID, g)
    BY <2>3, <2>5
  <2> HIDE DEF g
  <2>7. g[ID] = Total(c, ID)
    BY <1>1, <2>4, <2>6, AddsIs
  <2> QED
    BY <1>1, <2>1, <2>7 DEF c
<1>4. logical = MapThenSumSet(LAMBDA t : Len(tokens[t]), Trees)
  <2> DEFINE c == Lengths(tokens)
             g == CHOOSE f : f = [s \in SUBSET Trees |->
                    IF s = {} THEN 0
                    ELSE LET x == CHOOSE y \in s : TRUE IN Len(tokens[x]) + f[s \ {x}]]
  <2>1. MapThenSumSet(LAMBDA t : Len(tokens[t]), Trees) = g[Trees]
    BY DEF MapThenSumSet, MapThenFoldSet
  <2>2. \A x \in ID : c[x] = Len(tokens[x]) /\ c[x] \in Nat
    BY <1>1, LenProperties DEF Lengths
  <2>3. Trees \subseteq ID /\ IsFiniteSet(Trees) /\ \A x \in ID \ Trees : c[x] = 0
    <3>1. Trees \subseteq ID /\ \A x \in ID \ Trees : tokens[x] = <<>>
      BY <1>1 DEF Trees
    <3>2. IsFiniteSet(Trees)
      BY <1>1, <3>1, FS_Subset
    <3>3. Len(<<>>) = 0
      BY EmptySeq
    <3> QED
      BY <2>2, <3>1, <3>2, <3>3
  <2> HIDE DEF c
  <2>4. ASSUME NEW f
        PROVE  Adds(c, Trees, f) <=> f = [s \in SUBSET Trees |->
                    IF s = {} THEN 0
                    ELSE LET x == CHOOSE y \in s : TRUE IN Len(tokens[x]) + f[s \ {x}]]
    <3> DEFINE pick(s) == CHOOSE y \in s : TRUE
    <3>1. \A s \in SUBSET Trees : s # {} => pick(s) \in s
      OBVIOUS
    <3>2. [s \in SUBSET Trees |-> IF s = {} THEN 0 ELSE c[pick(s)] + f[s \ {pick(s)}]]
            = [s \in SUBSET Trees |-> IF s = {} THEN 0
                                      ELSE Len(tokens[pick(s)]) + f[s \ {pick(s)}]]
      <4> HIDE DEF pick
      <4> QED
        BY <2>2, <2>3, <3>1
    <3> QED
      BY <3>2 DEF Adds
  <2>5. \A x \in Trees : c[x] \in Nat
    BY <2>2, <2>3
  <2>6. \E f : Adds(c, Trees, f)
    BY <2>3, <2>5, AddsIs
  <2>7. Adds(c, Trees, g)
    BY <2>4, <2>6
  <2> HIDE DEF g
  <2>8. g[Trees] = Total(c, Trees)
    BY <2>3, <2>5, <2>7, AddsIs
  <2>9. Total(c, Trees) = Total(c, ID)
    <3>1. \A x \in ID \ Trees : 1 .. c[x] = {}
      BY <2>3
    <3>2. Marks(c, Trees) = Marks(c, ID)
      BY <2>3, <3>1 DEF Marks
    <3> QED
      BY <3>2 DEF Total
  <2> QED
    BY <1>1, <2>1, <2>8, <2>9 DEF c
<1> QED
  BY <1>3, <1>4 DEF AccountsExact

\* The counters that fork, extend and kill adjust by what each of them finds are
\* at all times the distinct prefixes of the live trees and their lengths, and so
\* the limits extend compares them with hold of what is really stored.
THEOREM BooksBalance == ~ReuseNamespace => (KVSpec => []BooksKept)
<1>1. KVInv => WithinLimits
  <2> SUFFICES ASSUME KVInv, NEW ns \in ID
               PROVE  /\ resident <= Capacity
                      /\ Cardinality(UNION {Prefixes(p) \ {<<>>} : p \in DOMAIN nodes[ns]})
                           <= Budget
    BY DEF WithinLimits, KVInv, Booked
  <2> DEFINE N == nodes[ns]
             T == MembersOf(namespace, ns)
  <2>1. resident <= Capacity /\ Load(namespace, tokens)[ns] <= Budget
    BY DEF KVInv, Booked
  <2>2. /\ Well(N, T, tokens) /\ T \in SUBSET ID /\ tokens \in [ID -> Seq(Token)]
        /\ IsFiniteSet(T) /\ Load(namespace, tokens)[ns] = Cardinality(NeededOf(T, tokens))
    <3>1. tokens \in [ID -> Seq(Token)] /\ Well(N, T, tokens)
      BY DEF KVInv, Typed, Sound
    <3> QED
      BY <3>1, LoadIs
  <2> HIDE DEF N, T
  <2>3. /\ \A u \in Seq(Token) \ {<<>>} :
             u \in NeededOf(T, tokens) <=> \E p \in DOMAIN N : IsPrefix(u, p)
        /\ DOMAIN N \subseteq Seq(Token)
    <3>1. DOMAIN N \subseteq Seq(Token)
      BY <2>2 DEF Well, Radix
    <3> QED
      BY <2>2, <3>1, HoldsNeeded
  <2>4. \A p \in DOMAIN N : Prefixes(p) = {u \in Seq(Token) : IsPrefix(u, p)}
    BY <2>3, PrefixesOf
  <2>5. \A u \in NeededOf(T, tokens) : u \in Seq(Token) \ {<<>>}
    BY DEF NeededOf
  <2>6. UNION {Prefixes(p) \ {<<>>} : p \in DOMAIN N} = NeededOf(T, tokens)
    BY <2>3, <2>4, <2>5
  <2> QED
    BY <2>1, <2>2, <2>6 DEF N
<1>2. KVInv => BooksKept
  BY <1>1, AccountsAre DEF BooksKept
<1> QED
  BY <1>2, CacheInvariant, PTL
=============================================================================
