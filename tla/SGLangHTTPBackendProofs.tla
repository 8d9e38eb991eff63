----------------------- MODULE SGLangHTTPBackendProofs -----------------------
(***************************************************************************)
(* The safety properties of SGLangHTTPBackend for any branches, threads,    *)
(* retries and bounds.  HTTPInv is inductive.  Every action but Serve moves *)
(* one thread; what that does to the counters and to the request numbers    *)
(* is said once, in the lemmas of the first section.                        *)
(***************************************************************************)
EXTENDS SGLangHTTPBackend, FiniteSetTheorems, TLAPS

-----------------------------------------------------------------------------
\* The inductive invariant behind the safety properties

\* Each call is in a stage of its own operation, and only kills are retried.  The
\* kills that have yet to send have a request kept for them.
CallShape ==
    /\ \A t \in Thread :
          LET c == call[t]
          IN  /\ c.op = "none" => c = Idle
              /\ c.op \in {"create", "generate"} => c.stage = "await"
              /\ c.op = "fork" => c.stage \in {"await", "register"}
              /\ c.op = "kill" => c.stage \in {"enter", "drain", "await"}
              /\ c.op # "none" => c.b \in Branch
              /\ c.op = "fork" => c.p \in Branch
              /\ c.op = "create" => c.p = NoBranch /\ c.name = c.b
              /\ c.op # "kill" => c.left = 0
    /\ sent + Cardinality(Unsent) <= MaxRequests

\* Request numbers tell the attempts apart, and a request that is waited for says
\* what its caller asked.
Numbered ==
    /\ \A m \in net \cup answers : m.n <= sent
    /\ \A m \in net : m.op = "fork" => m.p \in Branch
    /\ \A t \in Thread : call[t].n <= sent /\ (call[t].stage = "await" => call[t].n > 0)
    /\ \A t, u \in Thread : /\ call[t].stage = "await" /\ call[u].stage = "await"
                            /\ call[t].n = call[u].n
                            => t = u
    /\ \A m \in net, t \in Thread :
          call[t].stage = "await" /\ m.n = call[t].n
          => /\ m.op = call[t].op /\ m.b = call[t].b /\ m.p = call[t].p
             /\ m.name = call[t].name /\ m.end = call[t].end

\* A kill past its first wait is the only one in _closing_branches for its branch.
KillsMarked ==
    /\ \A t \in Thread : call[t].op = "kill" /\ call[t].stage # "enter" => call[t].b \in closing
    /\ \A t, u \in Thread :
          /\ call[t].op = "kill" /\ call[t].stage # "enter"
          /\ call[u].op = "kill" /\ call[u].stage # "enter"
          /\ call[t].b = call[u].b
          => t = u

\* Whoever makes a branch is alone on its row; requests in flight name branches
\* that stay tracked as they were; a branch under a kill is dying or gone.
RowsHeld ==
    /\ \A b \in Branch : names[b] # NoBranch => b \in rows
    /\ \A t \in Thread :
          /\ call[t].op \in {"create", "fork"} =>
                /\ call[t].b \in rows \ dying /\ names[call[t].b] = NoBranch
                /\ \A u \in Thread \ {t} : call[u].op \in {"create", "fork", "kill"}
                                           => call[u].b # call[t].b
          /\ call[t].op = "fork" /\ call[t].stage = "await" =>
                call[t].name = names[call[t].p] /\ names[call[t].p] # NoBranch
          /\ call[t].op = "generate" =>
                /\ call[t].name = names[call[t].b] /\ names[call[t].b] # NoBranch
                /\ call[t].p = parents[call[t].b]
          /\ call[t].op = "kill" => call[t].b \in dying \/ call[t].b \notin rows

\* What the server has is what the client tracks or is about to: after an
\* accepted create or fork that the caller has yet to track, and after a kill that
\* it has yet to see answered.
ServerSound ==
    /\ \A b \in Branch \ late :
          names[b] # NoBranch /\ server[b].there => server[b] = There(names[b], parents[b])
    /\ \A t \in Thread :
          /\ /\ call[t].op \in {"create", "fork"} /\ call[t].b \notin late
             /\ call[t].stage = "register" \/ (\E a \in answers : a.n = call[t].n /\ a.ok)
             => server[call[t].b] = There(call[t].name, call[t].p)
          /\ /\ call[t].op = "kill" /\ call[t].stage = "await" /\ call[t].b \notin late
             /\ \E a \in answers : a.n = call[t].n
             => ~server[call[t].b].there

HTTPInv == /\ HTTPTypeOK /\ CallShape /\ Numbered /\ ActiveExact /\ KillsMarked /\ KillWaits
           /\ RowsHeld /\ LeakOnlyLate /\ TrackedIsThere /\ ServerSound

-----------------------------------------------------------------------------
\* A set of threads that changes by one thread at most.
LEMMA OneThread ==
    ASSUME NEW S \in SUBSET Thread, NEW T \in SUBSET Thread, NEW t \in Thread
    PROVE  /\ Cardinality(S) \in 0 .. Cardinality(Thread) /\ Cardinality(Thread) \in Nat
           /\ T = S \cup {t} /\ t \notin S =>
                Cardinality(T) = Cardinality(S) + 1 /\ Cardinality(S) + 1 <= Cardinality(Thread)
           /\ T = S \ {t} /\ t \in S =>
                Cardinality(T) = Cardinality(S) - 1 /\ Cardinality(S) > 0
<1>1. /\ IsFiniteSet(S) /\ IsFiniteSet(T) /\ IsFiniteSet(Thread)
      /\ Cardinality(S) \in Nat /\ Cardinality(T) \in Nat /\ Cardinality(Thread) \in Nat
      /\ Cardinality(S) <= Cardinality(Thread) /\ Cardinality(T) <= Cardinality(Thread)
    BY HTTPAssumption, FS_Subset, FS_CardinalityType
<1>2. T = S \cup {t} /\ t \notin S => Cardinality(T) = Cardinality(S) + 1
    BY <1>1, FS_AddElement
<1>3. T = S \ {t} /\ t \in S => Cardinality(T) = Cardinality(S) - 1
    BY <1>1, FS_RemoveElement
<1> QED
    BY <1>1, <1>2, <1>3

\* No request in flight is counted or forgotten where no thread enters or leaves one.
LEMMA ActiveStays ==
    ASSUME ActiveExact, active' = active, \A b \in Branch : InFlight(b)' = InFlight(b)
    PROVE  ActiveExact'
    BY DEF ActiveExact

LEMMA ActiveEnters ==
    ASSUME ActiveExact, active \in [Branch -> 0 .. Cardinality(Thread)],
           NEW t \in Thread, NEW p \in Branch, Enter(p), t \notin InFlight(p),
           \A b \in Branch : InFlight(b)' = IF b = p THEN InFlight(b) \cup {t} ELSE InFlight(b)
    PROVE  ActiveExact' /\ active' \in [Branch -> 0 .. Cardinality(Thread)]
<1>1. InFlight(p) \in SUBSET Thread /\ InFlight(p)' \in SUBSET Thread
    BY DEF InFlight
<1>2. /\ Cardinality(InFlight(p)') = Cardinality(InFlight(p)) + 1
      /\ Cardinality(InFlight(p)) + 1 <= Cardinality(Thread)
      /\ Cardinality(InFlight(p)) \in Nat /\ Cardinality(Thread) \in Nat
    BY <1>1, OneThread
<1> QED
    BY <1>2 DEF ActiveExact, Enter

LEMMA ActiveLeaves ==
    ASSUME ActiveExact, active \in [Branch -> 0 .. Cardinality(Thread)],
           NEW t \in Thread, NEW p \in Branch, Leave(p), t \in InFlight(p),
           \A b \in Branch : InFlight(b)' = IF b = p THEN InFlight(b) \ {t} ELSE InFlight(b)
    PROVE  ActiveExact' /\ active' \in [Branch -> 0 .. Cardinality(Thread)]
<1>1. InFlight(p) \in SUBSET Thread /\ InFlight(p)' \in SUBSET Thread
    BY DEF InFlight
<1>2. /\ Cardinality(InFlight(p)') = Cardinality(InFlight(p)) - 1
      /\ Cardinality(InFlight(p)) > 0
      /\ Cardinality(InFlight(p)) \in Nat /\ Cardinality(Thread) \in Nat
    BY <1>1, OneThread
<1> QED
    BY <1>2 DEF ActiveExact, Leave

\* Nobody is in flight on a branch whose counter is 0.
LEMMA NoneInFlight ==
    ASSUME ActiveExact, NEW b \in Branch, active[b] = 0
    PROVE  InFlight(b) = {}
    BY HTTPAssumption, FS_Subset, FS_EmptySet DEF ActiveExact, InFlight

\* A thread sends: the request is new, and the answers on their way are for others.
LEMMA Sends ==
    ASSUME HTTPTypeOK, Numbered, sent < MaxRequests, NEW t \in Thread,
           NEW c \in Calls, c.stage = "await", c.n = sent + 1, c.op # "none", c.b \in Branch,
           c.op = "fork" => c.p \in Branch,
           call' = [call EXCEPT ![t] = c], sent' = sent + 1, answers' \subseteq answers,
           NEW N \in SUBSET net,
           net' = N \cup {[n |-> sent + 1, op |-> c.op, b |-> c.b, p |-> c.p,
                           name |-> c.name, end |-> c.end]}
    PROVE  /\ Numbered' /\ sent' \in 0 .. MaxRequests
           /\ net' \subseteq Requests /\ answers' \subseteq Answers /\ call' \in [Thread -> Calls]
<1> DEFINE r == [n |-> sent + 1, op |-> c.op, b |-> c.b, p |-> c.p,
                 name |-> c.name, end |-> c.end]
<1>1. sent \in 0 .. MaxRequests /\ MaxRequests \in Nat /\ net \subseteq Requests
      /\ answers \subseteq Answers /\ call \in [Thread -> Calls]
    BY HTTPAssumption DEF HTTPTypeOK
<1>2. sent' \in 0 .. MaxRequests /\ sent + 1 \in 1 .. MaxRequests
    BY <1>1
<1>3. r \in Requests
    BY <1>2 DEF Calls, Requests
<1>4. net' \subseteq Requests /\ answers' \subseteq Answers /\ call' \in [Thread -> Calls]
    BY <1>1, <1>3
<1>5. /\ call'[t] = c /\ \A u \in Thread \ {t} : call'[u] = call[u]
    BY <1>1
<1>6. \A m \in (net \cup answers)' : m.n <= sent'
  <2>1. \A m \in net \cup answers : m.n \in Nat /\ m.n <= sent
    BY <1>1 DEF Numbered, Requests, Answers
  <2>2. r.n = sent + 1
    OBVIOUS
  <2> QED
    BY <1>1, <2>1, <2>2
<1>7. \A u \in Thread \ {t} : call'[u].n \in Nat /\ call'[u].n <= sent
                              /\ (call'[u].stage = "await" => call'[u].n > 0)
    BY <1>1, <1>5 DEF Calls, Numbered
<1>8. \A u \in Thread : call'[u].n <= sent' /\ (call'[u].stage = "await" => call'[u].n > 0)
    BY <1>1, <1>5, <1>7
<1>9. \A u, v \in Thread : /\ call'[u].stage = "await" /\ call'[v].stage = "await"
                           /\ call'[u].n = call'[v].n
                           => u = v
    BY <1>1, <1>5, <1>7 DEF Numbered
<1>10. ASSUME NEW m \in net', NEW u \in Thread, call'[u].stage = "await", m.n = call'[u].n
       PROVE  /\ m.op = call'[u].op /\ m.b = call'[u].b /\ m.p = call'[u].p
              /\ m.name = call'[u].name /\ m.end = call'[u].end
  <2>1. CASE m = r
    <3>1. u = t
      BY <1>1, <1>5, <1>7, <1>10, <2>1
    <3> QED
      BY <1>5, <2>1, <3>1
  <2>2. CASE m \in N
    <3>1. m.n <= sent /\ m.n \in Nat
      BY <1>1, <2>2 DEF Numbered, Requests
    <3>2. u # t
      BY <1>1, <1>5, <1>10, <3>1
    <3> QED
      BY <1>5, <1>10, <2>2, <3>2 DEF Numbered
  <2> QED
    BY <2>1, <2>2
<1> QED
    BY <1>2, <1>4, <1>6, <1>8, <1>9, <1>10 DEF Numbered

LEMMA SendsCall ==
    ASSUME HTTPTypeOK, Numbered, sent < MaxRequests, NEW t \in Thread,
           NEW k \in Calls, k.op # "none", k.b \in Branch,
           k.op = "fork" => k.p \in Branch, Send(t, k)
    PROVE  /\ Numbered' /\ sent' = sent + 1 /\ sent' \in 0 .. MaxRequests
           /\ net' \subseteq Requests /\ answers' = answers /\ call' \in [Thread -> Calls]
           /\ call'[t].op = k.op /\ call'[t].b = k.b /\ call'[t].p = k.p
           /\ call'[t].name = k.name /\ call'[t].end = k.end /\ call'[t].left = k.left
           /\ call'[t].stage = "await" /\ call'[t].n = sent + 1
           /\ \A u \in Thread \ {t} : call'[u] = call[u]
<1> DEFINE c == [k EXCEPT !.stage = "await", !.n = sent + 1]
<1>1. sent \in 0 .. MaxRequests /\ MaxRequests \in Nat /\ call \in [Thread -> Calls]
    BY HTTPAssumption DEF HTTPTypeOK
<1>2. /\ c \in Calls /\ c.stage = "await" /\ c.n = sent + 1
      /\ c.op = k.op /\ c.b = k.b /\ c.p = k.p /\ c.name = k.name /\ c.end = k.end
      /\ c.left = k.left
  <2>1. sent + 1 \in 0 .. MaxRequests
    BY <1>1
  <2>2. c \in Calls
    BY <2>1 DEF Calls, Stage
  <2> QED
    BY <2>2 DEF Calls
<1>3. /\ call' = [call EXCEPT ![t] = c] /\ sent' = sent + 1 /\ answers' = answers
      /\ net' = net \cup {[n |-> sent + 1, op |-> k.op, b |-> k.b, p |-> k.p,
                           name |-> k.name, end |-> k.end]}
    BY DEF Send
<1> HIDE DEF c
<1>4. /\ Numbered' /\ sent' \in 0 .. MaxRequests
      /\ net' \subseteq Requests /\ call' \in [Thread -> Calls]
    BY <1>2, <1>3, Sends
<1> QED
    BY <1>1, <1>2, <1>3, <1>4

\* A thread stops waiting, or does not start.
LEMMA Rests ==
    ASSUME HTTPTypeOK, Numbered, NEW t \in Thread, NEW c \in Calls, c.stage # "await",
           c.n <= sent, call' = [call EXCEPT ![t] = c],
           sent' = sent, net' \subseteq net, answers' \subseteq answers
    PROVE  /\ Numbered' /\ net' \subseteq Requests /\ answers' \subseteq Answers
           /\ call' \in [Thread -> Calls]
<1>1. /\ net \subseteq Requests /\ answers \subseteq Answers /\ call \in [Thread -> Calls]
    BY DEF HTTPTypeOK
<1>2. /\ call'[t] = c /\ \A u \in Thread \ {t} : call'[u] = call[u]
    BY <1>1
<1> QED
    BY <1>1, <1>2 DEF Numbered

LEMMA Returns ==
    ASSUME HTTPTypeOK, Numbered, CallShape, NEW t \in Thread, Return(t),
           sent' = sent, net' \subseteq net, answers' \subseteq answers
    PROVE  /\ Numbered' /\ CallShape' /\ net' \subseteq Requests /\ answers' \subseteq Answers
           /\ call' \in [Thread -> Calls]
           /\ call'[t] = Idle /\ \A u \in Thread \ {t} : call'[u] = call[u]
<1>0. /\ call \in [Thread -> Calls] /\ sent \in 0 .. MaxRequests
      /\ MaxRequests \in Nat /\ MaxRetries \in Nat
    BY HTTPAssumption DEF HTTPTypeOK
<1>1. Idle \in Calls /\ Idle.stage = "idle" /\ Idle.n <= sent
    BY <1>0 DEF Idle, Calls, Op, Stage, BranchOrNone
<1>2. call' = [call EXCEPT ![t] = Idle]
    BY DEF Return
<1>3. Numbered' /\ net' \subseteq Requests /\ answers' \subseteq Answers /\
        call' \in [Thread -> Calls]
    BY <1>1, <1>2, Rests
<1>4. call'[t] = Idle /\ \A u \in Thread \ {t} : call'[u] = call[u]
    BY <1>0, <1>2
<1>5. CallShape'
  <2>1. Unsent' \in SUBSET Unsent /\ Unsent \in SUBSET Thread
    BY <1>1, <1>4 DEF Unsent
  <2>2. Cardinality(Unsent') <= Cardinality(Unsent)
        /\ Cardinality(Unsent) \in Nat /\ Cardinality(Unsent') \in Nat
    BY <2>1, HTTPAssumption, FS_Subset, FS_CardinalityType
  <2>3. sent' + Cardinality(Unsent') <= MaxRequests
    BY <1>0, <2>2 DEF CallShape
  <2>4. Idle.op = "none" /\ Idle.left = 0
    BY DEF Idle
  <2> QED
    BY <1>4, <2>3, <2>4 DEF CallShape
<1> QED
    BY <1>3, <1>4, <1>5

-----------------------------------------------------------------------------
\* Initially nothing is registered, sent or served.
LEMMA HTTPInitSound == HTTPInit => HTTPInv
<1> SUFFICES ASSUME HTTPInit PROVE HTTPInv
    OBVIOUS
<1>1. \A t \in Thread : call[t] = Idle
    BY DEF HTTPInit
<1>2. Unsent = {} /\ \A b \in Branch : InFlight(b) = {}
    BY <1>1 DEF Unsent, InFlight, Idle
<1>3. Cardinality({}) = 0 /\ Cardinality(Thread) \in Nat
    BY HTTPAssumption, FS_EmptySet, FS_CardinalityType
<1>4. HTTPTypeOK
    BY <1>1, <1>3, HTTPAssumption
    DEF HTTPInit, HTTPTypeOK, Idle, Calls, Op, Stage, BranchOrNone, Gone
<1>5. CallShape
    BY <1>1, <1>2, <1>3, HTTPAssumption DEF HTTPInit, CallShape, Idle
<1>6. ActiveExact
    BY <1>2, <1>3 DEF ActiveExact, HTTPInit
<1>7. Numbered /\ KillsMarked /\ KillWaits
    BY <1>1 DEF HTTPInit, Numbered, KillsMarked, KillWaits, Idle
<1>8. RowsHeld /\ LeakOnlyLate /\ TrackedIsThere /\ ServerSound
    BY <1>1 DEF HTTPInit, RowsHeld, LeakOnlyLate, TrackedIsThere, ServerSound, Idle, Gone
<1> QED
    BY <1>4, <1>5, <1>6, <1>7, <1>8 DEF HTTPInv

-----------------------------------------------------------------------------
\* The calls that send at once

LEMMA CreateKeeps ==
    ASSUME HTTPInv, NEW t \in Thread, NEW b \in Branch, create_tree(t, b)
    PROVE  HTTPInv'
<1> DEFINE k == New("create", b, NoBranch, b, FALSE)
<1> USE DEF HTTPInv
<1>0. /\ sent \in 0 .. MaxRequests /\ MaxRequests \in Nat /\ MaxRetries \in Nat
      /\ Cardinality(Unsent) \in Nat /\ call \in [Thread -> Calls]
    BY HTTPAssumption, FS_Subset, FS_CardinalityType DEF HTTPTypeOK, Unsent
<1>1. /\ call[t] = Idle /\ sent + Cardinality(Unsent) < MaxRequests
      /\ b \notin rows /\ On(b, {"kill"}) = {}
      /\ rows' = rows \cup {b} /\ Send(t, k)
      /\ UNCHANGED <<dying, names, parents, active, closing, server, late, ended, faults>>
    BY DEF create_tree, Budget, Free, clientVars, serverVars
<1>2. /\ k \in Calls /\ k.op = "create" /\ k.b = b /\ k.p = NoBranch /\ k.name = b
      /\ k.left = 0 /\ sent < MaxRequests
    BY <1>0, <1>1 DEF New, Calls, Op, Stage, BranchOrNone
<1> HIDE DEF k
<1>3. /\ Numbered' /\ sent' = sent + 1 /\ sent' \in 0 .. MaxRequests
      /\ net' \subseteq Requests /\ answers' = answers /\ call' \in [Thread -> Calls]
      /\ call'[t].op = "create" /\ call'[t].b = b /\ call'[t].p = NoBranch
      /\ call'[t].name = b /\ call'[t].left = 0
      /\ call'[t].stage = "await" /\ call'[t].n = sent + 1
      /\ \A u \in Thread \ {t} : call'[u] = call[u]
    BY <1>1, <1>2, SendsCall
<1>4. call[t].op = "none" /\ call[t].stage = "idle"
    BY <1>1 DEF Idle
<1>5. HTTPTypeOK'
    BY <1>1, <1>3 DEF HTTPTypeOK
<1>6. Unsent' = Unsent /\ \A x \in Branch : InFlight(x)' = InFlight(x)
    BY <1>3, <1>4 DEF Unsent, InFlight
<1>7. CallShape'
    BY <1>0, <1>1, <1>3, <1>6 DEF CallShape
<1>8. ActiveExact'
    BY <1>1, <1>6, ActiveStays
<1>9. KillsMarked' /\ KillWaits'
    BY <1>1, <1>3, <1>4 DEF KillsMarked, KillWaits
<1>10. RowsHeld'
    BY <1>1, <1>3, <1>4 DEF RowsHeld, On, HTTPTypeOK
<1>11. LeakOnlyLate' /\ TrackedIsThere'
    BY <1>1 DEF LeakOnlyLate, TrackedIsThere
<1>12. ServerSound'
  <2>1. \A a \in answers : a.n # sent + 1
    BY <1>0 DEF Numbered, HTTPTypeOK, Answers
  <2> QED
    BY <1>1, <1>3, <2>1 DEF ServerSound
<1> QED
    BY <1>3, <1>5, <1>7, <1>8, <1>9, <1>10, <1>11, <1>12

LEMMA ForkKeeps ==
    ASSUME HTTPInv, NEW t \in Thread, NEW p \in Branch, NEW b \in Branch, fork_branch(t, p, b)
    PROVE  HTTPInv'
<1> DEFINE k == New("fork", b, p, names[p], FALSE)
<1> USE DEF HTTPInv
<1>0. /\ sent \in 0 .. MaxRequests /\ MaxRequests \in Nat /\ MaxRetries \in Nat
      /\ Cardinality(Unsent) \in Nat /\ call \in [Thread -> Calls]
      /\ names \in [Branch -> BranchOrNone] /\ active \in [Branch -> 0 .. Cardinality(Thread)]
    BY HTTPAssumption, FS_Subset, FS_CardinalityType DEF HTTPTypeOK, Unsent
<1>1. /\ call[t] = Idle /\ sent + Cardinality(Unsent) < MaxRequests
      /\ p \in rows /\ b \notin rows /\ On(b, {"kill"}) = {}
      /\ rows' = rows \cup {b}
      /\ UNCHANGED <<dying, names, parents, closing, server, late, ended, faults>>
    BY DEF fork_branch, Budget, Free, serverVars
<1>2. call[t].op = "none" /\ call[t].stage = "idle"
    BY <1>1 DEF Idle
<1>3. CASE p \in closing \/ names[p] = NoBranch
  <2>1. UNCHANGED <<active, call, net, answers, sent>>
    BY <1>3 DEF fork_branch, wireVars
  <2>2. \A x \in Branch : InFlight(x)' = InFlight(x)
    BY <2>1 DEF InFlight
  <2>3. HTTPTypeOK' /\ KillsMarked' /\ KillWaits'
    BY <1>1, <2>1 DEF HTTPTypeOK, KillsMarked, KillWaits
  <2>6. CallShape'
    BY <1>1, <2>1 DEF CallShape, Unsent
  <2>7. Numbered'
    BY <2>1 DEF Numbered
  <2>4. RowsHeld'
    BY <1>1, <2>1 DEF RowsHeld, On
  <2>5. LeakOnlyLate' /\ TrackedIsThere' /\ ServerSound'
    BY <1>1, <2>1 DEF LeakOnlyLate, TrackedIsThere, ServerSound
  <2> QED
    BY <2>1, <2>2, <2>3, <2>4, <2>5, <2>6, <2>7, ActiveStays
<1>4. CASE p \notin closing /\ names[p] # NoBranch
  <2>1. Enter(p) /\ Send(t, k)
    BY <1>4 DEF fork_branch
  <2>2. /\ k \in Calls /\ k.op = "fork" /\ k.b = b /\ k.p = p /\ k.name = names[p]
        /\ k.left = 0 /\ sent < MaxRequests
    BY <1>0, <1>1 DEF New, Calls, Op, Stage, BranchOrNone
  <2> HIDE DEF k
  <2>3. /\ Numbered' /\ sent' = sent + 1 /\ sent' \in 0 .. MaxRequests
        /\ net' \subseteq Requests /\ answers' = answers /\ call' \in [Thread -> Calls]
        /\ call'[t].op = "fork" /\ call'[t].b = b /\ call'[t].p = p
        /\ call'[t].name = names[p] /\ call'[t].left = 0
        /\ call'[t].stage = "await" /\ call'[t].n = sent + 1
        /\ \A u \in Thread \ {t} : call'[u] = call[u]
    BY <2>1, <2>2, SendsCall
  <2>4. /\ Unsent' = Unsent /\ t \notin InFlight(p)
        /\ \A x \in Branch : InFlight(x)' = IF x = p THEN InFlight(x) \cup {t} ELSE InFlight(x)
    BY <1>2, <2>3 DEF Unsent, InFlight
  <2>5. ActiveExact' /\ active' \in [Branch -> 0 .. Cardinality(Thread)]
    BY <1>0, <2>1, <2>4, ActiveEnters
  <2>6. HTTPTypeOK'
    BY <1>1, <2>3, <2>5 DEF HTTPTypeOK
  <2>7. CallShape'
    BY <1>0, <1>1, <2>3, <2>4 DEF CallShape
  <2>8. KillsMarked' /\ KillWaits'
    BY <1>1, <1>4, <2>3 DEF KillsMarked, KillWaits
  <2>9. RowsHeld'
    <3>1. b \notin dying /\ names[b] = NoBranch /\ p # b
      BY <1>1 DEF RowsHeld, HTTPTypeOK
    <3>2. \A u \in Thread : call[u].op \in {"create", "fork", "kill"} => call[u].b # b
      BY <1>1 DEF RowsHeld, On
    <3> QED
      BY <1>1, <1>2, <1>4, <2>3, <3>1, <3>2 DEF RowsHeld
  <2>10. LeakOnlyLate' /\ TrackedIsThere'
    BY <1>1 DEF LeakOnlyLate, TrackedIsThere
  <2>11. \A a \in answers : a.n # sent + 1
    BY <1>0 DEF Numbered, HTTPTypeOK, Answers
  <2>12. ServerSound'
    BY <1>1, <2>3, <2>11 DEF ServerSound
  <2> QED
    BY <2>3, <2>5, <2>6, <2>7, <2>8, <2>9, <2>10, <2>12
<1> QED
    BY <1>3, <1>4

LEMMA GenerateKeeps ==
    ASSUME HTTPInv, NEW t \in Thread, NEW b \in Branch, NEW end \in BOOLEAN, generate(t, b, end)
    PROVE  HTTPInv'
<1> DEFINE k == New("generate", b, parents[b], names[b], end)
<1> USE DEF HTTPInv
<1>0. /\ sent \in 0 .. MaxRequests /\ MaxRequests \in Nat /\ MaxRetries \in Nat
      /\ Cardinality(Unsent) \in Nat /\ call \in [Thread -> Calls]
      /\ names \in [Branch -> BranchOrNone] /\ parents \in [Branch -> BranchOrNone]
      /\ active \in [Branch -> 0 .. Cardinality(Thread)]
    BY HTTPAssumption, FS_Subset, FS_CardinalityType DEF HTTPTypeOK, Unsent
<1>1. /\ call[t] = Idle /\ sent + Cardinality(Unsent) < MaxRequests
      /\ b \notin closing /\ names[b] # NoBranch /\ Enter(b) /\ Send(t, k)
      /\ UNCHANGED <<rows, dying, names, parents, closing, server, late, ended, faults>>
    BY DEF generate, Budget, serverVars, registry
<1>2. call[t].op = "none" /\ call[t].stage = "idle"
    BY <1>1 DEF Idle
<1>3. /\ k \in Calls /\ k.op = "generate" /\ k.b = b /\ k.p = parents[b] /\ k.name = names[b]
      /\ k.left = 0 /\ sent < MaxRequests
    BY <1>0, <1>1 DEF New, Calls, Op, Stage, BranchOrNone
<1> HIDE DEF k
<1>4. /\ Numbered' /\ sent' = sent + 1 /\ sent' \in 0 .. MaxRequests
      /\ net' \subseteq Requests /\ answers' = answers /\ call' \in [Thread -> Calls]
      /\ call'[t].op = "generate" /\ call'[t].b = b /\ call'[t].p = parents[b]
      /\ call'[t].name = names[b] /\ call'[t].left = 0
      /\ call'[t].stage = "await" /\ call'[t].n = sent + 1
      /\ \A u \in Thread \ {t} : call'[u] = call[u]
    BY <1>1, <1>3, SendsCall
<1>5. /\ Unsent' = Unsent /\ t \notin InFlight(b)
      /\ \A x \in Branch : InFlight(x)' = IF x = b THEN InFlight(x) \cup {t} ELSE InFlight(x)
    BY <1>2, <1>4 DEF Unsent, InFlight
<1>6. ActiveExact' /\ active' \in [Branch -> 0 .. Cardinality(Thread)]
    BY <1>0, <1>1, <1>5, ActiveEnters
<1>7. HTTPTypeOK'
    BY <1>1, <1>4, <1>6 DEF HTTPTypeOK
<1>8. CallShape'
    BY <1>0, <1>1, <1>4, <1>5 DEF CallShape
<1>9. KillsMarked' /\ KillWaits'
    BY <1>1, <1>4 DEF KillsMarked, KillWaits
<1>10. RowsHeld'
    BY <1>1, <1>2, <1>4 DEF RowsHeld
<1>11. LeakOnlyLate' /\ TrackedIsThere'
    BY <1>1 DEF LeakOnlyLate, TrackedIsThere
<1>12. ServerSound'
    BY <1>1, <1>4 DEF ServerSound
<1> QED
    BY <1>4, <1>6, <1>7, <1>8, <1>9, <1>10, <1>11, <1>12

-----------------------------------------------------------------------------
\* A kill up to its first attempt

LEMMA KillKeeps ==
    ASSUME HTTPInv, NEW t \in Thread, NEW b \in Branch, kill(t, b)
    PROVE  HTTPInv'
<1> DEFINE c == New("kill", b, NoBranch, NoBranch, FALSE)
<1> USE DEF HTTPInv
<1>0. /\ sent \in 0 .. MaxRequests /\ MaxRequests \in Nat /\ MaxRetries \in Nat
      /\ call \in [Thread -> Calls] /\ Unsent \in SUBSET Thread
    BY HTTPAssumption DEF HTTPTypeOK, Unsent
<1>1. /\ call[t] = Idle /\ sent + Cardinality(Unsent) < MaxRequests
      /\ b \in rows /\ On(b, {"create", "fork"}) = {}
      /\ dying' = dying \cup {b} /\ call' = [call EXCEPT ![t] = c]
      /\ UNCHANGED <<rows, names, parents, active, closing, net, answers, sent, server, late,
                     ended, faults>>
    BY DEF kill, Budget, clientVars, wireVars, serverVars
<1>2. call[t].op = "none" /\ call[t].stage = "idle"
    BY <1>1 DEF Idle
<1>3. /\ c \in Calls /\ c.op = "kill" /\ c.b = b /\ c.stage = "enter" /\ c.n = 0
  <2>1. MaxRetries \in 0 .. MaxRetries /\ 0 \in 0 .. MaxRequests
    BY <1>0
  <2> QED
    BY <2>1 DEF New, Calls, Op, Stage, BranchOrNone
<1> HIDE DEF c
<1>4. /\ Numbered' /\ net' \subseteq Requests /\ answers' \subseteq Answers
      /\ call' \in [Thread -> Calls]
  <2>1. c.stage # "await" /\ c.n <= sent /\ sent' = sent /\ net' \subseteq net
        /\ answers' \subseteq answers
    BY <1>0, <1>1, <1>3
  <2> QED
    BY <1>1, <1>3, <2>1, Rests
<1>5. call'[t] = c /\ \A u \in Thread \ {t} : call'[u] = call[u]
    BY <1>0, <1>1
<1>6. /\ Unsent' = Unsent \cup {t} /\ t \notin Unsent
      /\ \A x \in Branch : InFlight(x)' = InFlight(x)
    BY <1>2, <1>3, <1>5 DEF Unsent, InFlight
<1>7. HTTPTypeOK'
    BY <1>1, <1>4 DEF HTTPTypeOK
<1>8. CallShape'
  <2>1. Cardinality(Unsent') = Cardinality(Unsent) + 1 /\ Cardinality(Unsent) \in Nat
    BY <1>0, <1>6, OneThread
  <2> QED
    BY <1>0, <1>1, <1>3, <1>5, <2>1 DEF CallShape
<1>9. ActiveExact'
    BY <1>1, <1>6, ActiveStays
<1>10. KillsMarked' /\ KillWaits'
    BY <1>1, <1>3, <1>5 DEF KillsMarked, KillWaits
<1>11. RowsHeld'
    BY <1>1, <1>3, <1>5 DEF RowsHeld, On
<1>12. LeakOnlyLate' /\ TrackedIsThere' /\ ServerSound'
    BY <1>1, <1>3, <1>5 DEF LeakOnlyLate, TrackedIsThere, ServerSound
<1> QED
    BY <1>4, <1>7, <1>8, <1>9, <1>10, <1>11, <1>12

LEMMA KillEnterKeeps ==
    ASSUME HTTPInv, NEW t \in Thread, KillEnter(t)
    PROVE  HTTPInv'
<1> DEFINE b == call[t].b
<1> USE DEF HTTPInv
<1>0. /\ sent \in 0 .. MaxRequests /\ MaxRequests \in Nat /\ faults \in 0 .. MaxFaults
      /\ MaxFaults \in Nat /\ call \in [Thread -> Calls]
    BY HTTPAssumption DEF HTTPTypeOK
<1>1. /\ call[t].op = "kill" /\ call[t].stage = "enter" /\ call[t].b \in Branch
      /\ UNCHANGED <<rows, dying, names, parents, active, net, answers, sent, server, late, ended>>
    BY DEF KillEnter, CallShape, registry, wireVars, serverVars
<1>2. CASE /\ b \notin closing /\ closing' = closing \cup {b} /\ UNCHANGED faults
           /\ call' = [call EXCEPT ![t].stage = "drain"]
  <2> DEFINE c == [call[t] EXCEPT !.stage = "drain"]
  <2>1. c \in Calls
    BY <1>0 DEF Calls, Stage
  <2>2. /\ c.stage = "drain" /\ c.op = "kill" /\ c.b = b /\ c.n = call[t].n
        /\ call' = [call EXCEPT ![t] = c]
    BY <1>0, <1>1, <1>2, <2>1 DEF Calls
  <2> HIDE DEF c
  <2>3. c.n <= sent /\ sent' = sent /\ net' \subseteq net /\ answers' \subseteq answers
    BY <1>1, <2>2 DEF Numbered
  <2>4. /\ Numbered' /\ net' \subseteq Requests /\ answers' \subseteq Answers
        /\ call' \in [Thread -> Calls]
    BY <2>1, <2>2, <2>3, Rests
  <2>5. call'[t] = c /\ \A u \in Thread \ {t} : call'[u] = call[u]
    BY <1>0, <2>2
  <2>6. Unsent' = Unsent /\ \A x \in Branch : InFlight(x)' = InFlight(x)
    BY <1>1, <2>2, <2>5 DEF Unsent, InFlight
  <2>7. HTTPTypeOK'
    BY <1>1, <1>2, <2>4 DEF HTTPTypeOK
  <2>8. CallShape'
    BY <1>1, <2>2, <2>5, <2>6 DEF CallShape
  <2>9. ActiveExact'
    BY <1>1, <2>6, ActiveStays
  <2>10. KillsMarked' /\ KillWaits'
    BY <1>2, <2>2, <2>5 DEF KillsMarked, KillWaits
  <2>11. RowsHeld'
    BY <1>1, <2>2, <2>5 DEF RowsHeld
  <2>12. LeakOnlyLate' /\ TrackedIsThere' /\ ServerSound'
    BY <1>1, <2>2, <2>5 DEF LeakOnlyLate, TrackedIsThere, ServerSound
  <2> QED
    BY <2>4, <2>7, <2>8, <2>9, <2>10, <2>11, <2>12
<1>3. CASE Fault /\ Return(t) /\ UNCHANGED closing
  <2>1. /\ Numbered' /\ CallShape' /\ net' \subseteq Requests /\ answers' \subseteq Answers
        /\ call' \in [Thread -> Calls]
        /\ call'[t] = Idle /\ \A u \in Thread \ {t} : call'[u] = call[u]
    BY <1>1, <1>3, Returns
  <2>2. \A x \in Branch : InFlight(x)' = InFlight(x)
    BY <1>1, <2>1 DEF InFlight, Idle
  <2>3. HTTPTypeOK'
    BY <1>0, <1>1, <1>3, <2>1 DEF HTTPTypeOK, Fault
  <2>4. ActiveExact'
    BY <1>1, <2>2, ActiveStays
  <2>5. KillsMarked' /\ KillWaits'
    BY <1>3, <2>1 DEF KillsMarked, KillWaits, Idle
  <2>6. RowsHeld'
    BY <1>1, <2>1 DEF RowsHeld, Idle
  <2>7. LeakOnlyLate' /\ TrackedIsThere' /\ ServerSound'
    BY <1>1, <2>1 DEF LeakOnlyLate, TrackedIsThere, ServerSound, Idle
  <2> QED
    BY <2>1, <2>3, <2>4, <2>5, <2>6, <2>7
<1> QED
    BY <1>2, <1>3 DEF KillEnter

LEMMA KillDrainKeeps ==
    ASSUME HTTPInv, NEW t \in Thread, KillDrain(t)
    PROVE  HTTPInv'
<1> DEFINE b == call[t].b
<1> USE DEF HTTPInv
<1>0. /\ sent \in 0 .. MaxRequests /\ MaxRequests \in Nat /\ faults \in 0 .. MaxFaults
      /\ MaxFaults \in Nat /\ call \in [Thread -> Calls]
    BY HTTPAssumption DEF HTTPTypeOK
<1>1. /\ call[t].op = "kill" /\ call[t].stage = "drain" /\ b \in Branch
      /\ UNCHANGED <<rows, dying, names, parents, active, server, late, ended>>
    BY DEF KillDrain, CallShape, registry, serverVars
<1>2. CASE active[b] = 0 /\ Send(t, call[t]) /\ UNCHANGED <<closing, faults>>
  <2>1. Cardinality(Unsent') = Cardinality(Unsent) - 1 /\ Cardinality(Unsent) \in Nat
        /\ Cardinality(Unsent) > 0 /\ sent < MaxRequests
    <3>1. /\ Unsent \in SUBSET Thread /\ Unsent' \in SUBSET Thread
          /\ t \in Unsent
      BY <1>1 DEF Unsent
    <3>2. call'[t].stage = "await" /\ \A u \in Thread \ {t} : call'[u] = call[u]
      BY <1>0, <1>2 DEF Send, Calls
    <3>3. Unsent' = Unsent \ {t}
      BY <3>2 DEF Unsent
    <3>4. Cardinality(Unsent') = Cardinality(Unsent) - 1 /\ Cardinality(Unsent) \in Nat
          /\ Cardinality(Unsent) > 0
      BY <3>1, <3>3, OneThread
    <3> QED
      BY <1>0, <3>4 DEF CallShape
  <2>2. /\ Numbered' /\ sent' = sent + 1 /\ sent' \in 0 .. MaxRequests
        /\ net' \subseteq Requests /\ answers' = answers /\ call' \in [Thread -> Calls]
        /\ call'[t].op = "kill" /\ call'[t].b = b /\ call'[t].p = call[t].p
        /\ call'[t].stage = "await" /\ call'[t].n = sent + 1
        /\ \A u \in Thread \ {t} : call'[u] = call[u]
    BY <1>0, <1>1, <1>2, <2>1, SendsCall
  <2>3. InFlight(b) = {} /\ \A x \in Branch : InFlight(x)' = InFlight(x)
    <3>1. InFlight(b) = {}
      BY <1>1, <1>2, NoneInFlight
    <3> QED
      BY <1>1, <2>2, <3>1 DEF InFlight
  <2>4. HTTPTypeOK'
    BY <1>1, <1>2, <2>2 DEF HTTPTypeOK
  <2>5. CallShape'
    BY <1>0, <1>1, <2>1, <2>2 DEF CallShape
  <2>6. ActiveExact'
    BY <1>1, <2>3, ActiveStays
  <2>7. KillsMarked'
    BY <1>1, <1>2, <2>2 DEF KillsMarked
  <2>8. KillWaits'
    BY <2>2, <2>3 DEF KillWaits, InFlight
  <2>9. RowsHeld'
    BY <1>1, <2>2 DEF RowsHeld
  <2>10. LeakOnlyLate' /\ TrackedIsThere'
    BY <1>1 DEF LeakOnlyLate, TrackedIsThere
  <2>11. \A a \in answers : a.n # sent + 1
    BY <1>0 DEF Numbered, HTTPTypeOK, Answers
  <2>12. ServerSound'
    BY <1>1, <2>2, <2>11 DEF ServerSound
  <2> QED
    BY <2>2, <2>4, <2>5, <2>6, <2>7, <2>8, <2>9, <2>10, <2>12
<1>3. CASE Fault /\ closing' = closing \ {b} /\ Return(t) /\ UNCHANGED wireVars
  <2>1. /\ Numbered' /\ CallShape' /\ net' \subseteq Requests /\ answers' \subseteq Answers
        /\ call' \in [Thread -> Calls]
        /\ call'[t] = Idle /\ \A u \in Thread \ {t} : call'[u] = call[u]
    BY <1>1, <1>3, Returns DEF wireVars
  <2>2. \A x \in Branch : InFlight(x)' = InFlight(x)
    BY <1>1, <2>1 DEF InFlight, Idle
  <2>3. HTTPTypeOK'
    BY <1>0, <1>1, <1>3, <2>1 DEF HTTPTypeOK, Fault, wireVars
  <2>4. ActiveExact'
    BY <1>1, <2>2, ActiveStays
  <2>5. KillsMarked' /\ KillWaits'
    BY <1>1, <1>3, <2>1 DEF KillsMarked, KillWaits, Idle
  <2>6. RowsHeld'
    BY <1>1, <2>1 DEF RowsHeld, Idle
  <2>7. LeakOnlyLate' /\ TrackedIsThere' /\ ServerSound'
    BY <1>1, <1>3, <2>1 DEF LeakOnlyLate, TrackedIsThere, ServerSound, Idle, wireVars
  <2> QED
    BY <2>1, <2>3, <2>4, <2>5, <2>6, <2>7
<1> QED
    BY <1>2, <1>3 DEF KillDrain

-----------------------------------------------------------------------------
\* The end of a call

\* The exception leaves the call: counter and mark are given back, the rest stays.
LEMMA RaiseKeeps ==
    ASSUME HTTPInv, NEW t \in Thread, call[t].stage = "await", Raise(t),
           net' \subseteq net, answers' \subseteq answers, sent' = sent,
           UNCHANGED serverVars, faults' \in 0 .. MaxFaults
    PROVE  HTTPInv'
<1> DEFINE c == call[t]
<1> USE DEF HTTPInv
<1>0. call \in [Thread -> Calls] /\ active \in [Branch -> 0 .. Cardinality(Thread)]
    BY DEF HTTPTypeOK
<1>1. /\ UNCHANGED <<rows, dying, names, parents, server, late, ended>>
      /\ c.op \in {"create", "fork", "generate", "kill"} /\ c.b \in Branch
      /\ c.op = "fork" => c.p \in Branch
  <2>1. c.op \in Op /\ (c.op = "none" => c = Idle)
    BY <1>0 DEF Calls, CallShape
  <2> QED
    BY <2>1 DEF Raise, CallShape, registry, serverVars, Idle, Op
<1>2. /\ Numbered' /\ CallShape' /\ net' \subseteq Requests /\ answers' \subseteq Answers
      /\ call' \in [Thread -> Calls]
      /\ call'[t] = Idle /\ \A u \in Thread \ {t} : call'[u] = call[u]
    BY Returns DEF Raise
<1>3. ActiveExact' /\ active' \in [Branch -> 0 .. Cardinality(Thread)]
  <2>1. CASE c.op \in {"create", "kill"}
    <3>1. active' = active
      BY <2>1 DEF Raise
    <3>2. \A x \in Branch : InFlight(x)' = InFlight(x)
      BY <1>2, <2>1 DEF InFlight, Idle
    <3> QED
      BY <1>0, <3>1, <3>2, ActiveStays
  <2>2. CASE c.op = "fork"
    <3>1. /\ Leave(c.p) /\ t \in InFlight(c.p)
          /\ \A x \in Branch : InFlight(x)' = IF x = c.p THEN InFlight(x) \ {t} ELSE InFlight(x)
      BY <1>2, <2>2 DEF Raise, InFlight, Idle
    <3> QED
      BY <1>0, <1>1, <2>2, <3>1, ActiveLeaves
  <2>3. CASE c.op = "generate"
    <3>1. Leave(c.b)
      BY <2>3 DEF Raise
    <3>2. /\ t \in InFlight(c.b)
          /\ \A x \in Branch : InFlight(x)' = IF x = c.b THEN InFlight(x) \ {t} ELSE InFlight(x)
      BY <1>2, <2>3 DEF InFlight, Idle
    <3> QED
      BY <1>0, <1>1, <3>1, <3>2, ActiveLeaves
  <2> QED
    BY <1>1, <2>1, <2>2, <2>3
<1>4. closing' = IF c.op = "kill" THEN closing \ {c.b} ELSE closing
    BY <1>1 DEF Raise
<1>5. HTTPTypeOK'
    BY <1>1, <1>2, <1>3, <1>4 DEF HTTPTypeOK
<1>6. KillsMarked' /\ KillWaits'
    BY <1>1, <1>2, <1>4 DEF KillsMarked, KillWaits, Idle
<1>7. RowsHeld'
    BY <1>1, <1>2 DEF RowsHeld, Idle
<1>8. LeakOnlyLate' /\ TrackedIsThere'
    BY <1>1 DEF LeakOnlyLate, TrackedIsThere
<1>9. ServerSound'
    BY <1>1, <1>2 DEF ServerSound, Idle
<1> QED
    BY <1>2, <1>3, <1>5, <1>6, <1>7, <1>8, <1>9

LEMMA CreatedKeeps ==
    ASSUME HTTPInv, NEW t \in Thread, call[t].stage = "await", call[t].op = "create",
           NEW a \in answers, a.n = call[t].n, a.ok, answers' \subseteq answers,
           Succeed(t), UNCHANGED <<net, sent, serverVars, faults>>
    PROVE  HTTPInv'
<1> DEFINE b == call[t].b
<1> USE DEF HTTPInv
<1>1. /\ b \in Branch /\ call[t].name = b /\ call[t].p = NoBranch
      /\ names \in [Branch -> BranchOrNone] /\ parents \in [Branch -> BranchOrNone]
    BY DEF CallShape, HTTPTypeOK
<1>2. /\ names' = [names EXCEPT ![b] = b] /\ parents' = [parents EXCEPT ![b] = NoBranch]
      /\ Return(t)
      /\ UNCHANGED <<rows, dying, active, closing, net, sent, server, late, ended, faults>>
    BY DEF Succeed, registry, serverVars
<1>3. /\ Numbered' /\ CallShape' /\ net' \subseteq Requests /\ answers' \subseteq Answers
      /\ call' \in [Thread -> Calls]
      /\ call'[t] = Idle /\ \A u \in Thread \ {t} : call'[u] = call[u]
    BY <1>2, Returns
<1>4. \A x \in Branch : InFlight(x)' = InFlight(x)
    BY <1>3 DEF InFlight, Idle
<1>5. ActiveExact'
    BY <1>2, <1>4, ActiveStays
<1>6. HTTPTypeOK'
    BY <1>1, <1>2, <1>3 DEF HTTPTypeOK, BranchOrNone
<1>7. KillsMarked' /\ KillWaits'
    BY <1>2, <1>3 DEF KillsMarked, KillWaits, Idle
<1>8. names'[b] = b /\ parents'[b] = NoBranch
      /\ \A x \in Branch \ {b} : names'[x] = names[x] /\ parents'[x] = parents[x]
    BY <1>1, <1>2
<1>9. b \in rows \ dying /\ names[b] = NoBranch
      /\ \A u \in Thread \ {t} : call[u].op \in {"create", "fork", "kill"} => call[u].b # b
    BY DEF RowsHeld
<1>10. RowsHeld'
  <2>1. \A x \in Branch : names'[x] # NoBranch => x \in rows'
    BY <1>2, <1>8, <1>9 DEF RowsHeld
  <2>2. \A u \in Thread \ {t} : /\ call[u].op # "none" => call[u].b \in Branch
                                /\ call[u].op = "fork" => call[u].p \in Branch
    BY DEF CallShape
  <2> QED
    BY <1>2, <1>3, <1>8, <1>9, <2>1, <2>2 DEF RowsHeld, Idle
<1>11. b \notin late => server[b] = There(b, NoBranch)
    BY <1>1 DEF ServerSound
<1>12. LeakOnlyLate' /\ TrackedIsThere'
    BY <1>2, <1>8, <1>11 DEF LeakOnlyLate, TrackedIsThere
<1>13. ServerSound'
    BY <1>2, <1>3, <1>8, <1>9, <1>11 DEF ServerSound, Idle
<1> QED
    BY <1>3, <1>5, <1>6, <1>7, <1>10, <1>12, <1>13

\* fork_branch leaves its parent: the child is there, or a late request changed it.
LEMMA ForkedKeeps ==
    ASSUME HTTPInv, NEW t \in Thread, call[t].stage = "await", call[t].op = "fork",
           NEW a \in answers, a.n = call[t].n, a.ok, answers' \subseteq answers,
           Succeed(t), UNCHANGED <<net, sent, serverVars, faults>>
    PROVE  HTTPInv'
<1> DEFINE p == call[t].p
           c == [call[t] EXCEPT !.stage = "register"]
<1> USE DEF HTTPInv
<1>0. /\ call \in [Thread -> Calls] /\ active \in [Branch -> 0 .. Cardinality(Thread)]
      /\ p \in Branch
    BY DEF HTTPTypeOK, CallShape
<1>1. /\ Leave(p) /\ call' = [call EXCEPT ![t].stage = "register"]
      /\ UNCHANGED <<rows, dying, names, parents, closing, net, sent, server, late, ended, faults>>
    BY DEF Succeed, registry, serverVars
<1>2. c \in Calls
    BY <1>0 DEF Calls, Stage
<1>3. /\ c.stage = "register" /\ c.op = "fork" /\ c.b = call[t].b /\ c.p = p
      /\ c.name = call[t].name /\ c.n = call[t].n /\ c.left = call[t].left
      /\ call' = [call EXCEPT ![t] = c]
    BY <1>0, <1>1, <1>2 DEF Calls
<1> HIDE DEF c
<1>4. c.n <= sent /\ sent' = sent /\ net' \subseteq net
    BY <1>1, <1>3 DEF Numbered
<1>5. /\ Numbered' /\ net' \subseteq Requests /\ answers' \subseteq Answers
      /\ call' \in [Thread -> Calls]
    BY <1>2, <1>3, <1>4, Rests
<1>6. call'[t] = c /\ \A u \in Thread \ {t} : call'[u] = call[u]
    BY <1>0, <1>3
<1>7. /\ Unsent' = Unsent /\ t \in InFlight(p)
      /\ \A x \in Branch : InFlight(x)' = IF x = p THEN InFlight(x) \ {t} ELSE InFlight(x)
    BY <1>3, <1>6 DEF Unsent, InFlight
<1>8. ActiveExact' /\ active' \in [Branch -> 0 .. Cardinality(Thread)]
    BY <1>0, <1>1, <1>7, ActiveLeaves
<1>9. HTTPTypeOK'
    BY <1>1, <1>5, <1>8 DEF HTTPTypeOK
<1>10. CallShape'
    BY <1>1, <1>3, <1>6, <1>7 DEF CallShape
<1>11. KillsMarked' /\ KillWaits'
    BY <1>1, <1>3, <1>6 DEF KillsMarked, KillWaits
<1>12. RowsHeld'
    BY <1>1, <1>3, <1>6 DEF RowsHeld
<1>13. LeakOnlyLate' /\ TrackedIsThere'
    BY <1>1 DEF LeakOnlyLate, TrackedIsThere
<1>14. ServerSound'
    BY <1>1, <1>3, <1>6 DEF ServerSound
<1> QED
    BY <1>5, <1>8, <1>9, <1>10, <1>11, <1>12, <1>13, <1>14

LEMMA GeneratedKeeps ==
    ASSUME HTTPInv, NEW t \in Thread, call[t].stage = "await", call[t].op = "generate",
           answers' \subseteq answers, Succeed(t), UNCHANGED <<net, sent, serverVars, faults>>
    PROVE  HTTPInv'
<1>1. Raise(t)
    BY DEF Succeed, Raise
<1>2. net' \subseteq net /\ sent' = sent /\ faults' \in 0 .. MaxFaults
    BY DEF HTTPInv, HTTPTypeOK
<1> QED
    BY <1>1, <1>2, RaiseKeeps

\* The kill is answered: the branch is gone, or a late request brought it back.
LEMMA KilledKeeps ==
    ASSUME HTTPInv, NEW t \in Thread, call[t].stage = "await", call[t].op = "kill",
           NEW a \in answers, a.n = call[t].n, answers' \subseteq answers,
           Succeed(t), UNCHANGED <<net, sent, serverVars, faults>>
    PROVE  HTTPInv'
<1> DEFINE b == call[t].b
<1> USE DEF HTTPInv
<1>1. /\ b \in Branch
      /\ names \in [Branch -> BranchOrNone] /\ parents \in [Branch -> BranchOrNone]
    BY DEF CallShape, HTTPTypeOK
<1>2. /\ names' = [names EXCEPT ![b] = NoBranch] /\ parents' = [parents EXCEPT ![b] = NoBranch]
      /\ closing' = closing \ {b} /\ rows' = rows \ {b} /\ dying' = dying \ {b} /\ Return(t)
      /\ UNCHANGED <<active, net, sent, server, late, ended, faults>>
    BY DEF Succeed, serverVars
<1>3. /\ Numbered' /\ CallShape' /\ net' \subseteq Requests /\ answers' \subseteq Answers
      /\ call' \in [Thread -> Calls]
      /\ call'[t] = Idle /\ \A u \in Thread \ {t} : call'[u] = call[u]
    BY <1>2, Returns
<1>4. \A x \in Branch : InFlight(x)' = InFlight(x)
    BY <1>3 DEF InFlight, Idle
<1>5. ActiveExact'
    BY <1>2, <1>4, ActiveStays
<1>6. HTTPTypeOK'
    BY <1>1, <1>2, <1>3 DEF HTTPTypeOK, BranchOrNone
<1>7. KillsMarked' /\ KillWaits'
    BY <1>2, <1>3 DEF KillsMarked, KillWaits, Idle
<1>8. names'[b] = NoBranch
      /\ \A x \in Branch \ {b} : names'[x] = names[x] /\ parents'[x] = parents[x]
    BY <1>1, <1>2
<1>9. \A u \in Thread \ {t} :
         /\ call[u].op \in {"create", "fork"} => call[u].b # b
         /\ call[u].stage = "await" /\ call[u].op = "fork" => call[u].p # b
         /\ call[u].op = "generate" => call[u].b # b
         /\ call[u].op # "none" => call[u].b \in Branch
         /\ call[u].op = "fork" => call[u].p \in Branch
    BY DEF RowsHeld, KillWaits, CallShape
<1>10. RowsHeld'
    BY <1>2, <1>3, <1>8, <1>9 DEF RowsHeld, Idle
<1>11. b \notin late => ~server[b].there
    BY DEF ServerSound
<1>12. LeakOnlyLate' /\ TrackedIsThere'
    BY <1>2, <1>8, <1>11 DEF LeakOnlyLate, TrackedIsThere
<1>13. ServerSound'
    BY <1>2, <1>3, <1>8 DEF ServerSound, Idle
<1> QED
    BY <1>3, <1>5, <1>6, <1>7, <1>10, <1>12, <1>13

LEMMA ReceiveKeeps ==
    ASSUME HTTPInv, NEW t \in Thread, Receive(t)
    PROVE  HTTPInv'
<1>1. PICK a \in answers :
         /\ call[t].stage = "await" /\ a.n = call[t].n
         /\ answers' = answers \ {a}
         /\ IF a.ok THEN Succeed(t) ELSE Raise(t)
         /\ UNCHANGED <<net, sent, serverVars, faults>>
    BY DEF Receive
<1>2. answers' \subseteq answers /\ net' \subseteq net /\ sent' = sent /\ UNCHANGED serverVars
      /\ faults' \in 0 .. MaxFaults
    BY <1>1 DEF HTTPInv, HTTPTypeOK
<1>3. CASE ~a.ok
    BY <1>1, <1>2, <1>3, RaiseKeeps
<1>4. CASE a.ok
  <2>1. Succeed(t)
    BY <1>1, <1>4
  <2>2. call[t].op \in {"create", "fork", "generate", "kill"}
    BY <2>1 DEF Succeed
  <2> QED
    BY <1>1, <1>2, <1>4, <2>1, <2>2, CreatedKeeps, ForkedKeeps, GeneratedKeeps, KilledKeeps
<1> QED
    BY <1>3, <1>4

\* The child is tracked.
LEMMA RegisterKeeps ==
    ASSUME HTTPInv, NEW t \in Thread, RegisterChild(t)
    PROVE  HTTPInv'
<1> DEFINE b == call[t].b
<1> USE DEF HTTPInv
<1>0. call[t].op = "fork" /\ call[t].stage = "register"
    BY DEF RegisterChild
<1>1. /\ b \in Branch /\ call[t].p \in Branch /\ call[t].name \in BranchOrNone
      /\ names \in [Branch -> BranchOrNone] /\ parents \in [Branch -> BranchOrNone]
    BY <1>0 DEF CallShape, HTTPTypeOK, Calls
<1>2. /\ names' = [names EXCEPT ![b] = call[t].name]
      /\ parents' = [parents EXCEPT ![b] = call[t].p]
      /\ Return(t)
      /\ UNCHANGED <<rows, dying, active, closing, net, answers, sent, server, late, ended, faults>>
    BY DEF RegisterChild, registry, wireVars, serverVars
<1>3. /\ Numbered' /\ CallShape' /\ net' \subseteq Requests /\ answers' \subseteq Answers
      /\ call' \in [Thread -> Calls]
      /\ call'[t] = Idle /\ \A u \in Thread \ {t} : call'[u] = call[u]
    BY <1>2, Returns
<1>4. \A x \in Branch : InFlight(x)' = InFlight(x)
    BY <1>0, <1>3 DEF InFlight, Idle
<1>5. ActiveExact'
    BY <1>2, <1>4, ActiveStays
<1>6. HTTPTypeOK'
    BY <1>1, <1>2, <1>3 DEF HTTPTypeOK, BranchOrNone
<1>7. KillsMarked' /\ KillWaits'
    BY <1>2, <1>3 DEF KillsMarked, KillWaits, Idle
<1>8. names'[b] = call[t].name /\ parents'[b] = call[t].p
      /\ \A x \in Branch \ {b} : names'[x] = names[x] /\ parents'[x] = parents[x]
    BY <1>1, <1>2
<1>9. b \in rows \ dying /\ names[b] = NoBranch
      /\ \A u \in Thread \ {t} : call[u].op \in {"create", "fork", "kill"} => call[u].b # b
    BY <1>0 DEF RowsHeld
<1>10. RowsHeld'
  <2>1. \A x \in Branch : names'[x] # NoBranch => x \in rows'
    BY <1>2, <1>8, <1>9 DEF RowsHeld
  <2>2. \A u \in Thread \ {t} : /\ call[u].op # "none" => call[u].b \in Branch
                                /\ call[u].op = "fork" => call[u].p \in Branch
    BY DEF CallShape
  <2> QED
    BY <1>2, <1>3, <1>8, <1>9, <2>1, <2>2 DEF RowsHeld, Idle
<1>11. b \notin late => server[b] = There(call[t].name, call[t].p)
    BY <1>0, <1>1 DEF ServerSound
<1>12. LeakOnlyLate' /\ TrackedIsThere'
    BY <1>2, <1>8, <1>11 DEF LeakOnlyLate, TrackedIsThere
<1>13. ServerSound'
    BY <1>2, <1>3, <1>8, <1>9, <1>11 DEF ServerSound, Idle
<1> QED
    BY <1>3, <1>5, <1>6, <1>7, <1>10, <1>12, <1>13

\* Only a kill is tried again; nothing else about the call changes.
LEMMA GiveUpKeeps ==
    ASSUME HTTPInv, NEW t \in Thread, GiveUp(t)
    PROVE  HTTPInv'
<1> USE DEF HTTPInv
<1>0. /\ sent \in 0 .. MaxRequests /\ MaxRequests \in Nat /\ MaxRetries \in Nat
      /\ Cardinality(Unsent) \in Nat /\ call \in [Thread -> Calls]
      /\ call[t].left \in 0 .. MaxRetries
    BY HTTPAssumption, FS_Subset, FS_CardinalityType DEF HTTPTypeOK, Unsent, Calls
<1>1. /\ call[t].stage = "await" /\ answers' \subseteq answers /\ UNCHANGED serverVars
      /\ faults' \in 0 .. MaxFaults
    BY HTTPAssumption DEF GiveUp, Fault, HTTPTypeOK
<1>2. CASE call[t].left > 0
  <2>1. PICK N \in SUBSET net :
           /\ Budget /\ sent' = sent + 1
           /\ net' = N \cup {[n |-> sent + 1, op |-> call[t].op, b |-> call[t].b,
                              p |-> call[t].p, name |-> call[t].name, end |-> call[t].end]}
           /\ call' = [call EXCEPT ![t].n = sent + 1, ![t].left = @ - 1]
           /\ UNCHANGED <<registry, clientVars>>
    <3>1. PICK lost \in SUBSET {m \in net : m.n = call[t].n} :
             /\ Budget /\ sent' = sent + 1
             /\ net' = (net \ lost) \cup
                          {[n |-> sent + 1, op |-> call[t].op, b |-> call[t].b,
                            p |-> call[t].p, name |-> call[t].name, end |-> call[t].end]}
             /\ call' = [call EXCEPT ![t].n = sent + 1, ![t].left = @ - 1]
             /\ UNCHANGED <<registry, clientVars>>
      BY <1>2 DEF GiveUp
    <3>2. (net \ lost) \in SUBSET net
      OBVIOUS
    <3> QED
      BY <3>1, <3>2
  <2>2. call[t].op = "kill" /\ call[t].b \in Branch
    BY <1>0, <1>1, <1>2 DEF CallShape, Idle
  <2> DEFINE c == [call[t] EXCEPT !.n = sent + 1, !.left = @ - 1]
  <2>3. sent < MaxRequests /\ sent + 1 \in 0 .. MaxRequests
        /\ call[t].left - 1 \in 0 .. MaxRetries
    BY <1>0, <1>2, <2>1 DEF Budget
  <2>4. c \in Calls
    BY <1>0, <2>3 DEF Calls
  <2>5. /\ c.n = sent + 1 /\ c.op = "kill" /\ c.b = call[t].b /\ c.p = call[t].p
        /\ c.name = call[t].name /\ c.end = call[t].end /\ c.stage = "await"
        /\ call' = [call EXCEPT ![t] = c]
    BY <1>0, <1>1, <2>1, <2>2, <2>4 DEF Calls
  <2> HIDE DEF c
  <2>6. /\ Numbered' /\ sent' \in 0 .. MaxRequests
        /\ net' \subseteq Requests /\ answers' \subseteq Answers /\ call' \in [Thread -> Calls]
    BY <1>1, <2>1, <2>2, <2>3, <2>4, <2>5, Sends
  <2>7. call'[t] = c /\ \A u \in Thread \ {t} : call'[u] = call[u]
    BY <1>0, <2>5
  <2>8. /\ UNCHANGED <<rows, dying, names, parents, active, closing, server, late, ended>>
    BY <1>1, <2>1 DEF registry, clientVars, serverVars
  <2>9. Unsent' = Unsent /\ \A x \in Branch : InFlight(x)' = InFlight(x)
    BY <1>1, <2>2, <2>5, <2>7 DEF Unsent, InFlight
  <2>10. HTTPTypeOK'
    BY <1>1, <2>6, <2>8 DEF HTTPTypeOK
  <2>11. CallShape'
    <3>1. sent' + Cardinality(Unsent') <= MaxRequests
      BY <1>0, <2>1, <2>9 DEF Budget
    <3> QED
      BY <2>2, <2>5, <2>7, <3>1 DEF CallShape
  <2>12. ActiveExact'
    BY <2>8, <2>9, ActiveStays
  <2>13. KillsMarked' /\ KillWaits'
    BY <1>1, <2>2, <2>5, <2>7, <2>8 DEF KillsMarked, KillWaits
  <2>14. RowsHeld'
    BY <2>2, <2>5, <2>7, <2>8 DEF RowsHeld
  <2>15. LeakOnlyLate' /\ TrackedIsThere'
    BY <2>8 DEF LeakOnlyLate, TrackedIsThere
  <2>16. \A a \in answers : a.n # sent + 1
    BY <1>0 DEF Numbered, HTTPTypeOK, Answers
  <2>17. ServerSound'
    BY <1>1, <2>2, <2>5, <2>7, <2>8, <2>16 DEF ServerSound
  <2> QED
    BY <2>6, <2>10, <2>11, <2>12, <2>13, <2>14, <2>15, <2>17
<1>3. CASE ~(call[t].left > 0)
  <2>1. net' \subseteq net /\ Raise(t) /\ sent' = sent
    BY <1>3 DEF GiveUp
  <2> HIDE DEF HTTPInv
  <2> QED
    BY <1>1, <2>1, RaiseKeeps
<1> QED
    BY <1>2, <1>3

-----------------------------------------------------------------------------
\* The server

\* What a request leaves on the server is a row, and only its branch is touched.
LEMMA ServeRows ==
    ASSUME HTTPTypeOK, Numbered, NEW m \in net, Serve(m)
    PROVE  /\ server' \in [Branch -> [there : BOOLEAN, name : BranchOrNone, parent : BranchOrNone]]
           /\ m.b \in Branch /\ m.op \in {"create", "fork", "kill", "generate"}
           /\ \A x \in Branch \ {m.b} : server'[x] = server[x]
           /\ server'[m.b] = IF Accepted(m) THEN After(m) ELSE server[m.b]
<1> DEFINE R == [there : BOOLEAN, name : BranchOrNone, parent : BranchOrNone]
<1>1. /\ m.b \in Branch /\ m.op \in {"create", "fork", "kill", "generate"}
      /\ m.name \in BranchOrNone /\ m.p \in BranchOrNone /\ server \in [Branch -> R]
    BY DEF HTTPTypeOK, Requests, Op
<1>2. server' = IF Accepted(m) THEN [server EXCEPT ![m.b] = After(m)] ELSE server
    BY DEF Serve
<1>3. Accepted(m) => After(m) \in R
  <2>1. CASE m.op = "fork"
    <3>1. m.p \in Branch /\ After(m) = There(server[m.p].name, m.p)
      BY <2>1 DEF Numbered, After
    <3> QED
      BY <1>1, <3>1 DEF There, BranchOrNone
  <2>2. CASE m.op \in {"create", "kill"}
    BY <1>1, <2>2 DEF After, There, Gone, BranchOrNone
  <2>3. CASE m.op = "generate"
    BY <1>1, <2>3 DEF After, There, Gone, BranchOrNone
  <2> QED
    BY <1>1, <2>1, <2>2, <2>3
<1> QED
    BY <1>1, <1>2, <1>3

\* A request whose sender gave it up, or a fork of a branch that such a request
\* changed: whatever it does is put down to late.
LEMMA LateKeeps ==
    ASSUME HTTPInv, NEW m \in net, Serve(m), m.b \in late'
    PROVE  ServerSound' /\ LeakOnlyLate' /\ TrackedIsThere'
<1> USE DEF HTTPInv
<1>1. /\ m.b \in Branch /\ \A x \in Branch \ {m.b} : server'[x] = server[x]
    BY ServeRows
<1>2. /\ UNCHANGED <<rows, dying, names, parents, call>>
      /\ late \subseteq late' /\ ended \subseteq ended' /\ late' \subseteq late \cup {m.b}
      /\ \A x \in ended' : x = m.b \/ x \in ended
    BY DEF Serve, registry, clientVars
<1>3. LeakOnlyLate' /\ TrackedIsThere'
    BY <1>1, <1>2 DEF LeakOnlyLate, TrackedIsThere
<1>4. \A a \in answers' : a \in answers \/ (a.n = m.n /\ Awaited(m))
    BY DEF Serve
<1>5. ASSUME NEW t \in Thread, call[t].stage = "await", call[t].b # m.b,
             NEW a \in answers', a.n = call[t].n
      PROVE  a \in answers
    BY <1>4, <1>5 DEF Numbered
<1>6. \A t \in Thread : call[t].op \in {"create", "fork", "kill"} => call[t].b \in Branch
    BY DEF CallShape
<1>7. \A t \in Thread : call[t].op \in {"create", "fork"} =>
                           call[t].stage \in {"await", "register"}
    BY DEF CallShape
<1>8. ServerSound'
    BY <1>1, <1>2, <1>5, <1>6, <1>7 DEF ServerSound
<1> QED
    BY <1>3, <1>8

\* A request that is waited for, and that finds what its sender asked for.
LEMMA TimelyKeeps ==
    ASSUME HTTPInv, NEW m \in net, Serve(m), m.b \notin late'
    PROVE  ServerSound' /\ LeakOnlyLate' /\ TrackedIsThere'
<1> USE DEF HTTPInv
<1>1. /\ m.b \in Branch /\ m.op \in {"create", "fork", "kill", "generate"}
      /\ \A x \in Branch \ {m.b} : server'[x] = server[x]
      /\ server'[m.b] = IF Accepted(m) THEN After(m) ELSE server[m.b]
    BY ServeRows
<1>2. /\ UNCHANGED <<rows, dying, names, parents, call, late>> /\ Awaited(m) /\ m.b \notin late
      /\ ~(m.op = "fork" /\ m.p \in late)
      /\ answers' = answers \cup {[n |-> m.n, ok |-> Accepted(m)]}
      /\ ended' = IF m.op = "generate" /\ m.end /\ Accepted(m) THEN ended \cup {m.b} ELSE ended
    BY DEF Serve, registry, clientVars
<1>3. PICK t \in Thread : call[t].stage = "await" /\ call[t].n = m.n
    BY <1>2 DEF Awaited
<1>4. /\ m.op = call[t].op /\ m.b = call[t].b /\ m.p = call[t].p
      /\ m.name = call[t].name /\ m.end = call[t].end
    BY <1>3 DEF Numbered
<1>5. \A u \in Thread \ {t} : call[u].stage = "await" =>
         \A a \in answers' : a.n = call[u].n => a \in answers
    BY <1>2, <1>3 DEF Numbered
<1>6. \A u \in Thread : /\ call[u].op # "none" => call[u].b \in Branch
                        /\ call[u].op \in {"create", "fork"} =>
                              call[u].stage \in {"await", "register"}
    BY DEF CallShape
<1>7. CASE m.op = "create"
  <2>1. /\ m.b \in rows /\ names[m.b] = NoBranch
        /\ \A u \in Thread \ {t} : call[u].op \in {"create", "fork", "kill"} => call[u].b # m.b
    BY <1>4, <1>7 DEF RowsHeld
  <2>2. Accepted(m) => After(m) = There(call[t].name, call[t].p)
    BY <1>4, <1>7 DEF After, CallShape
  <2>3. LeakOnlyLate' /\ TrackedIsThere'
    BY <1>1, <1>2, <1>7, <2>1 DEF LeakOnlyLate, TrackedIsThere
  <2>4. ServerSound'
    <3>1. \A x \in Branch \ late : names[x] # NoBranch /\ server'[x].there
                                   => server'[x] = There(names[x], parents[x])
      BY <1>1, <2>1 DEF ServerSound
    <3>2. Accepted(m) \/ \A a \in answers' : a.n = m.n /\ a.ok => a \in answers
      BY <1>2
    <3>3. (\E a \in answers' : a.n = m.n /\ a.ok) => server'[m.b] = There(call[t].name, call[t].p)
      BY <1>1, <1>2, <1>3, <1>4, <1>7, <2>2, <3>2 DEF ServerSound
    <3>4. ASSUME NEW u \in Thread \ {t}, call[u].op \in {"create", "fork"}, call[u].b \notin late,
                 call[u].stage = "register" \/ (\E a \in answers' : a.n = call[u].n /\ a.ok)
          PROVE  server'[call[u].b] = There(call[u].name, call[u].p)
      <4>1. call[u].stage = "register" \/ (\E a \in answers : a.n = call[u].n /\ a.ok)
        BY <1>5, <1>6, <3>4
      <4>2. server'[call[u].b] = server[call[u].b]
        BY <1>1, <1>6, <2>1, <3>4
      <4> QED
        BY <3>4, <4>1, <4>2 DEF ServerSound
    <3>5. ASSUME NEW u \in Thread, call[u].op = "kill", call[u].stage = "await",
                 call[u].b \notin late, \E a \in answers' : a.n = call[u].n
          PROVE  ~server'[call[u].b].there
      <4>1. u # t /\ server'[call[u].b] = server[call[u].b]
        BY <1>1, <1>4, <1>6, <1>7, <2>1, <3>5
      <4> QED
        BY <1>5, <3>5, <4>1 DEF ServerSound
    <3> QED
      BY <1>2, <1>3, <1>4, <3>1, <3>3, <3>4, <3>5 DEF ServerSound
  <2> QED
    BY <2>3, <2>4
<1>8. CASE m.op = "fork"
  <2>1. /\ m.b \in rows /\ names[m.b] = NoBranch
        /\ \A u \in Thread \ {t} : call[u].op \in {"create", "fork", "kill"} => call[u].b # m.b
    BY <1>4, <1>8 DEF RowsHeld
  <2>2. Accepted(m) => After(m) = There(call[t].name, call[t].p)
    <3>1. /\ m.p \in Branch /\ m.p \notin late
          /\ m.name = names[m.p] /\ names[m.p] # NoBranch
      BY <1>2, <1>3, <1>4, <1>8 DEF RowsHeld, CallShape
    <3>2. Accepted(m) => server[m.p] = There(names[m.p], parents[m.p])
      BY <1>8, <3>1 DEF Accepted, ServerSound
    <3>3. Accepted(m) => server[m.p].name = names[m.p]
      BY <3>2 DEF There
    <3>4. After(m) = There(server[m.p].name, m.p)
      BY <1>8 DEF After
    <3> QED
      BY <1>4, <3>1, <3>3, <3>4
  <2>3. LeakOnlyLate' /\ TrackedIsThere'
    BY <1>1, <1>2, <1>8, <2>1 DEF LeakOnlyLate, TrackedIsThere
  <2>4. ServerSound'
    <3>1. \A x \in Branch \ late : names[x] # NoBranch /\ server'[x].there
                                   => server'[x] = There(names[x], parents[x])
      BY <1>1, <2>1 DEF ServerSound
    <3>2. Accepted(m) \/ \A a \in answers' : a.n = m.n /\ a.ok => a \in answers
      BY <1>2
    <3>3. (\E a \in answers' : a.n = m.n /\ a.ok) => server'[m.b] = There(call[t].name, call[t].p)
      BY <1>1, <1>2, <1>3, <1>4, <1>8, <2>2, <3>2 DEF ServerSound
    <3>4. ASSUME NEW u \in Thread \ {t}, call[u].op \in {"create", "fork"}, call[u].b \notin late,
                 call[u].stage = "register" \/ (\E a \in answers' : a.n = call[u].n /\ a.ok)
          PROVE  server'[call[u].b] = There(call[u].name, call[u].p)
      <4>1. call[u].stage = "register" \/ (\E a \in answers : a.n = call[u].n /\ a.ok)
        BY <1>5, <1>6, <3>4
      <4>2. server'[call[u].b] = server[call[u].b]
        BY <1>1, <1>6, <2>1, <3>4
      <4> QED
        BY <3>4, <4>1, <4>2 DEF ServerSound
    <3>5. ASSUME NEW u \in Thread, call[u].op = "kill", call[u].stage = "await",
                 call[u].b \notin late, \E a \in answers' : a.n = call[u].n
          PROVE  ~server'[call[u].b].there
      <4>1. u # t /\ server'[call[u].b] = server[call[u].b]
        BY <1>1, <1>4, <1>6, <1>8, <2>1, <3>5
      <4> QED
        BY <1>5, <3>5, <4>1 DEF ServerSound
    <3> QED
      BY <1>2, <1>3, <1>4, <3>1, <3>3, <3>4, <3>5 DEF ServerSound
  <2> QED
    BY <2>3, <2>4
<1>9. CASE m.op = "kill"
  <2>1. /\ m.b \in dying \/ names[m.b] = NoBranch
        /\ \A u \in Thread : call[u].op \in {"create", "fork"} => call[u].b # m.b
    BY <1>1, <1>4, <1>9 DEF RowsHeld
  <2>2. server'[m.b] = Gone /\ ~Gone.there
    BY <1>1, <1>9 DEF Accepted, After, Gone
  <2>3. LeakOnlyLate' /\ TrackedIsThere'
    BY <1>1, <1>2, <1>9, <2>1, <2>2 DEF LeakOnlyLate, TrackedIsThere
  <2>4. ServerSound'
    BY <1>1, <1>2, <1>4, <1>5, <1>6, <1>9, <2>1, <2>2 DEF ServerSound
  <2> QED
    BY <2>3, <2>4
<1>10. CASE m.op = "generate"
  <2>1. /\ m.b \in rows /\ names[m.b] # NoBranch /\ m.name = names[m.b] /\ m.p = parents[m.b]
        /\ \A u \in Thread : call[u].op \in {"create", "fork"} => call[u].b # m.b
        /\ \A u \in Thread : call[u].op = "kill" /\ call[u].stage = "await" => call[u].b # m.b
    <3>1. /\ names[m.b] # NoBranch /\ m.name = names[m.b] /\ m.p = parents[m.b]
          /\ \A u \in Thread : call[u].op \in {"create", "fork"} => call[u].b # m.b
      BY <1>4, <1>10 DEF RowsHeld
    <3>2. \A u \in Thread : call[u].op = "kill" /\ call[u].stage = "await" => call[u].b # m.b
      BY <1>3, <1>4, <1>10 DEF KillWaits
    <3>3. m.b \in rows
      BY <1>1, <3>1 DEF RowsHeld
    <3> QED
      BY <3>1, <3>2, <3>3
  <2>2. \/ server'[m.b] = server[m.b]
        \/ m.end /\ Accepted(m) /\ server'[m.b] = Gone /\ ~Gone.there
        \/ ~server[m.b].there /\ server'[m.b] = There(names[m.b], parents[m.b])
    BY <1>1, <1>10, <2>1 DEF After, Gone
  <2>3. LeakOnlyLate' /\ TrackedIsThere'
    BY <1>1, <1>2, <1>10, <2>1, <2>2 DEF LeakOnlyLate, TrackedIsThere
  <2>4. ServerSound'
    BY <1>1, <1>2, <1>4, <1>5, <1>6, <1>10, <2>1, <2>2 DEF ServerSound
  <2> QED
    BY <2>3, <2>4
<1> QED
    BY <1>1, <1>7, <1>8, <1>9, <1>10

LEMMA ServeKeeps ==
    ASSUME HTTPInv, NEW m \in net, Serve(m)
    PROVE  HTTPInv'
<1> USE DEF HTTPInv
<1>1. ServerSound' /\ LeakOnlyLate' /\ TrackedIsThere'
    BY LateKeeps, TimelyKeeps
<1>2. /\ UNCHANGED <<rows, dying, names, parents, active, closing, call, sent, faults>>
      /\ net' = net \ {m} /\ late' \subseteq late \cup {m.b} /\ ended' \subseteq ended \cup {m.b}
      /\ answers' \subseteq answers \cup {[n |-> m.n, ok |-> Accepted(m)]}
    BY DEF Serve, registry, clientVars
<1>3. m.n \in 1 .. MaxRequests /\ m.n <= sent /\ m.b \in Branch
    BY DEF Numbered, HTTPTypeOK, Requests
<1>4. HTTPTypeOK'
  <2>1. [n |-> m.n, ok |-> Accepted(m)] \in Answers
    <3>1. Accepted(m) \in BOOLEAN
      BY ServeRows DEF Accepted, Prepared, HTTPTypeOK, Numbered
    <3> QED
      BY <1>3, <3>1 DEF Answers
  <2>2. answers' \subseteq Answers /\ net' \subseteq Requests
    BY <1>2, <2>1 DEF HTTPTypeOK
  <2> QED
    BY <1>2, <1>3, <2>2, ServeRows DEF HTTPTypeOK
<1>5. Numbered'
  <2>1. \A a \in answers' : a.n <= sent
    BY <1>2, <1>3 DEF Numbered
  <2> QED
    BY <1>2, <2>1 DEF Numbered
<1>6. CallShape' /\ KillsMarked' /\ KillWaits'
    BY <1>2 DEF CallShape, KillsMarked, KillWaits, Unsent
<1>7. ActiveExact'
    BY <1>2 DEF ActiveExact, InFlight
<1>8. RowsHeld'
    BY <1>2 DEF RowsHeld
<1> QED
    BY <1>1, <1>4, <1>5, <1>6, <1>7, <1>8

-----------------------------------------------------------------------------
\* The results

LEMMA HTTPStepSound == HTTPInv /\ [HTTPNext]_httpVars => HTTPInv'
<1> SUFFICES ASSUME HTTPInv, [HTTPNext]_httpVars PROVE HTTPInv'
    OBVIOUS
<1>1. CASE HTTPNext
    BY <1>1, CreateKeeps, KillKeeps, ForkKeeps, GenerateKeeps, KillEnterKeeps, KillDrainKeeps,
       RegisterKeeps, ReceiveKeeps, GiveUpKeeps, ServeKeeps DEF HTTPNext
<1>2. CASE UNCHANGED httpVars
  <2> USE <1>2 DEF httpVars, registry, clientVars, wireVars, serverVars, HTTPInv
  <2>1. HTTPTypeOK' /\ CallShape' /\ Numbered'
    BY DEF HTTPTypeOK, CallShape, Numbered, Unsent
  <2>2. ActiveExact' /\ KillsMarked' /\ KillWaits' /\ RowsHeld'
    BY DEF ActiveExact, InFlight, KillsMarked, KillWaits, RowsHeld
  <2>3. LeakOnlyLate' /\ TrackedIsThere' /\ ServerSound'
    BY DEF LeakOnlyLate, TrackedIsThere, ServerSound
  <2> QED
    BY <2>1, <2>2, <2>3
<1> QED
    BY <1>1, <1>2

\* The invariant that the properties of the adapter rest on (SGLangHTTPBackend).
THEOREM HTTPInvariant == HTTPSpec => []HTTPInv
<1> QED
    BY HTTPInitSound, HTTPStepSound, PTL DEF HTTPSpec

\* Client and server agree on every branch that no given up request changed, for
\* any number of threads, retries and lost answers (create_tree, fork_branch,
\* generate, kill).
THEOREM ClientAndServerAgree == HTTPSpec => []SidesAgree
<1>1. HTTPInv => SidesAgree
    BY DEF HTTPInv, SidesAgree
<1> QED
    BY <1>1, HTTPInvariant, PTL

\* _active is exact through every exit of generate and fork_branch, the exceptional
\* ones included: it never goes below 0 and never keeps a kill waiting for nothing.
THEOREM RequestsCounted == HTTPSpec => []ActiveExact
<1>1. HTTPInv => ActiveExact
    BY DEF HTTPInv
<1> QED
    BY <1>1, HTTPInvariant, PTL

\* kill sends nothing while a generate on its branch or a fork of it is waited for.
THEOREM KillsComeLast == HTTPSpec => []KillWaits
<1>1. HTTPInv => KillWaits
    BY DEF HTTPInv
<1> QED
    BY <1>1, HTTPInvariant, PTL

=============================================================================
