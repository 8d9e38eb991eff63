-------------------------- MODULE SGLangHTTPBackend --------------------------
(***************************************************************************)
(* agentfork/kv/sglang_http_backend.py: branches of a remote SGLang server, *)
(* driven over HTTP by concurrent threads.  A request may be served, may    *)
(* stay on its way after the client gave it up, or may be lost; its answer  *)
(* may be lost too.  The server is the one of patches/0002: TreeCacheLife-  *)
(* cycle.handle for /tree_cache and prepare_request for /tree_generate,     *)
(* which makes a branch that it does not know.                              *)
(*                                                                         *)
(* Threads call the adapter the way ForkOrchestrator does: create_tree and  *)
(* fork_branch for an id without a row, kill for an id with one and never   *)
(* while it is being created (Orchestrator, OneWorkerPerId).  A failed      *)
(* create or fork leaves the row to a later kill, the rollback.  Left out:  *)
(* tokens, reserve and telemetry, which change no branch; authentication.   *)
(***************************************************************************)
EXTENDS Naturals, FiniteSets

CONSTANTS
    Branch,         \* branch ids
    NoBranch,
    Thread,         \* threads that call the adapter
    MaxRetries,     \* max_retries
    MaxRequests,    \* bound: requests sent
    MaxFaults       \* bound: attempts and waits that time out

ASSUME HTTPAssumption ==
    /\ NoBranch \notin Branch /\ IsFiniteSet(Thread)
    /\ MaxRetries \in Nat /\ MaxRequests \in Nat /\ MaxFaults \in Nat

VARIABLES
    rows,       \* the orchestrator's registry: ids that may have a branch
    dying,      \* those of them whose kill has begun
    names,      \* _namespaces: per id its namespace, NoBranch if untracked
    parents,    \* _parents
    active,     \* _active: per id the requests in flight
    closing,    \* _closing_branches
    call,       \* per thread: the call it is in
    net,        \* requests the server has not served
    answers,    \* answers on their way to a waiting thread
    server,     \* the server's _branches
    sent,       \* requests sent so far
    late,       \* ids changed by a request its sender had given up, or forked
                \*   from one of these, and
    ended,      \* ids whose branch a generate(branch_end=True) ended
                \*   (both read by properties)
    faults

registry   == <<rows, dying>>
clientVars == <<names, parents, active, closing>>
serverVars == <<server, late, ended>>
wireVars   == <<net, answers, sent>>
httpVars   == <<registry, clientVars, call, wireVars, serverVars, faults>>

BranchOrNone == Branch \cup {NoBranch}
Gone == [there |-> FALSE, name |-> NoBranch, parent |-> NoBranch]
Idle == [op |-> "none", b |-> NoBranch, p |-> NoBranch, name |-> NoBranch,
         end |-> FALSE, stage |-> "idle", n |-> 0, left |-> 0]

Op    == {"none", "create", "fork", "kill", "generate"}
Stage == {"idle", "enter", "drain", "await", "register"}
Calls == [op : Op, b : BranchOrNone, p : BranchOrNone, name : BranchOrNone,
          end : BOOLEAN, stage : Stage, n : 0 .. MaxRequests, left : 0 .. MaxRetries]
Requests == [n : 1 .. MaxRequests, op : Op \ {"none"}, b : Branch, p : BranchOrNone,
             name : BranchOrNone, end : BOOLEAN]
Answers  == [n : 1 .. MaxRequests, ok : BOOLEAN]

\* Every variable has its type.
HTTPTypeOK ==
    /\ rows \subseteq Branch /\ dying \subseteq rows /\ closing \subseteq Branch
    /\ names \in [Branch -> BranchOrNone] /\ parents \in [Branch -> BranchOrNone]
    /\ active \in [Branch -> 0 .. Cardinality(Thread)]
    /\ call \in [Thread -> Calls]
    /\ sent \in 0 .. MaxRequests /\ net \subseteq Requests /\ answers \subseteq Answers
    /\ server \in [Branch -> [there : BOOLEAN, name : BranchOrNone, parent : BranchOrNone]]
    /\ late \subseteq Branch /\ ended \subseteq Branch /\ faults \in 0 .. MaxFaults

HTTPInit ==
    /\ rows = {} /\ dying = {} /\ closing = {}
    /\ names = [b \in Branch |-> NoBranch] /\ parents = [b \in Branch |-> NoBranch]
    /\ active = [b \in Branch |-> 0]
    /\ call = [t \in Thread |-> Idle]
    /\ net = {} /\ answers = {} /\ sent = 0
    /\ server = [b \in Branch |-> Gone]
    /\ late = {} /\ ended = {} /\ faults = 0

Fault == faults < MaxFaults /\ faults' = faults + 1
On(b, ops) == {t \in Thread : call[t].b = b /\ call[t].op \in ops}
Free(b) == b \notin rows /\ On(b, {"kill"}) = {}
\* The bound on requests leaves one for every kill that has not sent its own.
Unsent == {t \in Thread : call[t].stage \in {"enter", "drain"}}
Budget == sent + Cardinality(Unsent) < MaxRequests
Enter(b) == active' = [active EXCEPT ![b] = @ + 1]
Leave(b) == active' = [active EXCEPT ![b] = @ - 1]
Return(t) == call' = [call EXCEPT ![t] = Idle]

\* One attempt of _request_json: thread t, in the call c, sends and waits.
Send(t, c) ==
    /\ sent' = sent + 1
    /\ net' = net \cup {[n |-> sent + 1, op |-> c.op, b |-> c.b, p |-> c.p,
                         name |-> c.name, end |-> c.end]}
    /\ call' = [call EXCEPT ![t] = [c EXCEPT !.stage = "await", !.n = sent + 1]]
    /\ UNCHANGED answers

\* Mutant: one attempt too many.
NewOneMore(op, b, p, name, end) ==
    [op |-> op, b |-> b, p |-> p, name |-> name, end |-> end, stage |-> "enter", n |-> 0,
     left |-> IF op = "kill" THEN MaxRetries + 1 ELSE 0]

New(op, b, p, name, end) ==
    [op |-> op, b |-> b, p |-> p, name |-> name, end |-> end, stage |-> "enter", n |-> 0,
     left |-> IF op = "kill" THEN MaxRetries ELSE 0]

-----------------------------------------------------------------------------
\* The calls

create_tree(t, b) ==
    /\ call[t] = Idle /\ Budget /\ Free(b)
    /\ rows' = rows \cup {b} /\ UNCHANGED dying
    /\ Send(t, New("create", b, NoBranch, b, FALSE))
    /\ UNCHANGED <<clientVars, serverVars, faults>>

\* The fork counts as a request in flight on its parent.
fork_branch(t, p, b) ==
    /\ call[t] = Idle /\ Budget /\ p \in rows /\ Free(b)
    /\ rows' = rows \cup {b} /\ UNCHANGED dying
    /\ IF p \in closing \/ names[p] = NoBranch
         THEN UNCHANGED <<active, call, wireVars>>
         ELSE Enter(p) /\ Send(t, New("fork", b, p, names[p], FALSE))
    /\ UNCHANGED <<names, parents, closing, serverVars, faults>>

generate(t, b, end) ==
    /\ call[t] = Idle /\ Budget /\ b \notin closing /\ names[b] # NoBranch
    /\ Enter(b)
    /\ Send(t, New("generate", b, parents[b], names[b], end))
    /\ UNCHANGED <<registry, names, parents, closing, serverVars, faults>>

kill(t, b) ==
    /\ call[t] = Idle /\ Budget /\ b \in rows /\ On(b, {"create", "fork"}) = {}
    /\ dying' = dying \cup {b}
    /\ call' = [call EXCEPT ![t] = New("kill", b, NoBranch, NoBranch, FALSE)]
    /\ UNCHANGED <<rows, clientVars, wireVars, serverVars, faults>>

\* Wait for a concurrent kill of the branch, then mark it.
KillEnter(t) ==
    LET b == call[t].b
    IN  /\ call[t].op = "kill" /\ call[t].stage = "enter"
        /\ \/ /\ b \notin closing
              /\ closing' = closing \cup {b}
              /\ call' = [call EXCEPT ![t].stage = "drain"]
              /\ UNCHANGED faults
           \/ b \in closing /\ Fault /\ Return(t) /\ UNCHANGED closing
        /\ UNCHANGED <<registry, names, parents, active, wireVars, serverVars>>

\* Mutant: requests in flight are not waited for.
KillDrainAtOnce(t) ==
    /\ call[t].op = "kill" /\ call[t].stage = "drain"
    /\ Send(t, call[t])
    /\ UNCHANGED <<registry, clientVars, serverVars, faults>>

\* Wait for the requests in flight on the branch, then send the kill.
KillDrain(t) ==
    LET b == call[t].b
    IN  /\ call[t].op = "kill" /\ call[t].stage = "drain"
        /\ \/ active[b] = 0 /\ Send(t, call[t]) /\ UNCHANGED <<closing, faults>>
           \/ /\ active[b] > 0 /\ Fault
              /\ closing' = closing \ {b}
              /\ Return(t) /\ UNCHANGED wireVars
        /\ UNCHANGED <<registry, names, parents, active, serverVars>>

-----------------------------------------------------------------------------
\* The end of a call

\* Mutant: a failed fork does not leave its parent.
RaiseKeepsFork(t) ==
    LET c == call[t]
    IN  /\ Return(t)
        /\ CASE c.op \in {"create", "fork"} -> UNCHANGED <<active, closing>>
             [] c.op = "generate" -> Leave(c.b) /\ UNCHANGED closing
             [] c.op = "kill" -> closing' = closing \ {c.b} /\ UNCHANGED active
        /\ UNCHANGED <<registry, names, parents>>

\* The exception leaves through the finally blocks.
Raise(t) ==
    LET c == call[t]
    IN  /\ Return(t)
        /\ CASE c.op = "create" -> UNCHANGED <<active, closing>>
             [] c.op = "fork" -> Leave(c.p) /\ UNCHANGED closing
             [] c.op = "generate" -> Leave(c.b) /\ UNCHANGED closing
             [] c.op = "kill" -> closing' = closing \ {c.b} /\ UNCHANGED active
        /\ UNCHANGED <<registry, names, parents>>

\* fork_branch leaves its parent here and tracks the child in a block of its own.
Succeed(t) ==
    LET c == call[t]
    IN  \/ /\ c.op = "create"
           /\ names' = [names EXCEPT ![c.b] = c.b]
           /\ parents' = [parents EXCEPT ![c.b] = NoBranch]
           /\ Return(t) /\ UNCHANGED <<registry, active, closing>>
        \/ /\ c.op = "fork" /\ Leave(c.p)
           /\ call' = [call EXCEPT ![t].stage = "register"]
           /\ UNCHANGED <<registry, names, parents, closing>>
        \/ /\ c.op = "generate" /\ Leave(c.b)
           /\ Return(t) /\ UNCHANGED <<registry, names, parents, closing>>
        \/ /\ c.op = "kill"
           /\ names' = [names EXCEPT ![c.b] = NoBranch]
           /\ parents' = [parents EXCEPT ![c.b] = NoBranch]
           /\ closing' = closing \ {c.b}
           /\ rows' = rows \ {c.b} /\ dying' = dying \ {c.b}
           /\ Return(t) /\ UNCHANGED active

\* Mutant: the child is tracked as a tree of its own.
RegisterChildAsRoot(t) ==
    LET c == call[t]
    IN  /\ c.op = "fork" /\ c.stage = "register"
        /\ names' = [names EXCEPT ![c.b] = c.b]
        /\ parents' = [parents EXCEPT ![c.b] = c.p]
        /\ Return(t)
        /\ UNCHANGED <<registry, active, closing, wireVars, serverVars, faults>>

RegisterChild(t) ==
    LET c == call[t]
    IN  /\ c.op = "fork" /\ c.stage = "register"
        /\ names' = [names EXCEPT ![c.b] = c.name]
        /\ parents' = [parents EXCEPT ![c.b] = c.p]
        /\ Return(t)
        /\ UNCHANGED <<registry, active, closing, wireVars, serverVars, faults>>

\* The answer to the attempt that t waits for.
Receive(t) ==
    \E a \in answers :
        /\ call[t].stage = "await" /\ a.n = call[t].n
        /\ answers' = answers \ {a}
        /\ IF a.ok THEN Succeed(t) ELSE Raise(t)
        /\ UNCHANGED <<net, sent, serverVars, faults>>

\* The attempt times out or the connection breaks: the request may be on its way,
\* lost, or served with the answer lost.  A kill is tried again.
GiveUp(t) ==
    LET mine == {m \in net : m.n = call[t].n}
    IN  /\ call[t].stage = "await" /\ Fault
        /\ answers' = {a \in answers : a.n # call[t].n}
        /\ \E lost \in SUBSET mine :
              IF call[t].left > 0
                THEN /\ Budget /\ sent' = sent + 1
                     /\ net' = (net \ lost) \cup
                          {[n |-> sent + 1, op |-> call[t].op, b |-> call[t].b,
                            p |-> call[t].p, name |-> call[t].name, end |-> call[t].end]}
                     /\ call' = [call EXCEPT ![t].n = sent + 1, ![t].left = @ - 1]
                     /\ UNCHANGED <<registry, clientVars>>
                ELSE net' = net \ lost /\ Raise(t) /\ UNCHANGED sent
        /\ UNCHANGED serverVars

-----------------------------------------------------------------------------
\* The server

There(name, parent) == [there |-> TRUE, name |-> name, parent |-> parent]

\* prepare_request: a known branch has to agree with the request; an unknown one is
\* made, as a root or as a fork of a known parent.
Prepared(m) ==
    IF server[m.b].there
      THEN server[m.b].name = m.name /\ (m.p # NoBranch => server[m.b].parent = m.p)
      ELSE m.p = NoBranch \/ (server[m.p].there /\ server[m.p].name = m.name)

Accepted(m) ==
    CASE m.op = "create"   -> ~server[m.b].there
      [] m.op = "fork"     -> server[m.p].there /\ ~server[m.b].there
      [] m.op = "kill"     -> TRUE
      [] m.op = "generate" -> Prepared(m)

After(m) ==
    CASE m.op = "create"   -> There(m.name, NoBranch)
      [] m.op = "fork"     -> There(server[m.p].name, m.p)
      [] m.op = "kill"     -> Gone
      [] m.op = "generate" -> IF m.end THEN Gone
                              ELSE IF server[m.b].there THEN server[m.b]
                              ELSE There(m.name, m.p)

Awaited(m) == \E t \in Thread : call[t].stage = "await" /\ call[t].n = m.n

Serve(m) ==
    /\ m \in net
    /\ net' = net \ {m}
    /\ server' = IF Accepted(m) THEN [server EXCEPT ![m.b] = After(m)] ELSE server
    /\ answers' = IF Awaited(m) THEN answers \cup {[n |-> m.n, ok |-> Accepted(m)]}
                   ELSE answers
    /\ late' = IF Awaited(m) /\ ~(m.op = "fork" /\ m.p \in late) THEN late ELSE late \cup {m.b}
    /\ ended' = IF m.op = "generate" /\ m.end /\ Accepted(m) THEN ended \cup {m.b} ELSE ended
    /\ UNCHANGED <<registry, clientVars, call, sent, faults>>

HTTPNext ==
    \/ \E t \in Thread, b \in Branch :
          \/ create_tree(t, b) \/ kill(t, b)
          \/ \E p \in Branch : fork_branch(t, p, b)
          \/ \E end \in BOOLEAN : generate(t, b, end)
    \/ \E t \in Thread :
          KillEnter(t) \/ KillDrain(t) \/ RegisterChild(t) \/ Receive(t) \/ GiveUp(t)
    \/ \E m \in net : Serve(m)

HTTPSpec == HTTPInit /\ [][HTTPNext]_httpVars

\* Threads run on, and the server serves what reaches it.
HTTPFairness ==
    /\ \A t \in Thread : /\ WF_httpVars(KillDrain(t)) /\ SF_httpVars(KillEnter(t))
                         /\ WF_httpVars(RegisterChild(t)) /\ WF_httpVars(Receive(t))
    /\ WF_httpVars(\E m \in net : Awaited(m) /\ Serve(m))

HTTPFairSpec == HTTPSpec /\ HTTPFairness

-----------------------------------------------------------------------------
\* Correctness

\* The threads that wait for the answer to a generate on b or to a fork of it.
InFlight(b) ==
    {t \in Thread : /\ call[t].stage = "await"
                    /\ \/ call[t].op = "generate" /\ call[t].b = b
                       \/ call[t].op = "fork" /\ call[t].p = b}

\* _active counts exactly the generates and forks in flight on a branch.
ActiveExact ==
    \A b \in Branch :
        active[b] = Cardinality(InFlight(b))

\* A kill never overtakes a request on its branch that somebody still waits for:
\* not a generate, and not a fork, whose child would point at a gone parent.
KillWaits ==
    \A t, u \in Thread :
        /\ call[t].op = "kill" /\ call[t].stage = "await"
        /\ call[u].stage = "await"
        => /\ call[u].op = "generate" => call[u].b # call[t].b
           /\ call[u].op = "fork" => call[u].p # call[t].b

\* Only a request that its sender had given up leaves the server with a branch
\* that the registry does not know.
LeakOnlyLate == \A b \in Branch : server[b].there => b \in rows \cup late

\* What the client tracks, the server has, in the same tree and under the same
\* parent, unless its kill has begun, it was ended, or a late request changed it
\* or a branch it comes from.
TrackedIsThere ==
    \A b \in Branch \ (dying \cup late \cup ended) :
        names[b] # NoBranch => server[b] = There(names[b], parents[b])

\* Client and server agree, in both directions, but for what requests did that
\* their senders had given up (create_tree, fork_branch, generate, kill).
SidesAgree == HTTPTypeOK /\ LeakOnlyLate /\ TrackedIsThere

\* When nothing fails any more every call returns: kills that wait for each other,
\* for generates and for forks included.
CallsReturn == \A t \in Thread : call[t] # Idle ~> call[t] = Idle

=============================================================================
