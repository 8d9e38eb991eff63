----------------------------- MODULE GuestExec ------------------------------
(***************************************************************************)
(* agentfork/sandbox/vsock.py and guest_agent.py: the exec channel between  *)
(* host threads and the agent in one guest, with wait_ready of              *)
(* firecracker_backend.py, which probes over it.  One connection carries    *)
(* one command.  The guest may be stopped at any moment (a fork pauses it,  *)
(* it hangs) and its VMM may die.                                           *)
(*                                                                         *)
(* Time is a tick no longer than the host's grace: whatever can act without *)
(* waiting for a timer or for a stopped guest does so before the next tick. *)
(* Timers count down; Never is no timer.  A command may leave a process     *)
(* behind that holds its output pipes.  The muxer's side of the handshake   *)
(* is external: it answers once the guest listens.                          *)
(***************************************************************************)
EXTENDS Naturals

CONSTANTS
    CL,           \* host threads with a call each
    Timeout,      \* ticks: timeout_s of a command
    Grace,        \* ticks: host_grace_s
    Handshake,    \* ticks: handshake_timeout_s
    Readiness,    \* ticks: readiness_timeout_s
    Never,        \* larger than all of these
    MaxFaults     \* bound: stops of the guest, deaths of its VMM, steps that fail

ASSUME ExecAssumption ==
    /\ Timeout \in Nat \ {0} /\ Grace \in Nat \ {0} /\ Handshake \in Nat \ {0}
    /\ Readiness \in Nat \ {0} /\ MaxFaults \in Nat
    /\ Never \in Nat /\ Never > Timeout + Grace + Handshake + Readiness

VARIABLES
    agentUp,    \* the guest has booted as far as the agent's listen()
    stopped,    \* the guest stands still
    vmm,        \* its VMM runs
    host,       \* per thread: where its call stands
    kind,       \* per thread: what it asked for
    limit,      \* per thread: timeout_s of the request, or Never
    span,       \* per thread: what its socket timeout will be once connected
    left,       \* per thread: ticks until its handshake or socket times out
    ready,      \* per thread: ticks until wait_ready gives up
    outcome,    \* per thread: what the call returned or raised
    agent,      \* per thread: where its handle_connection stands
    guestLeft,  \* per thread: ticks until communicate() times out
    answer,     \* per thread: the reply line, as far as it has got
    cmd,        \* per thread: its command in the guest
    held,       \* threads whose command's pipes another process holds
    faults,
    \* What the properties except by name:
    delayed,    \* threads whose guest was stopped while their call went on
    gaveUp,     \* threads whose host timeout fired
    clung       \* threads whose pipes were still held when their command was killed

execVars == <<agentUp, stopped, vmm, host, kind, limit, span, left, ready, outcome, agent, guestLeft,
              answer, cmd, held, faults, delayed, gaveUp, clung>>
hostSide  == <<host, kind, limit, span, left, ready, outcome, gaveUp>>
guestSide == <<agent, guestLeft, cmd, held, clung>>
machine   == <<agentUp, stopped, vmm>>

Kind  == {"none", "exec", "detach", "ready"}
Reply == {"none", "result", "timed_out", "detached", "error"}

\* Every variable has its type.
ExecTypeOK ==
    /\ agentUp \in BOOLEAN /\ stopped \in BOOLEAN /\ vmm \in BOOLEAN
    /\ host \in [CL -> {"idle", "connect", "send", "wait", "done"}]
    /\ kind \in [CL -> Kind] /\ limit \in [CL -> 0 .. Never] /\ span \in [CL -> 0 .. Never]
    /\ left \in [CL -> 0 .. Never] /\ ready \in [CL -> 0 .. Never]
    /\ outcome \in [CL -> (Reply \ {"error"}) \cup {"VsockError", "OSError"}]
    /\ agent \in [CL -> {"none", "read", "run", "drain", "reply"}]
    /\ guestLeft \in [CL -> 0 .. Never] /\ answer \in [CL -> Reply]
    /\ cmd \in [CL -> {"none", "running", "background"}] /\ held \subseteq CL
    /\ faults \in 0 .. MaxFaults /\ delayed \subseteq CL /\ gaveUp \subseteq CL /\ clung \subseteq CL

ExecInit ==
    /\ agentUp = FALSE /\ stopped = FALSE /\ vmm = TRUE
    /\ host = [c \in CL |-> "idle"] /\ kind = [c \in CL |-> "none"]
    /\ limit = [c \in CL |-> Never] /\ span = [c \in CL |-> Never] /\ left = [c \in CL |-> Never]
    /\ ready = [c \in CL |-> Never] /\ outcome = [c \in CL |-> "none"]
    /\ agent = [c \in CL |-> "none"] /\ guestLeft = [c \in CL |-> Never]
    /\ answer = [c \in CL |-> "none"] /\ cmd = [c \in CL |-> "none"] /\ held = {}
    /\ faults = 0 /\ delayed = {} /\ gaveUp = {} /\ clung = {}

Fault == faults < MaxFaults /\ faults' = faults + 1
Runs == vmm /\ ~stopped
Least(x, y) == IF x < y THEN x ELSE y
Set(f, c, v) == [f EXCEPT ![c] = v]

-----------------------------------------------------------------------------
\* The host

\* The timeouts of one probe of wait_ready, which has r ticks to go.
Probe(c, r) ==
    /\ limit' = Set(limit, c, Least(1, r))
    /\ span' = Set(span, c, Least(Least(1, r) + Grace, r))
    /\ left' = Set(left, c, Least(Handshake, r))

\* exec, exec_detached (whose spawn round trip is bounded like a command) and
\* wait_ready begin.
Call(c, k, t) ==
    /\ host[c] = "idle"
    /\ k \in {"detach", "ready"} => t = Timeout
    /\ host' = Set(host, c, "connect") /\ kind' = Set(kind, c, k)
    /\ ready' = Set(ready, c, IF k = "ready" THEN Readiness ELSE Never)
    /\ IF k = "ready"
         THEN Probe(c, Readiness)
         ELSE /\ limit' = Set(limit, c, t)
              /\ span' = Set(span, c, IF t = Never THEN Never ELSE t + Grace)
              /\ left' = Set(left, c, Handshake)
    /\ delayed' = IF stopped THEN delayed \cup {c} ELSE delayed
    /\ UNCHANGED <<machine, outcome, guestSide, answer, faults, gaveUp>>

\* Mutant: the socket times out when the guest should.
NoGrace(c) ==
    /\ host[c] = "connect" /\ agentUp /\ Runs
    /\ host' = Set(host, c, "send")
    /\ left' = Set(left, c, limit[c])
    /\ UNCHANGED <<machine, kind, limit, span, ready, outcome, guestSide, answer, faults, delayed, gaveUp>>

\* Mutant: the handshake's timeout is taken off the socket and no other is set.
NoSocketTimeout(c) ==
    /\ host[c] = "connect" /\ agentUp /\ Runs
    /\ host' = Set(host, c, "send")
    /\ left' = Set(left, c, Never)
    /\ UNCHANGED <<machine, kind, limit, span, ready, outcome, guestSide, answer, faults, delayed, gaveUp>>

\* The handshake succeeds, at the latest of all its attempts; from here on the
\* socket's timeout is the command's plus the grace.
Connect(c) ==
    /\ host[c] = "connect" /\ agentUp /\ Runs
    /\ host' = Set(host, c, "send")
    /\ left' = Set(left, c, span[c])
    /\ UNCHANGED <<machine, kind, limit, span, ready, outcome, guestSide, answer, faults, delayed, gaveUp>>

\* The call is over with o.  wait_ready tries again after a VsockError as long
\* as it has time; an OSError goes to its caller.
Finish(c, o) ==
    /\ IF kind[c] = "ready" /\ o = "VsockError" /\ ready[c] > 0
         THEN /\ host' = Set(host, c, "connect")
              /\ Probe(c, ready[c])
              /\ UNCHANGED outcome
         ELSE /\ host' = Set(host, c, "done")
              /\ outcome' = Set(outcome, c, o)
              /\ left' = Set(left, c, Never)
              /\ UNCHANGED <<limit, span>>
    /\ answer' = Set(answer, c, "none")
    /\ UNCHANGED <<kind, ready>>

ConnectFails(c) ==
    /\ host[c] = "connect" /\ left[c] = 0
    /\ Finish(c, "VsockError")
    /\ UNCHANGED <<machine, guestSide, faults, delayed, gaveUp>>

\* The request line goes out, and the agent's thread for it starts.  A thread
\* that still serves an earlier probe is left to itself.
Send(c) ==
    /\ host[c] = "send" /\ vmm
    /\ host' = Set(host, c, "wait")
    /\ agent' = Set(agent, c, "read") /\ cmd' = Set(cmd, c, "none")
    /\ guestLeft' = Set(guestLeft, c, Never) /\ held' = held \ {c}
    /\ UNCHANGED <<machine, kind, limit, span, left, ready, outcome, answer, faults, delayed, gaveUp, clung>>

\* Mutant: an error reply is handed to the caller as if it were a result.
ErrorIsAResult(c) ==
    /\ host[c] = "wait" /\ answer[c] # "none"
    /\ Finish(c, answer[c])
    /\ UNCHANGED <<machine, guestSide, faults, delayed, gaveUp>>

\* The reply line is read and decoded; one that is too long or malformed raises.
Receive(c) ==
    /\ host[c] = "wait" /\ answer[c] # "none"
    /\ \/ Finish(c, IF answer[c] = "error" THEN "VsockError" ELSE answer[c]) /\ UNCHANGED faults
       \/ Fault /\ Finish(c, "VsockError")
    /\ UNCHANGED <<machine, guestSide, delayed, gaveUp>>

HostTimeout(c) ==
    /\ host[c] = "wait" /\ answer[c] = "none" /\ left[c] = 0
    /\ Finish(c, "VsockError")
    /\ gaveUp' = gaveUp \cup {c}
    /\ UNCHANGED <<machine, guestSide, faults, delayed>>

\* The VMM is gone: the handshake is refused until its deadline, and an open
\* connection ends in an orderly close or in a reset.
Lost(c) ==
    /\ ~vmm /\ host[c] \in {"send", "wait"} /\ answer[c] = "none"
    /\ \E o \in {"VsockError", "OSError"} : Finish(c, o)
    /\ UNCHANGED <<machine, guestSide, faults, delayed, gaveUp>>

-----------------------------------------------------------------------------
\* The guest agent: handle_connection

\* The request is parsed and its command started; a bad request and a command
\* that cannot be started are answered with an error.
Start(c) ==
    /\ agent[c] = "read" /\ Runs
    /\ \/ /\ kind[c] = "detach"
          /\ cmd' = Set(cmd, c, "background")
          /\ agent' = Set(agent, c, "reply")
          /\ UNCHANGED <<answer, guestLeft, faults>>
       \/ /\ kind[c] # "detach"
          /\ cmd' = Set(cmd, c, "running")
          /\ agent' = Set(agent, c, "run") /\ guestLeft' = Set(guestLeft, c, limit[c])
          /\ UNCHANGED <<answer, faults>>
       \/ /\ Fault
          /\ agent' = Set(agent, c, "none")
          /\ answer' = IF host[c] = "wait" THEN Set(answer, c, "error") ELSE answer
          /\ UNCHANGED <<cmd, guestLeft>>
    /\ UNCHANGED <<machine, hostSide, held, delayed, clung>>

\* The command starts a process that inherits its pipes.
CmdForks(c) ==
    /\ cmd[c] = "running" /\ kind[c] = "exec" /\ agent[c] = "run" /\ Runs /\ c \notin held
    /\ held' = held \cup {c}
    /\ UNCHANGED <<machine, hostSide, agent, guestLeft, cmd, answer, faults, delayed, clung>>

CmdExits(c) ==
    /\ cmd[c] \in {"running", "background"} /\ Runs
    /\ cmd' = Set(cmd, c, "none")
    /\ UNCHANGED <<machine, hostSide, agent, guestLeft, held, answer, faults, delayed, clung>>

HolderExits(c) ==
    /\ c \in held /\ Runs
    /\ held' = held \ {c}
    /\ UNCHANGED <<machine, hostSide, agent, guestLeft, cmd, answer, faults, delayed, clung>>

\* communicate() returns at the end of both pipes and of the command.
Communicated(c) ==
    /\ agent[c] = "run" /\ cmd[c] = "none" /\ c \notin held /\ Runs
    /\ agent' = Set(agent, c, "reply") /\ guestLeft' = Set(guestLeft, c, Never)
    /\ UNCHANGED <<machine, hostSide, cmd, held, answer, faults, delayed, clung>>

\* Mutant: the command is not killed.
TimeoutOnly(c) ==
    /\ agent[c] = "run" /\ guestLeft[c] = 0 /\ Runs
    /\ cmd[c] # "none" \/ c \in held
    /\ agent' = Set(agent, c, "drain") /\ guestLeft' = Set(guestLeft, c, Never)
    /\ UNCHANGED <<machine, hostSide, cmd, held, answer, faults, delayed, clung>>

\* TimeoutExpired: the command is killed, and communicate() is called again.
GuestTimeout(c) ==
    /\ agent[c] = "run" /\ guestLeft[c] = 0 /\ Runs
    /\ cmd[c] # "none" \/ c \in held
    /\ cmd' = Set(cmd, c, "none")
    /\ clung' = IF c \in held THEN clung \cup {c} ELSE clung
    /\ agent' = Set(agent, c, "drain") /\ guestLeft' = Set(guestLeft, c, Never)
    /\ UNCHANGED <<machine, hostSide, held, answer, faults, delayed>>

\* The reply is sent and the connection closed; a peer that has gone is ignored.
Respond(c) ==
    /\ Runs
    /\ agent[c] = "reply" \/ (agent[c] = "drain" /\ cmd[c] = "none" /\ c \notin held)
    /\ agent' = Set(agent, c, "none")
    /\ answer' = IF host[c] # "wait" THEN answer
                 ELSE Set(answer, c, IF agent[c] = "drain" THEN "timed_out"
                                     ELSE IF kind[c] = "detach" THEN "detached" ELSE "result")
    /\ UNCHANGED <<machine, hostSide, guestLeft, cmd, held, faults, delayed, clung>>

-----------------------------------------------------------------------------
\* The machine

Busy == {c \in CL : host[c] \in {"connect", "send", "wait"}}

Boot ==
    /\ ~agentUp /\ Runs
    /\ agentUp' = TRUE
    /\ UNCHANGED <<stopped, vmm, hostSide, guestSide, answer, faults, delayed>>

Stop ==
    /\ ~stopped /\ vmm /\ Fault
    /\ stopped' = TRUE /\ delayed' = delayed \cup Busy
    /\ UNCHANGED <<agentUp, vmm, hostSide, guestSide, answer>>

Resume ==
    /\ stopped
    /\ stopped' = FALSE
    /\ UNCHANGED <<agentUp, vmm, hostSide, guestSide, answer, faults, delayed>>

VMMDies ==
    /\ vmm /\ Fault
    /\ vmm' = FALSE
    /\ agent' = [c \in CL |-> "none"] /\ cmd' = [c \in CL |-> "none"] /\ held' = {}
    /\ guestLeft' = [c \in CL |-> Never]
    /\ UNCHANGED <<agentUp, stopped, hostSide, answer, delayed, clung>>

\* What acts before the next tick.
HostStep(c)  == Connect(c) \/ ConnectFails(c) \/ Send(c) \/ Receive(c) \/ HostTimeout(c) \/ Lost(c)
AgentStep(c) == Start(c) \/ Communicated(c) \/ GuestTimeout(c) \/ Respond(c)

Prompt(c) ==
    \/ host[c] = "connect" /\ (left[c] = 0 \/ (agentUp /\ Runs))
    \/ host[c] = "send"
    \/ host[c] = "wait" /\ (answer[c] # "none" \/ left[c] = 0 \/ ~vmm)
    \/ Runs /\ \/ agent[c] \in {"read", "reply"}
               \/ agent[c] = "run" /\ (guestLeft[c] = 0 \/ (cmd[c] = "none" /\ c \notin held))
               \/ agent[c] = "drain" /\ cmd[c] = "none" /\ c \notin held

Down(n) == IF n \in {0, Never} THEN n ELSE n - 1

\* The timers of a stopped guest stand still.
Tick ==
    /\ \A c \in CL : ~Prompt(c)
    /\ \E c \in CL : host[c] \notin {"idle", "done"} \/ agent[c] # "none"
    /\ left' = [c \in CL |-> Down(left[c])] /\ ready' = [c \in CL |-> Down(ready[c])]
    /\ guestLeft' = IF Runs THEN [c \in CL |-> Down(guestLeft[c])] ELSE guestLeft
    /\ UNCHANGED <<machine, host, kind, limit, span, outcome, agent, answer, cmd, held, faults, delayed,
                   gaveUp, clung>>

ExecNext ==
    \/ \E c \in CL :
          \/ \E k \in Kind \ {"none"}, t \in {Timeout, Never} : Call(c, k, t)
          \/ HostStep(c) \/ AgentStep(c) \/ CmdForks(c) \/ CmdExits(c) \/ HolderExits(c)
    \/ Boot \/ Stop \/ Resume \/ VMMDies \/ Tick

ExecSpec == ExecInit /\ [][ExecNext]_execVars

\* Host threads, the agent's threads in a guest that runs, and time go on.  That
\* a command ends or that a stopped guest is resumed is not assumed.
ExecFairSpec ==
    ExecSpec /\ (\A c \in CL : WF_execVars(HostStep(c) \/ AgentStep(c))) /\ WF_execVars(Tick)

-----------------------------------------------------------------------------
\* Properties

\* The host's timeout is a backstop: it fires only when the guest was stopped
\* meanwhile, its VMM died, or some process held the command's pipes beyond the
\* kill; otherwise the guest's own timeout comes first and is answered
\* (_roundtrip, handle_connection).
GuestAnswersFirst ==
    \A c \in CL : (c \in gaveUp /\ kind[c] # "ready" /\ vmm) => c \in delayed \cup clung

\* When a call with a timeout has returned, however it ended, its command runs no
\* more in the guest: the adapter counts the branch's state as settled then
\* (exec, handle_connection).  The exceptions are guests that were stopped
\* meanwhile and calls that asked for a background process.
ReturnedIsOver ==
    \A c \in CL : (/\ host[c] = "done" /\ kind[c] = "exec" /\ limit[c] # Never
                   /\ c \notin delayed)
                  => cmd[c] # "running"

\* The two timeouts of a call work together: the guest's ends the command and is
\* answered in time for the host's (_roundtrip, handle_connection).
TimeoutsHold == ExecTypeOK /\ GuestAnswersFirst /\ ReturnedIsOver

\* A call with a timeout returns, whatever the guest does; so does wait_ready
\* (_connect, _roundtrip, wait_ready).
TimedCallsReturn ==
    \A c \in CL : (host[c] = "connect" /\ limit[c] # Never) ~> (host[c] = "done")

\* The timeout of a command is enforced by the agent inside the guest.
TimeoutEnforced ==
    \A c \in CL : (c \in gaveUp /\ kind[c] = "exec" /\ vmm) => c \in delayed

=============================================================================
