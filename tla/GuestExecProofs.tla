--------------------------- MODULE GuestExecProofs ---------------------------
(***************************************************************************)
(* TimeoutsHold of GuestExec for any threads, any timeouts, any grace and   *)
(* any number of stops, deaths and failures.  ExecInv is inductive: of a    *)
(* call that nothing disturbs, the guest's timer and the host's run down    *)
(* together, so that the guest's reaches zero a grace earlier, and no tick  *)
(* passes before it is acted upon and answered.                             *)
(***************************************************************************)
EXTENDS GuestExec, TLAPS

-----------------------------------------------------------------------------
\* The inductive invariant behind TimeoutsHold

\* A guest without a VMM runs nothing, and whoever calls into a stopped one knows.
MachineSound ==
    /\ ~vmm => \A c \in CL : agent[c] = "none" /\ cmd[c] = "none"
    /\ stopped => Busy \subseteq delayed

\* One call of a thread that does not probe: its timeouts, and how far its command is
\* when it has not been sent, has been killed, or is answered.
OneRequest(c) ==
    /\ host[c] = "idle" <=> kind[c] = "none"
    /\ kind[c] # "ready" =>
        /\ limit[c] \in {Timeout, Never}
        /\ span[c] = IF limit[c] = Never THEN Never ELSE limit[c] + Grace
        /\ host[c] \in {"idle", "connect", "send"} =>
              agent[c] = "none" /\ answer[c] = "none" /\ cmd[c] = "none" /\ c \notin clung
        /\ agent[c] = "read" => cmd[c] = "none" /\ c \notin clung
        /\ agent[c] = "run" => c \notin clung
        /\ agent[c] \notin {"read", "run"} => cmd[c] # "running"
        /\ agent[c] = "drain" => cmd[c] = "none" /\ (c \in held => c \in clung)
        /\ answer[c] # "none" => agent[c] = "none"
        /\ host[c] = "done" /\ limit[c] # Never /\ c \notin delayed
             => agent[c] \notin {"read", "run"}

\* The two timers of a call that nothing has disturbed run down together, the host's
\* with the grace to spare.
TimersInStep(c) ==
    kind[c] \in {"exec", "detach"} /\ vmm /\ c \notin delayed \cup clung =>
        /\ host[c] = "send" => left[c] = span[c]
        /\ host[c] = "wait" /\ answer[c] = "none" =>
              /\ agent[c] # "none" /\ left[c] > 0
              /\ agent[c] = "read" => left[c] = span[c]
              /\ agent[c] = "run" =>
                    IF limit[c] = Never THEN left[c] = Never
                    ELSE guestLeft[c] <= Timeout /\ left[c] = guestLeft[c] + Grace

ExecInv ==
    /\ ExecTypeOK /\ GuestAnswersFirst /\ MachineSound
    /\ \A c \in CL : OneRequest(c) /\ TimersInStep(c)

-----------------------------------------------------------------------------
\* What a step for c leaves alone.
OthersSame(c) ==
    /\ vmm' = vmm /\ stopped' = stopped
    /\ \A d \in CL \ {c} :
          /\ host'[d] = host[d] /\ kind'[d] = kind[d] /\ limit'[d] = limit[d]
          /\ span'[d] = span[d] /\ left'[d] = left[d] /\ agent'[d] = agent[d]
          /\ guestLeft'[d] = guestLeft[d] /\ answer'[d] = answer[d] /\ cmd'[d] = cmd[d]
          /\ d \in held' <=> d \in held
          /\ d \in delayed' <=> d \in delayed
          /\ d \in gaveUp' <=> d \in gaveUp
          /\ d \in clung' <=> d \in clung

\* What the invariant says of c alone.
OwnParts(c) ==
    /\ OneRequest(c) /\ TimersInStep(c)
    /\ c \in gaveUp /\ kind[c] # "ready" /\ vmm => c \in delayed \cup clung
    /\ ~vmm => agent[c] = "none" /\ cmd[c] = "none"
    /\ stopped /\ c \in Busy => c \in delayed

LEMMA PartsSuffice == ExecInv <=> ExecTypeOK /\ \A c \in CL : OwnParts(c)
    BY DEF ExecInv, OwnParts, GuestAnswersFirst, MachineSound, Busy

LEMMA StepKeeps ==
    ASSUME ExecInv, NEW c \in CL, OthersSame(c), ExecTypeOK', OwnParts(c)'
    PROVE  ExecInv'
<1>1. ASSUME NEW d \in CL \ {c}
      PROVE  OwnParts(d)'
  <2>1. OwnParts(d)
    BY PartsSuffice
  <2>2. OneRequest(d)'
    BY <2>1 DEF OthersSame, OwnParts, OneRequest
  <2>3. TimersInStep(d)'
    BY <2>1 DEF OthersSame, OwnParts, TimersInStep
  <2> QED
    BY <2>1, <2>2, <2>3 DEF OthersSame, OwnParts, Busy
<1>2. \A d \in CL : OwnParts(d)'
    BY <1>1
<1>3. ExecInv' <=> ExecTypeOK' /\ \A d \in CL : OwnParts(d)'
    BY DEF ExecInv, OwnParts, GuestAnswersFirst, MachineSound, Busy
<1> QED
    BY <1>2, <1>3

\* The numbers, and what holds of c.
LEMMA Facts ==
    ASSUME ExecInv, NEW c \in CL
    PROVE  /\ Timeout \in Nat \ {0} /\ Grace \in Nat \ {0} /\ Handshake \in Nat \ {0}
           /\ Readiness \in Nat \ {0} /\ Never \in Nat /\ Timeout + Grace < Never
           /\ Handshake < Never /\ Readiness < Never /\ MaxFaults \in Nat
           /\ limit[c] \in 0 .. Never /\ span[c] \in 0 .. Never /\ left[c] \in 0 .. Never
           /\ ready[c] \in 0 .. Never /\ guestLeft[c] \in 0 .. Never
           /\ ExecTypeOK /\ OwnParts(c)
<1>1. ExecTypeOK /\ OwnParts(c)
    BY PartsSuffice
<1> QED
    BY <1>1, ExecAssumption DEF ExecTypeOK

-----------------------------------------------------------------------------
\* The host

\* The timeouts of a probe are times.
LEMMA ProbeTypes ==
    ASSUME ExecInv, NEW c \in CL, NEW r \in 0 .. Never, Probe(c, r)
    PROVE  /\ limit' \in [CL -> 0 .. Never] /\ span' \in [CL -> 0 .. Never]
           /\ left' \in [CL -> 0 .. Never]
           /\ \A d \in CL \ {c} : limit'[d] = limit[d] /\ span'[d] = span[d] /\ left'[d] = left[d]
<1> DEFINE l == Least(1, r)
           s == Least(Least(1, r) + Grace, r)
           h == Least(Handshake, r)
<1>1. l \in 0 .. Never /\ s \in 0 .. Never /\ h \in 0 .. Never
    BY Facts DEF Least
<1>2. limit' = Set(limit, c, l) /\ span' = Set(span, c, s) /\ left' = Set(left, c, h)
    BY DEF Probe
<1> HIDE DEF l, s, h
<1> QED
    BY <1>1, <1>2 DEF Set, ExecInv, ExecTypeOK

LEMMA CallKeeps ==
    ASSUME ExecInv, NEW c \in CL, NEW k \in Kind \ {"none"}, NEW t \in {Timeout, Never},
           Call(c, k, t)
    PROVE  ExecInv'
<1>1. /\ host[c] = "idle" /\ host' = [host EXCEPT ![c] = "connect"]
      /\ kind' = [kind EXCEPT ![c] = k]
      /\ ready' = [ready EXCEPT ![c] = IF k = "ready" THEN Readiness ELSE Never]
      /\ delayed' = IF stopped THEN delayed \cup {c} ELSE delayed
      /\ UNCHANGED <<agentUp, stopped, vmm, outcome, agent, guestLeft, cmd, held, clung, answer,
                     faults, gaveUp>>
    BY DEF Call, Set, machine, guestSide
<1>2. /\ limit' \in [CL -> 0 .. Never] /\ span' \in [CL -> 0 .. Never]
      /\ left' \in [CL -> 0 .. Never]
      /\ \A d \in CL \ {c} : limit'[d] = limit[d] /\ span'[d] = span[d] /\ left'[d] = left[d]
      /\ k # "ready" => limit'[c] = t /\ span'[c] = IF t = Never THEN Never ELSE t + Grace
  <2>1. CASE k = "ready"
    BY <2>1, Facts, ProbeTypes DEF Call
  <2>2. CASE k # "ready"
    <3> DEFINE s == IF t = Never THEN Never ELSE t + Grace
    <3>1. t \in 0 .. Never /\ s \in 0 .. Never /\ Handshake \in 0 .. Never
      BY Facts
    <3>2. /\ limit' = [limit EXCEPT ![c] = t] /\ span' = [span EXCEPT ![c] = s]
          /\ left' = [left EXCEPT ![c] = Handshake]
      BY <2>2 DEF Call, Set
    <3> HIDE DEF s
    <3>3. /\ limit' \in [CL -> 0 .. Never] /\ span' \in [CL -> 0 .. Never]
          /\ left' \in [CL -> 0 .. Never] /\ limit'[c] = t /\ span'[c] = s
          /\ \A d \in CL \ {c} : /\ limit'[d] = limit[d] /\ span'[d] = span[d]
                                 /\ left'[d] = left[d]
      BY <3>1, <3>2 DEF ExecInv, ExecTypeOK
    <3> QED
      BY <3>3 DEF s
  <2> QED
    BY <2>1, <2>2
<1>3. ExecTypeOK'
  <2>1. ready' \in [CL -> 0 .. Never]
    BY <1>1, Facts DEF ExecTypeOK
  <2> QED
    BY <1>1, <1>2, <2>1 DEF ExecInv, ExecTypeOK
<1>4. /\ host'[c] = "connect" /\ kind'[c] = k
      /\ \A d \in CL \ {c} : host'[d] = host[d] /\ kind'[d] = kind[d]
    BY <1>1 DEF ExecInv, ExecTypeOK
<1>5. OthersSame(c)
    BY <1>1, <1>2, <1>4 DEF OthersSame
<1>6. /\ OwnParts(c) /\ kind[c] = "none"
      /\ agent[c] = "none" /\ answer[c] = "none" /\ cmd[c] = "none" /\ c \notin clung
    BY <1>1, Facts DEF OwnParts, OneRequest
<1>7. OneRequest(c)' /\ TimersInStep(c)'
    BY <1>1, <1>2, <1>4, <1>6 DEF Kind, OneRequest, TimersInStep
<1>8. OwnParts(c)'
    BY <1>1, <1>4, <1>6, <1>7 DEF OwnParts
<1> QED
    BY <1>3, <1>5, <1>8, StepKeeps

LEMMA ConnectKeeps ==
    ASSUME ExecInv, NEW c \in CL, Connect(c)
    PROVE  ExecInv'
<1>1. /\ host[c] = "connect" /\ vmm /\ ~stopped /\ host' = [host EXCEPT ![c] = "send"]
      /\ left' = [left EXCEPT ![c] = span[c]]
      /\ UNCHANGED <<agentUp, stopped, vmm, kind, limit, span, ready, outcome, agent, guestLeft,
                     cmd, held, clung, answer, faults, delayed, gaveUp>>
    BY DEF Connect, Runs, Set, machine, guestSide
<1>2. ExecTypeOK'
    BY <1>1, Facts DEF ExecTypeOK
<1>3. /\ host'[c] = "send" /\ left'[c] = span[c]
      /\ \A d \in CL \ {c} : host'[d] = host[d] /\ left'[d] = left[d]
    BY <1>1 DEF ExecInv, ExecTypeOK
<1>4. OthersSame(c)
    BY <1>1, <1>3 DEF OthersSame
<1>5. OwnParts(c)
    BY Facts
<1>6. OneRequest(c)' /\ TimersInStep(c)'
    BY <1>1, <1>3, <1>5 DEF OwnParts, OneRequest, TimersInStep
<1>7. OwnParts(c)'
    BY <1>1, <1>3, <1>5, <1>6 DEF OwnParts
<1> QED
    BY <1>2, <1>4, <1>7, StepKeeps

\* The end of a call, or of one probe: whatever there was of it in the guest is over,
\* unless the guest was stopped meanwhile.
LEMMA FinishKeeps ==
    ASSUME ExecInv, NEW c \in CL, NEW o \in (Reply \ {"error"}) \cup {"VsockError", "OSError"},
           Finish(c, o), host[c] \in {"connect", "send", "wait"}, faults' \in 0 .. MaxFaults,
           UNCHANGED <<agentUp, stopped, vmm, agent, guestLeft, cmd, held, clung, delayed>>,
           gaveUp' \in {gaveUp, gaveUp \cup {c}},
           gaveUp' # gaveUp /\ kind[c] # "ready" /\ vmm => c \in delayed \cup clung,
           kind[c] # "ready" /\ limit[c] # Never /\ c \notin delayed
             => agent[c] \notin {"read", "run"}
    PROVE  ExecInv'
<1>1. OwnParts(c) /\ kind' = kind /\ ready' = ready /\ answer' = [answer EXCEPT ![c] = "none"]
    BY Facts DEF Finish, Set
<1>2. /\ host' \in [CL -> {"idle", "connect", "send", "wait", "done"}]
      /\ limit' \in [CL -> 0 .. Never] /\ span' \in [CL -> 0 .. Never]
      /\ left' \in [CL -> 0 .. Never]
      /\ outcome' \in [CL -> (Reply \ {"error"}) \cup {"VsockError", "OSError"}]
      /\ \A d \in CL \ {c} : /\ host'[d] = host[d] /\ limit'[d] = limit[d]
                             /\ span'[d] = span[d] /\ left'[d] = left[d]
      /\ \/ kind[c] = "ready" /\ host'[c] = "connect"
         \/ host'[c] = "done" /\ limit' = limit /\ span' = span
  <2>1. CASE kind[c] = "ready" /\ o = "VsockError" /\ ready[c] > 0
    <3>1. host' = [host EXCEPT ![c] = "connect"] /\ Probe(c, ready[c]) /\ outcome' = outcome
      BY <2>1 DEF Finish, Set
    <3>2. ready[c] \in 0 .. Never
      BY Facts
    <3> QED
      BY <2>1, <3>1, <3>2, ProbeTypes DEF ExecInv, ExecTypeOK
  <2>2. CASE ~(kind[c] = "ready" /\ o = "VsockError" /\ ready[c] > 0)
    <3>1. /\ host' = [host EXCEPT ![c] = "done"] /\ outcome' = [outcome EXCEPT ![c] = o]
          /\ left' = [left EXCEPT ![c] = Never] /\ limit' = limit /\ span' = span
      BY <2>2 DEF Finish, Set
    <3>2. Never \in 0 .. Never
      BY Facts
    <3> QED
      BY <3>1, <3>2 DEF ExecInv, ExecTypeOK
  <2> QED
    BY <2>1, <2>2
<1>3. ExecTypeOK'
    BY <1>1, <1>2 DEF ExecInv, ExecTypeOK, Reply
<1>4. answer'[c] = "none" /\ \A d \in CL \ {c} : answer'[d] = answer[d]
    BY <1>1 DEF ExecInv, ExecTypeOK
<1>5. OthersSame(c)
    BY <1>1, <1>2, <1>4 DEF OthersSame
<1>6. OneRequest(c)'
    BY <1>1, <1>2, <1>4 DEF OwnParts, OneRequest
<1>7. TimersInStep(c)'
    BY <1>1, <1>2 DEF TimersInStep
<1>8. OwnParts(c)'
    BY <1>1, <1>2, <1>6, <1>7 DEF OwnParts, Busy
<1> QED
    BY <1>3, <1>5, <1>8, StepKeeps

LEMMA ConnectFailsKeeps ==
    ASSUME ExecInv, NEW c \in CL, ConnectFails(c)
    PROVE  ExecInv'
<1>1. /\ host[c] = "connect" /\ Finish(c, "VsockError")
      /\ UNCHANGED <<agentUp, stopped, vmm, agent, guestLeft, cmd, held, clung, faults, delayed,
                     gaveUp>>
    BY DEF ConnectFails, machine, guestSide
<1>2. kind[c] # "ready" => agent[c] \notin {"read", "run"}
    BY <1>1, Facts DEF OwnParts, OneRequest
<1>3. faults' \in 0 .. MaxFaults
    BY <1>1 DEF ExecInv, ExecTypeOK
<1> QED
    BY <1>1, <1>2, <1>3, FinishKeeps

\* The host's timeout strikes a call only when the guest was stopped or the pipes held.
LEMMA HostTimeoutKeeps ==
    ASSUME ExecInv, NEW c \in CL, HostTimeout(c)
    PROVE  ExecInv'
<1>1. /\ host[c] = "wait" /\ answer[c] = "none" /\ left[c] = 0 /\ Finish(c, "VsockError")
      /\ gaveUp' = gaveUp \cup {c}
      /\ UNCHANGED <<agentUp, stopped, vmm, agent, guestLeft, cmd, held, clung, faults, delayed>>
    BY DEF HostTimeout, machine, guestSide
<1>2. OwnParts(c) /\ kind[c] \in Kind
    BY Facts DEF ExecTypeOK
<1>3. kind[c] # "ready" /\ vmm => c \in delayed \cup clung
    BY <1>1, <1>2 DEF OwnParts, OneRequest, TimersInStep, Kind
<1>4. kind[c] # "ready" /\ c \notin delayed => agent[c] \notin {"read", "run"}
    BY <1>2, <1>3 DEF OwnParts, OneRequest
<1>5. faults' \in 0 .. MaxFaults
    BY <1>1 DEF ExecInv, ExecTypeOK
<1> QED
    BY <1>1, <1>3, <1>4, <1>5, FinishKeeps

LEMMA ReceiveKeeps ==
    ASSUME ExecInv, NEW c \in CL, Receive(c)
    PROVE  ExecInv'
<1>1. /\ host[c] = "wait" /\ answer[c] # "none"
      /\ UNCHANGED <<agentUp, stopped, vmm, agent, guestLeft, cmd, held, clung, delayed, gaveUp>>
    BY DEF Receive, machine, guestSide
<1>2. kind[c] # "ready" => agent[c] = "none"
    BY <1>1, Facts DEF OwnParts, OneRequest
<1>3. faults' \in 0 .. MaxFaults
    BY Facts DEF Receive, Fault, ExecTypeOK
<1>4. PICK o \in (Reply \ {"error"}) \cup {"VsockError", "OSError"} : Finish(c, o)
  <2>1. answer[c] \in Reply
    BY DEF ExecInv, ExecTypeOK
  <2> QED
    BY <2>1 DEF Receive, Reply
<1> QED
    BY <1>1, <1>2, <1>3, <1>4, FinishKeeps

LEMMA LostKeeps ==
    ASSUME ExecInv, NEW c \in CL, Lost(c)
    PROVE  ExecInv'
<1>1. /\ ~vmm /\ host[c] \in {"send", "wait"}
      /\ UNCHANGED <<agentUp, stopped, vmm, agent, guestLeft, cmd, held, clung, faults, delayed,
                     gaveUp>>
    BY DEF Lost, machine, guestSide
<1>2. agent[c] = "none" /\ faults' \in 0 .. MaxFaults
    BY <1>1, Facts DEF OwnParts, ExecTypeOK
<1>3. PICK o \in {"VsockError", "OSError"} : Finish(c, o)
    BY DEF Lost
<1> QED
    BY <1>1, <1>2, <1>3, FinishKeeps

LEMMA SendKeeps ==
    ASSUME ExecInv, NEW c \in CL, Send(c)
    PROVE  ExecInv'
<1>1. /\ host[c] = "send" /\ vmm /\ host' = [host EXCEPT ![c] = "wait"]
      /\ agent' = [agent EXCEPT ![c] = "read"] /\ cmd' = [cmd EXCEPT ![c] = "none"]
      /\ guestLeft' = [guestLeft EXCEPT ![c] = Never] /\ held' = held \ {c}
      /\ UNCHANGED <<agentUp, stopped, vmm, kind, limit, span, left, ready, outcome, answer,
                     faults, delayed, gaveUp, clung>>
    BY DEF Send, Set, machine
<1>2. ExecTypeOK'
    BY <1>1, Facts DEF ExecTypeOK
<1>3. /\ host'[c] = "wait" /\ agent'[c] = "read" /\ cmd'[c] = "none" /\ guestLeft'[c] = Never
      /\ \A d \in CL \ {c} : /\ host'[d] = host[d] /\ agent'[d] = agent[d] /\ cmd'[d] = cmd[d]
                             /\ guestLeft'[d] = guestLeft[d]
    BY <1>1 DEF ExecInv, ExecTypeOK
<1>4. OthersSame(c)
    BY <1>1, <1>3 DEF OthersSame
<1>5. OwnParts(c)
    BY Facts
<1>6. OneRequest(c)'
    BY <1>1, <1>3, <1>5 DEF OwnParts, OneRequest
<1>7. TimersInStep(c)'
  <2>1. kind[c] # "ready" => span[c] > 0
    BY <1>5, Facts DEF OwnParts, OneRequest
  <2> QED
    BY <1>1, <1>3, <1>5, <2>1 DEF OwnParts, TimersInStep
<1>8. OwnParts(c)'
    BY <1>1, <1>3, <1>5, <1>6, <1>7 DEF OwnParts, Busy
<1> QED
    BY <1>2, <1>4, <1>8, StepKeeps

-----------------------------------------------------------------------------
\* The guest agent

LEMMA StartKeeps ==
    ASSUME ExecInv, NEW c \in CL, Start(c)
    PROVE  ExecInv'
<1>1. /\ agent[c] = "read" /\ vmm /\ ~stopped
      /\ UNCHANGED <<agentUp, stopped, vmm, host, kind, limit, span, left, ready, outcome, gaveUp,
                     held, delayed, clung>>
    BY DEF Start, Runs, machine, hostSide
<1>2. \/ /\ kind[c] = "detach" /\ cmd' = [cmd EXCEPT ![c] = "background"]
         /\ agent' = [agent EXCEPT ![c] = "reply"]
         /\ UNCHANGED <<answer, guestLeft, faults>>
      \/ /\ kind[c] # "detach" /\ cmd' = [cmd EXCEPT ![c] = "running"]
         /\ agent' = [agent EXCEPT ![c] = "run"]
         /\ guestLeft' = [guestLeft EXCEPT ![c] = limit[c]] /\ UNCHANGED <<answer, faults>>
      \/ /\ agent' = [agent EXCEPT ![c] = "none"] /\ faults' \in 0 .. MaxFaults
         /\ answer' = (IF host[c] = "wait" THEN [answer EXCEPT ![c] = "error"] ELSE answer)
         /\ UNCHANGED <<cmd, guestLeft>>
    BY Facts DEF Start, Set, Fault, ExecTypeOK
<1>3. ExecTypeOK'
    BY <1>1, <1>2, Facts DEF ExecTypeOK, Reply
<1>4. /\ \/ /\ kind[c] = "detach" /\ cmd'[c] = "background" /\ agent'[c] = "reply"
            /\ answer'[c] = answer[c]
         \/ /\ kind[c] # "detach" /\ cmd'[c] = "running" /\ agent'[c] = "run"
            /\ guestLeft'[c] = limit[c] /\ answer'[c] = answer[c]
         \/ /\ agent'[c] = "none" /\ cmd'[c] = cmd[c]
            /\ answer'[c] = IF host[c] = "wait" THEN "error" ELSE answer[c]
      /\ \A d \in CL \ {c} : /\ cmd'[d] = cmd[d] /\ agent'[d] = agent[d]
                             /\ guestLeft'[d] = guestLeft[d] /\ answer'[d] = answer[d]
    BY <1>2 DEF ExecInv, ExecTypeOK
<1>5. OthersSame(c)
    BY <1>1, <1>4 DEF OthersSame
<1>6. OwnParts(c)
    BY Facts
<1>7. OneRequest(c)'
    BY <1>1, <1>4, <1>6 DEF OwnParts, OneRequest
<1>8. TimersInStep(c)'
  <2>1. kind[c] # "ready" => /\ limit[c] \in {Timeout, Never}
                             /\ span[c] = IF limit[c] = Never THEN Never ELSE limit[c] + Grace
    BY <1>6 DEF OwnParts, OneRequest
  <2> QED
    BY <1>1, <1>4, <1>6, <2>1, Facts DEF OwnParts, TimersInStep
<1>9. OwnParts(c)'
    BY <1>1, <1>4, <1>6, <1>7, <1>8 DEF OwnParts, Busy
<1> QED
    BY <1>3, <1>5, <1>9, StepKeeps

LEMMA CommunicatedKeeps ==
    ASSUME ExecInv, NEW c \in CL, Communicated(c)
    PROVE  ExecInv'
<1>1. /\ agent[c] = "run" /\ cmd[c] = "none" /\ c \notin held /\ vmm /\ ~stopped
      /\ agent' = [agent EXCEPT ![c] = "reply"] /\ guestLeft' = [guestLeft EXCEPT ![c] = Never]
      /\ UNCHANGED <<agentUp, stopped, vmm, host, kind, limit, span, left, ready, outcome, gaveUp,
                     cmd, held, answer, faults, delayed, clung>>
    BY DEF Communicated, Runs, Set, machine, hostSide
<1>2. ExecTypeOK'
    BY <1>1, Facts DEF ExecTypeOK
<1>3. /\ agent'[c] = "reply"
      /\ \A d \in CL \ {c} : agent'[d] = agent[d] /\ guestLeft'[d] = guestLeft[d]
    BY <1>1 DEF ExecInv, ExecTypeOK
<1>4. OthersSame(c)
    BY <1>1, <1>3 DEF OthersSame
<1>5. OwnParts(c)
    BY Facts
<1>6. OneRequest(c)' /\ TimersInStep(c)'
    BY <1>1, <1>3, <1>5 DEF OwnParts, OneRequest, TimersInStep
<1>7. OwnParts(c)'
    BY <1>1, <1>3, <1>5, <1>6 DEF OwnParts, Busy
<1> QED
    BY <1>2, <1>4, <1>7, StepKeeps

LEMMA GuestTimeoutKeeps ==
    ASSUME ExecInv, NEW c \in CL, GuestTimeout(c)
    PROVE  ExecInv'
<1>1. /\ agent[c] = "run" /\ vmm /\ ~stopped /\ cmd' = [cmd EXCEPT ![c] = "none"]
      /\ clung' = (IF c \in held THEN clung \cup {c} ELSE clung)
      /\ agent' = [agent EXCEPT ![c] = "drain"] /\ guestLeft' = [guestLeft EXCEPT ![c] = Never]
      /\ UNCHANGED <<agentUp, stopped, vmm, host, kind, limit, span, left, ready, outcome, gaveUp,
                     held, answer, faults, delayed>>
    BY DEF GuestTimeout, Runs, Set, machine, hostSide
<1>2. ExecTypeOK'
    BY <1>1, Facts DEF ExecTypeOK
<1>3. /\ agent'[c] = "drain" /\ cmd'[c] = "none"
      /\ \A d \in CL \ {c} : /\ agent'[d] = agent[d] /\ guestLeft'[d] = guestLeft[d]
                             /\ cmd'[d] = cmd[d]
    BY <1>1 DEF ExecInv, ExecTypeOK
<1>4. OthersSame(c)
    BY <1>1, <1>3 DEF OthersSame
<1>5. OwnParts(c)
    BY Facts
<1>6. OneRequest(c)' /\ TimersInStep(c)'
    BY <1>1, <1>3, <1>5 DEF OwnParts, OneRequest, TimersInStep
<1>7. OwnParts(c)'
    BY <1>1, <1>3, <1>5, <1>6 DEF OwnParts, Busy
<1> QED
    BY <1>2, <1>4, <1>7, StepKeeps

LEMMA RespondKeeps ==
    ASSUME ExecInv, NEW c \in CL, Respond(c)
    PROVE  ExecInv'
<1> DEFINE r == IF agent[c] = "drain" THEN "timed_out"
                ELSE IF kind[c] = "detach" THEN "detached" ELSE "result"
<1>1. /\ vmm /\ ~stopped /\ agent[c] \in {"reply", "drain"} /\ agent' = [agent EXCEPT ![c] = "none"]
      /\ answer' = IF host[c] # "wait" THEN answer ELSE [answer EXCEPT ![c] = r]
      /\ UNCHANGED <<agentUp, stopped, vmm, host, kind, limit, span, left, ready, outcome, gaveUp,
                     guestLeft, cmd, held, faults, delayed, clung>>
    BY DEF Respond, Runs, Set, machine, hostSide
<1>2. r \in Reply /\ r # "none"
    BY DEF Reply
<1> HIDE DEF r
<1>3. ExecTypeOK'
    BY <1>1, <1>2 DEF ExecInv, ExecTypeOK
<1>4. /\ agent'[c] = "none" /\ answer'[c] = IF host[c] # "wait" THEN answer[c] ELSE r
      /\ \A d \in CL \ {c} : agent'[d] = agent[d] /\ answer'[d] = answer[d]
    BY <1>1 DEF ExecInv, ExecTypeOK
<1>5. OthersSame(c)
    BY <1>1, <1>4 DEF OthersSame
<1>6. OwnParts(c)
    BY Facts
<1>7. OneRequest(c)' /\ TimersInStep(c)'
    BY <1>1, <1>2, <1>4, <1>6 DEF OwnParts, OneRequest, TimersInStep
<1>8. OwnParts(c)'
    BY <1>1, <1>4, <1>6, <1>7 DEF OwnParts, Busy
<1> QED
    BY <1>3, <1>5, <1>8, StepKeeps

\* What the commands do by themselves.
LEMMA CommandsKeep ==
    ASSUME ExecInv, NEW c \in CL, CmdForks(c) \/ CmdExits(c) \/ HolderExits(c)
    PROVE  ExecInv'
<1>1. UNCHANGED <<agentUp, stopped, vmm, host, kind, limit, span, left, ready, outcome, gaveUp,
                  agent, guestLeft, answer, faults, delayed, clung>>
    BY DEF CmdForks, CmdExits, HolderExits, machine, hostSide
<1>2. \/ held' = held \cup {c} /\ cmd' = cmd /\ agent[c] = "run"
      \/ held' = held \ {c} /\ cmd' = cmd
      \/ held' = held /\ cmd' = [cmd EXCEPT ![c] = "none"]
    BY DEF CmdForks, CmdExits, HolderExits, Set
<1>3. ExecTypeOK'
    BY <1>1, <1>2 DEF ExecInv, ExecTypeOK
<1>4. /\ cmd'[c] \in {cmd[c], "none"} /\ \A d \in CL \ {c} : cmd'[d] = cmd[d]
      /\ c \in held' => c \in held \/ agent[c] = "run"
    BY <1>2 DEF ExecInv, ExecTypeOK
<1>5. OthersSame(c)
    BY <1>1, <1>2, <1>4 DEF OthersSame
<1>6. OwnParts(c)
    BY Facts
<1>7. OneRequest(c)'
    BY <1>1, <1>4, <1>6 DEF OwnParts, OneRequest
<1>8. TimersInStep(c)'
    BY <1>1, <1>6 DEF OwnParts, TimersInStep
<1>9. OwnParts(c)'
    BY <1>1, <1>4, <1>6, <1>7, <1>8 DEF OwnParts, Busy
<1> QED
    BY <1>3, <1>5, <1>9, StepKeeps

-----------------------------------------------------------------------------
\* The machine

\* Whoever is calling a guest that stops is delayed; of the rest nothing changes.
LEMMA MachineKeeps ==
    ASSUME ExecInv, Boot \/ Stop \/ Resume \/ VMMDies
    PROVE  ExecInv'
<1>1. /\ UNCHANGED <<host, kind, limit, span, left, ready, outcome, gaveUp, answer, clung>>
      /\ vmm' => vmm
      /\ \/ delayed' = delayed /\ (stopped' => stopped)
         \/ delayed' = delayed \cup Busy
      /\ faults' \in 0 .. MaxFaults
      /\ agentUp' \in BOOLEAN /\ stopped' \in BOOLEAN /\ vmm' \in BOOLEAN
  <2>1. /\ MaxFaults \in Nat /\ faults \in 0 .. MaxFaults
        /\ agentUp \in BOOLEAN /\ stopped \in BOOLEAN /\ vmm \in BOOLEAN
    BY ExecAssumption DEF ExecInv, ExecTypeOK
  <2>2. CASE Boot
    BY <2>1, <2>2 DEF Boot, hostSide, guestSide
  <2>3. CASE Stop
    BY <2>1, <2>3 DEF Stop, Fault, hostSide, guestSide
  <2>4. CASE Resume
    BY <2>1, <2>4 DEF Resume, hostSide, guestSide
  <2>5. CASE VMMDies
    <3>1. /\ UNCHANGED <<host, kind, limit, span, left, ready, outcome, gaveUp, answer, clung>>
          /\ faults' \in 0 .. MaxFaults
      BY <2>1, <2>5 DEF VMMDies, Fault, hostSide
    <3>2. /\ ~vmm' /\ delayed' = delayed /\ stopped' = stopped /\ agentUp' = agentUp
          /\ vmm' \in BOOLEAN
      BY <2>5 DEF VMMDies
    <3> QED
      BY <2>1, <3>1, <3>2
  <2> QED
    BY <2>2, <2>3, <2>4, <2>5
<1>2. \/ UNCHANGED <<agent, guestLeft, cmd, held>> /\ vmm' = vmm
      \/ /\ agent' = [c \in CL |-> "none"] /\ cmd' = [c \in CL |-> "none"] /\ held' = {}
         /\ guestLeft' = [c \in CL |-> Never] /\ ~vmm'
    BY DEF Boot, Stop, Resume, VMMDies, guestSide
<1>3. ExecTypeOK'
  <2>1. Never \in 0 .. Never
    BY ExecAssumption
  <2> QED
    BY <1>1, <1>2, <2>1 DEF ExecInv, ExecTypeOK, Busy
<1>4. ASSUME NEW c \in CL
      PROVE  OwnParts(c)'
  <2>1. OwnParts(c)
    BY Facts
  <2>2. \/ /\ agent'[c] = agent[c] /\ cmd'[c] = cmd[c] /\ guestLeft'[c] = guestLeft[c]
           /\ (c \in held' <=> c \in held) /\ vmm' = vmm
        \/ agent'[c] = "none" /\ cmd'[c] = "none" /\ c \notin held' /\ ~vmm'
    BY <1>2
  <2>3. OneRequest(c)'
    BY <1>1, <2>1, <2>2 DEF OwnParts, OneRequest
  <2>4. TimersInStep(c)'
    BY <1>1, <2>1, <2>2 DEF OwnParts, TimersInStep
  <2>5. (stopped /\ c \in Busy => c \in delayed)'
    BY <1>1, <2>1 DEF OwnParts, Busy
  <2> QED
    BY <1>1, <2>1, <2>2, <2>3, <2>4, <2>5 DEF OwnParts
<1>5. ExecInv' <=> ExecTypeOK' /\ \A d \in CL : OwnParts(d)'
    BY DEF ExecInv, OwnParts, GuestAnswersFirst, MachineSound, Busy
<1> QED
    BY <1>3, <1>4, <1>5

LEMMA DownBounds ==
    ASSUME NEW n \in 0 .. Never
    PROVE  /\ Down(n) \in 0 .. Never /\ Down(Never) = Never
           /\ n # 0 /\ n # Never => Down(n) = n - 1
    BY ExecAssumption DEF Down

\* No tick passes while a step is due, so the timers keep their distance.
LEMMA TickKeeps ==
    ASSUME ExecInv, Tick
    PROVE  ExecInv'
<1>1. /\ UNCHANGED <<agentUp, stopped, vmm, host, kind, limit, span, outcome, agent, answer, cmd,
                     held, faults, delayed, gaveUp, clung>>
      /\ left' = [c \in CL |-> Down(left[c])] /\ ready' = [c \in CL |-> Down(ready[c])]
      /\ guestLeft' = IF Runs THEN [c \in CL |-> Down(guestLeft[c])] ELSE guestLeft
      /\ \A c \in CL : ~Prompt(c)
    BY DEF Tick, machine
<1>2. ExecTypeOK'
  <2>1. \A c \in CL : /\ Down(left[c]) \in 0 .. Never /\ Down(ready[c]) \in 0 .. Never
                      /\ Down(guestLeft[c]) \in 0 .. Never
    BY Facts, DownBounds
  <2> QED
    BY <1>1, <2>1 DEF ExecInv, ExecTypeOK
<1>3. ASSUME NEW c \in CL
      PROVE  OwnParts(c)'
  <2>1. OwnParts(c)
    BY Facts
  <2>2. OneRequest(c)'
    BY <1>1, <2>1 DEF OwnParts, OneRequest
  <2>3. TimersInStep(c)'
    <3>1. SUFFICES ASSUME kind[c] \in {"exec", "detach"}, vmm, c \notin delayed \cup clung
                   PROVE  /\ host[c] # "send"
                          /\ host[c] = "wait" /\ answer[c] = "none" =>
                               /\ agent[c] = "run" /\ left'[c] > 0
                               /\ IF limit[c] = Never THEN left'[c] = Never
                                  ELSE guestLeft'[c] <= Timeout /\ left'[c] = guestLeft'[c] + Grace
      BY <1>1 DEF TimersInStep
    <3>2. host[c] # "send"
      BY <1>1 DEF Prompt
    <3>3. ASSUME host[c] = "wait", answer[c] = "none"
          PROVE  /\ agent[c] = "run" /\ left'[c] > 0
                 /\ IF limit[c] = Never THEN left'[c] = Never
                    ELSE guestLeft'[c] <= Timeout /\ left'[c] = guestLeft'[c] + Grace
      <4>1. Runs
        BY <2>1, <3>1, <3>3 DEF OwnParts, Busy, Runs
      <4>2. agent[c] = "run" /\ guestLeft[c] # 0
        <5>1. /\ agent[c] # "none" /\ agent[c] \in {"none", "read", "run", "drain", "reply"}
              /\ agent[c] = "drain" => cmd[c] = "none" /\ c \notin held
          BY <2>1, <3>1, <3>3 DEF OwnParts, OneRequest, TimersInStep, ExecInv, ExecTypeOK
        <5> QED
          BY <1>1, <4>1, <5>1 DEF Prompt
      <4>3. /\ left'[c] = Down(left[c]) /\ guestLeft'[c] = Down(guestLeft[c])
        BY <1>1, <4>1
      <4>4. IF limit[c] = Never THEN left[c] = Never
            ELSE guestLeft[c] <= Timeout /\ left[c] = guestLeft[c] + Grace
        BY <2>1, <3>1, <3>3, <4>2 DEF OwnParts, TimersInStep
      <4>5. CASE limit[c] = Never
        BY <4>2, <4>3, <4>4, <4>5, DownBounds, Facts
      <4>6. CASE limit[c] # Never
        <5>1. /\ guestLeft[c] \in 1 .. Timeout /\ left[c] \in 1 .. Never - 1
          BY <4>2, <4>4, <4>6, Facts
        <5>2. left'[c] = left[c] - 1 /\ guestLeft'[c] = guestLeft[c] - 1
          BY <4>3, <5>1, DownBounds, Facts
        <5> QED
          BY <4>2, <4>4, <4>6, <5>1, <5>2, Facts
      <4> QED
        BY <4>5, <4>6
    <3> QED
      BY <3>2, <3>3
  <2> QED
    BY <1>1, <2>1, <2>2, <2>3 DEF OwnParts, Busy
<1>4. ExecInv' <=> ExecTypeOK' /\ \A d \in CL : OwnParts(d)'
    BY DEF ExecInv, OwnParts, GuestAnswersFirst, MachineSound, Busy
<1> QED
    BY <1>2, <1>3, <1>4

-----------------------------------------------------------------------------
\* The theorems

LEMMA ExecInitSound == ExecInit => ExecInv
<1> SUFFICES ASSUME ExecInit PROVE ExecInv
    OBVIOUS
<1>1. ExecTypeOK
  <2>1. MaxFaults \in Nat /\ 0 \in 0 .. MaxFaults /\ Never \in 0 .. Never
    BY ExecAssumption
  <2> QED
    BY <2>1 DEF ExecInit, ExecTypeOK, Kind, Reply
<1>2. \A c \in CL : OneRequest(c) /\ TimersInStep(c)
    BY ExecAssumption DEF ExecInit, OneRequest, TimersInStep
<1> QED
    BY <1>1, <1>2 DEF ExecInit, ExecInv, GuestAnswersFirst, MachineSound

LEMMA ExecStepSound == ExecInv /\ [ExecNext]_execVars => ExecInv'
<1> SUFFICES ASSUME ExecInv, [ExecNext]_execVars PROVE ExecInv'
    OBVIOUS
<1>1. ASSUME NEW c \in CL, NEW k \in Kind \ {"none"}, NEW t \in {Timeout, Never}, Call(c, k, t)
      PROVE  ExecInv'
    BY <1>1, CallKeeps
<1>2. ASSUME NEW c \in CL, HostStep(c)
      PROVE  ExecInv'
    BY <1>2, ConnectKeeps, ConnectFailsKeeps, SendKeeps, ReceiveKeeps, HostTimeoutKeeps, LostKeeps
       DEF HostStep
<1>3. ASSUME NEW c \in CL, AgentStep(c)
      PROVE  ExecInv'
    BY <1>3, StartKeeps, CommunicatedKeeps, GuestTimeoutKeeps, RespondKeeps DEF AgentStep
<1>4. CASE UNCHANGED execVars
    BY <1>4 DEF execVars, ExecInv, ExecTypeOK, GuestAnswersFirst, MachineSound, Busy, OneRequest,
       TimersInStep
<1> QED
    BY <1>1, <1>2, <1>3, <1>4, CommandsKeep, MachineKeeps, TickKeeps DEF ExecNext

\* Whatever the timeouts are: the guest's own timer and the host's run down together, and
\* a call that is over has left no command behind, unless the guest was stopped.
THEOREM ExecInvariant == ExecSpec => []ExecInv
    BY ExecInitSound, ExecStepSound, PTL DEF ExecSpec

\* The host's timeout (timeout_s plus host_grace_s) is only a backstop for the one the
\* agent enforces, and a timed call that has returned leaves no command running.
THEOREM TimeoutsWorkTogether == ExecSpec => []TimeoutsHold
<1>1. ASSUME ExecInv PROVE ReturnedIsOver
  <2>1. SUFFICES ASSUME NEW c \in CL, host[c] = "done", kind[c] = "exec", limit[c] # Never,
                        c \notin delayed
                 PROVE  cmd[c] # "running"
    BY DEF ReturnedIsOver
  <2> QED
    BY <1>1, <2>1 DEF ExecInv, OneRequest
<1>2. ExecInv => TimeoutsHold
    BY <1>1 DEF ExecInv, TimeoutsHold
<1> QED
    BY <1>2, ExecInvariant, PTL

=============================================================================
