------------------------------- MODULE Probes -------------------------------
(***************************************************************************)
(* The simulators that send one probe after another until their context     *)
(* ends: tunnel-dns and oast look up random names, scan connects to a list  *)
(* of ports.  Each probe has a context of its own, made from the one that   *)
(* run gave to Simulate.                                                    *)
(*                                                                         *)
(* Time is counted in ticks of 100 ms.  The program's own steps take no     *)
(* time: the clock stands still while one of them can be taken.             *)
(***************************************************************************)
EXTENDS Integers, SoftErrors

CONSTANTS Deadlines,   \* when the context of Simulate may end
          MaxTime,     \* bound: the clock stops here
          Ports        \* len(scanPorts)

ASSUME ProbesAssumption ==
  /\ Deadlines \subseteq 1..(MaxTime - 1)
  /\ MaxTime \in Nat
  /\ Ports \in Nat \ {0}

Kinds == {"tunnel", "oast", "scan"}
LookupTimeout == 2    \* 200 ms, tunnel-dns and oast
ScanTimeout == 2      \* 200 ms, scan without a deadline
Pauses == 1..4        \* 100 ms to 500 ms, oast

VARIABLES
  kind,      \* which simulator
  deadline,  \* of the context of Simulate
  now,
  pc,        \* "top" of the loop, "pause", "probe", "rest" or "returned"
  timer,     \* when the pause of oast ends
  start,     \* when the last probe started
  until,     \* when the context of the last probe ends
  probes,    \* how many probes were started
  err        \* what Simulate returned

vars == <<kind, deadline, now, pc, timer, start, until, probes, err>>

\* How a probe may fail.
ErrorsOf(k) == {"timeout"} \cup (IF k = "scan" THEN DialErrors ELSE LookupErrors)

Ignored(e) ==
  isSoftError(e, IF kind = "scan" THEN {"refused"} ELSE {"no such host"})

Init ==
  /\ kind \in Kinds
  /\ deadline \in Deadlines
  /\ now = 0
  /\ pc = "top"
  /\ timer = 0
  /\ start = 0
  /\ until = 0
  /\ probes = 0
  /\ err = "none"

Return(e) ==
  /\ err' = e
  /\ pc' = "returned"
  /\ UNCHANGED <<kind, deadline, now, timer, start, until, probes>>

\* Mutant: the context of a probe is made from context.Background().
MutUntil(timeout) == now + timeout

\* context.WithTimeout: never later than the parent.
Until(timeout) == IF now + timeout < deadline THEN now + timeout ELSE deadline

Probe(timeout) ==
  /\ start' = now
  /\ until' = Until(timeout)
  /\ probes' = probes + 1
  /\ pc' = "probe"
  /\ UNCHANGED <<kind, deadline, now, timer, err>>

TunnelTop ==
  /\ kind = "tunnel" /\ pc = "top"
  /\ IF now >= deadline THEN Return("nil") ELSE Probe(LookupTimeout)

OastTop ==
  /\ kind = "oast" /\ pc = "top"
  /\ \E pause \in Pauses : timer' = now + pause
  /\ pc' = "pause"
  /\ UNCHANGED <<kind, deadline, now, start, until, probes, err>>

\* Mutant: the select has no case for the context.
MutOastPause == kind = "oast" /\ pc = "pause" /\ now >= timer /\ Probe(LookupTimeout)

\* A select between the context and the timer: either, when both are ready.
OastPause ==
  /\ kind = "oast" /\ pc = "pause"
  /\ \/ now >= deadline /\ Return("nil")
     \/ now >= timer /\ Probe(LookupTimeout)

\* Mutant: the deadline is not looked at.
MutCallTimeout == ScanTimeout

\* The whole time divided among the ports; Simulate starts at time 0.
CallTimeout == deadline \div Ports

ScanTop ==
  /\ kind = "scan" /\ pc = "top"
  /\ IF probes = Ports THEN Return("nil") ELSE Probe(CallTimeout)

\* The probe is answered, or fails, by the end of its context.
ProbeEnds ==
  /\ pc = "probe"
  /\ \/ pc' = (IF kind = "oast" THEN "top" ELSE "rest")
        /\ UNCHANGED <<kind, deadline, now, timer, start, until, probes, err>>
     \/ \E e \in ErrorsOf(kind) : ~Ignored(e) /\ Return("error")

\* Mutant: no wait for the context of the probe.
MutRest ==
  /\ pc = "rest"
  /\ pc' = "top"
  /\ UNCHANGED <<kind, deadline, now, timer, start, until, probes, err>>

Rest ==
  /\ pc = "rest" /\ now >= until
  /\ pc' = "top"
  /\ UNCHANGED <<kind, deadline, now, timer, start, until, probes, err>>

Tick ==
  /\ now < MaxTime
  /\ \/ pc \in {"probe", "rest"} /\ now < until
     \/ pc = "pause" /\ now < timer /\ now < deadline
  /\ now' = now + 1
  /\ UNCHANGED <<kind, deadline, pc, timer, start, until, probes, err>>

Terminated == pc = "returned" /\ UNCHANGED vars

Next ==
  \/ TunnelTop \/ OastTop \/ OastPause \/ ScanTop \/ ProbeEnds \/ Rest \/ Tick
  \/ Terminated

\* Time passes, Go runs what can run, and the resolver and the dialer heed
\* the context they are given.
Fairness ==
  /\ WF_vars(TunnelTop \/ OastTop \/ ScanTop \/ Rest)
  /\ WF_vars(Tick)
  /\ WF_vars(OastPause)
  /\ WF_vars(ProbeEnds)

Spec == Init /\ [][Next]_vars /\ Fairness
-----------------------------------------------------------------------------
\* Every variable keeps to its range; no context outlives its parent.
TypeOK ==
  /\ kind \in Kinds
  /\ deadline \in Deadlines
  /\ now \in 0..MaxTime
  /\ pc \in {"top", "pause", "probe", "rest", "returned"}
  /\ timer \in 0..(deadline + 4)
  /\ {start, until} \subseteq 0..deadline
  /\ probes \in Nat
  /\ err \in {"none", "nil", "error"}

\* Simulate is back when its context ends, however the last probe, its rest
\* and the pause before it lie around the deadline.
EndsInTime == now <= deadline

\* No lookup of tunnel-dns and no port of scan is started when the time is
\* over: every port is tried while there is still time for it.
TimelyProbes == pc = "probe" /\ kind # "oast" => start < deadline \/ deadline < Ports

\* Simulate does not flood: the starts of two probes are apart by the timeout
\* of a lookup (tunnel-dns), the least pause (oast) or the share of a port.
Gap ==
  CASE kind = "tunnel" -> LookupTimeout
    [] kind = "oast" -> 1
    [] kind = "scan" -> deadline \div Ports

Spaced == [][probes' = probes + 1 /\ probes > 0 => start' - start >= Gap]_vars

\* Simulate returns: an expired context never makes the loop spin.
Returns == <>(pc = "returned")
=============================================================================
