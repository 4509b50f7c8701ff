------------------------------- MODULE Runner -------------------------------
(***************************************************************************)
(* "flightsim run": the loop over the selected simulations (cmd/run/run.go).*)
(* Each one is initialised, asked for hosts, simulated host by host under a *)
(* context with the module's timeout, and cleaned up.  Any step may fail,   *)
(* and Simulate may panic.                                                  *)
(***************************************************************************)
EXTENDS Integers, Sequences, FiniteSets

CONSTANTS
  Modules,       \* names of modules; one object each, shared by its selections
  NumOfHosts,    \* Module.NumOfHosts of each
  FastModules,   \* those with Module.Fast
  Holders,       \* those whose Init opens what Cleanup closes (icmp, tor)
  HostsMayFail,  \* those whose Hosts may return an error
  Unbounded,     \* those whose Simulate ignores its context (telegram-bot)
  Quiet,         \* those whose Hosts only reads tables of the program
  MaxSims,       \* bound: selections on one command line
  MaxHosts,      \* bound: hosts that a module's Hosts returns
  Sizes          \* values of -size

\* ICMPtunnel.Hosts and TorSimulator.Hosts always return a nil error: without
\* this, the "continue" at run.go:439 would leave their handles open.
ASSUME RunnerAssumption ==
  /\ NumOfHosts \in [Modules -> Nat]
  /\ Sizes \subseteq Nat
  /\ MaxSims \in Nat /\ MaxHosts \in Nat
  /\ Holders \subseteq Modules
  /\ Holders \cap HostsMayFail = {}

VARIABLES
  sims,      \* the modules selected, in order
  opts,      \* the flags: size, fast and dry
  pc,        \* where run is: see Pcs
  simN,      \* the current simulation, from 1
  hosts,     \* how many hosts it simulates
  hostN,     \* the current host, from 1
  okHosts,   \* how many succeeded
  handle,    \* the socket or process of each holder: "nil", "open", "closed"
  ctx,       \* the last context: its state, and the module it was made for
  network    \* some call so far reached for the network

sim == <<hosts, hostN, okHosts>>
vars == <<sims, opts, pc, simN, sim, handle, ctx, network>>

Pcs == {"probe", "init", "hosts", "host", "simulate", "wait", "done", "cleanup", "bye"}

\* "cut" is a context cancelled before its timeout, "elapsed" one after.
CtxStates == {"none", "live", "expired", "cut", "elapsed"}

Selections == UNION {[1..n -> Modules] : n \in 1..MaxSims}

Module == sims[simN]

Init ==
  /\ sims \in Selections
  /\ opts \in [size : Sizes, fast : BOOLEAN, dry : BOOLEAN]
  /\ pc = "probe"
  /\ simN = 1
  /\ hosts = 0
  /\ hostN = 1
  /\ okHosts = 0
  /\ handle = [m \in Modules |-> "nil"]
  /\ ctx = [state |-> "none", for |-> sims[1]]
  /\ network = FALSE

\* getDefaultDNSIntf looks a name up and connects to the resolver.
Probe ==
  /\ pc = "probe"
  /\ pc' = "init"
  /\ network' = TRUE
  /\ UNCHANGED <<sims, opts, simN, sim, handle, ctx>>

\* Mutant: okHosts is declared outside the loop over the simulations.
MutKeepOkHosts ==
  /\ pc = "init"
  /\ IF Module \in Holders
       THEN handle' = [handle EXCEPT ![Module] = "open"] /\ network' = TRUE
       ELSE UNCHANGED <<handle, network>>
  /\ pc' = "hosts"
  /\ UNCHANGED <<sims, opts, simN, sim, ctx>>

InitOk ==
  /\ pc = "init"
  /\ okHosts' = 0
  /\ IF Module \in Holders
       THEN handle' = [handle EXCEPT ![Module] = "open"] /\ network' = TRUE
       ELSE UNCHANGED <<handle, network>>
  /\ pc' = "hosts"
  /\ UNCHANGED <<sims, opts, simN, hosts, hostN, ctx>>

InitFails ==
  /\ pc = "init"
  /\ Module \in Holders
  /\ okHosts' = 0
  /\ pc' = "cleanup"
  /\ UNCHANGED <<sims, opts, simN, hosts, hostN, handle, ctx, network>>

NextSim ==
  IF simN < Len(sims) THEN simN' = simN + 1 /\ pc' = "init"
                      ELSE pc' = "bye" /\ UNCHANGED simN

Asked == network' = (network \/ Module \notin Quiet)

\* Mutant: run returns the error of Hosts.
MutHostsFatal ==
  /\ pc = "hosts"
  /\ Module \in HostsMayFail
  /\ pc' = "bye"
  /\ Asked
  /\ UNCHANGED <<sims, opts, simN, sim, handle, ctx>>

\* The error of Hosts continues with the next simulation: no Cleanup.
HostsFails ==
  /\ pc = "hosts"
  /\ Module \in HostsMayFail
  /\ NextSim
  /\ Asked
  /\ UNCHANGED <<sims, opts, sim, handle, ctx>>

numOfHosts == IF opts.size = 0 THEN NumOfHosts[Module] ELSE opts.size

\* A random sample when there are more than needed.
Sampled(n) == IF numOfHosts > 0 /\ n > numOfHosts THEN numOfHosts ELSE n

HostsOk ==
  /\ pc = "hosts"
  /\ \E n \in 0..MaxHosts : hosts' = Sampled(n)
  /\ hostN' = 1
  /\ pc' = "host"
  /\ Asked
  /\ UNCHANGED <<sims, opts, simN, okHosts, handle, ctx>>

NoMoreHosts ==
  /\ pc = "host"
  /\ hostN > hosts
  /\ pc' = "done"
  /\ UNCHANGED <<sims, opts, simN, sim, handle, ctx, network>>

\* A dry run only prints the host.
Skip ==
  /\ pc = "host"
  /\ hostN <= hosts
  /\ opts.dry
  /\ hostN' = hostN + 1
  /\ UNCHANGED <<sims, opts, pc, simN, hosts, okHosts, handle, ctx, network>>

StartHost ==
  /\ pc = "host"
  /\ hostN <= hosts
  /\ ~opts.dry
  /\ ctx' = [state |-> "live", for |-> Module]
  /\ pc' = "simulate"
  /\ network' = TRUE
  /\ UNCHANGED <<sims, opts, simN, sim, handle>>

\* The timer of a context that was not cancelled.
Expire ==
  /\ ctx.state = "live"
  /\ ctx' = [ctx EXCEPT !.state = "expired"]
  /\ UNCHANGED <<sims, opts, pc, simN, sim, handle, network>>

SimulateReturns ==
  /\ pc = "simulate"
  /\ okHosts' \in {okHosts, okHosts + 1}
  /\ pc' = "wait"
  /\ UNCHANGED <<sims, opts, simN, hosts, hostN, handle, ctx, network>>

\* The recover in the deferred function: the hosts left are given up, and
\* neither the wait nor cancel happens.
SimulatePanics ==
  /\ pc = "simulate"
  /\ pc' = "done"
  /\ UNCHANGED <<sims, opts, simN, sim, handle, ctx, network>>

\* Mutant: "and" instead of "or" in the test for the very last iteration.
MutMustWait ==
  ~(opts.fast \/ Module \in FastModules) /\ (simN < Len(sims) /\ hostN < hosts)

MustWait ==
  ~(opts.fast \/ Module \in FastModules) /\ (simN < Len(sims) \/ hostN < hosts)

\* The wait for the context, and cancel.
Wait ==
  /\ pc = "wait"
  /\ MustWait => ctx.state = "expired"
  /\ ctx' = [ctx EXCEPT !.state = IF @ = "expired" THEN "elapsed" ELSE "cut"]
  /\ hostN' = hostN + 1
  /\ pc' = "host"
  /\ UNCHANGED <<sims, opts, simN, hosts, okHosts, handle, network>>

PrintDone ==
  /\ pc = "done"
  /\ pc' = "cleanup"
  /\ UNCHANGED <<sims, opts, simN, sim, handle, ctx, network>>

\* Mutant: a Cleanup that does nothing.
MutNoCleanup ==
  /\ pc = "cleanup"
  /\ NextSim
  /\ UNCHANGED <<sims, opts, sim, handle, ctx, network>>

\* Cleanup closes the handle and keeps it: a later one may close it again.
Cleanup ==
  /\ pc = "cleanup"
  /\ handle' = [handle EXCEPT ![Module] = IF @ = "nil" THEN "nil" ELSE "closed"]
  /\ NextSim
  /\ UNCHANGED <<sims, opts, sim, ctx, network>>

Terminated == pc = "bye" /\ UNCHANGED vars

Sequential ==
  \/ Probe \/ InitOk \/ InitFails \/ HostsFails \/ HostsOk
  \/ NoMoreHosts \/ Skip \/ StartHost \/ Wait \/ PrintDone \/ Cleanup

Simulate == SimulateReturns \/ SimulatePanics

Next == Sequential \/ Simulate \/ Expire \/ Terminated

\* A context's timer fires, and Simulate returns when the module heeds it.
Fairness ==
  /\ WF_vars(Sequential)
  /\ WF_vars(Expire)
  /\ WF_vars(Simulate /\ Module \notin Unbounded)

Safety == Init /\ [][Next]_vars
Spec == Safety /\ Fairness
-----------------------------------------------------------------------------
\* Every variable keeps to its range.
TypeOK ==
  /\ sims \in Selections
  /\ opts \in [size : Sizes, fast : BOOLEAN, dry : BOOLEAN]
  /\ pc \in Pcs
  /\ simN \in DOMAIN sims
  /\ hosts \in 0..MaxHosts
  /\ hostN \in 1..(MaxHosts + 1)
  /\ okHosts \in 0..MaxHosts
  /\ handle \in [Modules -> {"nil", "open", "closed"}]
  /\ ctx \in [state : CtxStates, for : Modules]
  /\ network \in BOOLEAN

\* A socket or process is open only during its own simulation, whatever
\* failed before and however often the module is selected; and while hosts
\* are simulated it is open.
HandlesAreCurrent ==
  /\ \A m \in Holders :
       handle[m] = "open" => m = Module /\ pc \notin {"probe", "init", "bye"}
  /\ pc \in {"host", "simulate", "wait"} /\ Module \in Holders => handle[Module] = "open"

\* "Done (k/n)" counts each host once: never more successes than hosts
\* finished, after a panic neither.
SuccessesAreHosts == pc \in {"host", "simulate", "wait", "done"} =>
  okHosts <= (IF pc = "wait" THEN hostN ELSE hostN - 1) /\ hostN <= hosts + 1

\* A module's traffic keeps its pace: the next host, of the same simulation
\* or of a later one, is not simulated before the timeout of the last one,
\* unless it was fast or asked to be, or it panicked.
Paced ==
  [][pc = "host" /\ pc' = "simulate" /\ ctx.state = "cut"
       => opts.fast \/ ctx.for \in FastModules]_vars

\* A simulation that fails does not stop the ones after it: run gets past the
\* last of them, or hangs in a Simulate that does not heed its context.
Finishes ==
  \/ <>(pc = "bye" /\ simN = Len(sims))
  \/ <>[](pc = "simulate" /\ Module \in Unbounded)

\* What the help text of -dry says (run.go:60).
DryIsOffline == opts.dry => ~network
=============================================================================
