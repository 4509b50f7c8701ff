---------------------------- MODULE RunnerProofs ----------------------------
(***************************************************************************)
(* For any table of modules and any command line: the types, the handles    *)
(* and the pace of Runner.  HandlesAreCurrent is inductive once the places  *)
(* where a handle is open are all named (HandleInv).  The pace rests on     *)
(* what a context that was cancelled early says of the rest of the run      *)
(* (PaceInv): it was fast, or there is no host left to come.  The second    *)
(* part is about the list that the loop is given: Command.                  *)
(***************************************************************************)
EXTENDS Runner, Command, Facts, SequenceTheorems

Simulating == {"hosts", "host", "simulate", "wait"}

HandleInv ==
  /\ \A m \in Holders : handle[m] = "open" => m = Module /\ pc \in Simulating \cup {"done", "cleanup"}
  /\ pc \in Simulating /\ Module \in Holders => handle[Module] = "open"

NothingLeft ==
  /\ simN = Len(sims)
  /\ pc \in {"done", "cleanup", "bye"} \/ (pc = "host" /\ hostN > hosts)

PaceInv ==
  /\ pc \in {"simulate", "wait"} => ctx.for = Module /\ ctx.state \in {"live", "expired"}
  /\ ctx.state = "cut" => opts.fast \/ ctx.for \in FastModules \/ NothingLeft

Bounds ==
  /\ pc \in {"host", "simulate", "wait", "done"} =>
       /\ hostN <= hosts + 1
       /\ okHosts <= (IF pc = "wait" THEN hostN ELSE hostN - 1)
  /\ pc \in {"simulate", "wait"} => hostN <= hosts
  /\ pc = "hosts" => okHosts = 0

IInv == TypeOK /\ HandleInv /\ PaceInv /\ Bounds

\* A selection is a sequence of modules, and not an empty one.
LEMMA SelectionIsSeq ==
  ASSUME NEW s \in Selections
  PROVE  s \in Seq(Modules) /\ Len(s) \in Nat \ {0} /\ DOMAIN s = 1..Len(s)
<1>1. PICK n \in 1..MaxSims : s \in [1..n -> Modules]
  BY DEF Selections
<1>2. n \in Nat /\ n >= 1
  BY RunnerAssumption
<1> QED BY <1>1, <1>2

\* The invariant holds before run starts.
LEMMA InitIInv == Init => IInv
<1> SUFFICES ASSUME Init PROVE IInv
  OBVIOUS
<1>1. 1 \in DOMAIN sims /\ sims[1] \in Modules
  BY SelectionIsSeq DEF Init
<1>2. TypeOK
  <2>1. handle \in [Modules -> {"nil", "open", "closed"}]
    BY DEF Init
  <2>2. ctx \in [state : CtxStates, for : Modules]
    BY <1>1 DEF Init, CtxStates
  <2>3. hosts \in 0..MaxHosts /\ hostN \in 1..(MaxHosts + 1) /\ okHosts \in 0..MaxHosts
    BY RunnerAssumption DEF Init
  <2> QED BY <1>1, <2>1, <2>2, <2>3 DEF Init, TypeOK, Pcs
<1>3. HandleInv
  BY RunnerAssumption DEF Init, HandleInv, Simulating
<1>4. PaceInv /\ Bounds
  BY DEF Init, PaceInv, Bounds
<1> QED BY <1>2, <1>3, <1>4 DEF IInv

\* The step to the next simulation leaves the position inside the selection.
LEMMA NextSimFacts ==
  ASSUME TypeOK, NextSim
  PROVE  /\ simN' \in DOMAIN sims
         /\ pc' \in {"init", "bye"}
         /\ simN = Len(sims) => pc' = "bye" /\ simN' = simN
         /\ simN' # Len(sims) => pc' # "bye"
<1> DEFINE L == Len(sims)
<1>1. L \in Nat \ {0} /\ DOMAIN sims = 1..L
  BY SelectionIsSeq DEF TypeOK
<1>2. simN \in 1..L
  BY <1>1 DEF TypeOK
<1>3. IF simN < L THEN simN' = simN + 1 /\ pc' = "init" ELSE pc' = "bye" /\ simN' = simN
  BY DEF NextSim
<1> HIDE DEF L
<1>4. simN' \in 1..L
  BY <1>1, <1>2, <1>3
<1>5. /\ pc' \in {"init", "bye"}
      /\ simN = L => pc' = "bye" /\ simN' = simN
      /\ simN' # L => pc' # "bye"
  BY <1>1, <1>2, <1>3
<1> QED BY <1>1, <1>4, <1>5 DEF L

\* No step of run takes a variable out of its range.
LEMMA StepTypeOK == IInv /\ [Next]_vars => TypeOK'
<1> SUFFICES ASSUME IInv, [Next]_vars PROVE TypeOK'
  OBVIOUS
<1> USE DEF sim
<1>0. TypeOK /\ MaxHosts \in Nat /\ NumOfHosts \in [Modules -> Nat] /\ Sizes \subseteq Nat
  BY RunnerAssumption DEF IInv
<1>1. Module \in Modules
  BY <1>0, SelectionIsSeq DEF TypeOK, Module
<1>2. CASE Probe
  BY <1>0, <1>2 DEF TypeOK, Probe, Pcs
<1>2a. CASE InitOk \/ InitFails
  <2>1. handle' \in [Modules -> {"nil", "open", "closed"}]
    <3>1. handle' = handle \/ handle' = [handle EXCEPT ![Module] = "open"]
      BY <1>2a DEF InitOk, InitFails
    <3> QED BY <1>0, <3>1 DEF TypeOK
  <2>2. network' \in BOOLEAN
    BY <1>0, <1>2a DEF TypeOK, InitOk, InitFails
  <2>3. pc' \in Pcs /\ okHosts' \in 0..MaxHosts
    BY <1>0, <1>2a DEF InitOk, InitFails, Pcs
  <2> QED BY <1>0, <1>2a, <2>1, <2>2, <2>3 DEF TypeOK, InitOk, InitFails
<1>3. CASE HostsFails
  <2>1. simN' \in DOMAIN sims /\ pc' \in Pcs
    BY <1>0, <1>3, NextSimFacts DEF HostsFails, Pcs
  <2> QED BY <1>0, <1>3, <2>1 DEF TypeOK, HostsFails, Asked
<1>4. CASE HostsOk
  <2>1. PICK n \in 0..MaxHosts : hosts' = Sampled(n)
    BY <1>4 DEF HostsOk
  <2>2. numOfHosts \in Nat
    BY <1>0, <1>1 DEF numOfHosts, TypeOK
  <2>3. hosts' \in 0..MaxHosts
    BY <1>0, <2>1, <2>2 DEF Sampled
  <2> QED BY <1>0, <1>4, <2>3 DEF TypeOK, HostsOk, Asked, Pcs
<1>5. CASE NoMoreHosts \/ SimulatePanics \/ PrintDone
  BY <1>0, <1>5 DEF TypeOK, NoMoreHosts, SimulatePanics, PrintDone, Pcs
<1>6. CASE Skip
  BY <1>0, <1>6 DEF TypeOK, Skip
<1>7. CASE StartHost
  BY <1>0, <1>1, <1>7 DEF TypeOK, StartHost, Pcs, CtxStates
<1>8. CASE Expire
  BY <1>0, <1>8 DEF TypeOK, Expire, CtxStates
<1>9. CASE SimulateReturns
  <2>1. okHosts + 1 \in 0..MaxHosts
    BY <1>0, <1>9 DEF SimulateReturns, IInv, Bounds, TypeOK
  <2> QED BY <1>0, <1>9, <2>1 DEF TypeOK, SimulateReturns, Pcs
<1>10. CASE Wait
  <2>1. hostN + 1 \in 1..(MaxHosts + 1)
    BY <1>0, <1>10 DEF Wait, IInv, Bounds, TypeOK
  <2> QED BY <1>0, <1>10, <2>1 DEF TypeOK, Wait, Pcs, CtxStates
<1>11. CASE Cleanup
  <2>1. simN' \in DOMAIN sims /\ pc' \in Pcs
    BY <1>0, <1>11, NextSimFacts DEF Cleanup, Pcs
  <2> QED BY <1>0, <1>11, <2>1 DEF TypeOK, Cleanup
<1>12. CASE Terminated \/ UNCHANGED vars
  BY <1>0, <1>12 DEF Terminated, vars, TypeOK
<1> QED BY <1>2, <1>2a, <1>3, <1>4, <1>5, <1>6, <1>7, <1>8, <1>9, <1>10, <1>11, <1>12
        DEF Next, Sequential, Simulate

\* Every step that closes a simulation cleans it up, but for an error of
\* Hosts, and a module that opens something has no such error.
LEMMA StepHandleInv == IInv /\ [Next]_vars => HandleInv'
<1> SUFFICES ASSUME IInv, [Next]_vars PROVE HandleInv'
  OBVIOUS
<1> USE DEF sim, HandleInv, Simulating
<1>0. TypeOK /\ HandleInv /\ Holders \subseteq Modules /\ Holders \cap HostsMayFail = {}
  BY RunnerAssumption DEF IInv
<1>1. CASE Probe \/ InitOk \/ InitFails
  <2>1. Module' = Module
    BY <1>1 DEF Module, Probe, InitOk, InitFails
  <2>2. Module \in Modules
    BY <1>0, SelectionIsSeq DEF TypeOK, Module
  <2> QED BY <1>0, <1>1, <2>1, <2>2 DEF TypeOK, Probe, InitOk, InitFails
<1>2. CASE HostsFails
  <2>1. Module \notin Holders /\ pc' \in {"init", "bye"} /\ handle' = handle
    BY <1>0, <1>2, NextSimFacts DEF HostsFails
  <2> QED BY <1>0, <1>2, <2>1 DEF HostsFails
<1>3. CASE Cleanup
  <2>1. pc' \in {"init", "bye"}
    BY <1>0, <1>3, NextSimFacts DEF Cleanup
  <2>2. \A m \in Holders : handle'[m] # "open"
    <3> SUFFICES ASSUME NEW m \in Holders, handle'[m] = "open" PROVE FALSE
      OBVIOUS
    <3>1. handle' = [handle EXCEPT ![Module] = IF @ = "nil" THEN "nil" ELSE "closed"]
      BY <1>3 DEF Cleanup
    <3>2. m \in Modules /\ DOMAIN handle = Modules
      BY <1>0 DEF TypeOK
    <3>3. CASE m = Module
      BY <3>1, <3>2, <3>3
    <3>4. CASE m # Module
      BY <1>0, <3>1, <3>2, <3>4
    <3> QED BY <3>3, <3>4
  <2> QED BY <2>1, <2>2
<1>4. CASE HostsOk \/ NoMoreHosts \/ Skip \/ StartHost \/ Expire \/ Simulate \/ Wait \/ PrintDone
           \/ Terminated \/ UNCHANGED vars
  <2>1. Module' = Module /\ handle' = handle
    BY <1>4 DEF Module, HostsOk, NoMoreHosts, Skip, StartHost, Expire, Simulate, SimulateReturns,
                SimulatePanics, Wait, PrintDone, Terminated, vars
  <2>2. \/ pc' = pc
        \/ pc \in Simulating /\ pc' \in Simulating \cup {"done"}
        \/ pc = "done" /\ pc' = "cleanup"
    BY <1>4 DEF HostsOk, NoMoreHosts, Skip, StartHost, Expire, Simulate, SimulateReturns,
                SimulatePanics, Wait, PrintDone, Terminated, vars
  <2> QED BY <1>0, <2>1, <2>2
<1> QED BY <1>1, <1>2, <1>3, <1>4 DEF Next, Sequential

\* A context is cancelled before its time only when nothing is left to
\* simulate, or by choice of the flag or the module.
LEMMA StepPaceInv == IInv /\ [Next]_vars => PaceInv'
<1> SUFFICES ASSUME IInv, [Next]_vars PROVE PaceInv'
  OBVIOUS
<1> USE DEF sim, PaceInv, NothingLeft
<1>0. TypeOK /\ PaceInv /\ Bounds
  BY DEF IInv
<1> DEFINE L == Len(sims)
<1>1. L \in Nat /\ simN \in 1..L /\ hosts \in Nat /\ hostN \in Nat
  BY <1>0, SelectionIsSeq, RunnerAssumption DEF TypeOK
<1>2. CASE Probe \/ InitOk \/ InitFails \/ HostsOk
  <2>1. ~(pc \in {"done", "cleanup", "bye", "host", "simulate", "wait"})
        /\ pc' \in {"init", "hosts", "cleanup", "host"}
        /\ ctx' = ctx /\ opts' = opts
    BY <1>2 DEF Probe, InitOk, InitFails, HostsOk
  <2> QED BY <1>0, <2>1
<1>3. CASE HostsFails
  <2>1. pc = "hosts" /\ pc' \in {"init", "bye"} /\ ctx' = ctx /\ opts' = opts
    BY <1>0, <1>3, NextSimFacts DEF HostsFails
  <2> QED BY <1>0, <2>1
<1>4. CASE Cleanup
  <2>1. /\ pc = "cleanup" /\ pc' \in {"init", "bye"} /\ UNCHANGED <<ctx, opts, sims>>
        /\ simN = L => pc' = "bye" /\ simN' = simN
    BY <1>0, <1>4, NextSimFacts DEF Cleanup
  <2> QED BY <1>0, <2>1
<1>5. CASE NoMoreHosts \/ PrintDone
  BY <1>0, <1>5 DEF NoMoreHosts, PrintDone
<1>6. CASE Skip
  <2>1. pc' = pc /\ pc = "host" /\ hostN <= hosts /\ ctx' = ctx /\ opts' = opts
    BY <1>6 DEF Skip
  <2> QED BY <1>0, <1>1, <2>1
<1>7. CASE StartHost
  BY <1>7 DEF StartHost, Module
<1>8. CASE Expire
  <2>1. ctx.state = "live" /\ ctx'.state = "expired" /\ ctx'.for = ctx.for
        /\ UNCHANGED <<pc, sims, simN>>
    BY <1>0, <1>8 DEF Expire, TypeOK
  <2> QED BY <1>0, <2>1 DEF Module
<1>9. CASE SimulateReturns \/ SimulatePanics
  <2>1. pc = "simulate" /\ pc' \in {"wait", "done"} /\ UNCHANGED <<ctx, opts, sims, simN>>
    BY <1>9 DEF SimulateReturns, SimulatePanics
  <2> QED BY <1>0, <2>1 DEF Module
<1>10. CASE Wait
  <2>1. /\ pc = "wait" /\ pc' = "host" /\ hostN' = hostN + 1
        /\ UNCHANGED <<opts, sims, simN, hosts>>
        /\ ctx'.state = (IF ctx.state = "expired" THEN "elapsed" ELSE "cut")
        /\ ctx'.for = ctx.for /\ ctx.for = Module
        /\ MustWait => ctx.state = "expired"
    BY <1>0, <1>10 DEF Wait, TypeOK
  <2>2. CASE ctx.state = "expired"
    BY <2>1, <2>2
  <2>3. CASE ~MustWait
    <3>1. opts.fast \/ Module \in FastModules \/ (~(simN < L) /\ ~(hostN < hosts))
      BY <2>3 DEF MustWait
    <3> HIDE DEF L
    <3>2. opts.fast \/ Module \in FastModules \/ (simN = L /\ hostN' > hosts)
      BY <1>1, <2>1, <3>1
    <3> QED BY <2>1, <3>2 DEF L
  <2> QED BY <2>1, <2>2, <2>3
<1>11. CASE Terminated \/ UNCHANGED vars
  BY <1>0, <1>11 DEF Terminated, vars, Module
<1> QED BY <1>2, <1>3, <1>4, <1>5, <1>6, <1>7, <1>8, <1>9, <1>10, <1>11
        DEF Next, Sequential, Simulate

\* No step makes the counters of hosts and successes disagree.
LEMMA StepBounds == IInv /\ [Next]_vars => Bounds'
<1> SUFFICES ASSUME IInv, [Next]_vars PROVE Bounds'
  OBVIOUS
<1> USE DEF sim, Bounds
<1>1. Bounds /\ hosts \in Nat /\ hostN \in Nat \ {0} /\ okHosts \in Nat
  BY RunnerAssumption DEF IInv, TypeOK
<1>2. CASE Probe \/ InitOk \/ InitFails
  BY <1>2 DEF Probe, InitOk, InitFails
<1>3. CASE HostsFails \/ Cleanup
  <2>1. pc' \in {"init", "bye"}
    BY <1>3, NextSimFacts DEF HostsFails, Cleanup, IInv
  <2> QED BY <2>1
<1>4. CASE HostsOk
  <2>1. hosts' \in Nat
    BY <1>4, StepTypeOK, RunnerAssumption DEF TypeOK
  <2>2. pc' = "host" /\ hostN' = 1 /\ okHosts' = 0
    BY <1>1, <1>4 DEF HostsOk
  <2>3. \A n \in Nat : 1 <= n + 1 /\ 0 <= 1 - 1
    OBVIOUS
  <2>4. 1 <= hosts' + 1 /\ 0 <= 1 - 1
    BY <2>1, <2>3, Zenon
  <2> QED BY <2>2, <2>4, Zenon
<1>5. CASE NoMoreHosts \/ Skip \/ StartHost \/ PrintDone
  BY <1>1, <1>5 DEF NoMoreHosts, Skip, StartHost, PrintDone
<1>6. CASE SimulateReturns
  <2>1. /\ pc = "simulate" /\ pc' = "wait" /\ hosts' = hosts /\ hostN' = hostN
        /\ okHosts' \in {okHosts, okHosts + 1}
    BY <1>6 DEF SimulateReturns
  <2> QED BY <1>1, <2>1
<1>6a. CASE SimulatePanics \/ Wait
  BY <1>1, <1>6a DEF SimulatePanics, Wait
<1>7. CASE Expire \/ Terminated \/ UNCHANGED vars
  BY <1>1, <1>7 DEF Expire, Terminated, vars
<1> QED BY <1>2, <1>3, <1>4, <1>5, <1>6, <1>6a, <1>7 DEF Next, Sequential, Simulate

\* The invariant holds in every reachable state, without fairness.
LEMMA SafetyIInv == Safety => []IInv
<1>1. Init => IInv
  BY InitIInv
<1>2. IInv /\ [Next]_vars => IInv'
  BY StepTypeOK, StepHandleInv, StepPaceInv, StepBounds DEF IInv
<1> QED BY <1>1, <1>2, PTL DEF Safety
-----------------------------------------------------------------------------
\* For any table of modules and any command line, the counters of run stay in
\* their ranges.
THEOREM RunTypeOK == Spec => []TypeOK
<1>1. IInv => TypeOK
  BY DEF IInv
<1> QED BY <1>1, SafetyIInv, PTL DEF Spec

\* A holder's socket or process is open only during its own simulation.
THEOREM RunHandlesAreCurrent == Spec => []HandlesAreCurrent
<1>1. IInv => HandlesAreCurrent
  BY DEF IInv, HandleInv, HandlesAreCurrent, Simulating
<1> QED BY <1>1, SafetyIInv, PTL DEF Spec

\* The count of "Done (k/n)" never exceeds the hosts finished.
THEOREM RunSuccessesAreHosts == Spec => []SuccessesAreHosts
<1>1. IInv => SuccessesAreHosts
  BY DEF IInv, Bounds, SuccessesAreHosts
<1> QED BY <1>1, SafetyIInv, PTL DEF Spec

\* Every module's pace is kept, whichever modules follow each other.
THEOREM RunPaced == Spec => Paced
<1>1. IInv /\ [Next]_vars =>
        [pc = "host" /\ pc' = "simulate" /\ ctx.state = "cut"
           => opts.fast \/ ctx.for \in FastModules]_vars
  <2> SUFFICES ASSUME IInv, [Next]_vars, pc = "host", pc' = "simulate", ctx.state = "cut"
               PROVE  opts.fast \/ ctx.for \in FastModules
    OBVIOUS
  <2>1. StartHost
    BY NextSimFacts DEF IInv, Next, Sequential, Simulate, Probe, InitOk, InitFails, HostsFails,
       HostsOk, NoMoreHosts, Skip, Wait, PrintDone, Cleanup, SimulateReturns, SimulatePanics,
       Expire, Terminated, vars
  <2>2. hostN <= hosts /\ hosts \in Nat /\ hostN \in Nat
    BY <2>1, RunnerAssumption DEF StartHost, IInv, TypeOK
  <2>3. ~NothingLeft
    BY <2>2 DEF NothingLeft
  <2> QED BY <2>3 DEF IInv, PaceInv
<1> QED BY <1>1, SafetyIInv, PTL DEF Spec, Safety, Paced
-----------------------------------------------------------------------------
(***************************************************************************)
(* What the loop is given: Command.  SelectInv says of selectSimulations    *)
(* how far it is (Looked): the simulations chosen so far are, each as often *)
(* as arguments name it, those of the first n arguments.                    *)
(***************************************************************************)

\* What run looks up: arguments, and the names of the table.
Args == Arguments \cup {<<allModules[i].name>> : i \in DOMAIN allModules}

\* The simulations that it may select.
Chosen == [module : DOMAIN allModules, scope : {Tail(a) : a \in Args}]

Wanted == IF line.args = <<>> THEN allModuleNames ELSE line.args

Meets(arg, e) == Matches(arg, allModules[e.module]) /\ Tail(arg) = e.scope

\* How often, and whether, an element occurs in a sequence.
Occurs(e, s) == Cardinality({k \in DOMAIN s : s[k] = e})
Has(s, e) == \E k \in DOMAIN s : s[k] = e

Once(s) == \A k, l \in DOMAIN s : s[k] = s[l] => k = l

\* The first n arguments have been looked at.
Looked(n) ==
  /\ todo = SubSeq(Wanted, n + 1, Len(Wanted))
  /\ chosen \in Seq(Chosen)
  /\ n > 0 => chosen # <<>>
  /\ \A m \in 1..n : \E i \in DOMAIN allModules : Matches(Wanted[m], allModules[i])
  /\ \A e \in Chosen : Occurs(e, chosen) = Cardinality({m \in 1..n : Meets(Wanted[m], e)})

SelectInv ==
  /\ line \in Lines
  /\ place = "run" => line.verb = "run"
  /\ place \in {"main", "run", "bind"} => chosen = <<>>
  /\ place \in {"bind", "select", "running"} => line.args \in Seq(Args) /\ size \in Nat
  /\ place = "bind" => todo = Wanted
  /\ place \in {"select", "running"} =>
       /\ bind.userSet = (line.iface # "") /\ bind.addr \in UsableIP
       /\ \E n \in 0..Len(Wanted) : Looked(n)
  /\ place = "running" => todo = <<>>

\* The places in a set, each once.
LEMMA InOrderFacts ==
  ASSUME NEW S \in SUBSET Nat, IsFiniteSet(S)
  PROVE  LET q == InOrder(S)
         IN  /\ q \in Seq(S) /\ Len(q) = Cardinality(S)
             /\ \A k, l \in 1..Len(q) : q[k] = q[l] => k = l
             /\ \A i \in S : \E k \in 1..Len(q) : q[k] = i
<1> DEFINE n == Cardinality(S)
           rank == [x \in S |-> Cardinality({y \in S : y < x})]
           q == InOrder(S)
<1>1. n \in Nat
  BY FS_CardinalityType
<1>2. /\ \A x, y \in S : x < y => rank[x] < rank[y]
      /\ rank \in Surjection(S, 0..(n - 1))
  BY Ranks
<1>3. q = [k \in 1..n |-> CHOOSE i \in S : Cardinality({j \in S : j < i}) = k - 1]
  BY DEF InOrder
<1>4. ASSUME NEW k \in 1..n
      PROVE  q[k] \in S /\ rank[q[k]] = k - 1
  <2>1. k - 1 \in 0..(n - 1)
    BY <1>1
  <2>2. \E x \in S : rank[x] = k - 1
    BY <1>2, <2>1 DEF Surjection
  <2>3. \E x \in S : Cardinality({j \in S : j < x}) = k - 1
    BY <2>2
  <2>4. q[k] = CHOOSE i \in S : Cardinality({j \in S : j < i}) = k - 1
    BY <1>3
  <2>5. q[k] \in S /\ Cardinality({j \in S : j < q[k]}) = k - 1
    BY <2>3, <2>4
  <2> QED BY <2>5
<1> DEFINE IsRank(r) == r \in [S -> 0..(n - 1)]
<1>5. rank \in [S -> 0..(n - 1)]
  BY <1>2 DEF Surjection
<1>6. DOMAIN q = 1..n
  BY <1>3
<1> HIDE DEF n, rank, q
<1>7. q \in Seq(S) /\ Len(q) = n
  <2>1. q \in [1..n -> S]
    BY <1>3, <1>4, <1>6
  <2> QED BY <1>1, <2>1
<1>8. ASSUME NEW k \in 1..n, NEW l \in 1..n, q[k] = q[l]
      PROVE  k = l
  BY <1>1, <1>4, <1>8
<1>9. ASSUME NEW i \in S
      PROVE  \E k \in 1..n : q[k] = i
  <2>1. rank[i] \in 0..(n - 1)
    BY <1>5
  <2>2. rank[i] + 1 \in 1..n
    BY <1>1, <2>1
  <2> DEFINE k == rank[i] + 1
  <2>3. q[k] \in S /\ rank[q[k]] = k - 1
    BY <1>4, <2>2
  <2>4. rank[q[k]] = rank[i]
    BY <2>1, <2>3
  <2>4a. rank[i] \in Int
    BY <1>1, <2>1
  <2> HIDE DEF k
  <2>5. q[k] \in Nat /\ i \in Nat /\ rank[i] \in Int
    BY <2>3, <2>4a
  <2>5a. ~(q[k] < i) /\ ~(i < q[k])
    BY <1>2, <2>3, <2>4, <2>5
  <2>6. q[k] = i
    BY <2>5, <2>5a
  <2>7. k \in 1..n
    BY <2>2 DEF k
  <2> QED BY <2>6, <2>7
<1> QED BY <1>7, <1>8, <1>9 DEF n, q

\* The words that the names of the table are made of.
Words ==
  {"c2", "dga", "scan", "sink", "spambot", "miner", "imposter", "oast", "irc", "cleartext",
   "tunnel", "dns", "icmp", "ssh", "transfer", "exfil", "telegram", "bot", "tor"}

OneWord ==
  {<<w>> : w \in {"c2", "dga", "scan", "sink", "spambot", "miner", "imposter", "oast", "irc",
                  "cleartext"}}

TwoWords ==
  {<<"tunnel", "dns">>, <<"tunnel", "icmp">>, <<"ssh", "transfer">>, <<"ssh", "exfil">>,
   <<"telegram", "bot">>}

\* The rows of the table.
LEMMA Rows ==
  /\ DOMAIN allModules = 1..19
  /\ allModules[1] = [name |-> <<"c2">>, experimental |-> FALSE]
  /\ allModules[2] = [name |-> <<"c2">>, experimental |-> FALSE]
  /\ allModules[3] = [name |-> <<"dga">>, experimental |-> FALSE]
  /\ allModules[4] = [name |-> <<"scan">>, experimental |-> FALSE]
  /\ allModules[5] = [name |-> <<"sink">>, experimental |-> FALSE]
  /\ allModules[6] = [name |-> <<"sink">>, experimental |-> FALSE]
  /\ allModules[7] = [name |-> <<"spambot">>, experimental |-> FALSE]
  /\ allModules[8] = [name |-> <<"tunnel", "dns">>, experimental |-> FALSE]
  /\ allModules[9] = [name |-> <<"miner">>, experimental |-> FALSE]
  /\ allModules[10] = [name |-> <<"tor">>, experimental |-> TRUE]
  /\ allModules[11] = [name |-> <<"tunnel", "icmp">>, experimental |-> FALSE]
  /\ allModules[12] = [name |-> <<"imposter">>, experimental |-> FALSE]
  /\ allModules[13] = [name |-> <<"oast">>, experimental |-> FALSE]
  /\ allModules[14] = [name |-> <<"ssh", "transfer">>, experimental |-> FALSE]
  /\ allModules[15] = [name |-> <<"ssh", "exfil">>, experimental |-> FALSE]
  /\ allModules[16] = [name |-> <<"irc">>, experimental |-> FALSE]
  /\ allModules[17] = [name |-> <<"irc">>, experimental |-> FALSE]
  /\ allModules[18] = [name |-> <<"telegram", "bot">>, experimental |-> FALSE]
  /\ allModules[19] = [name |-> <<"cleartext">>, experimental |-> FALSE]
BY DEF allModules, Entry

\* All rows but that of tor are run by default.
LEMMA Table ==
  ASSUME NEW i \in 1..19
  PROVE  /\ IsDefault(allModules[i]) <=> i # 10
         /\ i # 10 => allModules[i].name \in OneWord \cup TwoWords
         /\ i = 10 => allModules[i].name = <<"tor">>
<1> DEFINE D(j) == ~allModules[j].experimental
           N(j) == allModules[j].name
<1>1. /\ D(1) /\ D(2) /\ D(3) /\ D(4) /\ D(5) /\ D(6) /\ D(7) /\ D(8) /\ D(9) /\ ~D(10)
      /\ D(11) /\ D(12) /\ D(13) /\ D(14) /\ D(15) /\ D(16) /\ D(17) /\ D(18) /\ D(19)
  BY Rows
<1>2. /\ N(1) \in OneWord /\ N(2) \in OneWord /\ N(3) \in OneWord /\ N(4) \in OneWord
      /\ N(5) \in OneWord /\ N(6) \in OneWord /\ N(7) \in OneWord /\ N(8) \in TwoWords
      /\ N(9) \in OneWord /\ N(10) = <<"tor">> /\ N(11) \in TwoWords /\ N(12) \in OneWord
      /\ N(13) \in OneWord /\ N(14) \in TwoWords /\ N(15) \in TwoWords /\ N(16) \in OneWord
      /\ N(17) \in OneWord /\ N(18) \in TwoWords /\ N(19) \in OneWord
  BY Rows DEF OneWord, TwoWords
<1>3. \/ i \in {1, 2, 3, 4, 5, 6, 7, 8, 9}
      \/ i = 10
      \/ i \in {11, 12, 13, 14, 15, 16, 17, 18, 19}
  OBVIOUS
<1>4. D(i) <=> i # 10
  <2> HIDE DEF D
  <2> QED BY <1>1, <1>3
<1>5. /\ i # 10 => N(i) \in OneWord \cup TwoWords
      /\ i = 10 => N(i) = <<"tor">>
  <2> HIDE DEF N
  <2> QED BY <1>2, <1>3
<1> QED BY <1>4, <1>5 DEF IsDefault

\* Tuples of one and of two elements are sequences.
LEMMA OneTuple ==
  ASSUME NEW S, NEW a \in S, NEW b \in S
  PROVE  <<a>> \in Seq(S) /\ <<a, b>> \in Seq(S)
  OBVIOUS

\* Names are sequences of words.
LEMMA WordsAreStrings == OneWord \cup TwoWords \cup {<<"tor">>} \subseteq Seq(Words)
<1>0. {"c2", "dga", "scan", "sink", "spambot", "miner", "imposter", "oast", "irc", "cleartext", "tunnel",
       "dns", "icmp", "ssh", "transfer", "exfil", "telegram", "bot", "tor"} \subseteq Words
  BY DEF Words
<1>1. ASSUME NEW s \in OneWord PROVE s \in Seq(Words)
  <2>1. PICK w \in Words : s = <<w>>
    BY <1>0 DEF OneWord
  <2> QED BY <2>1, OneTuple
<1>2. ASSUME NEW s \in TwoWords PROVE s \in Seq(Words)
  <2>1. \/ s = <<"tunnel", "dns">> \/ s = <<"tunnel", "icmp">> \/ s = <<"ssh", "transfer">>
        \/ s = <<"ssh", "exfil">> \/ s = <<"telegram", "bot">>
    BY DEF TwoWords
  <2>2. PICK v \in Words, w \in Words : s = <<v, w>>
    BY <1>0, <2>1
  <2> QED BY <2>2, OneTuple
<1>3. <<"tor">> \in Seq(Words)
  BY <1>0, OneTuple
<1> QED BY <1>1, <1>2, <1>3

\* No name of a default module is the beginning of another name.
LEMMA NoPrefix ==
  ASSUME NEW s \in OneWord \cup TwoWords, NEW t \in OneWord \cup TwoWords \cup {<<"tor">>},
         IsPrefix(s, t)
  PROVE  s = t
<1> DEFINE First == {"tunnel", "ssh", "telegram"}
           Single == {"c2", "dga", "scan", "sink", "spambot", "miner", "imposter", "oast", "irc", "cleartext"}
<1>1. s \in Seq(Words) /\ t \in Seq(Words)
  BY WordsAreStrings
<1>2. Len(s) <= Len(t) /\ SubSeq(s, 1, Len(s)) = SubSeq(t, 1, Len(s))
  BY DEF IsPrefix
<1>3. \A k \in 1..Len(s) : s[k] = t[k]
  BY <1>1, <1>2
<1>4. CASE s \in OneWord
  <2>1. PICK w \in Single : s = <<w>>
    BY <1>4 DEF OneWord
  <2>2. t[1] = w
    BY <1>3, <2>1
  <2>3. t \notin TwoWords
    <3>1. w \notin First
      OBVIOUS
    <3> HIDE DEF Single
    <3> QED BY <2>2, <3>1 DEF TwoWords
  <2>4. t \in OneWord \cup {<<"tor">>}
    BY <2>3
  <2>5. PICK v : t = <<v>>
    BY <2>4 DEF OneWord
  <2> QED BY <2>1, <2>2, <2>5
<1>5. CASE s \in TwoWords
  <2>1. Len(s) = 2
    BY <1>5 DEF TwoWords
  <2>2. t \in TwoWords
    BY <1>2, <2>1 DEF OneWord
  <2>3. Len(t) = 2
    BY <2>2 DEF TwoWords
  <2> QED BY <1>1, <1>3, <2>1, <2>3, SeqEqual
<1> QED BY <1>4, <1>5

\* What a name selects: the modules that it meets, each once.
LEMMA MatchingFacts ==
  ASSUME NEW arg \in Args
  PROVE  LET f == Matching(arg)
         IN  /\ f \in Seq(Chosen)
             /\ \A e \in Chosen : (\E k \in DOMAIN f : f[k] = e) <=> Meets(arg, e)
             /\ \A k, l \in DOMAIN f : f[k] = f[l] => k = l
<1> DEFINE S == {i \in DOMAIN allModules : Matches(arg, allModules[i])}
           q == InOrder(S)
           f == Matching(arg)
<1>1. S \in SUBSET Nat /\ S \in SUBSET (DOMAIN allModules) /\ IsFiniteSet(S)
  <2>1. DOMAIN allModules = 1..19
    BY Rows
  <2> DEFINE n == 19
  <2>2. n \in Nat /\ S \in SUBSET (1..n)
    BY <2>1
  <2>3. S \in SUBSET Nat
    BY <2>2
  <2> HIDE DEF n
  <2>4. IsFiniteSet(1..n)
    BY <2>2, FS_Interval
  <2>5. IsFiniteSet(S)
    BY <2>2, <2>4, FS_Subset
  <2> QED BY <2>3, <2>5
<1> HIDE DEF S
<1>2. /\ q \in Seq(S) /\ DOMAIN q = 1..Len(q)
      /\ \A k, l \in 1..Len(q) : q[k] = q[l] => k = l
      /\ \A i \in S : \E k \in 1..Len(q) : q[k] = i
  BY <1>1, InOrderFacts
<1>3. Tail(arg) \in {Tail(a) : a \in Args}
  OBVIOUS
<1>4. f = [k \in DOMAIN q |-> [module |-> q[k], scope |-> Tail(arg)]]
  BY DEF Matching, Scope, S
<1>5. ASSUME NEW k \in DOMAIN q
      PROVE  q[k] \in S /\ f[k] = [module |-> q[k], scope |-> Tail(arg)] /\ f[k] \in Chosen
  <2>1. q[k] \in S
    BY <1>2
  <2>2. q[k] \in DOMAIN allModules
    BY <1>1, <2>1
  <2> HIDE DEF q, f
  <2> QED BY <1>3, <1>4, <2>1, <2>2 DEF Chosen
<1> HIDE DEF q, f
<1>6. f \in Seq(Chosen) /\ DOMAIN f = DOMAIN q
  <2>1. f \in [1..Len(q) -> Chosen] /\ Len(q) \in Nat
    BY <1>2, <1>4, <1>5
  <2> QED BY <1>2, <2>1
<1>7. ASSUME NEW e \in Chosen
      PROVE  (\E k \in DOMAIN f : f[k] = e) <=> Meets(arg, e)
  <2>1. ASSUME NEW k \in DOMAIN f, f[k] = e PROVE Meets(arg, e)
    <3>1. q[k] \in S /\ e.module = q[k] /\ e.scope = Tail(arg)
      BY <1>5, <1>6, <2>1
    <3> QED BY <3>1 DEF Meets, S
  <2>2. ASSUME Meets(arg, e) PROVE \E k \in DOMAIN f : f[k] = e
    <3>1. e.module \in S /\ e.scope = Tail(arg)
      BY <2>2 DEF Meets, Chosen, S
    <3>2. PICK k \in DOMAIN q : q[k] = e.module
      BY <1>2, <3>1
    <3>3. f[k] = [module |-> e.module, scope |-> e.scope]
      BY <1>5, <3>1, <3>2
    <3>4. e = [module |-> e.module, scope |-> e.scope]
      BY DEF Chosen
    <3> QED BY <1>6, <3>3, <3>4
  <2> QED BY <2>1, <2>2
<1>8. ASSUME NEW k \in DOMAIN f, NEW l \in DOMAIN f, f[k] = f[l]
      PROVE  k = l
  <2>1. q[k] = q[l]
    BY <1>5, <1>6, <1>8
  <2> QED BY <1>2, <1>6, <2>1
<1> QED BY <1>6, <1>7, <1>8 DEF f

\* How often an element occurs when a sequence is extended by one that has it
\* at most once.
LEMMA OccursAppended ==
  ASSUME NEW T, NEW s \in Seq(T), NEW f \in Seq(T), NEW e, NEW c, c = s \o f, Once(f)
  PROVE  Occurs(e, c) = Occurs(e, s) + (IF Has(f, e) THEN 1 ELSE 0)
<1> DEFINE S == {k \in DOMAIN s : s[k] = e}
           C1 == {k \in DOMAIN c : c[k] = e}
           n == Len(s)
<1>1. /\ n \in Nat /\ Len(f) \in Nat /\ DOMAIN s = 1..n /\ DOMAIN f = 1..Len(f)
      /\ DOMAIN c = 1..(n + Len(f))
      /\ \A k \in 1..n : c[k] = s[k]
      /\ \A k \in 1..Len(f) : c[n + k] = f[k]
  OBVIOUS
<1>2. IsFiniteSet(S)
  <2>1. IsFiniteSet(1..n) /\ S \in SUBSET (1..n)
    BY <1>1, FS_Interval
  <2> QED BY <2>1, FS_Subset
<1> HIDE DEF n
<1>3. S \in SUBSET (1..n) /\ \A k \in 1..n : k \in S <=> k \in C1
  BY <1>1
<1>4. CASE \E k \in DOMAIN f : f[k] = e
  <2>1. PICK k \in 1..Len(f) : f[k] = e
    BY <1>1, <1>4
  <2>2. n + k \in C1 /\ n + k \notin S
    BY <1>1, <1>3, <2>1
  <2>3. ASSUME NEW j \in C1, j \notin S
        PROVE  j = n + k
    <3>1. j \in 1..(n + Len(f)) /\ ~(j \in 1..n) /\ c[j] = e
      BY <1>1, <1>3, <2>3
    <3>2. j - n \in 1..Len(f) /\ n + (j - n) = j
      BY <1>1, <3>1
    <3>3. f[j - n] = e
      BY <1>1, <3>1, <3>2
    <3>4. j - n = k
      BY <1>1, <2>1, <3>2, <3>3 DEF Once
    <3> QED BY <3>2, <3>4
  <2>4. C1 = S \cup {n + k}
    <3>1. S \subseteq C1
      BY <1>3
    <3> HIDE DEF C1, S
    <3> QED BY <2>2, <2>3, <3>1
  <2>5. Cardinality(S \cup {n + k}) = Cardinality(S) + 1
    BY <1>2, <2>2, FS_AddElement
  <2> HIDE DEF C1, S
  <2>6. Cardinality(C1) = Cardinality(S) + 1
    BY <2>4, <2>5
  <2> QED BY <1>4, <2>6 DEF C1, S, Occurs, Has
<1>5. CASE ~\E k \in DOMAIN f : f[k] = e
  <2>1. ASSUME NEW j \in C1 PROVE j \in S
    <3>1. j \in 1..(n + Len(f)) /\ c[j] = e
      BY <1>1
    <3>2. CASE j \in 1..n
      BY <1>3, <3>2
    <3>3. CASE ~(j \in 1..n)
      <4>1. j - n \in 1..Len(f) /\ n + (j - n) = j
        BY <1>1, <3>1, <3>3
      <4>2. f[j - n] = e
        BY <1>1, <3>1, <4>1
      <4> QED BY <1>1, <1>5, <4>1, <4>2
    <3> QED BY <3>2, <3>3
  <2>2. C1 = S
    <3>1. S \subseteq C1
      BY <1>3
    <3> HIDE DEF C1, S
    <3> QED BY <2>1, <3>1
  <2>3. Cardinality(S) \in Nat
    BY <1>2, FS_CardinalityType
  <2>4. Cardinality(C1) = Cardinality(S) + 0
    <3> HIDE DEF C1, S
    <3> QED BY <2>2, <2>3
  <2> QED BY <1>5, <2>4 DEF Occurs, Has
<1> QED BY <1>4, <1>5

\* How many of the first n + 1 places are in a set.
LEMMA OneMorePlace ==
  ASSUME NEW Q, NEW n \in Nat
  PROVE  Cardinality({m \in 1..(n + 1) : m \in Q}) =
           Cardinality({m \in 1..n : m \in Q}) + (IF n + 1 \in Q THEN 1 ELSE 0)
<1> DEFINE S == {m \in 1..n : m \in Q}
           R == {m \in 1..(n + 1) : m \in Q}
<1>1. IsFiniteSet(S) /\ n + 1 \notin S /\ Cardinality(S) \in Nat
  <2>1. IsFiniteSet(1..n) /\ S \in SUBSET (1..n)
    BY FS_Interval
  <2>2. IsFiniteSet(S)
    BY <2>1, FS_Subset
  <2> QED BY <2>2, FS_CardinalityType
<1>2. CASE n + 1 \in Q
  <2>1. R = S \cup {n + 1}
    BY <1>2
  <2> HIDE DEF S, R
  <2>2. Cardinality(S \cup {n + 1}) = Cardinality(S) + 1
    BY <1>1, FS_AddElement
  <2>3. Cardinality(R) = Cardinality(S) + 1
    BY <2>1, <2>2
  <2> QED BY <1>2, <2>3 DEF S, R
<1>3. CASE n + 1 \notin Q
  <2>1. R = S
    BY <1>3
  <2>2. Cardinality(S) + 0 = Cardinality(S)
    BY <1>1
  <2> QED BY <1>3, <2>1, <2>2
<1> QED BY <1>2, <1>3

\* The default modules are told apart by the first place of each name.
LEMMA UnseenPlaces ==
  LET q == InOrder(Unseen)
  IN  /\ 1 \in Unseen /\ Unseen \in SUBSET (1..19)
      /\ q \in Seq(Unseen) /\ Len(q) \in Nat \ {0}
      /\ \A k, l \in 1..Len(q) : q[k] = q[l] => k = l
      /\ \A i \in Unseen : \E k \in 1..Len(q) : q[k] = i
<1> DEFINE S == Unseen
           q == InOrder(S)
<1>1. 1 \in S /\ S \in SUBSET (1..19)
  <2>1. 1 \in DOMAIN allModules /\ IsDefault(allModules[1]) /\ DOMAIN allModules = 1..19
    BY Rows DEF IsDefault
  <2> QED BY <2>1 DEF Unseen
<1>2. S \in SUBSET Nat /\ IsFiniteSet(S)
  <2> DEFINE n == 19
  <2>1. n \in Nat /\ S \in SUBSET (1..n)
    BY <1>1
  <2> HIDE DEF n
  <2>2. IsFiniteSet(1..n)
    BY <2>1, FS_Interval
  <2>3. S \in SUBSET Nat
    BY <2>1
  <2> QED BY <2>1, <2>2, <2>3, FS_Subset
<1> HIDE DEF S
<1>3. /\ q \in Seq(S)
      /\ \A k, l \in 1..Len(q) : q[k] = q[l] => k = l
      /\ \A i \in S : \E k \in 1..Len(q) : q[k] = i
  BY <1>2, InOrderFacts
<1> HIDE DEF q
<1>4. Len(q) \in Nat \ {0}
  BY <1>1, <1>3
<1> QED BY <1>1, <1>3, <1>4 DEF q, S

\* The list that run falls back on: names of the table.
LEMMA NamesAreArgs ==
  LET q == InOrder(Unseen)
      N == allModuleNames
  IN  /\ N \in Seq(Args) /\ Len(N) = Len(q) /\ Len(N) > 0
      /\ \A m \in 1..Len(N) : q[m] \in Unseen /\ N[m] = <<allModules[q[m]].name>>
<1> DEFINE q == InOrder(Unseen)
           N == allModuleNames
<1>1. /\ q \in Seq(Unseen) /\ Len(q) \in Nat \ {0} /\ DOMAIN q = 1..Len(q)
      /\ Unseen \in SUBSET (DOMAIN allModules)
  BY UnseenPlaces, Rows
<1>2. N = [m \in DOMAIN q |-> <<allModules[q[m]].name>>]
  BY DEF allModuleNames
<1> HIDE DEF q, N
<1>3. ASSUME NEW m \in DOMAIN q
      PROVE  q[m] \in Unseen /\ N[m] = <<allModules[q[m]].name>> /\ N[m] \in Args
  BY <1>1, <1>2 DEF Args
<1>4. N \in [1..Len(q) -> Args]
  BY <1>1, <1>2, <1>3
<1>5. N \in Seq(Args) /\ Len(N) = Len(q)
  BY <1>1, <1>4
<1> QED BY <1>1, <1>3, <1>5 DEF q, N

\* There is always something to look up.
LEMMA WantedType ==
  ASSUME line.args \in Seq(Args)
  PROVE  Wanted \in Seq(Args) /\ Len(Wanted) \in Nat \ {0}
<1>1. allModuleNames \in Seq(Args) /\ Len(allModuleNames) > 0
  BY NamesAreArgs
<1>2. Wanted \in Seq(Args) /\ Wanted # <<>>
  BY <1>1 DEF Wanted
<1> QED BY <1>2

\* The arguments and the size of a run whose flags are parsed.
LEMMA RunLine ==
  ASSUME MaxArgs \in Nat, SizeFlags \subseteq Int,
         line \in Lines, line.verb = "run", line.flags \notin FlagErrors
  PROVE  line.args \in Seq(Args) /\ line.size \in Int
<1>1. line.args \in BoundedSeq(Arguments, MaxArgs) /\ line.size \in SizeFlags
  BY DEF Lines, FlagErrors
<1>2. PICK n \in 0..MaxArgs : line.args \in [1..n -> Arguments]
  BY <1>1 DEF BoundedSeq, SeqOf
<1>3. n \in Nat
  OBVIOUS
<1>4. line.args \in [1..n -> Args]
  BY <1>2 DEF Args
<1>5. line.args \in Seq(Args)
  BY <1>3, <1>4
<1> QED BY <1>1, <1>5

\* A size below zero counts as zero.
LEMMA NotNegative ==
  ASSUME NEW a \in Int, NEW b, b = IF a < 0 THEN 0 ELSE a
  PROVE  b \in Nat
  OBVIOUS

\* The invariant holds at first.
LEMMA SelectInit == CommandInit => SelectInv
  BY DEF CommandInit, SelectInv

\* One round of the loop.
LEMMA SelectRound ==
  ASSUME line.args \in Seq(Args), NEW n \in 0..Len(Wanted), Looked(n), todo # <<>>,
         Matching(Head(todo)) # <<>>, line' = line,
         chosen' = chosen \o Matching(Head(todo)), todo' = Tail(todo)
  PROVE  n + 1 \in 0..Len(Wanted) /\ Looked(n + 1)'
<1> DEFINE f == Matching(Head(todo))
           arg == Wanted[n + 1]
           l == Len(Wanted)
<1>1. Wanted \in Seq(Args) /\ l \in Nat /\ Wanted' = Wanted /\ n \in Nat
  BY WantedType DEF Wanted
<1>2. n < l /\ arg \in Args /\ Head(todo) = arg /\ Tail(todo) = SubSeq(Wanted, n + 2, l)
  <2>1. todo = SubSeq(Wanted, n + 1, l)
    BY DEF Looked
  <2>2. n < l
    BY <1>1, <2>1
  <2>3. Len(todo) = l - n /\ Head(todo) = arg
    BY <1>1, <2>1, <2>2
  <2>4. Tail(todo) = SubSeq(Wanted, n + 2, l)
    BY <1>1, <2>1, <2>2
  <2> QED BY <1>1, <2>2, <2>3, <2>4
<1>3. /\ f \in Seq(Chosen) /\ f # <<>>
      /\ \A e \in Chosen : (\E k \in DOMAIN f : f[k] = e) <=> Meets(arg, e)
      /\ \A k, j \in DOMAIN f : f[k] = f[j] => k = j
  <2>1. f = Matching(arg)
    BY <1>2
  <2> QED BY <1>2, <2>1, MatchingFacts
<1>4. chosen \in Seq(Chosen) /\ chosen' = chosen \o f
  BY DEF Looked
<1> HIDE DEF f, l
<1>5. chosen' \in Seq(Chosen) /\ chosen' # <<>>
  <2>1. chosen \o f \in Seq(Chosen) /\ Len(chosen \o f) = Len(chosen) + Len(f)
    BY <1>3, <1>4, ConcatProperties
  <2>2. Len(chosen) \in Nat /\ Len(f) \in Nat \ {0}
    BY <1>3, <1>4
  <2> DEFINE c == chosen \o f
  <2>3. c \in Seq(Chosen) /\ Len(c) # 0
    BY <2>1, <2>2
  <2> HIDE DEF c
  <2>4. c # <<>>
    BY <2>3
  <2> QED BY <1>4, <2>3, <2>4 DEF c
<1>6. ASSUME NEW m \in 1..(n + 1)
      PROVE  \E i \in DOMAIN allModules : Matches(Wanted[m], allModules[i])
  <2>1. CASE m = n + 1
    <3>1. 1 \in DOMAIN f /\ f[1] \in Chosen
      BY <1>3
    <3>2. Meets(arg, f[1])
      BY <1>3, <3>1
    <3>3. f[1].module \in DOMAIN allModules
      BY <3>1 DEF Chosen
    <3> QED BY <2>1, <3>2, <3>3 DEF Meets
  <2>2. CASE m # n + 1
    <3>1. m \in 1..n
      BY <1>1, <2>2
    <3> QED BY <3>1 DEF Looked
  <2> QED BY <2>1, <2>2
<1>7. ASSUME NEW e \in Chosen
      PROVE  Occurs(e, chosen') = Cardinality({m \in 1..(n + 1) : Meets(Wanted[m], e)})
  <2> DEFINE Q == {m \in 1..(n + 1) : Meets(Wanted[m], e)}
             more == IF Meets(arg, e) THEN 1 ELSE 0
  <2>1. Occurs(e, chosen') = Occurs(e, chosen) + (IF Has(f, e) THEN 1 ELSE 0)
    <3>1. Once(f)
      BY <1>3 DEF Once
    <3> QED BY <1>3, <1>4, <3>1, OccursAppended
  <2>2. (IF Has(f, e) THEN 1 ELSE 0) = more
    BY <1>3 DEF Has
  <2>3. Occurs(e, chosen) = Cardinality({m \in 1..n : Meets(Wanted[m], e)})
    BY DEF Looked
  <2>4. Cardinality({m \in 1..(n + 1) : m \in Q}) =
          Cardinality({m \in 1..n : m \in Q}) + (IF n + 1 \in Q THEN 1 ELSE 0)
    <3>1. n \in Nat
      BY <1>1
    <3> HIDE DEF Q
    <3> QED BY <3>1, OneMorePlace, Zenon
  <2>5. {m \in 1..(n + 1) : m \in Q} = {m \in 1..(n + 1) : Meets(Wanted[m], e)}
    OBVIOUS
  <2>6. {m \in 1..n : m \in Q} = {m \in 1..n : Meets(Wanted[m], e)}
    BY <1>1
  <2>7. (IF n + 1 \in Q THEN 1 ELSE 0) = more
    BY <1>1
  <2> HIDE DEF Q, more
  <2> QED BY <2>1, <2>2, <2>3, <2>4, <2>5, <2>6, <2>7
<1>8. todo' = SubSeq(Wanted, (n + 1) + 1, Len(Wanted))
  BY <1>1, <1>2 DEF l
<1>9. n + 1 \in 0..Len(Wanted)
  BY <1>1, <1>2 DEF l
<1> QED BY <1>1, <1>5, <1>6, <1>7, <1>8, <1>9 DEF Looked, Meets

\* Before the first round.
LEMMA NothingLooked ==
  ASSUME line.args \in Seq(Args), todo = Wanted, chosen = <<>>
  PROVE  0 \in 0..Len(Wanted) /\ Looked(0)
<1>1. Wanted \in Seq(Args) /\ Len(Wanted) \in Nat
  BY WantedType
<1>2. SubSeq(Wanted, 1, Len(Wanted)) = Wanted
  BY <1>1
<1>3. chosen \in Seq(Chosen) /\ DOMAIN chosen = {}
  OBVIOUS
<1> DEFINE zero == 0
<1>4. /\ zero = 0 /\ zero \in 0..Len(Wanted) /\ ~(zero > 0) /\ 1..zero = {}
      /\ SubSeq(Wanted, zero + 1, Len(Wanted)) = Wanted
  BY <1>1, <1>2
<1> HIDE DEF zero
<1>5. ASSUME NEW e \in Chosen
      PROVE  Occurs(e, chosen) = Cardinality({m \in 1..zero : Meets(Wanted[m], e)})
  <2>1. {m \in 1..zero : Meets(Wanted[m], e)} = {} /\ {k \in DOMAIN chosen : chosen[k] = e} = {}
    BY <1>3, <1>4
  <2> QED BY <2>1 DEF Occurs
<1>6. Looked(zero)
  BY <1>3, <1>4, <1>5 DEF Looked
<1> QED BY <1>4, <1>6

\* Every step of the command keeps the invariant.
LEMMA SelectStep ==
  ASSUME MaxArgs \in Nat, SizeFlags \subseteq Int, SelectInv, [CommandNext]_commandVars
  PROVE  SelectInv'
<1> USE DEF SelectInv
<1>1. CASE main
  BY <1>1 DEF main, Goto, FlagsExit, Exit
<1>2. CASE GetCmd
  BY <1>2 DEF GetCmd, Goto, FlagsExit, Exit
<1>3. CASE Fetch
  BY <1>3 DEF Fetch, Exit
<1>4. CASE RunCmd
  <2>1. CASE line.flags \in FlagErrors
    BY <1>4, <2>1 DEF RunCmd, FlagsExit, Exit
  <2>2. CASE line.flags \notin FlagErrors
    <3>1. /\ line.verb = "run" /\ place' = "bind" /\ line' = line /\ chosen' = <<>>
          /\ todo' = IF line.args = <<>> THEN allModuleNames ELSE line.args
          /\ size' = IF line.size < 0 THEN 0 ELSE line.size
      BY <1>4, <2>2 DEF RunCmd
    <3>2. line.args \in Seq(Args) /\ line.size \in Int
      BY <2>2, <3>1, RunLine
    <3>3. size' \in Nat
      <4> HIDE DEF SelectInv
      <4> QED BY <3>1, <3>2, NotNegative
    <3>4. todo' = Wanted'
      BY <3>1 DEF Wanted
    <3> QED BY <3>1, <3>2, <3>3, <3>4
  <2> QED BY <2>1, <2>2
<1>5. CASE BindOk
  <2>1. /\ place = "bind" /\ place' = "select" /\ UNCHANGED <<line, size, todo, chosen>>
        /\ \E ip \in UsableIP : bind' = [addr |-> ip, userSet |-> line.iface # ""]
    BY <1>5 DEF BindOk
  <2>2. UsableIP' = UsableIP
    BY <2>1 DEF UsableIP
  <2>2a. bind'.userSet = (line.iface # "") /\ bind'.addr \in UsableIP
    <3>1. PICK ip \in UsableIP : bind' = [addr |-> ip, userSet |-> line.iface # ""]
      BY <2>1
    <3>2. bind'.addr = ip /\ bind'.userSet = (line.iface # "")
      BY <3>1
    <3> QED BY <3>2
  <2>3. 0 \in 0..Len(Wanted) /\ Looked(0)
    BY <2>1, NothingLooked
  <2>4. Looked(0)' /\ Wanted' = Wanted
    BY <2>1, <2>3 DEF Looked, Wanted
  <2>5. line.args \in Seq(Args) /\ size \in Nat /\ line.verb = line'.verb
    BY <2>1
  <2> QED BY <2>1, <2>2, <2>2a, <2>3, <2>4, <2>5
<1>6. CASE BindFails
  BY <1>6 DEF BindFails, Exit
<1>7. CASE Select
  <2>0. /\ place = "select" /\ line' = line /\ size' = size /\ bind' = bind
        /\ UsableIP' = UsableIP /\ Wanted' = Wanted
    BY <1>7 DEF Select, Goto, Exit, UsableIP, Wanted
  <2>1. PICK n \in 0..Len(Wanted) : Looked(n)
    BY <2>0
  <2>2. CASE todo = <<>>
    <3>1. place' = "running" /\ todo' = todo /\ chosen' = chosen
      BY <1>7, <2>2 DEF Select, Goto
    <3>2. Looked(n)'
      BY <2>0, <2>1, <3>1 DEF Looked
    <3> QED BY <2>0, <2>1, <2>2, <3>1, <3>2
  <2>3. CASE todo # <<>> /\ Matching(Head(todo)) = <<>>
    BY <1>7, <2>3 DEF Select, Exit
  <2>4. CASE todo # <<>> /\ Matching(Head(todo)) # <<>>
    <3>1. /\ place' = place /\ chosen' = chosen \o Matching(Head(todo)) /\ todo' = Tail(todo)
      BY <1>7, <2>4 DEF Select
    <3>2. n + 1 \in 0..Len(Wanted) /\ Looked(n + 1)'
      BY <2>0, <2>1, <2>4, <3>1, SelectRound
    <3> QED BY <2>0, <3>1, <3>2
  <2> QED BY <2>2, <2>3, <2>4
<1>8. CASE Run
  BY <1>8 DEF Run, Exit
<1>9. CASE UNCHANGED commandVars
  <2>1. UNCHANGED <<line, place, size, bind, todo, chosen, code>>
    BY <1>9 DEF commandVars
  <2>2. Wanted' = Wanted /\ UsableIP' = UsableIP /\ \A n \in 0..Len(Wanted) : Looked(n) => Looked(n)'
    BY <2>1 DEF Wanted, Looked, UsableIP
  <2> QED BY <2>1, <2>2
<1> QED BY <1>1, <1>2, <1>3, <1>4, <1>5, <1>6, <1>7, <1>8, <1>9 DEF CommandNext, Exited

\* The invariant, for any arguments, interfaces and sizes.
LEMMA SelectInvariant == CommandSpec => []SelectInv
<1>1. MaxArgs \in Nat /\ SizeFlags \subseteq Int
  BY CommandAssumption
<1>2. SelectInv /\ [CommandNext]_commandVars => SelectInv'
  BY <1>1, SelectStep
<1> QED BY SelectInit, <1>2, PTL DEF CommandSpec

\* The address of an interface: an external one, if it has any.
LEMMA UsableFacts ==
  ASSUME NEW ips, ips \in Seq(Range(ips)), ips # <<>>
  PROVE  Usable(ips) \in
           (IF Range(ips) \cap External # {} THEN External ELSE Range(ips)) \cap Range(ips)
<1> DEFINE ext == {i \in DOMAIN ips : ips[i] \in External}
<1>1. DOMAIN ips = 1..Len(ips) /\ Len(ips) \in Nat \ {0}
  <2> DEFINE T == Range(ips)
  <2>1. ips \in Seq(T)
    OBVIOUS
  <2> HIDE DEF T
  <2> QED BY <2>1
<1>2. Usable(ips) = ips[IF ext # {} THEN Min(ext) ELSE 1]
  BY DEF Usable, IsExternalIP
<1>3. ASSUME ext # {} PROVE Min(ext) \in ext
  <2>1. ext \in SUBSET Nat
    BY <1>1
  <2> HIDE DEF ext
  <2>2. PICK x \in ext : \A y \in ext : ~(y < x)
    BY <1>3, <2>1, LeastNatural
  <2>3. \A y \in ext : x <= y
    BY <2>1, <2>2
  <2> QED BY <2>3 DEF Min
<1>4. Range(ips) = {ips[i] : i \in DOMAIN ips}
  BY DEF Range
<1>5. CASE ext # {}
  BY <1>2, <1>3, <1>4, <1>5
<1>6. CASE ext = {}
  <2>1. Usable(ips) \in Range(ips)
    BY <1>1, <1>2, <1>4, <1>6
  <2>2. Range(ips) \cap External = {}
    BY <1>4, <1>6
  <2> QED BY <2>1, <2>2
<1> QED BY <1>5, <1>6

\* Of the addresses of the interface asked for, UsableIP picks an external one
\* if there is one, and an address asked for as it is.  This is about the
\* choice alone: tor and telegram-bot do not use the address they are given.
THEOREM SelectionBindIsBest == CommandSpec => []BindIsBest
<1>1. ASSUME SelectInv, place = "running", bind.userSet
      PROVE  IF line.iface \in Literals
               THEN bind.addr = line.iface
               ELSE bind.addr \in
                      (IF Range(Interfaces[line.iface]) \cap External # {} THEN External
                       ELSE Range(Interfaces[line.iface])) \cap Range(Interfaces[line.iface])
  <2> DEFINE ips == Interfaces[line.iface]
  <2>1. line.iface # "" /\ bind.addr \in UsableIP
    BY <1>1 DEF SelectInv
  <2>2. CASE line.iface \in Literals
    BY <2>1, <2>2 DEF UsableIP
  <2>3. CASE line.iface \notin Literals
    <3>1. line.iface \in DOMAIN Interfaces /\ ips # <<>> /\ bind.addr = Usable(ips)
      BY <2>1, <2>3 DEF UsableIP
    <3>2. ips \in Seq(Range(ips))
      BY <3>1, CommandAssumption
    <3> HIDE DEF ips
    <3>3. bind.addr \in (IF Range(ips) \cap External # {} THEN External ELSE Range(ips)) \cap Range(ips)
      BY <3>1, <3>2, UsableFacts
    <3> QED BY <2>3, <3>3 DEF ips
  <2> QED BY <2>2, <2>3
<1>2. SelectInv => BindIsBest
  BY <1>1, Zenon DEF BindIsBest
<1> QED BY <1>2, SelectInvariant, PTL

\* When the loop ends it has been through the whole list.
LEMMA AllLooked ==
  ASSUME SelectInv, place = "running"
  PROVE  /\ Wanted \in Seq(Args) /\ Len(Wanted) \in Nat \ {0}
         /\ line.args \in Seq(Args) /\ size \in Nat
         /\ Looked(Len(Wanted))
<1>1. line.args \in Seq(Args) /\ size \in Nat /\ todo = <<>>
  BY DEF SelectInv
<1>2. PICK n \in 0..Len(Wanted) : Looked(n)
  BY DEF SelectInv
<1>3. Wanted \in Seq(Args) /\ Len(Wanted) \in Nat \ {0}
  BY <1>1, WantedType
<1>4. SubSeq(Wanted, n + 1, Len(Wanted)) = <<>>
  BY <1>1, <1>2 DEF Looked
<1>5. n = Len(Wanted)
  BY <1>3, <1>4
<1> QED BY <1>1, <1>2, <1>3, <1>5

\* The invariant says so when the loop has ended.
LEMMA RunsNamed == SelectInv => RunsWhatWasNamed
<1> DEFINE Named(i, s) ==
             Cardinality({k \in DOMAIN chosen : chosen[k] = [module |-> i, scope |-> s]})
               = Cardinality({n \in DOMAIN line.args :
                                  Matches(line.args[n], allModules[i]) /\ Tail(line.args[n]) = s})
<1>1. ASSUME SelectInv, place = "running"
      PROVE  chosen # <<>> /\ size >= 0
  <2>1. Looked(Len(Wanted)) /\ Len(Wanted) > 0 /\ size \in Nat
    BY <1>1, AllLooked
  <2> QED BY <2>1 DEF Looked
<1>2. ASSUME SelectInv, place = "running", NEW a \in Range(line.args)
      PROVE  \E m \in Range(allModules) : Matches(a, m)
  <2>1. line.args # <<>> /\ line.args \in Seq(Args) /\ Looked(Len(Wanted))
    BY <1>2, AllLooked DEF Range
  <2>2. PICK n \in 1..Len(Wanted) : a = Wanted[n]
    BY <1>2, <2>1 DEF Range, Wanted
  <2>3. PICK i \in DOMAIN allModules : Matches(a, allModules[i])
    BY <2>1, <2>2 DEF Looked
  <2>4. allModules[i] \in Range(allModules)
    BY DEF Range
  <2> QED BY <2>3, <2>4
<1>3. ASSUME SelectInv, place = "running", line.args # <<>>,
             NEW i \in DOMAIN allModules, NEW s \in {Tail(a) : a \in Arguments}
      PROVE  Named(i, s)
  <2> DEFINE e == [module |-> i, scope |-> s]
  <2>1. /\ Wanted = line.args /\ DOMAIN line.args = 1..Len(Wanted)
        /\ Looked(Len(Wanted))
    <3>1. Wanted \in Seq(Args) /\ Looked(Len(Wanted)) /\ Wanted = line.args
      BY <1>3, AllLooked DEF Wanted
    <3> QED BY <3>1
  <2>2. e \in Chosen
    BY DEF Chosen, Args
  <2>3. Cardinality({k \in DOMAIN chosen : chosen[k] = e}) =
          Cardinality({m \in DOMAIN line.args : Meets(line.args[m], e)})
    BY <2>1, <2>2 DEF Looked, Occurs
  <2>4. {m \in DOMAIN line.args : Meets(line.args[m], e)} =
          {m \in DOMAIN line.args : Matches(line.args[m], allModules[i]) /\ Tail(line.args[m]) = s}
    BY DEF Meets
  <2> QED BY <2>3, <2>4
<1>4. SelectInv => RunsWhatWasNamed
  <2> HIDE DEF Named
  <2>1. SelectInv /\ place = "running" =>
          /\ chosen # <<>> /\ size >= 0
          /\ \A a \in Range(line.args) : \E m \in Range(allModules) : Matches(a, m)
          /\ line.args # <<>> => \A i \in DOMAIN allModules, s \in {Tail(a) : a \in Arguments} : Named(i, s)
    BY <1>1, <1>2, <1>3, Zenon
  <2> QED BY <2>1, Zenon DEF RunsWhatWasNamed, Named
<1> QED BY <1>4

\* selectSimulations selects for each argument the modules it names, once each
\* and under its scope; every argument names one, and the size is no less than 0.
THEOREM SelectionRunsWhatWasNamed == CommandSpec => []RunsWhatWasNamed
BY RunsNamed, SelectInvariant, PTL

\* Every default module has the name of exactly one unseen place.
LEMMA OneUnseen ==
  /\ \A i \in 1..19 : i # 10 => \E u \in Unseen : allModules[u].name = allModules[i].name
  /\ \A u, v \in Unseen : allModules[u].name = allModules[v].name => u = v
  /\ \A u \in Unseen : u # 10
<1>1. \A i : i \in Unseen <=>
        /\ i \in 1..19 /\ IsDefault(allModules[i])
        /\ \A j \in 1..(i - 1) : IsDefault(allModules[j]) => allModules[j].name # allModules[i].name
  BY Rows DEF Unseen
<1>2. \A i \in 1..19 : IsDefault(allModules[i]) <=> i # 10
  BY Table
<1>3. ASSUME NEW i \in 1..19, i # 10
      PROVE  \E u \in Unseen : allModules[u].name = allModules[i].name
  <2> DEFINE S == {j \in 1..19 : IsDefault(allModules[j]) /\ allModules[j].name = allModules[i].name}
  <2>1. i \in S /\ S \in SUBSET Nat
    BY <1>2, <1>3
  <2> HIDE DEF S
  <2>2. PICK u \in S : \A j \in S : ~(j < u)
    BY <2>1, LeastNatural
  <2>3. u \in 1..19 /\ IsDefault(allModules[u]) /\ allModules[u].name = allModules[i].name
    BY <2>2 DEF S
  <2>4. ASSUME NEW j \in 1..(u - 1), IsDefault(allModules[j])
        PROVE  allModules[j].name # allModules[u].name
    <3>1. j \in 1..19 /\ j < u
      BY <2>3
    <3>2. j \notin S
      BY <2>2, <3>1
    <3> QED BY <2>3, <2>4, <3>1, <3>2 DEF S
  <2> QED BY <1>1, <2>3, <2>4
<1>4. ASSUME NEW u \in Unseen, NEW v \in Unseen, allModules[u].name = allModules[v].name
      PROVE  u = v
  <2>1. u \in 1..19 /\ v \in 1..19
    BY <1>1
  <2>2. ~(u < v)
    <3>1. u < v => u \in 1..(v - 1)
      BY <2>1
    <3> QED BY <1>1, <1>4, <3>1
  <2>3. ~(v < u)
    <3>1. v < u => v \in 1..(u - 1)
      BY <2>1
    <3> QED BY <1>1, <1>4, <3>1
  <2> QED BY <2>1, <2>2, <2>3
<1> QED BY <1>1, <1>2, <1>3, <1>4

\* The names that run falls back on meet each default module once, without a
\* scope, and nothing else.
LEMMA NamesMeet ==
  ASSUME NEW e \in Chosen
  PROVE  LET M == {m \in 1..Len(allModuleNames) : Meets(allModuleNames[m], e)}
         IN  IF e.module # 10 /\ e.scope = <<>> THEN \E m \in M : M = {m} ELSE M = {}
<1> DEFINE N == allModuleNames
           q == InOrder(Unseen)
           i == e.module
           name(j) == allModules[j].name
           M == {m \in 1..Len(N) : Meets(N[m], e)}
<1>1. i \in 1..19
  BY Rows DEF Chosen
<1>2. /\ Len(N) = Len(q)
      /\ \A m \in 1..Len(N) : q[m] \in Unseen /\ N[m] = <<name(q[m])>>
  BY NamesAreArgs
<1>3. /\ \A k, l \in 1..Len(q) : q[k] = q[l] => k = l
      /\ \A u \in Unseen : \E k \in 1..Len(q) : q[k] = u
      /\ Unseen \in SUBSET (1..19)
  BY UnseenPlaces
<1> HIDE DEF q, N
<1>4. ASSUME NEW m \in 1..Len(N)
      PROVE  Meets(N[m], e) <=> i # 10 /\ e.scope = <<>> /\ name(q[m]) = name(i)
  <2>1. q[m] \in 1..19 /\ q[m] # 10
    BY <1>2, <1>3, OneUnseen
  <2>2. name(q[m]) \in OneWord \cup TwoWords
    BY <2>1, Table
  <2>3. N[m][1] = name(q[m]) /\ Tail(N[m]) = <<>>
    <3> DEFINE w == name(q[m])
    <3>1. N[m] = <<w>>
      BY <1>2
    <3> HIDE DEF w
    <3>2. N[m][1] = w /\ Tail(N[m]) = <<>>
      BY <3>1
    <3> QED BY <3>2 DEF w
  <2>4. Meets(N[m], e) <=> IsPrefix(name(q[m]), name(i)) /\ e.scope = <<>>
    BY <2>3 DEF Meets, Matches
  <2>5. ASSUME i = 10 PROVE ~IsPrefix(name(q[m]), name(i))
    <3>1. name(i) = <<"tor">>
      BY <1>1, <2>5, Table
    <3>2. <<"tor">> \notin OneWord \cup TwoWords
      BY DEF OneWord, TwoWords
    <3>3. IsPrefix(name(q[m]), <<"tor">>) => name(q[m]) = <<"tor">>
      BY <2>2, NoPrefix
    <3> QED BY <2>2, <3>1, <3>2, <3>3
  <2>6. ASSUME i # 10 PROVE IsPrefix(name(q[m]), name(i)) <=> name(q[m]) = name(i)
    <3>1. name(i) \in OneWord \cup TwoWords
      BY <1>1, <2>6, Table
    <3>2. IsPrefix(name(q[m]), name(i)) => name(q[m]) = name(i)
      BY <2>2, <3>1, NoPrefix
    <3>3. IsPrefix(name(i), name(i))
      <4> DEFINE w == name(i)
      <4>1. w \in Seq(Words)
        BY <3>1, WordsAreStrings
      <4> HIDE DEF w
      <4>2. IsPrefix(w, w)
        BY <4>1 DEF IsPrefix
      <4> QED BY <4>2 DEF w
    <3> QED BY <3>2, <3>3
  <2> QED BY <2>4, <2>5, <2>6
<1>5. CASE ~(i # 10 /\ e.scope = <<>>)
  BY <1>4, <1>5 DEF N
<1>6. CASE i # 10 /\ e.scope = <<>>
  <2>1. PICK u \in Unseen : name(u) = name(i)
    BY <1>1, <1>6, OneUnseen
  <2>2. PICK m \in 1..Len(N) : q[m] = u
    BY <1>2, <1>3
  <2>3. m \in M
    BY <1>4, <1>6, <2>1, <2>2
  <2>4. ASSUME NEW k \in M PROVE k = m
    <3>1. k \in 1..Len(N) /\ name(q[k]) = name(q[m])
      BY <1>4, <2>1, <2>2
    <3>2. q[k] = q[m]
      BY <1>2, <3>1, OneUnseen
    <3> QED BY <1>2, <1>3, <3>1, <3>2
  <2>5. M = {m}
    <3> HIDE DEF M
    <3> QED BY <2>3, <2>4
  <2> QED BY <1>6, <2>3, <2>5 DEF N
<1> QED BY <1>5, <1>6 DEF N

\* By counting: every default module occurs once among those chosen.
LEMMA DefaultsRun == SelectInv => DefaultRunsAllOnce
<1>1. ASSUME SelectInv, place = "running", line.args = <<>>
      PROVE  /\ {chosen[k].module : k \in DOMAIN chosen} =
                  {i \in DOMAIN allModules : ~allModules[i].experimental}
             /\ IsInjective(chosen)
             /\ \A k \in DOMAIN chosen : chosen[k].scope = <<>>
  <2> DEFINE Plain(e) == e.module # 10 /\ e.scope = <<>>
             At(e) == {k \in DOMAIN chosen : chosen[k] = e}
             M(e) == {m \in 1..Len(allModuleNames) : Meets(allModuleNames[m], e)}
  <2>1. Wanted = allModuleNames /\ Looked(Len(Wanted)) /\ chosen \in Seq(Chosen)
    BY <1>1, AllLooked DEF Wanted, Looked
  <2>2. ASSUME NEW e \in Chosen
        PROVE  /\ Plain(e) => \E k \in At(e) : At(e) = {k}
               /\ ~Plain(e) => At(e) = {}
    <3>1. Cardinality(At(e)) = Cardinality(M(e))
      BY <2>1 DEF Looked, Occurs
    <3>2. IsFiniteSet(At(e))
      <4>1. DOMAIN chosen = 1..Len(chosen) /\ Len(chosen) \in Nat
        BY <2>1
      <4>2. IsFiniteSet(1..Len(chosen)) /\ At(e) \in SUBSET (1..Len(chosen))
        BY <4>1, FS_Interval
      <4> QED BY <4>2, FS_Subset
    <3>3. IF Plain(e) THEN \E m \in M(e) : M(e) = {m} ELSE M(e) = {}
      BY NamesMeet
    <3> HIDE DEF M, At, Plain
    <3>4. CASE Plain(e)
      <4>1. PICK m : M(e) = {m}
        BY <3>3, <3>4
      <4>2. Cardinality(At(e)) = 1
        BY <3>1, <4>1, FS_Singleton
      <4> QED BY <3>2, <3>4, <4>2, FS_Singleton
    <3>5. CASE ~Plain(e)
      <4>1. Cardinality(At(e)) = 0
        BY <3>1, <3>3, <3>5, FS_EmptySet
      <4> QED BY <3>2, <3>5, <4>1, FS_EmptySet
    <3> QED BY <3>4, <3>5
  <2>3. ASSUME NEW k \in DOMAIN chosen
        PROVE  chosen[k] \in Chosen /\ Plain(chosen[k])
    <3>1. chosen[k] \in Chosen
      BY <2>1
    <3>2. k \in At(chosen[k])
      OBVIOUS
    <3> HIDE DEF At, Plain
    <3> QED BY <2>2, <3>1, <3>2
  <2>4. ASSUME NEW k \in DOMAIN chosen, NEW l \in DOMAIN chosen, chosen[k] = chosen[l]
        PROVE  k = l
    <3>1. k \in At(chosen[k]) /\ l \in At(chosen[k])
      BY <2>4
    <3> HIDE DEF At, Plain
    <3> QED BY <2>2, <2>3, <3>1
  <2>5. ASSUME NEW i \in DOMAIN allModules, i # 10
        PROVE  \E k \in DOMAIN chosen : chosen[k].module = i
    <3> DEFINE e == [module |-> i, scope |-> <<>>]
    <3>1. e \in Chosen
      <4> DEFINE w == allModules[i].name
      <4>1. <<w>> \in Args
        BY DEF Args
      <4> HIDE DEF w
      <4>2. Tail(<<w>>) = <<>>
        OBVIOUS
      <4>3. <<>> \in {Tail(a) : a \in Args}
        BY <4>1, <4>2
      <4> QED BY <4>3 DEF Chosen
    <3>2. Plain(e)
      BY <2>5
    <3>3. e.module = i
      OBVIOUS
    <3> HIDE DEF e, Plain
    <3>4. PICK k : k \in At(e)
      BY <2>2, <3>1, <3>2
    <3> QED BY <3>3, <3>4
  <2>6. \A i \in DOMAIN allModules : ~allModules[i].experimental <=> i # 10
    BY Rows, Table DEF IsDefault
  <2>7. \A k \in DOMAIN chosen : chosen[k].module \in DOMAIN allModules
    BY <2>3 DEF Chosen
  <2>8. {chosen[k].module : k \in DOMAIN chosen} = {i \in DOMAIN allModules : ~allModules[i].experimental}
    BY <2>3, <2>5, <2>6, <2>7
  <2> QED BY <2>3, <2>4, <2>8 DEF IsInjective
<1>2. SelectInv => DefaultRunsAllOnce
  BY <1>1, Zenon DEF DefaultRunsAllOnce
<1> QED BY <1>2

\* Without arguments, run selects every module of the table that is not
\* experimental exactly once, and without a scope.
THEOREM SelectionDefaultRunsAllOnce == CommandSpec => []DefaultRunsAllOnce
BY DefaultsRun, SelectInvariant, PTL
=============================================================================
