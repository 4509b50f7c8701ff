--------------------------- MODULE ScatterGather ---------------------------
(***************************************************************************)
(* What SSHTransfer.Simulate promises its caller, without the protocol: it  *)
(* launches some workers, every launched worker reports once, and Simulate  *)
(* returns an error exactly when a worker reported one, after all of them.  *)
(***************************************************************************)
EXTENDS FiniteSets

CONSTANT Workers

VARIABLES phase,     \* of the caller
          needed,    \* the workers this call takes
          outcome    \* of each worker

vars == <<phase, needed, outcome>>

Phases == {"ready", "launching", "gathering", "ok", "error", "skipped", "crashed"}
Outcomes == {"none", "working", "ok", "error"}

Init ==
  /\ phase = "ready"
  /\ needed = {}
  /\ outcome = [w \in Workers |-> "none"]

\* The size or the scope is refused: nothing is launched.
Reject ==
  /\ phase = "ready"
  /\ phase' \in {"error", "skipped"}
  /\ UNCHANGED <<needed, outcome>>

Scatter ==
  /\ phase = "ready"
  /\ \E W \in (SUBSET Workers) \ {{}} : needed' = W
  /\ phase' = "launching"
  /\ UNCHANGED outcome

Launch(w) ==
  /\ phase = "launching"
  /\ w \in needed
  /\ outcome[w] = "none"
  /\ outcome' = [outcome EXCEPT ![w] = "working"]
  /\ phase' = IF \E v \in needed \ {w} : outcome[v] = "none" THEN "launching" ELSE "gathering"
  /\ UNCHANGED needed

Report(w) ==
  /\ phase \in {"launching", "gathering"}
  /\ outcome[w] = "working"
  /\ \E o \in {"ok", "error"} : outcome' = [outcome EXCEPT ![w] = o]
  /\ UNCHANGED <<phase, needed>>

Gather ==
  /\ phase = "gathering"
  /\ \A w \in needed : outcome[w] \in {"ok", "error"}
  /\ phase' = IF \E w \in needed : outcome[w] = "error" THEN "error" ELSE "ok"
  /\ UNCHANGED <<needed, outcome>>

\* A worker goroutine panics and takes the process with it.
Crash ==
  /\ \E w \in needed : outcome[w] = "working"
  /\ phase' = "crashed"
  /\ UNCHANGED <<needed, outcome>>

Next ==
  \/ Reject \/ Scatter \/ Gather \/ Crash
  \/ \E w \in Workers : Launch(w) \/ Report(w)

\* Once work is launched the call comes back.
Responds == phase = "launching" ~> phase \in {"ok", "error", "crashed"}

Safe == Init /\ [][Next]_vars
Spec == Safe /\ Responds
=============================================================================
