----------------------------- MODULE SoftErrors -----------------------------
(***************************************************************************)
(* Which failures the simulators pass over.  "timeout" stands for every     *)
(* network error that says so of itself, "eof" for the end of a stream,     *)
(* "unreachable" and "reset" for any other.  An error of girc's own is none *)
(* of these, even when it wraps a timeout.                                  *)
(***************************************************************************)

\* How a lookup or a connect may fail, the timeout apart.
LookupErrors == {"no such host", "unreachable"}
DialErrors == {"refused", "unreachable"}

\* Mutant: a timeout is an error like any other.
MutSoftError(e, ss) == e \in {"eof"} \cup ss

\* ss are the errors that the caller itself lets pass.
isSoftError(e, ss) == e \in {"eof", "timeout"} \cup ss
=============================================================================
