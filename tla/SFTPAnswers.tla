---------------------------- MODULE SFTPAnswers ----------------------------
(***************************************************************************)
(* What a client can tell apart in an SFTP server's answers.  SSHTransfer   *)
(* uses these seven; SFTPPackets shows that every packet is one of them.    *)
(***************************************************************************)

Requests == {"init", "open", "write", "close"}

AllAnswers == {"version", "oldversion", "handle", "ok", "denied", "garbled", "empty"}

\* The packet type an answer carries, and what ReadResp makes of it: "panic"
\* when there is no first byte, the answer when its type is the expected one.
TypeOf(a) ==
  CASE a \in {"version", "oldversion"} -> "version"
    [] a = "handle" -> "handle"
    [] a \in {"ok", "denied"} -> "status"
    [] OTHER -> "other"

ReadResp(expected, a) ==
  IF a = "empty" THEN "panic" ELSE IF TypeOf(a) = expected THEN a ELSE "error"

Expected(request) ==
  CASE request = "init" -> "version"
    [] request = "open" -> "handle"
    [] OTHER -> "status"

\* The answers that the callers of ReadResp go on with.
Accepted == {"version", "handle", "ok"}
=============================================================================
