-------------------------- MODULE ExchangesProofs --------------------------
(***************************************************************************)
(* What the one-shot simulators keep, for any deadlines and any patience of *)
(* the libraries.                                                           *)
(*                                                                         *)
(* The invariant says of each wait who can be in it and how late it can be  *)
(* (Waits), which deadlines the socket has by then (Deadlined), and that    *)
(* nothing is decided before Simulate returns or girc cleans up             *)
(* (Undecided).  An upgrade can make girc dial once more after the context  *)
(* has ended, but no session begins then: its first write fails.            *)
(***************************************************************************)
EXTENDS Exchanges, TLAPS

Pace == IF asked THEN Backlog ELSE 0

Waits ==
  /\ pc = "dial" => /\ kind \in {"connect", "miner", "cleartext", "irc", "tor"}
                    /\ \/ now <= deadline
                       \/ kind = "irc" /\ secure /\ now <= deadline + FirstPing + Pace
  /\ pc = "lookup" => \/ kind = "resolve" /\ now <= deadline
                      \/ kind = "icmp" /\ since <= deadline /\ now <= since + LookupLimit
  /\ pc = "write" => \/ kind \in {"miner", "cleartext", "irc"} /\ now <= deadline
                     \/ kind = "icmp" /\ now <= deadline + LookupLimit
  /\ pc = "read" => kind \in {"miner", "icmp"} /\ now <= deadline
  /\ pc = "request" => kind = "telegram" \/ (kind = "tor" /\ now <= deadline)
  /\ pc = "session" => kind = "irc" /\ since <= deadline /\ now <= since + FirstPing
  /\ pc = "handshake" => kind = "irc" /\ secure /\ since <= deadline /\ now <= since + PongLimit
  /\ pc = "stuck" => kind = "irc" /\ secure /\ since <= deadline /\ now <= since + ReadLimit
  /\ pc = "flush" => kind = "irc" /\ since <= deadline + FirstPing /\ now <= since + Pace

Deadlined ==
  /\ kind = "icmp" => readBy = deadline /\ writeBy = deadline
  /\ kind \in {"miner", "irc"} /\ pc \in {"write", "read", "session", "handshake", "stuck"} => writeBy = deadline
  /\ kind = "miner" /\ pc \in {"write", "read"} => readBy = deadline

\* How a session may end.
SessionEnds == {"none", "timeout", "eof", "garbled", "reset", "sts"}

Undecided ==
  /\ pc # "returned" => err = "none"
  /\ pc \notin {"returned", "stuck", "flush"} => saw = "none"
  /\ pc = "stuck" => saw \in {"none", "noping"}
  /\ pc = "flush" => saw \in SessionEnds /\ (saw = "sts" => secure)
  /\ secure => kind = "irc"
  /\ conn = "open" => kind \in {"miner", "cleartext", "irc"}
  /\ pc # "returned" /\ kind = "icmp" => round < PingCount
  /\ pc # "returned" /\ kind = "telegram" => round < Requests

IInv ==
  /\ TypeOK
  /\ NoneLeftOpen
  /\ EndsSoon
  /\ SilenceIsNoFailure
  /\ SuccessIsEarned
  /\ Waits
  /\ Deadlined
  /\ Undecided

-----------------------------------------------------------------------------
\* The numbers at hand.
LEMMA Numbers ==
  ASSUME TypeOK
  PROVE  /\ deadline \in Nat \ {0} /\ deadline <= FirstPing
         /\ deadline + ReadLimit + Backlog < MaxTime /\ deadline + LookupLimit < MaxTime
         /\ {FirstPing, PongLimit, ReadLimit, LookupLimit, PingCount} \subseteq Nat \ {0}
         /\ FirstPing < PongLimit /\ PongLimit < ReadLimit
         /\ {Backlog, WelcomeSleep, MaxTime, Pace} \subseteq Nat /\ Pace <= Backlog
         /\ deadline < Never /\ Never \in Nat
         /\ now \in Nat /\ since \in Nat /\ since <= now /\ wake \in Nat
BY ExchangesAssumption DEF TypeOK, Never, Pace

LEMMA InitIInv == Init => IInv
<1> SUFFICES ASSUME Init PROVE IInv
  OBVIOUS
<1>1. TypeOK
  <2>1. pc \in DOMAIN ErrorsIn
    BY DEF Init, Kinds, First, ErrorsIn
  <2>2. MaxTime \in Nat /\ PingCount \in Nat /\ Never \in Nat /\ since \in 0..now
    BY ExchangesAssumption DEF Init, Never
  <2>3. readBy \in {deadline, Never} /\ writeBy = readBy
    BY DEF Init, Armed
  <2>4. /\ kind \in Kinds /\ deadline \in Deadlines /\ now \in 0..MaxTime /\ conn = "none" /\ wake \in Nat
        /\ secure = FALSE /\ asked = FALSE /\ saw = "none" /\ err = "none"
    BY <2>2 DEF Init
  <2>5. round \in 0..(IF kind = "icmp" THEN PingCount ELSE Requests)
    BY <2>2 DEF Init, Requests
  <2> QED  BY <2>1, <2>2, <2>3, <2>4, <2>5 DEF TypeOK
<1>2. NoneLeftOpen /\ EndsSoon /\ SilenceIsNoFailure /\ SuccessIsEarned
  BY <1>1, Numbers DEF Init, NoneLeftOpen, EndsSoon, Overrun, SilenceIsNoFailure, SuccessIsEarned
<1>3. Waits /\ Deadlined /\ Undecided
  BY <1>1, Numbers DEF Init, Waits, SessionEnds, Deadlined, Undecided, Armed, Kinds, First, Requests
<1> QED  BY <1>1, <1>2, <1>3 DEF IInv

Failures == {"none", "timeout", "status", "eof", "garbled", "reset", "sts", "noping", "late", "upgrade"}
              \cup DialErrors \cup LookupErrors

\* A return keeps the invariant when its verdict and the connection are right.
LEMMA ReturnKeepsIInv ==
  ASSUME IInv,
         NEW e \in Failures, NEW v \in {"nil", "error", "panic"},
         NEW c \in {"none", "open", "closed"},
         Return(e, v, c),
         c = "open" => kind = "miner" /\ v = "error" /\ e \in {"reset", "timeout"},
         kind \in DOMAIN Soft /\ e \in {"timeout", "noping", "late"} /\ v = "error" =>
           (kind = "miner" /\ now = deadline) \/ (kind = "irc" /\ secure /\ e # "timeout"),
         v = "nil" =>
           CASE kind = "icmp" -> round = PingCount
             [] kind = "telegram" -> round = Requests \/ e = "status"
             [] kind \in {"cleartext", "tor"} -> e = "none"
             [] OTHER -> e \in {"none", "timeout", "eof"} \cup Soft[kind]
  PROVE  IInv'
<1> USE DEF IInv, Return
<1>1. TypeOK'
  BY DEF TypeOK, Failures, limits, policy
<1>2. NoneLeftOpen' /\ EndsSoon'
  BY DEF NoneLeftOpen, EndsSoon, Overrun, policy
<1>3. SilenceIsNoFailure' /\ SuccessIsEarned'
  BY DEF SilenceIsNoFailure, SuccessIsEarned, policy
<1>4. Waits' /\ Deadlined' /\ Undecided'
  BY DEF Waits, Deadlined, Undecided, limits, policy
<1> QED  BY <1>1, <1>2, <1>3, <1>4

LEMMA DialOkKeepsIInv ==
  ASSUME IInv, DialOk
  PROVE  IInv'
<1> USE DEF IInv
<1>0. kind \in {"connect", "miner", "cleartext", "irc", "tor"} /\ pc = "dial" /\ now <= deadline
  BY DEF DialOk, Waits
<1>1. CASE kind = "connect"
  BY <1>1, ReturnKeepsIInv DEF DialOk, Failures
<1>2. CASE kind # "connect"
  <2>1. UNCHANGED <<kind, deadline, now, since, secure, asked, round, saw, err>>
    BY <1>2 DEF DialOk, policy
  <2>2. /\ pc' = IF kind = "tor" THEN "request" ELSE "write"
        /\ conn' = IF kind = "tor" THEN conn ELSE "open"
        /\ readBy' = Armed(kind) /\ writeBy' = Armed(kind)
    BY <1>2 DEF DialOk
  <2>3. Armed(kind) \in {deadline, Never} /\ (kind \in {"miner", "irc"} => Armed(kind) = deadline)
    BY DEF Armed
  <2>4. wake' \in Nat
    BY <1>2, Numbers DEF DialOk
  <2>5. TypeOK'
    BY <2>1, <2>2, <2>3, <2>4 DEF TypeOK, ErrorsIn
  <2>6. NoneLeftOpen' /\ EndsSoon' /\ SilenceIsNoFailure' /\ SuccessIsEarned'
    BY <1>0, <2>1, <2>2 DEF NoneLeftOpen, EndsSoon, Overrun, SilenceIsNoFailure, SuccessIsEarned, Undecided
  <2>7. Waits'
    BY <1>0, <1>2, <2>1, <2>2 DEF Waits
  <2>8. Deadlined' /\ Undecided'
    BY <1>0, <1>2, <2>1, <2>2, <2>3 DEF Deadlined, Undecided
  <2> QED  BY <2>5, <2>6, <2>7, <2>8
<1> QED  BY <1>1, <1>2

LEMMA LookupOkKeepsIInv ==
  ASSUME IInv, LookupOk
  PROVE  IInv'
<1> USE DEF IInv
<1>0. kind \in {"resolve", "icmp"} /\ pc = "lookup"
  BY DEF LookupOk, Waits
<1>1. CASE kind = "resolve"
  <2>1. conn # "open" /\ conn \in {"none", "open", "closed"}
    BY <1>1 DEF TypeOK, Undecided
  <2> QED  BY <1>1, <2>1, ReturnKeepsIInv DEF LookupOk, Failures
<1>2. CASE kind = "icmp"
  <2>1. pc' = "write" /\ UNCHANGED <<kind, deadline, now, since, conn, limits, policy, round, saw, err>>
    BY <1>2 DEF LookupOk
  <2>2. TypeOK'
    BY <2>1 DEF TypeOK, limits, policy
  <2>3. NoneLeftOpen' /\ EndsSoon' /\ SilenceIsNoFailure' /\ SuccessIsEarned'
    BY <1>0, <2>1 DEF NoneLeftOpen, EndsSoon, Overrun, SilenceIsNoFailure, SuccessIsEarned, Undecided, policy
  <2>4. Waits' /\ Deadlined' /\ Undecided'
    BY <1>0, <1>2, <2>1, Numbers DEF Waits, Deadlined, Undecided, limits, policy
  <2> QED  BY <2>2, <2>3, <2>4
<1> QED  BY <1>0, <1>1, <1>2

LEMMA ReplyKeepsIInv ==
  ASSUME IInv, Reply
  PROVE  IInv'
<1> USE DEF IInv
<1>0. kind \in {"miner", "icmp"} /\ pc = "read" /\ now <= deadline
  BY DEF Reply, Waits
<1>1. CASE kind = "miner"
  BY <1>1, ReturnKeepsIInv DEF Reply, Failures, Closed, TypeOK
<1>2. CASE kind = "icmp"
  <2>1. /\ round' = round + 1
        /\ IF round' = PingCount
             THEN pc' = "returned" /\ err' = "nil" /\ UNCHANGED since
             ELSE pc' = "lookup" /\ since' = now /\ UNCHANGED err
        /\ UNCHANGED <<kind, deadline, now, conn, limits, policy, saw>>
    BY <1>2 DEF Reply
  <2>2. round \in 0..PingCount /\ round < PingCount /\ saw = "none" /\ conn # "open"
    BY <1>0, <1>2 DEF TypeOK, Undecided
  <2>3. TypeOK'
    BY <1>2, <2>1, <2>2, Numbers DEF TypeOK, limits, policy, ErrorsIn
  <2>4. NoneLeftOpen' /\ EndsSoon' /\ SilenceIsNoFailure' /\ SuccessIsEarned'
    BY <1>0, <1>2, <2>1, <2>2 DEF NoneLeftOpen, EndsSoon, Overrun, SilenceIsNoFailure, SuccessIsEarned, Undecided, policy
  <2>5. Waits' /\ Deadlined' /\ Undecided'
    BY <1>0, <1>2, <2>1, <2>2, Numbers DEF Waits, Deadlined, Undecided, limits, policy
  <2> QED  BY <2>3, <2>4, <2>5
<1> QED  BY <1>0, <1>1, <1>2

LEMMA AnswerKeepsIInv ==
  ASSUME IInv, Answer
  PROVE  IInv'
<1> USE DEF IInv
<1>0. kind \in {"tor", "telegram"} /\ pc = "request" /\ conn # "open" /\ conn \in {"none", "open", "closed"}
  BY DEF Answer, Waits, Undecided, TypeOK
<1>1. CASE Return("none", "nil", conn) /\ kind = "tor"
  BY <1>0, <1>1, ReturnKeepsIInv DEF Failures
<1>2. CASE Return("status", "nil", conn) /\ kind = "telegram"
  BY <1>0, <1>2, ReturnKeepsIInv DEF Failures, Soft
<1>3. CASE /\ kind = "telegram"
           /\ round' = round + 1
           /\ IF round' = Requests THEN pc' = "returned" /\ err' = "nil" ELSE UNCHANGED <<pc, err>>
           /\ UNCHANGED <<kind, deadline, now, since, conn, limits, policy, saw>>
  <2>1. round \in 0..Requests /\ round < Requests /\ saw = "none"
    BY <1>0, <1>3 DEF TypeOK, Undecided
  <2>2. TypeOK'
    BY <1>3, <2>1 DEF TypeOK, limits, policy, Requests
  <2>3. NoneLeftOpen' /\ EndsSoon' /\ SilenceIsNoFailure' /\ SuccessIsEarned'
    BY <1>0, <1>3, <2>1 DEF NoneLeftOpen, EndsSoon, SilenceIsNoFailure, SuccessIsEarned, Undecided, policy
  <2>4. Waits' /\ Deadlined' /\ Undecided'
    BY <1>0, <1>3, <2>1 DEF Waits, Deadlined, Undecided, Requests, limits, policy
  <2> QED  BY <2>2, <2>3, <2>4
<1> QED  BY <1>1, <1>2, <1>3 DEF Answer

LEMMA WelcomeKeepsIInv ==
  ASSUME IInv, Welcome
  PROVE  IInv'
<1> USE DEF IInv, Welcome, policy
<1>1. TypeOK'
  BY Numbers DEF TypeOK
<1>2. NoneLeftOpen' /\ EndsSoon' /\ SilenceIsNoFailure' /\ SuccessIsEarned'
  BY DEF NoneLeftOpen, EndsSoon, Overrun, SilenceIsNoFailure, SuccessIsEarned
<1>3. Waits' /\ Deadlined' /\ Undecided'
  BY DEF Waits, Pace, Deadlined, Undecided
<1> QED  BY <1>1, <1>2, <1>3

\* Questions that girc has to answer only add to the time it may take.
LEMMA AskKeepsIInv ==
  ASSUME IInv, Ask
  PROVE  IInv'
<1> USE DEF IInv
<1>1. /\ pc = "session" /\ asked' = TRUE
      /\ UNCHANGED <<kind, deadline, now, pc, since, conn, readBy, writeBy, wake, secure, round, saw, err>>
  BY DEF Ask, limits
<1>2. TypeOK'
  BY <1>1 DEF TypeOK
<1>3. EndsSoon'
  BY <1>1, Numbers DEF EndsSoon, Overrun
<1>4. NoneLeftOpen' /\ SilenceIsNoFailure' /\ SuccessIsEarned'
  BY <1>1 DEF NoneLeftOpen, SilenceIsNoFailure, SuccessIsEarned
<1>5. Waits' /\ Deadlined' /\ Undecided'
  BY <1>1 DEF Waits, Deadlined, Undecided
<1> QED  BY <1>2, <1>3, <1>4, <1>5

\* The end of a session is decided when its goroutines have ended.
LEMMA LeaveKeepsIInv ==
  ASSUME IInv, pc = "session", NEW e \in SessionEnds, Leave(e),
         asked' = asked, secure' \in BOOLEAN, secure \/ e = "sts" => secure'
  PROVE  IInv'
<1> USE DEF IInv
<1>0. /\ kind = "irc" /\ err = "none" /\ since <= deadline /\ now <= since + FirstPing
      /\ pc' = "flush" /\ since' = now /\ saw' = e
      /\ UNCHANGED <<kind, deadline, now, conn, readBy, writeBy, wake, asked, round, err>>
  BY DEF Leave, Waits, Undecided, limits
<1>1. TypeOK'
  BY <1>0, Numbers DEF TypeOK, SessionEnds
<1>2. EndsSoon'
  BY <1>0, Numbers DEF EndsSoon, Overrun, TypeOK
<1>3. NoneLeftOpen' /\ SilenceIsNoFailure' /\ SuccessIsEarned'
  BY <1>0 DEF NoneLeftOpen, SilenceIsNoFailure, SuccessIsEarned
<1>4. Waits'
  BY <1>0, Numbers DEF Waits, Pace
<1>5. Deadlined' /\ Undecided'
  BY <1>0 DEF Deadlined, Undecided
<1> QED  BY <1>1, <1>2, <1>3, <1>4, <1>5

\* What ends a wait, a failure or a deadline, is judged by isSoftError alone.
LEMMA FailureKeepsIInv ==
  ASSUME IInv, NEW e \in Failures \ {"none", "status"}, Return(e, Verdict(e), Closed),
         e \in {"noping", "late"} => kind = "irc" /\ secure
  PROVE  IInv'
<1> USE DEF IInv
<1>1. Closed \in {"none", "closed"}
  BY DEF Closed, TypeOK
<1>2. Verdict(e) \in {"nil", "error", "panic"}
  BY DEF Verdict
<1>3. kind \in DOMAIN Soft /\ e = "timeout" => Verdict(e) = "nil"
  BY DEF Verdict, Soft, isSoftError
<1>4. Verdict(e) = "nil" => kind \in DOMAIN Soft /\ e \in {"eof", "timeout"} \cup Soft[kind]
  BY DEF Verdict, isSoftError
<1>5. DOMAIN Soft = {"connect", "resolve", "miner", "irc"}
  BY DEF Soft
<1> QED  BY <1>1, <1>2, <1>3, <1>4, <1>5, ReturnKeepsIInv

LEMMA EndedKeepsIInv ==
  ASSUME IInv, pc \in DOMAIN ErrorsIn, NEW e \in {"timeout"} \cup ErrorsIn[pc], Ended(e)
  PROVE  IInv'
<1>1. CASE pc = "session"
  <2>1. e \in SessionEnds \ {"sts"}
    BY <1>1 DEF ErrorsIn, SessionEnds
  <2>2. Leave(e) /\ UNCHANGED policy
    BY <1>1 DEF Ended
  <2> QED  BY <1>1, <2>1, <2>2, LeaveKeepsIInv DEF policy, IInv, TypeOK
<1>2. CASE pc # "session"
  <2>1. e \in Failures \ {"none", "status", "noping", "late"}
    <3>1. ErrorsIn[pc] \subseteq {"eof", "reset", "garbled"} \cup DialErrors \cup LookupErrors
      BY DEF ErrorsIn
    <3> QED  BY <3>1 DEF Failures, DialErrors, LookupErrors
  <2>2. Return(Wrapped(e), Verdict(Wrapped(e)), Closed)
    BY <1>2 DEF Ended
  <2>3. /\ Wrapped(e) \in Failures \ {"none", "status"}
        /\ Wrapped(e) \in {"noping", "late"} => kind = "irc" /\ secure
    BY <2>1 DEF Wrapped, IInv, Waits, Undecided, Failures
  <2> QED  BY <2>2, <2>3, FailureKeepsIInv
<1> QED  BY <1>1, <1>2

LEMMA FailsKeepsIInv ==
  ASSUME IInv, Fails
  PROVE  IInv'
BY EndedKeepsIInv DEF Fails

\* A session that is left for an upgrade, or a left one that becomes one.
LEMMA UpgradeKeepsIInv ==
  ASSUME IInv, Upgrade
  PROVE  IInv'
<1> USE DEF IInv
<1>0. secure' = TRUE /\ asked' = asked
  BY DEF Upgrade
<1>1. CASE pc = "session" /\ Leave("sts")
  BY <1>0, <1>1, LeaveKeepsIInv DEF SessionEnds
<1>2. CASE /\ pc = "flush" /\ saw = "none" /\ saw' = "sts"
           /\ UNCHANGED <<kind, deadline, now, pc, since, conn, limits, round, err>>
  <2>1. TypeOK'
    BY <1>0, <1>2 DEF TypeOK, limits
  <2>2. EndsSoon'
    BY <1>0, <1>2, Numbers DEF EndsSoon, Overrun
  <2>3. NoneLeftOpen' /\ SilenceIsNoFailure' /\ SuccessIsEarned'
    BY <1>0, <1>2 DEF NoneLeftOpen, SilenceIsNoFailure, SuccessIsEarned, Undecided
  <2>4. Waits' /\ Deadlined' /\ Undecided'
    BY <1>0, <1>2 DEF Waits, Pace, Deadlined, Undecided, SessionEnds, limits
  <2> QED  BY <2>1, <2>2, <2>3, <2>4
<1> QED  BY <1>1, <1>2 DEF Upgrade

\* A session over TLS begins as early as its handshake, that is in time.
LEMMA SecuredKeepsIInv ==
  ASSUME IInv, Secured
  PROVE  IInv'
<1> USE DEF IInv
<1>0. /\ pc \in {"handshake", "stuck"} /\ kind = "irc" /\ secure /\ since <= deadline /\ writeBy = deadline
      /\ Closed \in {"none", "closed"}
  BY DEF Secured, Waits, Deadlined, Closed, TypeOK
<1>1. CASE now >= writeBy
  <2>1. Ended("timeout")
    BY <1>0, <1>1, Numbers DEF Secured
  <2> QED  BY <1>0, <2>1, EndedKeepsIInv DEF ErrorsIn
<1>2. CASE now < writeBy /\ pc = "stuck"
  <2>1. Return("none", "nil", Closed)
    BY <1>0, <1>2, Numbers DEF Secured
  <2> QED  BY <1>0, <2>1, ReturnKeepsIInv DEF Failures
<1>3. CASE now < writeBy /\ pc = "handshake"
  <2>1. /\ pc' = "session"
        /\ UNCHANGED <<kind, deadline, now, since, conn, readBy, writeBy, wake, secure, asked, round, saw, err>>
    <3>1. ~(now >= writeBy)
      BY <1>0, <1>3, Numbers
    <3>2. /\ pc' = "session"
          /\ UNCHANGED <<kind, deadline, now, since, conn, limits, policy, round, saw, err>>
      BY <1>3, <3>1 DEF Secured
    <3> QED  BY <3>2 DEF limits, policy
  <2>2. TypeOK'
    BY <2>1 DEF TypeOK, ErrorsIn
  <2>3. NoneLeftOpen' /\ EndsSoon' /\ SilenceIsNoFailure' /\ SuccessIsEarned'
    BY <1>0, <1>3, <2>1 DEF NoneLeftOpen, EndsSoon, Overrun, SilenceIsNoFailure, SuccessIsEarned, Undecided
  <2>4. Waits'
    BY <1>0, <1>3, <2>1, Numbers DEF Waits
  <2>5. Deadlined' /\ Undecided'
    BY <1>0, <1>3, <2>1 DEF Deadlined, Undecided
  <2> QED  BY <2>2, <2>3, <2>4, <2>5
<1> QED  BY <1>0, <1>1, <1>2, <1>3, Numbers DEF TypeOK

\* A write that fails by its deadline comes at the deadline, or after a lookup.
LEMMA WriteKeepsIInv ==
  ASSUME IInv, Write
  PROVE  IInv'
<1> USE DEF IInv
<1>0. kind \in {"miner", "cleartext", "irc", "icmp"} /\ pc = "write" /\ Closed \in {"none", "closed"}
      /\ conn \in {"none", "open", "closed"}
  BY DEF Write, Waits, Closed, TypeOK
<1>1. CASE now < writeBy /\ kind = "cleartext" /\ Return("none", "nil", Closed)
  BY <1>0, <1>1, ReturnKeepsIInv DEF Failures
<1>2. CASE /\ now < writeBy /\ kind # "cleartext"
           /\ pc' = Started
           /\ readBy' = IF kind = "irc" THEN Never ELSE readBy
           /\ since' = now
           /\ UNCHANGED <<kind, deadline, now, conn, writeBy, wake, policy, round, saw, err>>
  <2>0. pc' = IF kind = "irc" THEN IF secure THEN "handshake" ELSE "session" ELSE "read"
    BY <1>2 DEF Started, TypeOK
  <2>1. TypeOK'
    BY <1>2, <2>0, Numbers DEF TypeOK, ErrorsIn, policy
  <2>2. NoneLeftOpen' /\ EndsSoon' /\ SilenceIsNoFailure' /\ SuccessIsEarned'
    BY <1>0, <1>2, <2>0 DEF NoneLeftOpen, EndsSoon, Overrun, SilenceIsNoFailure, SuccessIsEarned, Undecided,
                            policy
  <2>3. writeBy = deadline
    BY <1>0, <1>2 DEF Deadlined
  <2>4. Waits'
    BY <1>0, <1>2, <2>0, <2>3, Numbers DEF Waits, policy
  <2>5. Deadlined' /\ Undecided'
    BY <1>0, <1>2, <2>0, <2>3 DEF Deadlined, Undecided, policy
  <2> QED  BY <2>1, <2>2, <2>4, <2>5
<1>3. ASSUME NEW e \in {"reset"} \cup (IF now >= writeBy THEN {"timeout"} ELSE {}),
             CASE kind = "irc" -> Return(e, Verdict(e), Closed)
               [] kind = "miner" -> Return(e, "error", conn)
               [] OTHER -> Return(e, "error", Closed)
      PROVE  IInv'
  <2>0. e \in {"reset", "timeout"} /\ (e = "timeout" => now >= writeBy)
    BY <1>3
  <2>1. CASE kind = "miner"
    <3>1. Return(e, "error", conn)
      BY <1>3, <2>1
    <3>2. e = "timeout" => now = deadline
      BY <1>0, <2>0, <2>1, Numbers DEF Waits, Deadlined
    <3> QED  BY <1>0, <2>0, <2>1, <3>1, <3>2, ReturnKeepsIInv DEF Failures
  <2>2. CASE kind = "irc"
    <3>1. Return(e, Verdict(e), Closed)
      BY <1>3, <2>2
    <3>2. Verdict(e) = IF e = "timeout" THEN "nil" ELSE "error"
      BY <2>0, <2>2 DEF Verdict, isSoftError, Soft
    <3> QED  BY <1>0, <2>0, <2>2, <3>1, <3>2, ReturnKeepsIInv DEF Failures, Soft
  <2>3. CASE kind \in {"cleartext", "icmp"}
    <3>1. Return(e, "error", Closed)
      BY <1>3, <2>3
    <3> QED  BY <1>0, <2>0, <2>3, <3>1, ReturnKeepsIInv DEF Failures, Soft
  <2> QED  BY <1>0, <2>1, <2>2, <2>3
<1> QED  BY <1>1, <1>2, <1>3 DEF Write

LEMMA ExpireKeepsIInv ==
  ASSUME IInv, Expire
  PROVE  IInv'
BY EndedKeepsIInv DEF Expire

LEMMA NoPongKeepsIInv ==
  ASSUME IInv, NoPong
  PROVE  IInv'
<1> USE DEF IInv
<1>0. /\ pc = "handshake" /\ pc' = "stuck" /\ saw' = "noping" /\ err = "none"
      /\ kind = "irc" /\ secure /\ since <= deadline /\ now <= since + PongLimit
      /\ UNCHANGED <<kind, deadline, now, since, conn, readBy, writeBy, wake, secure, asked, round, err>>
  BY DEF NoPong, limits, policy, Waits, Undecided
<1>1. TypeOK'
  BY <1>0 DEF TypeOK, ErrorsIn
<1>2. NoneLeftOpen' /\ EndsSoon' /\ SilenceIsNoFailure' /\ SuccessIsEarned'
  BY <1>0 DEF NoneLeftOpen, EndsSoon, Overrun, SilenceIsNoFailure, SuccessIsEarned
<1>3. Waits'
  BY <1>0, Numbers DEF Waits
<1>4. Deadlined' /\ Undecided'
  BY <1>0 DEF Deadlined, Undecided
<1> QED  BY <1>1, <1>2, <1>3, <1>4

LEMMA ConnectedKeepsIInv ==
  ASSUME IInv, Connected
  PROVE  IInv'
<1> USE DEF IInv
<1>1. CASE pc = "session" /\ Leave("none") /\ UNCHANGED policy
  BY <1>1, LeaveKeepsIInv DEF SessionEnds, policy, TypeOK
<1>2. CASE /\ pc = "handshake"
           /\ pc' = "stuck"
           /\ UNCHANGED <<kind, deadline, now, since, conn, limits, policy, round, saw, err>>
  <2>0. /\ pc = "handshake" /\ pc' = "stuck" /\ saw = "none" /\ err = "none"
        /\ kind = "irc" /\ secure /\ since <= deadline /\ now <= since + PongLimit
        /\ UNCHANGED <<kind, deadline, now, since, conn, readBy, writeBy, wake, secure, asked, round, saw, err>>
    BY <1>2 DEF limits, policy, Waits, Undecided
  <2>1. TypeOK'
    BY <2>0 DEF TypeOK, ErrorsIn
  <2>2. NoneLeftOpen' /\ EndsSoon' /\ SilenceIsNoFailure' /\ SuccessIsEarned'
    BY <2>0 DEF NoneLeftOpen, EndsSoon, Overrun, SilenceIsNoFailure, SuccessIsEarned
  <2>3. Waits'
    BY <2>0, Numbers DEF Waits
  <2>4. Deadlined' /\ Undecided'
    BY <2>0 DEF Deadlined, Undecided
  <2> QED  BY <2>1, <2>2, <2>3, <2>4
<1> QED  BY <1>1, <1>2 DEF Connected

\* girc dials again with TLS only, which is what allows for the longer wait.
LEMMA FlushedKeepsIInv ==
  ASSUME IInv, Flushed
  PROVE  IInv'
<1> USE DEF IInv
<1>0. /\ pc = "flush" /\ kind = "irc" /\ saw \in SessionEnds /\ (saw = "sts" => secure) /\ err = "none"
      /\ since <= deadline + FirstPing /\ now <= since + Pace
  BY DEF Flushed, Waits, Undecided
<1>1. CASE saw = "sts"
  <2>0. /\ pc' = "dial" /\ conn' = "closed" /\ saw' = "none"
        /\ wake' = IF wake < now THEN Never ELSE wake
        /\ UNCHANGED <<kind, deadline, now, since, readBy, writeBy, secure, asked, round, err>>
    BY <1>1 DEF Flushed, policy
  <2>1. TypeOK'
    BY <2>0, Numbers DEF TypeOK, ErrorsIn
  <2>2. NoneLeftOpen' /\ EndsSoon' /\ SilenceIsNoFailure' /\ SuccessIsEarned'
    BY <1>0, <2>0 DEF NoneLeftOpen, EndsSoon, Overrun, SilenceIsNoFailure, SuccessIsEarned
  <2>3. Waits'
    BY <1>0, <1>1, <2>0, Numbers DEF Waits, Pace
  <2>4. Deadlined' /\ Undecided'
    BY <1>0, <1>1, <2>0 DEF Deadlined, Undecided
  <2> QED  BY <2>1, <2>2, <2>3, <2>4
<1>2. CASE saw # "sts"
  <2>1. Return(saw, Verdict(saw), Closed)
    BY <1>2 DEF Flushed
  <2>2. CASE saw = "none"
    <3>1. Verdict("none") = "nil" /\ Closed \in {"none", "closed"}
      BY <1>0 DEF Verdict, isSoftError, Soft, Closed, TypeOK
    <3> QED  BY <1>0, <2>1, <2>2, <3>1, ReturnKeepsIInv DEF Failures
  <2>3. CASE saw # "none"
    <3>1. saw \in Failures \ {"none", "status", "noping", "late"}
      BY <1>0, <2>3 DEF SessionEnds, Failures, DialErrors, LookupErrors
    <3> QED  BY <2>1, <3>1, FailureKeepsIInv
  <2> QED  BY <2>2, <2>3
<1> QED  BY <1>1, <1>2

\* The clock stops where the wait ends.
LEMMA TickKeepsIInv ==
  ASSUME IInv, Tick
  PROVE  IInv'
<1> USE DEF IInv
<1>0. /\ now' = now + 1 /\ now < MaxTime /\ now < Patience
      /\ UNCHANGED <<kind, deadline, pc, since, conn, readBy, writeBy, wake, secure, asked, round, saw, err>>
  BY DEF Tick, limits, policy
<1>1. pc \in {"dial", "lookup", "read", "request", "session", "handshake", "stuck", "flush"}
  BY <1>0, Numbers DEF TypeOK, Patience, ErrorsIn
<1>2. TypeOK'
  BY <1>0, Numbers DEF TypeOK
<1>3. Waits'
  <2>1. CASE pc \in {"dial", "lookup"}
    BY <1>0, <2>1, Numbers DEF Waits, Patience, Pace
  <2>2. CASE pc \in {"read", "request"}
    BY <1>0, <2>2, Numbers DEF Waits, Deadlined, Patience
  <2>3. CASE pc \in {"session", "handshake"}
    BY <1>0, <2>3, Numbers DEF Waits, Patience, Sooner
  <2>4. CASE pc \in {"stuck", "flush"}
    BY <1>0, <2>4, Numbers DEF Waits, Patience, Pace
  <2> QED  BY <1>1, <2>1, <2>2, <2>3, <2>4
<1>4. EndsSoon'
  <2>1. CASE pc = "lookup"
    BY <1>0, <1>3, <2>1, Numbers DEF Waits, EndsSoon, Overrun
  <2>2. CASE pc \in {"read", "request"}
    BY <1>0, <1>3, <2>2, Numbers DEF Waits, EndsSoon, Overrun
  <2>3. CASE pc \in {"dial", "session", "handshake", "stuck", "flush"}
    BY <1>0, <1>3, <2>3, Numbers DEF Waits, EndsSoon, Overrun, Pace, TypeOK
  <2> QED  BY <1>1, <2>1, <2>2, <2>3
<1>5. NoneLeftOpen' /\ SilenceIsNoFailure' /\ SuccessIsEarned'
  BY <1>0, <1>1 DEF NoneLeftOpen, SilenceIsNoFailure, SuccessIsEarned, Undecided
<1>6. Deadlined' /\ Undecided'
  BY <1>0 DEF Deadlined, Undecided
<1> QED  BY <1>2, <1>3, <1>4, <1>5, <1>6

LEMMA StepKeepsIInv == IInv /\ [Next]_vars => IInv'
<1> SUFFICES ASSUME IInv, [Next]_vars PROVE IInv'
  OBVIOUS
<1>1. CASE UNCHANGED vars
  BY <1>1 DEF vars, limits, policy, IInv, TypeOK, NoneLeftOpen, EndsSoon, Overrun, SilenceIsNoFailure,
              SuccessIsEarned, Waits, Pace, Deadlined, Undecided
<1> QED  BY <1>1, DialOkKeepsIInv, LookupOkKeepsIInv, ReplyKeepsIInv, AnswerKeepsIInv, WelcomeKeepsIInv,
            AskKeepsIInv, UpgradeKeepsIInv, SecuredKeepsIInv, FailsKeepsIInv, WriteKeepsIInv, ExpireKeepsIInv,
            NoPongKeepsIInv, ConnectedKeepsIInv, FlushedKeepsIInv, TickKeepsIInv
         DEF Next, Terminated

LEMMA SpecIInv == Spec => []IInv
BY InitIInv, StepKeepsIInv, PTL DEF Spec
-----------------------------------------------------------------------------
\* Every variable keeps to its range: above all, the clock stops only where no
\* wait is due to end, and the deadlines of a socket are the context's or none.
THEOREM ExchangesTypeOK == Spec => []TypeOK
<1>1. IInv => TypeOK
  BY DEF IInv
<1> QED  BY <1>1, SpecIInv, PTL

\* Simulate closes the connection it made (the miner's failed write apart).
THEOREM ExchangesClose == Spec => []NoneLeftOpen
<1>1. IInv => NoneLeftOpen
  BY DEF IInv
<1> QED  BY <1>1, SpecIInv, PTL

\* A silent host holds Simulate no longer than its context and the overrun of
\* its library: a lookup, girc's first ping or, once the server made girc talk
\* TLS, its read deadline; and what girc still has to answer.
THEOREM ExchangesEndSoon == Spec => []EndsSoon
<1>1. IInv => EndsSoon
  BY DEF IInv
<1> QED  BY <1>1, SpecIInv, PTL

\* A host that says nothing is no failure where timeouts are let pass, but for
\* the miner's last moment and a handshake that a server of irc asked for.
THEOREM SilenceIsSoft == Spec => []SilenceIsNoFailure
<1>1. IInv => SilenceIsNoFailure
  BY DEF IInv
<1> QED  BY <1>1, SpecIInv, PTL

\* Every nil of Simulate stands for a whole exchange or a failure let pass.
THEOREM ExchangesEarnSuccess == Spec => []SuccessIsEarned
<1>1. IInv => SuccessIsEarned
  BY DEF IInv
<1> QED  BY <1>1, SpecIInv, PTL
=============================================================================
