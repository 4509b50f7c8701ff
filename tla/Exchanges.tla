----------------------------- MODULE Exchanges -----------------------------
(***************************************************************************)
(* The simulators that have one exchange with their host: a connect, a      *)
(* lookup, a request.  The host and the network may answer, fail or keep    *)
(* silent; how long Simulate waits for a silent host depends on the         *)
(* context, on the deadlines of the socket and on the libraries.            *)
(*                                                                         *)
(* girc, which holds the sessions of irc, honours a server's strict         *)
(* transport policy (STS): it leaves the session, dials again and goes on   *)
(* over TLS.  Its goroutines end one by one, and Simulate returns after the *)
(* last of them.                                                            *)
(*                                                                         *)
(* Time is counted in seconds.  The program's own steps take no time: the   *)
(* clock stands still while one of them can be taken.  The exception is the *)
(* pace at which girc answers its server.                                   *)
(***************************************************************************)
EXTENDS Integers, SoftErrors

CONSTANTS
  Deadlines,    \* when the context of Simulate may end
  PingCount,    \* pingCount of the ICMP tunnel
  LookupLimit,  \* the longest that the system's resolver takes
  FirstPing,    \* a session's age when girc pings the server
  PongLimit,    \* a session's age when girc misses the answer to a ping
  ReadLimit,    \* the time that girc's read loop gives the socket for a line
  Backlog,      \* the longest that the lines girc still holds keep it busy
  WelcomeSleep, \* what girc sleeps between a welcome and CONNECTED
  MaxTime       \* bound: the clock stops here

\* The last one: the bound on the clock cuts off nothing but an endless wait.
ASSUME ExchangesAssumption ==
  /\ {PingCount, LookupLimit, FirstPing, PongLimit, ReadLimit} \subseteq Nat \ {0}
  /\ {Backlog, WelcomeSleep, MaxTime} \subseteq Nat
  /\ FirstPing < PongLimit /\ PongLimit < ReadLimit
  /\ Deadlines \subseteq 1..FirstPing
  /\ \A d \in Deadlines : d + ReadLimit + Backlog < MaxTime /\ d + LookupLimit < MaxTime

Never == MaxTime + 1

\* What each kind of simulator waits for first.
First ==
  [connect |-> "dial", resolve |-> "lookup", miner |-> "dial", cleartext |-> "dial",
   irc |-> "dial", telegram |-> "request", icmp |-> "lookup", tor |-> "dial"]

Kinds == DOMAIN First

\* The errors that a simulator itself lets pass, when it asks isSoftError.
Soft == [connect |-> {"refused"}, resolve |-> {"no such host"}, miner |-> {"refused"}, irc |-> {}]

Requests == 3   \* getMe, getMyCommands and getUpdates

VARIABLES
  kind,
  deadline,  \* of the context of Simulate
  now,
  pc,        \* "dial", "lookup", "write", "read", "request", "returned"; of irc also
             \* "session", "handshake" (TLS), "stuck" in one, or "flush": see Leave
  since,     \* when the lookup, the session or the flush began
  conn,      \* the connection made by Simulate: "none", "open" or "closed"
  readBy,    \* deadlines of the socket
  writeBy,
  wake,      \* when the handler of CONNECTED runs
  secure,    \* girc is to talk TLS
  asked,     \* the server of irc has sent lines that girc has to answer
  round,     \* pings or requests that were answered
  saw,       \* the failure that ended it, "none", or "sts" before an upgrade
  err        \* what Simulate returned, or "panic"

limits == <<readBy, writeBy, wake>>
policy == <<secure, asked>>
vars == <<kind, deadline, now, pc, since, conn, limits, policy, round, saw, err>>

\* Mutant: the miner does not set a deadline.
MutArmed(k) == IF k \in {"irc", "icmp"} THEN deadline ELSE Never

\* Mutant: the deadline is counted from the time of the connection.
MutFromNow(k) == IF k \in {"miner", "irc", "icmp"} THEN now + deadline ELSE Never

\* The deadline that Simulate, or the dialer it gives to girc, sets.
Armed(k) == IF k \in {"miner", "irc", "icmp"} THEN deadline ELSE Never

Init ==
  /\ kind \in Kinds
  /\ deadline \in Deadlines
  /\ now = 0
  /\ pc = First[kind]
  /\ since = 0
  /\ conn = "none"
  /\ readBy = IF kind = "icmp" THEN Armed(kind) ELSE Never
  /\ writeBy = readBy
  /\ wake = Never
  /\ secure = FALSE
  /\ asked = FALSE
  /\ round = 0
  /\ saw = "none"
  /\ err = "none"

Return(e, verdict, c) ==
  /\ pc' = "returned"
  /\ saw' = e
  /\ err' = verdict
  /\ conn' = c
  /\ UNCHANGED <<kind, deadline, now, since, limits, policy, round>>

\* SendRequest reads the status of a response that is nil after an error.
Verdict(e) ==
  CASE e = "none" -> "nil"
    [] kind = "telegram" -> "panic"
    [] kind \in DOMAIN Soft /\ isSoftError(e, Soft[kind]) -> "nil"
    [] OTHER -> "error"

Closed == IF conn = "open" THEN "closed" ELSE conn

\* A session is over, by e or by Close ("none"): girc waits for its loops, and
\* the one that runs handlers goes through the lines it still holds.
Leave(e) ==
  /\ pc' = "flush"
  /\ since' = now
  /\ saw' = e
  /\ UNCHANGED <<kind, deadline, now, conn, limits, round, err>>

\* What girc makes of a failure: the first one counts, and a second dial that
\* fails, by a timeout ("late") or not, is wrapped in ErrSTSUpgradeFailed.
Wrapped(e) ==
  CASE pc = "stuck" /\ saw # "none" -> saw
    [] pc = "dial" /\ secure -> IF e = "timeout" THEN "late" ELSE "upgrade"
    [] OTHER -> e

\* A wait ends by e.
Ended(e) ==
  IF pc = "session"
    THEN Leave(e) /\ UNCHANGED policy
    ELSE Return(Wrapped(e), Verdict(Wrapped(e)), Closed)
-----------------------------------------------------------------------------
(* The host and the network: nothing makes them answer. *)

\* A plain connect is over when it succeeds.  While girc dials again it holds
\* the lock that a late handler of CONNECTED waits for; whether that handler
\* then finds the new session's stop or the old one's is a race.
DialOk ==
  /\ pc = "dial" /\ now <= deadline
  /\ IF kind = "connect"
       THEN Return("none", "nil", "closed")
       ELSE /\ pc' = IF kind = "tor" THEN "request" ELSE "write"
            /\ conn' = IF kind = "tor" THEN conn ELSE "open"
            /\ readBy' = Armed(kind)
            /\ writeBy' = Armed(kind)
            /\ wake' \in IF wake <= now THEN {wake, Never} ELSE {wake}
            /\ UNCHANGED <<kind, deadline, now, since, policy, round, saw, err>>

LookupOk ==
  /\ pc = "lookup"
  /\ IF kind = "resolve"
       THEN Return("none", "nil", conn)
       ELSE pc' = "write" /\ UNCHANGED <<kind, deadline, now, since, conn, limits, policy, round, saw, err>>

\* Mutant: one ping fewer.
MutReply ==
  /\ pc = "read"
  /\ IF kind = "miner" \/ round + 2 >= PingCount
       THEN Return("none", "nil", Closed)
       ELSE /\ round' = round + 1
            /\ pc' = "lookup"
            /\ since' = now
            /\ UNCHANGED <<kind, deadline, now, conn, limits, policy, saw, err>>

\* A line from the pool, or an ICMP packet from anywhere.
Reply ==
  /\ pc = "read"
  /\ IF kind = "miner"
       THEN Return("none", "nil", Closed)
       ELSE /\ round' = round + 1
            /\ IF round' = PingCount
                 THEN pc' = "returned" /\ err' = "nil" /\ UNCHANGED since
                 ELSE pc' = "lookup" /\ since' = now /\ UNCHANGED err
            /\ UNCHANGED <<kind, deadline, now, conn, limits, policy, saw>>

\* Over tor every answer will do; the bot goes on after status 200 only.
Answer ==
  /\ pc = "request"
  /\ \/ Return("none", "nil", conn) /\ kind = "tor"
     \/ Return("status", "nil", conn) /\ kind = "telegram"
     \/ /\ kind = "telegram"
        /\ round' = round + 1
        /\ IF round' = Requests THEN pc' = "returned" /\ err' = "nil" ELSE UNCHANGED <<pc, err>>
        /\ UNCHANGED <<kind, deadline, now, since, conn, limits, policy, saw>>

\* The first welcome counts: its handler closes the client.
Welcome ==
  /\ pc = "session" /\ wake = Never
  /\ wake' = now + WelcomeSleep
  /\ UNCHANGED <<kind, deadline, now, pc, since, conn, readBy, writeBy, policy, round, saw, err>>

\* Lines that girc answers: PING, a nickname in use, CTCP.  It does so one by
\* one and at a limited rate.
Ask ==
  /\ pc = "session" /\ ~asked
  /\ asked' = TRUE
  /\ UNCHANGED <<kind, deadline, now, pc, since, conn, limits, secure, round, saw, err>>

\* CAP ACK of a strict transport policy with a port: its handler closes a plain
\* session, or runs when CONNECTED has just closed it.
Upgrade ==
  /\ ~secure
  /\ secure' = TRUE
  /\ \/ pc = "session" /\ Leave("sts")
     \/ /\ pc = "flush" /\ saw = "none"
        /\ saw' = "sts"
        /\ UNCHANGED <<kind, deadline, now, pc, since, conn, limits, round, err>>
  /\ UNCHANGED asked

\* The server has answered the handshake; what girc writes then may be late.
Secured ==
  /\ pc \in {"handshake", "stuck"}
  /\ CASE now >= writeBy -> Ended("timeout")
       [] now < writeBy /\ pc = "stuck" -> Return("none", "nil", Closed)
       [] OTHER ->
            /\ pc' = "session"
            /\ UNCHANGED <<kind, deadline, now, since, conn, limits, policy, round, saw, err>>

ErrorsIn ==
  [dial |-> DialErrors, lookup |-> LookupErrors, read |-> {"eof", "reset"},
   request |-> {"reset"}, session |-> {"eof", "reset", "garbled"},
   handshake |-> {"eof", "reset", "garbled"}, stuck |-> {"eof", "reset", "garbled"}]

Fails ==
  /\ pc \in DOMAIN ErrorsIn
  /\ pc = "dial" => now <= deadline
  /\ \E e \in ErrorsIn[pc] : Ended(e)
-----------------------------------------------------------------------------
(* Simulate and the libraries *)

\* What follows the write, in irc a session; over TLS the handshake is done
\* by the first read or write, and the others wait for it.
Started ==
  CASE kind = "irc" /\ secure -> "handshake"
    [] kind = "irc" /\ ~secure -> "session"
    [] OTHER -> "read"

\* Mutant: the connection of cleartext is closed at the end only.
MutWrite ==
  /\ pc = "write"
  /\ \/ /\ now < writeBy
        /\ IF kind = "cleartext"
             THEN Return("none", "nil", "closed")
             ELSE /\ pc' = Started
                  /\ readBy' = IF kind = "irc" THEN Never ELSE readBy
                  /\ since' = now
                  /\ UNCHANGED <<kind, deadline, now, conn, writeBy, wake, policy, round, saw, err>>
     \/ \E e \in {"reset"} \cup (IF now >= writeBy THEN {"timeout"} ELSE {}) :
          IF kind = "irc" THEN Return(e, Verdict(e), Closed) ELSE Return(e, "error", conn)

\* Written at once or not at all.  Cleartext's Read(nil) returns at once; the
\* read loop of girc gives the socket five minutes for each line.
Write ==
  /\ pc = "write"
  /\ \/ /\ now < writeBy
        /\ IF kind = "cleartext"
             THEN Return("none", "nil", Closed)
             ELSE /\ pc' = Started
                  /\ readBy' = IF kind = "irc" THEN Never ELSE readBy
                  /\ since' = now
                  /\ UNCHANGED <<kind, deadline, now, conn, writeBy, wake, policy, round, saw, err>>
     \/ \E e \in {"reset"} \cup (IF now >= writeBy THEN {"timeout"} ELSE {}) :
          CASE kind = "irc" -> Return(e, Verdict(e), Closed)
            [] kind = "miner" -> Return(e, "error", conn)
            [] OTHER -> Return(e, "error", Closed)

Sooner(a, b) == IF a < b THEN a ELSE b

\* Until when Simulate waits for a silent host.  In a session it writes, and
\* finds out, when girc pings or the welcome takes effect.  In a handshake the
\* pings are queued, and nothing but the read deadline frees the goroutines
\* that wait for it.
Patience ==
  CASE pc = "dial" -> deadline
    [] pc = "lookup" -> IF kind = "icmp" THEN since + LookupLimit ELSE deadline
    [] pc = "read" -> readBy
    [] pc = "request" -> IF kind = "tor" THEN deadline ELSE Never
    [] pc = "session" -> Sooner(wake, since + FirstPing)
    [] pc = "handshake" -> Sooner(wake, since + PongLimit)
    [] pc = "stuck" -> since + ReadLimit
    [] pc = "flush" -> IF asked THEN since + Backlog ELSE since
    [] OTHER -> now

\* A wait is over.  In a session a write is late: a ping, or sooner an answer
\* that the server asks for.
Expire ==
  /\ pc \in DOMAIN ErrorsIn \ {"handshake"}
  /\ now >= (IF pc = "session" THEN writeBy ELSE Patience)
  /\ Ended("timeout")

\* The loop that pings gives up, but the handshake still holds the others.
NoPong ==
  /\ pc = "handshake" /\ now >= since + PongLimit
  /\ pc' = "stuck"
  /\ saw' = "noping"
  /\ UNCHANGED <<kind, deadline, now, since, conn, limits, policy, round, err>>

\* The handler of CONNECTED closes the client.
Connected ==
  /\ now >= wake
  /\ \/ pc = "session" /\ Leave("none") /\ UNCHANGED policy
     \/ /\ pc = "handshake"
        /\ pc' = "stuck"
        /\ UNCHANGED <<kind, deadline, now, since, conn, limits, policy, round, saw, err>>

\* All goroutines of a session have ended: girc closes the connection and
\* dials again or is done.  A handler that closed the old session is past.
Flushed ==
  /\ pc = "flush"
  /\ IF saw = "sts"
       THEN /\ pc' = "dial"
            /\ conn' = "closed"
            /\ saw' = "none"
            /\ wake' = IF wake < now THEN Never ELSE wake
            /\ UNCHANGED <<kind, deadline, now, since, readBy, writeBy, policy, round, err>>
       ELSE Return(saw, Verdict(saw), Closed)

Tick ==
  /\ now < MaxTime /\ now < Patience
  /\ now' = now + 1
  /\ UNCHANGED <<kind, deadline, pc, since, conn, limits, policy, round, saw, err>>

Terminated == pc = "returned" /\ UNCHANGED vars

Next ==
  \/ DialOk \/ LookupOk \/ Reply \/ Answer \/ Welcome \/ Ask \/ Upgrade \/ Secured \/ Fails
  \/ Write \/ Expire \/ NoPong \/ Connected \/ Flushed \/ Tick
  \/ Terminated

\* Time passes, and Go runs what can run; no host has to say anything.
Fairness ==
  /\ WF_vars(Write) /\ WF_vars(Expire) /\ WF_vars(Tick)
  /\ WF_vars(NoPong) /\ WF_vars(Connected) /\ WF_vars(Flushed)

Spec == Init /\ [][Next]_vars /\ Fairness
-----------------------------------------------------------------------------
\* Every variable keeps to its range.
TypeOK ==
  /\ kind \in Kinds
  /\ deadline \in Deadlines
  /\ now \in 0..MaxTime
  /\ pc \in DOMAIN ErrorsIn \cup {"write", "flush", "returned"}
  /\ since \in 0..now
  /\ conn \in {"none", "open", "closed"}
  /\ {readBy, writeBy} \subseteq {deadline, Never}
  /\ wake \in Nat
  /\ {secure, asked} \subseteq BOOLEAN
  /\ round \in 0..(IF kind = "icmp" THEN PingCount ELSE Requests)
  /\ saw \in {"none", "timeout", "status", "eof", "garbled", "reset", "sts", "noping", "late", "upgrade"}
              \cup DialErrors \cup LookupErrors
  /\ err \in {"none", "nil", "error", "panic"}

\* Simulate has closed the connection it made, whichever step failed, unless
\* the miner could not write its request.
NoneLeftOpen ==
  pc = "returned" /\ conn = "open" =>
    kind = "miner" /\ err = "error" /\ saw \in {"reset", "timeout"}

\* However silent the host: Simulate is back when its context ends, after one
\* more lookup at most (icmp), or when girc's first ping fails (irc).  A server
\* that made girc talk TLS can hold it for the whole of the read deadline, and
\* one that had questions for as long as girc takes to answer them.  The
\* requests of telegram-bot have no limit.
Overrun ==
  CASE kind = "icmp" -> LookupLimit
    [] kind = "irc" -> (IF secure THEN ReadLimit ELSE FirstPing) + (IF asked THEN Backlog ELSE 0)
    [] OTHER -> 0

EndsSoon == kind # "telegram" => now <= deadline + Overrun

\* Where timeouts are let pass, a host that says nothing is no failure,
\* wherever in the exchange it falls silent.  The exceptions: a pool that
\* accepts the miner's connection as the time runs out; and a server that
\* makes girc talk TLS and falls silent before the handshake is done, which
\* shows as a lost ping or as a failed upgrade and not as a timeout.
SilenceIsNoFailure ==
  kind \in DOMAIN Soft /\ saw \in {"timeout", "noping", "late"} /\ err = "error" =>
    \/ kind = "miner" /\ now = deadline
    \/ kind = "irc" /\ secure /\ saw # "timeout"

\* A nil from Simulate means that the exchange was complete, was refused by
\* the bot's API, or failed in a way that this simulator lets pass.
SuccessIsEarned ==
  err = "nil" =>
    CASE kind = "icmp" -> round = PingCount
      [] kind = "telegram" -> round = Requests \/ saw = "status"
      [] kind \in {"cleartext", "tor"} -> saw = "none"
      [] OTHER -> saw \in {"none", "timeout", "eof"} \cup Soft[kind]

\* Simulate returns whatever the host does, except from a request without a
\* timeout.
Returns == kind # "telegram" => <>(pc = "returned")

\* What the comments of IRCDialer say: the simulation uses the given context,
\* which sets the deadline for the connection.
IrcInTime == kind = "irc" => now <= deadline
=============================================================================
