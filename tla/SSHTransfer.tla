---------------------------- MODULE SSHTransfer ----------------------------
(***************************************************************************)
(* One ssh-transfer (or ssh-exfil) simulation: Simulate splits the size     *)
(* among client goroutines, each of which dials, opens an SFTP session,     *)
(* writes its share to a file of its own and reports on a buffered channel  *)
(* before it tears its session down; Simulate collects the reports.         *)
(*                                                                         *)
(* Clients are numbered from 1.  A server may refuse any step, answer       *)
(* anything, or go away; the deadline of the context kills every link.      *)
(***************************************************************************)
EXTENDS SenderSizes, SFTPAnswers, FiniteSets, Functions

CONSTANTS MaxClients,    \* maxClients of Simulate
          MinSendSize,   \* minSendSize of Simulate
          BuffSize,      \* buffSize of WriteRandom
          Overhead,      \* bytes of a write packet that are not data
          WordSize,      \* 2^64: sizes and counters are unsigned words
          SendSizes,     \* what the scope may ask for, 0 included
          Answers        \* what the server may answer

ASSUME TransferAssumption ==
  /\ MaxClients \in Nat \ {0}
  /\ MinSendSize \in Nat \ {0}
  /\ BuffSize \in Nat \ {0}
  /\ Overhead \in Nat \ {0}
  /\ WordSize \in Nat \ {0}
  /\ SendSizes \subseteq 0..(WordSize - 1)
  /\ Answers \subseteq AllAnswers

Clients == 1..MaxClients

VARIABLES
  proc,      \* the process: "running", "exited" or "crashed"
  main,      \* where the caller is: see MainPcs
  sendSize,  \* SSHTransfer.sendSize
  senders,   \* senderSizes
  got,       \* reports collected so far
  errs,      \* the clients in errsEncountered
  total,     \* totalBytesSent
  writeCh,   \* the channel of WriteResponses
  expired,   \* the context's deadline has passed
  pc,        \* where each client is: see ClientPcs
  awaiting,  \* the client has written a request and reads its answer
  link,      \* the client's connection, or its SFTP channel: see Links
  chunk,     \* i of WriteRandom
  sent,      \* totalDataBytesSent of WriteRandom
  failed,    \* the error of the client's WriteResponse is not nil
  stored     \* the server's files: offsets acknowledged, by file name

caller == <<main, sendSize, senders, got, errs, total>>
transfer == <<chunk, sent, stored>>
vars == <<proc, caller, writeCh, expired, pc, awaiting, link, transfer, failed>>

MainPcs == {"hosts", "simulate", "spawn", "collect", "ok", "error", "skipped"}
ClientPcs == {"idle", "dial", "handshake", "session"} \cup Requests
               \cup {"refused", "report", "teardown", "done"}
\* "lost" stands for a link on which reads end and writes fail: the server
\* closed the channel, the network failed or the deadline passed.  Its
\* socket and its session are still to be closed by the client.
Links == {"none", "up", "lost", "closed"}

Init ==
  /\ proc = "running"
  /\ main = "hosts"
  /\ sendSize = 0
  /\ senders = <<>>
  /\ got = 0
  /\ errs = {}
  /\ total = 0
  /\ writeCh = <<>>
  /\ expired = FALSE
  /\ pc = [c \in Clients |-> "idle"]
  /\ awaiting = [c \in Clients |-> FALSE]
  /\ link = [c \in Clients |-> "none"]
  /\ chunk = [c \in Clients |-> 0]
  /\ sent = [c \in Clients |-> 0]
  /\ failed = [c \in Clients |-> FALSE]
  /\ stored = [h \in Clients |-> {}]
-----------------------------------------------------------------------------
(* The caller. *)

\* Hosts parses the scope: a size, or an error that skips the simulation.
Hosts ==
  /\ main = "hosts"
  /\ \/ sendSize' \in SendSizes /\ main' = "simulate"
     \/ main' = "skipped" /\ UNCHANGED sendSize
  /\ UNCHANGED <<proc, senders, got, errs, total, writeCh, expired, pc, awaiting, link,
                 transfer, failed>>

Simulate ==
  /\ main = "simulate"
  /\ IF sendSize = 0
       THEN main' = "error" /\ UNCHANGED senders
       ELSE /\ senders' = ComputeSenderSizes(MaxClients, sendSize, MinSendSize)
            /\ main' = "spawn"
  /\ UNCHANGED <<proc, sendSize, got, errs, total, writeCh, expired, pc, awaiting, link,
                 transfer, failed>>

\* One go statement; the clients started before already run.
Spawn(c) ==
  /\ main = "spawn"
  /\ pc[c] = "idle" /\ \A d \in 1..(c - 1) : pc[d] # "idle"
  /\ pc' = [pc EXCEPT ![c] = "dial"]
  /\ main' = IF c = Len(senders) THEN "collect" ELSE "spawn"
  /\ UNCHANGED <<proc, sendSize, senders, got, errs, total, writeCh, expired, awaiting, link,
                 transfer, failed>>

\* Mutant: only the last result decides.
MutLastResult ==
  /\ main = "collect"
  /\ got < Len(senders)
  /\ writeCh # <<>>
  /\ LET res == Head(writeCh)
     IN  /\ errs' = IF res.err THEN {res.client} ELSE {}
         /\ total' = (total + res.bytes) % WordSize
  /\ writeCh' = Tail(writeCh)
  /\ got' = got + 1
  /\ UNCHANGED <<proc, main, sendSize, senders, expired, pc, awaiting, link, transfer, failed>>

Collect ==
  /\ main = "collect"
  /\ got < Len(senders)
  /\ writeCh # <<>>
  /\ LET res == Head(writeCh)
     IN  /\ errs' = IF res.err THEN errs \cup {res.client} ELSE errs
         /\ total' = (total + res.bytes) % WordSize
  /\ writeCh' = Tail(writeCh)
  /\ got' = got + 1
  /\ UNCHANGED <<proc, main, sendSize, senders, expired, pc, awaiting, link, transfer, failed>>

\* Mutant: Simulate returns at the first error.
MutFailFast ==
  /\ main = "collect"
  /\ got = Len(senders) \/ errs # {}
  /\ main' = IF errs = {} THEN "ok" ELSE "error"
  /\ UNCHANGED <<proc, sendSize, senders, got, errs, total, writeCh, expired, pc, awaiting,
                 link, transfer, failed>>

Return ==
  /\ main = "collect"
  /\ got = Len(senders)
  /\ main' = IF errs = {} THEN "ok" ELSE "error"
  /\ UNCHANGED <<proc, sendSize, senders, got, errs, total, writeCh, expired, pc, awaiting,
                 link, transfer, failed>>

\* After the last simulation the process ends, whatever its goroutines do.
Exit ==
  /\ main \in {"ok", "error", "skipped"}
  /\ proc' = "exited"
  /\ UNCHANGED <<caller, writeCh, expired, pc, awaiting, link, transfer, failed>>
-----------------------------------------------------------------------------
(* The network. *)

\* The deadline of the context the caller made passes.
Expire ==
  /\ main \notin {"hosts", "skipped"}
  /\ ~expired
  /\ expired' = TRUE
  /\ UNCHANGED <<proc, caller, writeCh, pc, awaiting, link, transfer, failed>>

Break(c) ==
  /\ link[c] = "up"
  /\ link' = [link EXCEPT ![c] = "lost"]
  /\ UNCHANGED <<proc, caller, writeCh, expired, pc, awaiting, transfer, failed>>

Lose(c) == ~expired /\ Break(c)

\* Mutant: the deadline is set on the connection after the handshake only.
MutLateDeadline(c) == expired /\ pc[c] # "handshake" /\ Break(c)

\* SetDeadline makes every read and write of the connection fail.
Deadline(c) == expired /\ Break(c)
-----------------------------------------------------------------------------
(* A client connects: NewClient. *)

\* newClient returned an error: the result is sent, and no Teardown follows.
Refuse(c) ==
  /\ pc' = [pc EXCEPT ![c] = "refused"]
  /\ failed' = [failed EXCEPT ![c] = TRUE]
  /\ UNCHANGED <<proc, caller, writeCh, expired, transfer>>

DialOk(c) ==
  /\ pc[c] = "dial" /\ ~expired
  /\ link' = [link EXCEPT ![c] = "up"]
  /\ pc' = [pc EXCEPT ![c] = "handshake"]
  /\ UNCHANGED <<proc, caller, writeCh, expired, awaiting, transfer, failed>>

DialFails(c) == pc[c] = "dial" /\ Refuse(c) /\ UNCHANGED <<awaiting, link>>

ConnectOk(c, next) ==
  /\ link[c] = "up"
  /\ pc' = [pc EXCEPT ![c] = next]
  /\ UNCHANGED <<proc, caller, writeCh, expired, awaiting, link, transfer, failed>>

HandshakeOk(c) == pc[c] = "handshake" /\ ConnectOk(c, "session")
SessionOk(c) == pc[c] = "session" /\ ConnectOk(c, "init")

\* NewClientConn closes the connection it was given.
HandshakeFails(c) ==
  /\ pc[c] = "handshake"
  /\ Refuse(c)
  /\ link' = [link EXCEPT ![c] = "closed"]
  /\ UNCHANGED awaiting

\* Mutant: sshClient.Close is missing when NewSession fails (client.go:81).
MutSessionLeaks(c) == pc[c] = "session" /\ Refuse(c) /\ UNCHANGED <<link, awaiting>>

SessionFails(c) ==
  /\ pc[c] = "session"
  /\ Refuse(c)
  /\ link' = [link EXCEPT ![c] = "closed"]
  /\ UNCHANGED awaiting
-----------------------------------------------------------------------------
(* A client talks SFTP: SendInit, SendOpen, SendWrite and SendClose. *)

Mine(c) == senders[c]

\* Mutant: the last chunk is not cut to what is left.
MutPayload(c) == BuffSize

\* payloadSize of the current iteration.
Payload(c) == IF Mine(c) - sent[c] >= BuffSize THEN BuffSize ELSE Mine(c) - sent[c]

\* Mutant: the offset counts chunks of the current payload's size.
MutOffset(c) == chunk[c] * Payload(c)

Offset(c) == chunk[c] * BuffSize

\* Mutant: every client opens the same file.
MutHandle(c) == 1

Handle(c) == c

\* Mutant: the subtraction is on signed integers.
MutSigned(c, k) == sent[c] + k - Overhead

\* totalDataBytesSent after k bytes of the write packet went out.  The
\* subtraction is on unsigned words, so "dataBytesSent > 0" is "# 0".
SentAfter(c, k) == (sent[c] + ((k - Overhead) % WordSize)) % WordSize

Packet(c) == Payload(c) + Overhead

Send(c) ==
  /\ pc[c] \in Requests /\ ~awaiting[c]
  /\ link[c] = "up"
  /\ awaiting' = [awaiting EXCEPT ![c] = TRUE]
  /\ UNCHANGED <<proc, caller, writeCh, expired, pc, link, transfer, failed>>

\* A request fails: SendInit's caller tears the client down at once, the
\* others end WriteRandom with an error.
Fail(c) ==
  /\ awaiting' = [awaiting EXCEPT ![c] = FALSE]
  /\ failed' = [failed EXCEPT ![c] = TRUE]
  /\ IF pc[c] = "init"
       THEN /\ pc' = [pc EXCEPT ![c] = "refused"]
            /\ link' = [link EXCEPT ![c] = "closed"]
       ELSE /\ pc' = [pc EXCEPT ![c] = "report"]
            /\ UNCHANGED link
  /\ UNCHANGED <<proc, caller, writeCh, expired, chunk, stored>>

Count(c, k) ==
  sent' = IF pc[c] = "write" THEN [sent EXCEPT ![c] = SentAfter(c, k)] ELSE sent

\* The write of the request itself fails, after k of its bytes.
SendFails(c) ==
  /\ pc[c] \in Requests /\ ~awaiting[c]
  /\ link[c] = "lost"
  /\ IF pc[c] = "write" THEN \E k \in 0..(Packet(c) - 1) : Count(c, k) ELSE UNCHANGED sent
  /\ Fail(c)

\* The answer does not come: the link is gone.
RecvFails(c) ==
  /\ awaiting[c] /\ link[c] = "lost"
  /\ Count(c, Packet(c))
  /\ Fail(c)

\* An answer of the wrong type, of the wrong version, an error status or one
\* that does not parse.  The bytes of a write are counted all the same.
Denied(c, a) ==
  /\ awaiting[c]
  /\ ReadResp(Expected(pc[c]), a) \notin Accepted \cup {"panic"}
  /\ Count(c, Packet(c))
  /\ Fail(c)

AfterWrite(c, n) == IF n < Mine(c) THEN "write" ELSE "close"

\* The next request after the current one succeeded.
Proceed(c) ==
  CASE pc[c] = "init" -> "open"
    [] pc[c] = "open" -> AfterWrite(c, sent[c])
    [] pc[c] = "write" -> AfterWrite(c, SentAfter(c, Packet(c)))
    [] pc[c] = "close" -> "report"

Granted(c, a) ==
  /\ awaiting[c]
  /\ ReadResp(Expected(pc[c]), a) \in Accepted
  /\ awaiting' = [awaiting EXCEPT ![c] = FALSE]
  /\ pc' = [pc EXCEPT ![c] = Proceed(c)]
  /\ Count(c, Packet(c))
  /\ IF pc[c] = "write"
       THEN /\ chunk' = [chunk EXCEPT ![c] = @ + 1]
            /\ stored' = [stored EXCEPT ![Handle(c)] =
                            @ \cup Offset(c)..(Offset(c) + Payload(c) - 1)]
       ELSE UNCHANGED <<chunk, stored>>
  /\ UNCHANGED <<proc, caller, writeCh, expired, link, failed>>

\* ReadResp indexes an empty answer.  The goroutine is not run's, so run's
\* recover does not see the panic.
Crash(c, a) ==
  /\ awaiting[c]
  /\ ReadResp(Expected(pc[c]), a) = "panic"
  /\ proc' = "crashed"
  /\ UNCHANGED <<caller, writeCh, expired, pc, awaiting, link, transfer, failed>>
-----------------------------------------------------------------------------
(* A client ends: simulate. *)

WriteResponse(c) == [client |-> c, bytes |-> sent[c], err |-> failed[c]]

\* Mutant: an unbuffered channel would be made for fewer clients.
MutCapacity == Len(senders) - 1

Capacity == Len(senders)

Report(c) ==
  /\ pc[c] \in {"refused", "report"}
  /\ Len(writeCh) < Capacity
  /\ writeCh' = Append(writeCh, WriteResponse(c))
  /\ pc' = [pc EXCEPT ![c] = IF @ = "refused" THEN "done" ELSE "teardown"]
  /\ UNCHANGED <<proc, caller, expired, awaiting, link, transfer, failed>>

Teardown(c) ==
  /\ pc[c] = "teardown"
  /\ link' = [link EXCEPT ![c] = "closed"]
  /\ pc' = [pc EXCEPT ![c] = "done"]
  /\ UNCHANGED <<proc, caller, writeCh, expired, awaiting, transfer, failed>>
-----------------------------------------------------------------------------
ConnectFails(c) == HandshakeFails(c) \/ SessionFails(c)

\* What a client's goroutine does by itself, given the link it has.
Step(c) ==
  \/ DialOk(c) \/ DialFails(c)
  \/ link[c] = "lost" /\ ConnectFails(c)
  \/ Send(c) \/ SendFails(c) \/ RecvFails(c)
  \/ Report(c) \/ Teardown(c)

\* What the other side, or the network, does to it at a time of its own.
Peer(c) ==
  \/ Lose(c)
  \/ HandshakeOk(c) \/ SessionOk(c)
  \/ link[c] = "up" /\ ConnectFails(c)
  \/ \E a \in Answers : Denied(c, a) \/ Granted(c, a) \/ Crash(c, a)

Caller == Hosts \/ Simulate \/ (\E c \in Clients : Spawn(c)) \/ Collect \/ Return \/ Exit

Running(A) == proc = "running" /\ A

Terminated == proc # "running" /\ UNCHANGED vars

Next ==
  \/ Running(Caller)
  \/ Running(Expire)
  \/ \E c \in Clients : Running(Step(c)) \/ Running(Deadline(c)) \/ Running(Peer(c))
  \/ Terminated

\* Go runs every goroutine that can run, timers fire, and a dial gives up
\* after its five seconds.  Nothing makes the server answer or hang up: not in
\* the handshake, not when a session is opened, not in the session.
Fairness ==
  /\ WF_vars(Running(Caller))
  /\ WF_vars(Running(Expire))
  /\ \A c \in Clients : WF_vars(Running(Step(c))) /\ WF_vars(Running(Deadline(c)))

Safety == Init /\ [][Next]_vars
Spec == Safety /\ Fairness
-----------------------------------------------------------------------------
\* Every variable keeps to its range; the counters are words.
TypeOK ==
  /\ proc \in {"running", "exited", "crashed"}
  /\ main \in MainPcs
  /\ sendSize \in 0..(WordSize - 1)
  /\ senders \in Seq(Nat)
  /\ got \in Nat
  /\ errs \subseteq Clients
  /\ total \in 0..(WordSize - 1)
  /\ writeCh \in Seq([client : Clients, bytes : 0..(WordSize - 1), err : BOOLEAN])
  /\ expired \in BOOLEAN
  /\ pc \in [Clients -> ClientPcs]
  /\ awaiting \in [Clients -> BOOLEAN]
  /\ link \in [Clients -> Links]
  /\ chunk \in [Clients -> Nat]
  /\ sent \in [Clients -> 0..(WordSize - 1)]
  /\ failed \in [Clients -> BOOLEAN]
  /\ stored \in [Clients -> SUBSET Nat]

\* When Simulate reports success, the server has acknowledged every byte of
\* every client's file, and nothing beyond it.
FilesComplete ==
  main = "ok" => \A c \in DOMAIN senders : stored[Handle(c)] = 0..(Mine(c) - 1)

\* When Simulate reports success, the bytes it counted, and the bytes in the
\* server's files, are as many as were asked for: no two clients shared a
\* file and no share was left out of the split.
SuccessIsComplete ==
  main = "ok" => /\ total = sendSize
                 /\ SumFunction([h \in Clients |-> Cardinality(stored[h])]) = sendSize

\* At every moment a file holds a prefix of its client's data, as long as the
\* client's byte counter says until a request fails: the chunk counter that
\* makes the offsets and the byte counter that ends the loop never part.
Gapless ==
  \A c \in Clients :
    \E n \in 0..sendSize : /\ stored[Handle(c)] = 0..(n - 1)
                           /\ ~failed[c] => n = sent[c]

\* A client with a result never waits for room in the channel, so none is
\* held up with its session open by a caller that reads slowly.
ResultNeverBlocks ==
  \A c \in Clients : pc[c] \in {"refused", "report"} => Len(writeCh) < Capacity

\* Simulate answers after the last client reported, and its answer is an
\* error just when some client failed, whichever reported last.
VerdictIsTrue ==
  main \in {"ok", "error"} /\ senders # <<>> =>
    /\ \A c \in DOMAIN senders : pc[c] \in {"teardown", "done"}
    /\ main = "error" <=> \E c \in DOMAIN senders : failed[c]

\* A goroutine that has ended left no connection behind, whichever of its
\* error paths it took.
NoConnectionLeft == \A c \in Clients : pc[c] = "done" => link[c] \in {"none", "closed"}

\* A client that was started ends, whenever the server falls silent, in the
\* handshake already or later: the deadline of the context reaches every read
\* of the connection.
ClientsEnd == \A c \in Clients : pc[c] = "dial" ~> (pc[c] = "done" \/ proc # "running")

phase ==
  CASE proc = "crashed" -> "crashed"
    [] proc # "crashed" /\ main \in {"hosts", "simulate"} -> "ready"
    [] proc # "crashed" /\ main = "spawn" -> "launching"
    [] proc # "crashed" /\ main = "collect" -> "gathering"
    [] OTHER -> main

outcome ==
  [c \in Clients |->
     CASE pc[c] = "idle" -> "none"
       [] pc[c] \in {"teardown", "done"} -> IF failed[c] THEN "error" ELSE "ok"
       [] OTHER -> "working"]

SG == INSTANCE ScatterGather
        WITH Workers <- Clients, needed <- DOMAIN senders

\* Simulate keeps the promise of ScatterGather, and does answer.
ImplementsScatterGather == SG!Spec

\* What the comment at run.go:451 expects of a module's panic: that the
\* program outlives it.
PanicIsRecovered == proc # "crashed"

\* What the error text at ssh-transfer.go:157 says of its number: so many
\* bytes were successfully transferred, never more than there were to send.
TransferredWithinSize == main = "error" => total <= sendSize
=============================================================================
