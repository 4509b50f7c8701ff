------------------------- MODULE SSHTransferProofs -------------------------
(***************************************************************************)
(* For any number of clients, chunk size, packet overhead, word size and    *)
(* server: the safety properties of SSHTransfer.  The inductive invariant   *)
(* has three parts besides the types: where the caller is against which     *)
(* clients were started (CallerInv), what each client's place says of its   *)
(* link, its counters and its file (LinkInv, DataInv), and where the result *)
(* of every client that reported is (ReportInv).  On top of it, CountInv    *)
(* says what the bytes counted so far are the sum of.  The last section is  *)
(* the refinement of ScatterGather.                                         *)
(***************************************************************************)
EXTENDS SSHTransfer, Facts, SequenceTheorems, FiniteSetTheorems

Sized == 1..Len(senders)

CallerInv ==
  /\ Len(senders) \in 0..MaxClients
  /\ \A c \in Sized : senders[c] \in 1..sendSize
  /\ \A c \in Clients : c > Len(senders) => pc[c] = "idle"
  /\ main \in {"hosts", "simulate", "skipped"} => Len(senders) = 0
  /\ main \in {"spawn", "collect", "ok"} => Len(senders) > 0
  /\ main = "spawn" => pc[Len(senders)] = "idle"
  /\ main \in {"collect", "ok", "error"} => \A c \in Sized : pc[c] # "idle"
  /\ got <= Len(senders)
  /\ main \in {"ok", "error"} => got = Len(senders)
  /\ main = "ok" => errs = {}
  /\ main = "error" /\ Len(senders) > 0 => errs # {}

Connected == {"handshake", "session", "report", "teardown"} \cup Requests

LinkInv(c) ==
  /\ awaiting[c] => pc[c] \in Requests
  /\ pc[c] \in {"idle", "dial"} => link[c] = "none"
  /\ pc[c] \in Connected => link[c] \in {"up", "lost"}
  /\ pc[c] \in {"refused", "done"} => link[c] \in {"none", "closed"}
  /\ failed[c] => pc[c] \in {"refused", "report", "teardown", "done"}
  /\ pc[c] = "refused" => failed[c]

DataInv(c) ==
  /\ pc[c] \in {"idle", "dial", "handshake", "session", "init", "open"} =>
       chunk[c] = 0 /\ sent[c] = 0
  /\ pc[c] = "write" => sent[c] = chunk[c] * BuffSize /\ sent[c] < senders[c]
  /\ pc[c] = "close" => sent[c] = senders[c]
  /\ pc[c] \in {"report", "teardown", "done"} /\ ~failed[c] => sent[c] = senders[c]
  /\ \E n \in 0..sendSize : stored[c] = 0..(n - 1) /\ (~failed[c] => n = sent[c])

Reported == {c \in Clients : pc[c] \in {"teardown", "done"}}

ReportInv ==
  /\ Cardinality(Reported) = got + Len(writeCh)
  /\ \A i \in 1..Len(writeCh) :
       /\ writeCh[i].client \in Reported
       /\ writeCh[i].err = failed[writeCh[i].client]
  /\ \A c \in errs : c \in Reported /\ failed[c]
  /\ \A c \in Reported :
       failed[c] => c \in errs \/ \E i \in 1..Len(writeCh) : writeCh[i].client = c

IInv ==
  /\ TypeOK
  /\ CallerInv
  /\ \A c \in Clients : LinkInv(c) /\ DataInv(c)
  /\ ReportInv
-----------------------------------------------------------------------------
\* The invariant holds before Hosts is called.
LEMMA InitIInv == Init => IInv
<1> SUFFICES ASSUME Init PROVE IInv
  OBVIOUS
<1> USE DEF Init
<1>1. TypeOK
  <2>1. senders \in Seq(Nat) /\ writeCh \in Seq([client : Clients, bytes : 0..(WordSize - 1), err : BOOLEAN])
    BY EmptySeq
  <2>2. 0 \in 0..(WordSize - 1)
    BY TransferAssumption
  <2>3. /\ pc \in [Clients -> ClientPcs] /\ awaiting \in [Clients -> BOOLEAN]
        /\ link \in [Clients -> Links] /\ failed \in [Clients -> BOOLEAN]
    BY DEF ClientPcs, Links
  <2>4. /\ chunk \in [Clients -> Nat] /\ sent \in [Clients -> 0..(WordSize - 1)]
        /\ stored \in [Clients -> SUBSET Nat]
    BY <2>2
  <2>5. proc \in {"running", "exited", "crashed"} /\ main \in MainPcs /\ expired \in BOOLEAN
    BY DEF MainPcs
  <2> QED BY <2>1, <2>2, <2>3, <2>4, <2>5 DEF TypeOK
<1>2. CallerInv
  BY TransferAssumption DEF CallerInv, Sized, Clients
<1>3. ASSUME NEW c \in Clients PROVE LinkInv(c) /\ DataInv(c)
  <2>1. LinkInv(c)
    BY DEF LinkInv, Connected, Requests
  <2>2. stored[c] = 0..(0 - 1) /\ 0 \in 0..sendSize
    OBVIOUS
  <2>3. DataInv(c)
    BY <2>2 DEF DataInv
  <2> QED BY <2>1, <2>3
<1>4. ReportInv
  <2>1. Reported = {}
    BY DEF Reported
  <2>2. Cardinality(Reported) = 0
    BY <2>1, FS_EmptySet
  <2> QED BY <2>1, <2>2 DEF ReportInv
<1> QED BY <1>1, <1>2, <1>3, <1>4 DEF IInv

\* What a client sees of the caller's data: it was started, so its share is
\* there, and it fits a word.
LEMMA Share ==
  ASSUME IInv, NEW c \in Clients, pc[c] # "idle"
  PROVE  /\ c \in Sized
         /\ senders[c] \in Nat /\ 1 <= senders[c] /\ senders[c] <= sendSize
         /\ sendSize \in Nat /\ sendSize < WordSize
<1>1. c \in Nat /\ 1 <= c /\ Len(senders) \in Nat
  BY TransferAssumption DEF Clients, IInv, CallerInv
<1>2. c \in Sized
  BY <1>1 DEF IInv, CallerInv, Sized
<1>3. sendSize \in Nat /\ sendSize < WordSize
  BY TransferAssumption DEF IInv, TypeOK
<1> QED BY <1>2, <1>3 DEF IInv, CallerInv

\* A step of one client that leaves the caller and the channel alone keeps
\* the invariant when it keeps the types and the client's own two parts, and
\* does not report.
LEMMA LocalStep ==
  ASSUME IInv, TypeOK', NEW c \in Clients,
         UNCHANGED <<caller, writeCh>>,
         \A d \in Clients \ {c} :
           /\ pc'[d] = pc[d] /\ awaiting'[d] = awaiting[d] /\ link'[d] = link[d]
           /\ chunk'[d] = chunk[d] /\ sent'[d] = sent[d] /\ failed'[d] = failed[d]
           /\ stored'[d] = stored[d],
         pc[c] = "idle" <=> pc'[c] = "idle",
         pc[c] \in {"teardown", "done"} <=> pc'[c] \in {"teardown", "done"},
         pc[c] \in {"teardown", "done"} => failed'[c] = failed[c],
         LinkInv(c)', DataInv(c)'
  PROVE  IInv'
<1> USE DEF caller
<1>1. CallerInv'
  <2>1. \A d \in Clients : pc[d] = "idle" <=> pc'[d] = "idle"
    OBVIOUS
  <2>2. \A d \in Sized : d \in Clients
    BY TransferAssumption DEF IInv, CallerInv, Sized, Clients
  <2>3. main = "spawn" => Len(senders) \in Clients
    BY DEF IInv, CallerInv, Clients
  <2> QED BY <2>1, <2>2, <2>3 DEF IInv, CallerInv, Sized
<1>2. \A d \in Clients : LinkInv(d)' /\ DataInv(d)'
  <2> SUFFICES ASSUME NEW d \in Clients, d # c PROVE LinkInv(d)' /\ DataInv(d)'
    OBVIOUS
  <2>1. LinkInv(d) /\ DataInv(d)
    BY DEF IInv
  <2>2. LinkInv(d)'
    BY <2>1 DEF LinkInv
  <2>3. DataInv(d)'
    BY <2>1 DEF DataInv
  <2> QED BY <2>2, <2>3
<1>3. ReportInv'
  <2>1. Reported' = Reported
    BY DEF Reported
  <2>2. \A d \in Reported : failed'[d] = failed[d]
    BY DEF Reported
  <2> QED BY <2>1, <2>2 DEF IInv, ReportInv
<1> QED BY <1>1, <1>2, <1>3 DEF IInv

\* The steps of a client that move neither data nor reports.
LEMMA ConnectIInv ==
  ASSUME IInv, NEW c \in Clients,
         \/ DialOk(c) \/ DialFails(c)
         \/ HandshakeOk(c) \/ SessionOk(c) \/ HandshakeFails(c) \/ SessionFails(c)
         \/ Break(c) \/ Send(c) \/ Teardown(c)
  PROVE  IInv'
<1> USE DEF caller, transfer
<1>0. TypeOK /\ LinkInv(c) /\ DataInv(c)
  BY DEF IInv
<1>1. CASE DialOk(c)
  <2>1. TypeOK'
    BY <1>0, <1>1 DEF TypeOK, DialOk, ClientPcs, Links
  <2>2. LinkInv(c)' /\ DataInv(c)'
    BY <1>0, <1>1 DEF TypeOK, DialOk, LinkInv, DataInv, Connected, Requests
  <2> QED BY <1>0, <1>1, <2>1, <2>2, LocalStep DEF TypeOK, DialOk
<1>2. CASE DialFails(c)
  <2>1. TypeOK'
    BY <1>0, <1>2 DEF TypeOK, DialFails, Refuse, ClientPcs
  <2>2. LinkInv(c)' /\ DataInv(c)'
    BY <1>0, <1>2 DEF TypeOK, DialFails, Refuse, LinkInv, DataInv, Connected, Requests
  <2> QED BY <1>0, <1>2, <2>1, <2>2, LocalStep DEF TypeOK, DialFails, Refuse
<1>3. CASE HandshakeOk(c) \/ SessionOk(c)
  <2>1. TypeOK'
    BY <1>0, <1>3 DEF TypeOK, HandshakeOk, SessionOk, ConnectOk, ClientPcs, Requests
  <2>2. LinkInv(c)' /\ DataInv(c)'
    BY <1>0, <1>3
    DEF TypeOK, HandshakeOk, SessionOk, ConnectOk, LinkInv, DataInv, Connected, Requests
  <2> QED BY <1>0, <1>3, <2>1, <2>2, LocalStep DEF TypeOK, HandshakeOk, SessionOk, ConnectOk
<1>4. CASE HandshakeFails(c) \/ SessionFails(c)
  <2>1. TypeOK'
    BY <1>0, <1>4 DEF TypeOK, HandshakeFails, SessionFails, Refuse, ClientPcs, Links
  <2>2. LinkInv(c)' /\ DataInv(c)'
    BY <1>0, <1>4
    DEF TypeOK, HandshakeFails, SessionFails, Refuse, LinkInv, DataInv, Connected, Requests
  <2> QED BY <1>0, <1>4, <2>1, <2>2, LocalStep
          DEF TypeOK, HandshakeFails, SessionFails, Refuse
<1>5. CASE Break(c)
  <2>1. TypeOK'
    BY <1>0, <1>5 DEF TypeOK, Break, Links
  <2>2. LinkInv(c)' /\ DataInv(c)'
    BY <1>0, <1>5 DEF TypeOK, Break, LinkInv, DataInv
  <2> QED BY <1>0, <1>5, <2>1, <2>2, LocalStep DEF TypeOK, Break
<1>6. CASE Send(c)
  <2>1. TypeOK'
    BY <1>0, <1>6 DEF TypeOK, Send
  <2>2. LinkInv(c)' /\ DataInv(c)'
    BY <1>0, <1>6 DEF TypeOK, Send, LinkInv, DataInv
  <2> QED BY <1>0, <1>6, <2>1, <2>2, LocalStep DEF TypeOK, Send
<1>7. CASE Teardown(c)
  <2>1. TypeOK'
    BY <1>0, <1>7 DEF TypeOK, Teardown, ClientPcs, Links
  <2>2. LinkInv(c)' /\ DataInv(c)'
    BY <1>0, <1>7 DEF TypeOK, Teardown, LinkInv, DataInv, Connected, Requests
  <2> QED BY <1>0, <1>7, <2>1, <2>2, LocalStep DEF TypeOK, Teardown
<1> QED BY <1>1, <1>2, <1>3, <1>4, <1>5, <1>6, <1>7

\* The words of a client's counter: after k bytes of a packet it is a word
\* again, and a whole packet adds its payload, which leaves it within the share.
LEMMA SentIsWord ==
  ASSUME IInv, NEW c \in Clients, NEW k \in Int
  PROVE  SentAfter(c, k) \in 0..(WordSize - 1)
  BY TransferAssumption DEF SentAfter, IInv, TypeOK

\* A whole write packet counts for just its data, in words too.
LEMMA WholePacket ==
  ASSUME IInv, NEW c \in Clients, pc[c] = "write"
  PROVE  /\ Payload(c) \in Nat \ {0}
         /\ Payload(c) <= BuffSize
         /\ SentAfter(c, Packet(c)) = sent[c] + Payload(c)
         /\ sent[c] + Payload(c) <= senders[c]
         /\ Payload(c) = BuffSize \/ sent[c] + Payload(c) = senders[c]
<1>1. /\ senders[c] \in Nat /\ senders[c] < WordSize
      /\ WordSize \in Nat \ {0} /\ BuffSize \in Nat \ {0} /\ Overhead \in Nat
  BY Share, TransferAssumption
<1>2. sent[c] \in Nat /\ sent[c] < senders[c]
  BY <1>1 DEF IInv, TypeOK, DataInv
<1> DEFINE p == Payload(c)
<1>3. /\ p \in Nat \ {0} /\ p <= BuffSize /\ sent[c] + p <= senders[c]
      /\ p = BuffSize \/ sent[c] + p = senders[c]
  BY <1>1, <1>2 DEF Payload, Mine
<1>4. SentAfter(c, Packet(c)) = (sent[c] + (((p + Overhead) - Overhead) % WordSize)) % WordSize
  BY DEF SentAfter, Packet
<1> HIDE DEF p
<1>5. ((p + Overhead) - Overhead) % WordSize = p
  BY <1>1, <1>2, <1>3
<1>6. (sent[c] + p) % WordSize = sent[c] + p
  <2> DEFINE q == sent[c] + p
  <2>1. q \in Nat /\ q < WordSize
    BY <1>1, <1>2, <1>3
  <2> HIDE DEF q
  <2>2. q % WordSize = q
    BY <1>1, <2>1
  <2> QED BY <2>2 DEF q
<1> QED BY <1>3, <1>4, <1>5, <1>6 DEF p

\* A request that fails: whatever word the counter becomes, the file stays
\* as it is, and the client goes on to report.
LEMMA FailIInv ==
  ASSUME IInv, NEW c \in Clients, pc[c] \in Requests,
         Fail(c), NEW k \in Int, Count(c, k) \/ sent' = sent
  PROVE  IInv'
<1> USE DEF caller
<1>0. TypeOK /\ LinkInv(c) /\ DataInv(c)
  BY DEF IInv
<1>1. sent' \in [Clients -> 0..(WordSize - 1)] /\ \A d \in Clients \ {c} : sent'[d] = sent[d]
  <2>1. SentAfter(c, k) \in 0..(WordSize - 1)
    BY SentIsWord
  <2> QED BY <1>0, <2>1 DEF TypeOK, Count
<1>2. pc[c] # "write" => sent' = sent
  BY DEF Count
<1>3. TypeOK'
  BY <1>0, <1>1 DEF TypeOK, Fail, ClientPcs, Links
<1>4. LinkInv(c)'
  BY <1>0 DEF TypeOK, Fail, LinkInv, Connected, Requests
<1>5. DataInv(c)'
  <2>1. /\ pc'[c] \in {"refused", "report"} /\ failed'[c]
        /\ stored' = stored /\ sendSize' = sendSize
    BY <1>0 DEF TypeOK, Fail
  <2>2. PICK n \in 0..sendSize : stored[c] = 0..(n - 1)
    BY <1>0 DEF DataInv
  <2> QED BY <2>1, <2>2 DEF DataInv
<1>6. UNCHANGED <<caller, writeCh>> /\ pc'[c] \in {"refused", "report"}
  BY <1>0 DEF TypeOK, Fail
<1>7. \A d \in Clients \ {c} :
        /\ pc'[d] = pc[d] /\ awaiting'[d] = awaiting[d] /\ link'[d] = link[d]
        /\ chunk'[d] = chunk[d] /\ sent'[d] = sent[d] /\ failed'[d] = failed[d]
        /\ stored'[d] = stored[d]
  BY <1>0, <1>1 DEF TypeOK, Fail
<1>8. pc[c] \notin {"idle", "teardown", "done"}
  BY DEF Requests
<1> QED BY <1>3, <1>4, <1>5, <1>6, <1>7, <1>8, LocalStep

\* A request that fails, however it fails, keeps the invariant.
LEMMA FailuresIInv ==
  ASSUME IInv, NEW c \in Clients,
         SendFails(c) \/ RecvFails(c) \/ \E a \in Answers : Denied(c, a)
  PROVE  IInv'
<1>0. awaiting[c] => pc[c] \in Requests
  BY DEF IInv, LinkInv
<1>1. CASE SendFails(c)
  <2>1. Packet(c) \in Int \/ pc[c] # "write"
    <3>1. CASE pc[c] = "write"
      BY <3>1, WholePacket, TransferAssumption DEF Packet
    <3> QED BY <3>1
  <2>2. \E k \in Int : Count(c, k) \/ sent' = sent
    BY <1>1, <2>1 DEF SendFails
  <2>3. pc[c] \in Requests /\ Fail(c)
    BY <1>1 DEF SendFails
  <2> QED BY <2>2, <2>3, FailIInv
<1>2. CASE RecvFails(c) \/ \E a \in Answers : Denied(c, a)
  <2>1. \E k \in Int : Count(c, k) \/ sent' = sent
    <3>1. CASE pc[c] = "write"
      <4>1. Packet(c) \in Int
        BY <3>1, WholePacket, TransferAssumption DEF Packet
      <4> QED BY <1>2, <4>1 DEF RecvFails, Denied
    <3>2. CASE pc[c] # "write"
      BY <1>2, <3>2 DEF RecvFails, Denied, Count
    <3> QED BY <3>1, <3>2
  <2> QED BY <1>0, <1>2, <2>1, FailIInv DEF RecvFails, Denied
<1> QED BY <1>1, <1>2

\* A request granted.  For a write, the chunk lands right behind what is
\* stored, because the counter is a whole number of chunks until the last one.
LEMMA GrantedIInv ==
  ASSUME IInv, NEW c \in Clients, NEW a \in Answers, Granted(c, a)
  PROVE  IInv'
<1> USE DEF caller
<1>0. TypeOK /\ LinkInv(c) /\ DataInv(c)
  BY DEF IInv
<1>1. pc[c] \in Requests /\ link[c] \in {"up", "lost"} /\ ~failed[c]
  BY <1>0 DEF Granted, LinkInv, Connected, Requests
<1>2. c \in Sized /\ senders[c] \in Nat /\ 1 <= senders[c] /\ senders[c] <= sendSize
      /\ sendSize \in Nat
  BY <1>1, Share DEF Requests
<1>3. LinkInv(c)' /\ pc'[c] \in {"open", "write", "close", "report"}
  <2>1. pc'[c] = Proceed(c) /\ ~awaiting'[c] /\ link'[c] = link[c] /\ ~failed'[c]
    BY <1>0, <1>1 DEF Granted, TypeOK
  <2>2. Proceed(c) \in {"open", "write", "close", "report"}
    BY <1>1 DEF Proceed, AfterWrite, Requests
  <2> QED BY <1>1, <2>1, <2>2 DEF LinkInv, Connected, Requests
<1>4. CASE pc[c] = "write"
  <2> DEFINE p == Payload(c)
             s == sent[c]
  <2>1. /\ p \in Nat \ {0} /\ SentAfter(c, Packet(c)) = s + p
        /\ s + p <= senders[c] /\ (p = BuffSize \/ s + p = senders[c])
    BY <1>4, WholePacket
  <2>2. /\ s = chunk[c] * BuffSize /\ s \in Nat /\ chunk[c] \in Nat /\ BuffSize \in Nat \ {0}
        /\ stored[c] = 0..(s - 1)
    BY <1>0, <1>1, <1>4, TransferAssumption DEF DataInv, TypeOK
  <2>3. /\ sent' = [sent EXCEPT ![c] = s + p]
        /\ chunk' = [chunk EXCEPT ![c] = @ + 1]
        /\ stored' = [stored EXCEPT ![c] = @ \cup s..(s + p - 1)]
        /\ pc' = [pc EXCEPT ![c] = IF s + p < senders[c] THEN "write" ELSE "close"]
    BY <1>4, <2>1, <2>2 DEF Granted, Count, Handle, Offset, Proceed, AfterWrite, Mine
  <2> HIDE DEF p, s
  <2>4. 0..(s - 1) \cup s..(s + p - 1) = 0..(s + p - 1)
    BY <2>1, <2>2, SMTT(30)
  <2>5. stored' = [stored EXCEPT ![c] = 0..(s + p - 1)]
    BY <1>0, <2>2, <2>3, <2>4 DEF TypeOK
  <2>6. s + p \in 0..(WordSize - 1)
    <3>1. senders[c] < WordSize /\ WordSize \in Nat
      BY <1>1, <1>2, TransferAssumption DEF IInv, TypeOK
    <3>2. s + p \in Nat /\ s + p <= senders[c]
      BY <2>1, <2>2
    <3> QED BY <1>2, <3>1, <3>2
  <2>7. 0..(s + p - 1) \subseteq Nat
    BY <2>1, <2>2
  <2>8. TypeOK'
    <3>1. sent' \in [Clients -> 0..(WordSize - 1)]
      BY <1>0, <2>3, <2>6 DEF TypeOK
    <3>2. chunk' \in [Clients -> Nat]
      BY <1>0, <2>2, <2>3, SMTT(30) DEF TypeOK
    <3>3. stored' \in [Clients -> SUBSET Nat]
      BY <1>0, <2>5, <2>7 DEF TypeOK
    <3>4. pc' \in [Clients -> ClientPcs]
      <4>1. {"write", "close"} \subseteq ClientPcs
        BY DEF ClientPcs, Requests
      <4>2. pc \in [Clients -> ClientPcs]
        BY <1>0 DEF TypeOK
      <4> QED BY <2>3, <4>1, <4>2
    <3>5. awaiting' \in [Clients -> BOOLEAN]
      BY <1>0 DEF TypeOK, Granted
    <3>6. UNCHANGED <<proc, caller, writeCh, expired, link, failed>>
      BY DEF Granted
    <3> QED BY <1>0, <3>1, <3>2, <3>3, <3>4, <3>5, <3>6 DEF TypeOK
  <2>9. DataInv(c)'
    <3>1. /\ sent'[c] = s + p /\ stored'[c] = 0..(s + p - 1) /\ chunk'[c] = chunk[c] + 1
          /\ pc'[c] = IF s + p < senders[c] THEN "write" ELSE "close"
          /\ senders' = senders /\ sendSize' = sendSize
      BY <1>0, <2>3, <2>5 DEF TypeOK, Granted
    <3>2. s + p \in 0..sendSize
      BY <1>2, <2>1, <2>2, SMTT(30)
    <3>3. s + p < senders[c] => s + p = (chunk[c] + 1) * BuffSize
      BY <1>2, <2>1, <2>2
    <3>4. ~(s + p < senders[c]) => s + p = senders[c]
      <4>1. s + p \in Nat /\ s + p <= senders[c]
        BY <2>1, <2>2
      <4> QED BY <1>2, <4>1
    <3>5. stored'[c] = 0..(sent'[c] - 1) /\ sent'[c] \in 0..sendSize'
      <4>1. s + p - 1 = sent'[c] - 1
        <5>1. sent'[c] = s + p /\ s \in Nat /\ p \in Nat
          BY <2>1, <2>2, <3>1
        <5> QED BY <5>1
      <4>2. stored'[c] = 0..(sent'[c] - 1)
        BY <3>1, <4>1
      <4>3. sent'[c] \in 0..sendSize'
        BY <3>1, <3>2
      <4> QED BY <4>2, <4>3
    <3>6. pc'[c] = "write" => sent'[c] = chunk'[c] * BuffSize /\ sent'[c] < senders'[c]
      BY <3>1, <3>3
    <3>7. pc'[c] = "close" => sent'[c] = senders'[c]
      BY <3>1, <3>4
    <3>8. pc'[c] \in {"write", "close"}
      BY <3>1
    <3> QED BY <3>5, <3>6, <3>7, <3>8 DEF DataInv
  <2>10. \A d \in Clients \ {c} : /\ sent'[d] = sent[d] /\ chunk'[d] = chunk[d]
                                  /\ stored'[d] = stored[d] /\ pc'[d] = pc[d]
    BY <1>0, <2>3, <2>5 DEF TypeOK
  <2> QED BY <1>0, <1>1, <1>3, <2>8, <2>9, <2>10, <1>4, LocalStep DEF TypeOK, Granted
<1>5. CASE pc[c] # "write"
  <2>1. /\ sent' = sent /\ chunk' = chunk /\ stored' = stored
        /\ pc' = [pc EXCEPT ![c] = Proceed(c)]
        /\ awaiting' = [awaiting EXCEPT ![c] = FALSE]
        /\ UNCHANGED <<proc, caller, writeCh, expired, link, failed>>
    BY <1>5 DEF Granted, Count
  <2>2. Proceed(c) \in {"open", "write", "close", "report"}
    BY <1>1 DEF Proceed, AfterWrite, Requests
  <2>3. TypeOK'
    BY <1>0, <2>1, <2>2 DEF TypeOK, ClientPcs, Requests
  <2>4. DataInv(c)'
    <3>1. CASE pc[c] \in {"init", "open"}
      <4>1. chunk[c] = 0 /\ sent[c] = 0 /\ pc'[c] \in {"open", "write"}
        BY <1>0, <1>2, <3>1, <2>1 DEF DataInv, Proceed, AfterWrite, Mine, TypeOK
      <4>2. stored[c] = 0..(0 - 1) /\ 0 = 0 * BuffSize /\ 0 \in 0..sendSize
        BY <1>0, <1>1, <1>2, <4>1, TransferAssumption DEF DataInv
      <4>3. /\ chunk'[c] = 0 /\ sent'[c] = 0 /\ stored'[c] = 0..(0 - 1)
            /\ senders' = senders /\ sendSize' = sendSize
        BY <2>1, <4>1, <4>2
      <4> QED BY <1>2, <4>1, <4>2, <4>3 DEF DataInv
    <3>2. CASE pc[c] = "close"
      <4>1. sent[c] = senders[c] /\ pc'[c] = "report"
        BY <1>0, <3>2, <2>1 DEF DataInv, Proceed, TypeOK
      <4> QED BY <1>0, <2>1, <4>1 DEF DataInv
    <3> QED BY <1>1, <1>5, <3>1, <3>2 DEF Requests
  <2> QED BY <1>0, <1>1, <1>3, <2>1, <2>3, <2>4, LocalStep DEF TypeOK, Requests
<1> QED BY <1>4, <1>5
-----------------------------------------------------------------------------
\* The reports of started clients can be counted against the split: when there
\* are as many as parts, every client has reported.
LEMMA ReportedCount ==
  ASSUME IInv
  PROVE  /\ Len(senders) \in Nat /\ Len(writeCh) \in Nat /\ got \in Nat
         /\ Reported \subseteq Sized /\ Sized \subseteq Clients
         /\ IsFiniteSet(Reported)
         /\ Cardinality(Reported) \in Nat
         /\ Cardinality(Reported) <= Len(senders)
         /\ Cardinality(Reported) = Len(senders) => Reported = Sized
<1>1. Len(senders) \in Nat /\ Len(senders) <= MaxClients /\ MaxClients \in Nat
  BY TransferAssumption DEF IInv, CallerInv
<1>2. Len(writeCh) \in Nat /\ got \in Nat
  BY LenProperties DEF IInv, TypeOK
<1>3. Reported \subseteq Sized
  BY Share DEF Reported
<1>4. Sized \subseteq Clients
  BY <1>1 DEF Sized, Clients
<1>5. IsFiniteSet(Sized) /\ Cardinality(Sized) = Len(senders)
  <2> DEFINE n == Len(senders)
  <2>1. n \in Nat
    BY <1>1
  <2> HIDE DEF n
  <2>2. IsFiniteSet(1..n) /\ Cardinality(1..n) = IF 1 > n THEN 0 ELSE n - 1 + 1
    BY <2>1, FS_Interval
  <2>3. Cardinality(1..n) = n
    BY <2>1, <2>2
  <2> QED BY <2>2, <2>3 DEF n, Sized
<1>6. /\ IsFiniteSet(Reported) /\ Cardinality(Reported) <= Cardinality(Sized)
      /\ Cardinality(Sized) = Cardinality(Reported) => Sized = Reported
  BY <1>3, <1>5, FS_Subset
<1>7. Cardinality(Reported) \in Nat
  BY <1>6, FS_CardinalityType
<1> QED BY <1>1, <1>2, <1>3, <1>4, <1>5, <1>6, <1>7

\* A client that puts its result into the channel keeps the invariant.
LEMMA ReportIInv ==
  ASSUME IInv, NEW c \in Clients, Report(c)
  PROVE  IInv'
<1> USE DEF caller, transfer
<1> DEFINE S == [client : Clients, bytes : 0..(WordSize - 1), err : BOOLEAN]
           r == WriteResponse(c)
<1>0. TypeOK /\ CallerInv /\ LinkInv(c) /\ DataInv(c) /\ ReportInv
  BY DEF IInv
<1>1. /\ pc[c] \in {"refused", "report"} /\ c \notin Reported
      /\ pc' = [pc EXCEPT ![c] = IF @ = "refused" THEN "done" ELSE "teardown"]
      /\ writeCh' = Append(writeCh, r)
      /\ UNCHANGED <<proc, caller, expired, awaiting, link, transfer, failed>>
  BY DEF Report, Reported
<1>2. pc'[c] \in {"teardown", "done"} /\ \A d \in Clients \ {c} : pc'[d] = pc[d]
  BY <1>0, <1>1 DEF TypeOK
<1>3. r \in S /\ r.client = c /\ r.err = failed[c]
  BY <1>0 DEF WriteResponse, TypeOK
<1>4. writeCh \in Seq(S)
  BY <1>0 DEF TypeOK
<1> HIDE DEF S, r
<1>5. /\ writeCh' \in Seq(S) /\ Len(writeCh') = Len(writeCh) + 1 /\ Len(writeCh) \in Nat
      /\ \A i \in 1..Len(writeCh) : writeCh'[i] = writeCh[i]
      /\ writeCh'[Len(writeCh) + 1] = r
  BY <1>1, <1>3, <1>4, AppendProperties, LenProperties
<1>6. TypeOK'
  <2>1. pc' \in [Clients -> ClientPcs]
    BY <1>0, <1>1 DEF TypeOK, ClientPcs
  <2>2. (writeCh \in Seq([client : Clients, bytes : 0..(WordSize - 1), err : BOOLEAN]))'
    BY <1>5 DEF S
  <2> QED BY <1>0, <1>1, <2>1, <2>2 DEF TypeOK
<1>7. CallerInv'
  <2>1. \A d \in Clients : pc[d] = "idle" <=> pc'[d] = "idle"
    BY <1>1, <1>2
  <2>2. \A d \in Sized : d \in Clients
    BY ReportedCount
  <2>3. main = "spawn" => Len(senders) \in Clients
    BY <1>0 DEF CallerInv, Clients
  <2> QED BY <1>0, <1>1, <2>1, <2>2, <2>3 DEF CallerInv, Sized
<1>8. \A d \in Clients : LinkInv(d)' /\ DataInv(d)'
  <2>1. LinkInv(c)' /\ DataInv(c)'
    BY <1>0, <1>1, <1>2 DEF LinkInv, DataInv, Connected, Requests, TypeOK
  <2> SUFFICES ASSUME NEW d \in Clients, d # c PROVE LinkInv(d)' /\ DataInv(d)'
    BY <2>1
  <2>2. LinkInv(d) /\ DataInv(d) /\ pc'[d] = pc[d]
    BY <1>2 DEF IInv
  <2> QED BY <1>1, <2>2 DEF LinkInv, DataInv
<1>9. ReportInv'
  <2>1. Reported' = Reported \cup {c}
    BY <1>2 DEF Reported
  <2>2. Cardinality(Reported') = got' + Len(writeCh')
    <3>1. Cardinality(Reported') = Cardinality(Reported) + 1
      BY <1>1, <2>1, ReportedCount, FS_AddElement
    <3>2. Cardinality(Reported) = got + Len(writeCh) /\ got \in Nat
      BY <1>0 DEF ReportInv, TypeOK
    <3> QED BY <1>1, <1>5, <3>1, <3>2
  <2>3. \A i \in 1..Len(writeCh') : /\ writeCh'[i].client \in Reported'
                                    /\ writeCh'[i].err = failed'[writeCh'[i].client]
    <3> SUFFICES ASSUME NEW i \in 1..Len(writeCh')
                 PROVE  /\ writeCh'[i].client \in Reported'
                        /\ writeCh'[i].err = failed'[writeCh'[i].client]
      OBVIOUS
    <3>1. CASE i = Len(writeCh) + 1
      BY <1>1, <1>3, <1>5, <2>1, <3>1
    <3>2. CASE i \in 1..Len(writeCh)
      BY <1>0, <1>1, <1>5, <2>1, <3>2 DEF ReportInv
    <3> QED BY <1>5, <3>1, <3>2
  <2>4. \A d \in errs' : d \in Reported' /\ failed'[d]
    BY <1>0, <1>1, <2>1 DEF ReportInv
  <2>5. ASSUME NEW d \in Reported', failed'[d]
        PROVE  d \in errs' \/ \E i \in 1..Len(writeCh') : writeCh'[i].client = d
    <3>1. CASE d = c
      <4>1. Len(writeCh) + 1 \in 1..Len(writeCh')
        BY <1>5
      <4> QED BY <1>3, <1>5, <3>1, <4>1
    <3>2. CASE d # c
      <4>1. d \in errs \/ \E i \in 1..Len(writeCh) : writeCh[i].client = d
        BY <1>0, <1>1, <2>1, <2>5, <3>2 DEF ReportInv
      <4>2. 1..Len(writeCh) \subseteq 1..Len(writeCh')
        BY <1>5
      <4> QED BY <1>1, <1>5, <4>1, <4>2
    <3> QED BY <3>1, <3>2
  <2> QED BY <2>2, <2>3, <2>4, <2>5 DEF ReportInv
<1> QED BY <1>6, <1>7, <1>8, <1>9 DEF IInv

\* Hosts and the split of Simulate keep the invariant.
LEMMA CallerStarts ==
  ASSUME IInv, Hosts \/ Simulate
  PROVE  IInv'
<1> USE DEF transfer
<1>0. TypeOK /\ CallerInv /\ ReportInv
  BY DEF IInv
<1>1. /\ main \in {"hosts", "simulate"} /\ Len(senders) = 0
      /\ UNCHANGED <<proc, got, errs, total, writeCh, expired, pc, awaiting, link, transfer, failed>>
  BY <1>0 DEF Hosts, Simulate, CallerInv
<1>2. \A c \in Clients : pc[c] = "idle"
  BY <1>0, <1>1, TransferAssumption DEF CallerInv, Clients
<1>3. sendSize \in Nat /\ sendSize < WordSize
  BY <1>0, TransferAssumption DEF TypeOK
<1>4. /\ sendSize' \in 0..(WordSize - 1)
      /\ senders' \in Seq(Nat) /\ Len(senders') \in 0..MaxClients
      /\ \A c \in 1..Len(senders') : senders'[c] \in 1..sendSize'
      /\ \/ main' \in {"simulate", "skipped", "error"} /\ Len(senders') = 0
         \/ main' = "spawn" /\ Len(senders') > 0
  <2>1. CASE Hosts
    <3>1. sendSize' \in 0..(WordSize - 1) /\ senders' = senders /\ main' \in {"simulate", "skipped"}
      BY <1>0, <2>1, TransferAssumption DEF Hosts, TypeOK
    <3> QED BY <1>0, <1>1, <3>1 DEF TypeOK, CallerInv
  <2>2. CASE Simulate
    <3>1. CASE sendSize = 0
      BY <1>0, <1>1, <2>2, <3>1 DEF Simulate, TypeOK, CallerInv
    <3>2. CASE sendSize # 0
      <4> DEFINE s == ComputeSenderSizes(MaxClients, sendSize, MinSendSize)
      <4>1. senders' = s /\ main' = "spawn" /\ sendSize' = sendSize
        BY <2>2, <3>2 DEF Simulate
      <4>2. /\ s \in Seq(Nat) /\ Len(s) \in 0..MaxClients /\ Len(s) > 0
            /\ \A i \in DOMAIN s : s[i] \in 1..sendSize
        <5>1. MaxClients \in Nat \ {0} /\ MinSendSize \in Nat \ {0} /\ sendSize \in Nat
          BY <1>3, TransferAssumption
        <5>2. /\ s \in Seq(Nat) /\ Len(s) \in 0..MaxClients
              /\ sendSize > 0 => Len(s) > 0
              /\ \A i \in DOMAIN s : s[i] \in 1..sendSize
          BY <5>1, SplitFits
        <5> HIDE DEF s
        <5> QED BY <3>2, <5>1, <5>2
      <4> HIDE DEF s
      <4>3. DOMAIN s = 1..Len(s)
        BY <4>2, LenProperties
      <4> QED BY <1>0, <4>1, <4>2, <4>3 DEF TypeOK
    <3> QED BY <3>1, <3>2
  <2> QED BY <2>1, <2>2
<1>5. TypeOK'
  BY <1>0, <1>1, <1>4 DEF TypeOK, MainPcs
<1>6. got = 0 /\ errs = {} /\ Reported = {} /\ Reported' = {}
  <2>1. Reported = {} /\ Reported' = {}
    BY <1>1, <1>2 DEF Reported
  <2>2. got = 0
    BY <1>0, <1>1 DEF CallerInv, TypeOK
  <2> QED BY <1>0, <2>1, <2>2 DEF ReportInv
<1>7. CallerInv'
  <2>1. main' = "spawn" => Len(senders') \in Clients
    BY <1>4 DEF Clients
  <2>2. /\ \A c \in Clients : pc'[c] = "idle"
        /\ got' = 0 /\ errs' = {}
        /\ Len(senders') \in Nat
    BY <1>1, <1>2, <1>4, <1>6
  <2> QED BY <1>4, <2>1, <2>2 DEF CallerInv, Sized
<1>8. \A c \in Clients : LinkInv(c)' /\ DataInv(c)'
  <2> SUFFICES ASSUME NEW c \in Clients PROVE LinkInv(c)' /\ DataInv(c)'
    OBVIOUS
  <2>1. LinkInv(c) /\ DataInv(c) /\ pc[c] = "idle"
    BY <1>2 DEF IInv
  <2>2. LinkInv(c)'
    BY <1>1, <2>1 DEF LinkInv
  <2>3. stored[c] = 0..(0 - 1) /\ sent[c] = 0 /\ chunk[c] = 0
    BY <2>1 DEF DataInv, LinkInv
  <2>4. 0 \in 0..sendSize'
    BY <1>4
  <2> QED BY <1>1, <2>1, <2>2, <2>3, <2>4 DEF DataInv
<1>9. ReportInv'
  BY <1>0, <1>1, <1>6 DEF ReportInv
<1> QED BY <1>5, <1>7, <1>8, <1>9 DEF IInv

\* Only the smallest client that idles can be started, so the last of the
\* split is the last to start.
LEMMA SpawnIInv ==
  ASSUME IInv, NEW c \in Clients, Spawn(c)
  PROVE  IInv'
<1> USE DEF transfer
<1>0. TypeOK /\ CallerInv /\ LinkInv(c) /\ DataInv(c) /\ ReportInv
  BY DEF IInv
<1>1. /\ main = "spawn" /\ pc[c] = "idle" /\ pc[Len(senders)] = "idle"
      /\ \A d \in 1..(c - 1) : pc[d] # "idle"
      /\ pc' = [pc EXCEPT ![c] = "dial"]
      /\ main' = IF c = Len(senders) THEN "collect" ELSE "spawn"
      /\ UNCHANGED <<proc, sendSize, senders, got, errs, total, writeCh, expired, awaiting,
                     link, transfer, failed>>
  BY <1>0 DEF Spawn, CallerInv
<1>2. c \in Nat /\ 1 <= c /\ c <= MaxClients /\ MaxClients \in Nat
  BY TransferAssumption DEF Clients
<1>3. Len(senders) \in Nat /\ 0 < Len(senders) /\ Len(senders) <= MaxClients
  BY <1>0, <1>1, <1>2 DEF CallerInv
<1>4. c <= Len(senders)
  <2> SUFFICES ASSUME Len(senders) < c PROVE FALSE
    BY <1>2, <1>3
  <2>1. Len(senders) \in 1..(c - 1)
    BY <1>2, <1>3
  <2> QED BY <1>1, <2>1
<1>5. pc'[c] = "dial" /\ \A d \in Clients \ {c} : pc'[d] = pc[d]
  BY <1>0, <1>1 DEF TypeOK
<1>6. TypeOK'
  BY <1>0, <1>1 DEF TypeOK, MainPcs, ClientPcs
<1>7. CallerInv'
  <2>1. \A d \in Clients : d > Len(senders) => pc'[d] = "idle"
    BY <1>0, <1>2, <1>3, <1>4, <1>5 DEF CallerInv, Clients
  <2>2. CASE c = Len(senders)
    <3>1. \A d \in Sized : pc'[d] # "idle"
      BY <1>1, <1>2, <1>3, <1>5, <2>2 DEF Sized, Clients
    <3> QED BY <1>0, <1>1, <1>3, <2>1, <2>2, <3>1 DEF CallerInv, Sized
  <2>3. CASE c # Len(senders)
    <3>1. pc'[Len(senders)] = "idle"
      BY <1>1, <1>2, <1>3, <1>5, <2>3 DEF Clients
    <3> QED BY <1>0, <1>1, <1>3, <2>1, <2>3, <3>1 DEF CallerInv, Sized
  <2> QED BY <2>2, <2>3
<1>8. \A d \in Clients : LinkInv(d)' /\ DataInv(d)'
  <2>1. LinkInv(c)' /\ DataInv(c)'
    BY <1>0, <1>1, <1>5 DEF LinkInv, DataInv, Connected, Requests
  <2> SUFFICES ASSUME NEW d \in Clients, d # c PROVE LinkInv(d)' /\ DataInv(d)'
    BY <2>1
  <2>2. LinkInv(d) /\ DataInv(d) /\ pc'[d] = pc[d]
    BY <1>5 DEF IInv
  <2> QED BY <1>1, <2>2 DEF LinkInv, DataInv
<1>9. ReportInv'
  <2>1. Reported' = Reported
    BY <1>1, <1>5 DEF Reported
  <2> QED BY <1>0, <1>1, <2>1 DEF ReportInv
<1> QED BY <1>6, <1>7, <1>8, <1>9 DEF IInv

\* The result at the head of the channel is the one of a client that reported,
\* and moves from the channel into errs when it is an error.
LEMMA CollectIInv ==
  ASSUME IInv, Collect
  PROVE  IInv'
<1> USE DEF transfer
<1> DEFINE S == [client : Clients, bytes : 0..(WordSize - 1), err : BOOLEAN]
           res == Head(writeCh)
           w == Tail(writeCh)
<1>0. TypeOK /\ CallerInv /\ ReportInv
  BY DEF IInv
<1>1. /\ main = "collect" /\ got < Len(senders) /\ writeCh # <<>>
      /\ errs' = IF res.err THEN errs \cup {res.client} ELSE errs
      /\ total' = (total + res.bytes) % WordSize
      /\ writeCh' = w
      /\ got' = got + 1
      /\ UNCHANGED <<proc, main, sendSize, senders, expired, pc, awaiting, link, transfer, failed>>
  BY DEF Collect
<1>2. writeCh \in Seq(S)
  BY <1>0 DEF TypeOK
<1>3. /\ res = writeCh[1] /\ res \in S /\ w \in Seq(S)
      /\ Len(writeCh) \in Nat \ {0} /\ Len(w) = Len(writeCh) - 1
      /\ \A i \in 1..Len(w) : w[i] = writeCh[i + 1]
  <2> HIDE DEF S
  <2> QED BY <1>1, <1>2, HeadTailProperties, EmptySeq
<1>4. res.client \in Clients /\ res.err \in BOOLEAN /\ res.bytes \in 0..(WordSize - 1)
  <2> HIDE DEF res
  <2> QED BY <1>3
<1> HIDE DEF res, w
<1>5. TypeOK'
  <2>1. total' \in 0..(WordSize - 1)
    <3>1. total + res.bytes \in Int /\ WordSize \in Nat \ {0}
      <4>1. total \in 0..(WordSize - 1) /\ res.bytes \in 0..(WordSize - 1) /\ WordSize \in Nat \ {0}
        BY <1>0, <1>4, TransferAssumption DEF TypeOK
      <4> QED BY <4>1
    <3>2. (total + res.bytes) % WordSize \in 0..(WordSize - 1)
      BY <3>1
    <3> QED BY <1>1, <3>2
  <2>2. errs' \subseteq Clients /\ got' \in Nat
    BY <1>0, <1>1, <1>4, SMTT(30) DEF TypeOK
  <2>3. (writeCh \in Seq([client : Clients, bytes : 0..(WordSize - 1), err : BOOLEAN]))'
    BY <1>1, <1>3
  <2>4. UNCHANGED WordSize /\ UNCHANGED Clients
    BY DEF Clients
  <2> QED BY <1>0, <1>1, <2>1, <2>2, <2>3 DEF TypeOK
<1>6. CallerInv'
  <2>1. Len(senders) \in Nat /\ got \in Nat
    BY <1>0, ReportedCount DEF TypeOK
  <2> QED BY <1>0, <1>1, <2>1 DEF CallerInv, Sized
<1>7. \A c \in Clients : LinkInv(c)' /\ DataInv(c)'
  BY <1>1 DEF IInv, LinkInv, DataInv
<1>8. ReportInv'
  <2>1. Reported' = Reported
    BY <1>1 DEF Reported
  <2>2. Cardinality(Reported') = got' + Len(writeCh')
    <3>1. Cardinality(Reported) = got + Len(writeCh) /\ got \in Nat
      BY <1>0 DEF ReportInv, TypeOK
    <3> QED BY <1>1, <1>3, <2>1, <3>1
  <2>3. res.client \in Reported /\ res.err = failed[res.client]
    <3>1. 1 \in 1..Len(writeCh)
      BY <1>3
    <3> QED BY <1>0, <1>3, <3>1 DEF ReportInv
  <2>4. \A i \in 1..Len(w) : i + 1 \in 1..Len(writeCh)
    BY <1>3
  <2>5. \A i \in 1..Len(writeCh') : /\ writeCh'[i].client \in Reported'
                                    /\ writeCh'[i].err = failed'[writeCh'[i].client]
    <3> SUFFICES ASSUME NEW i \in 1..Len(w)
                 PROVE  /\ w[i].client \in Reported
                        /\ w[i].err = failed[w[i].client]
      BY <1>1, <2>1
    <3>1. i + 1 \in 1..Len(writeCh) /\ w[i] = writeCh[i + 1]
      BY <1>3, <2>4
    <3> QED BY <1>0, <3>1 DEF ReportInv
  <2>6. \A d \in errs' : d \in Reported' /\ failed'[d]
    BY <1>0, <1>1, <2>1, <2>3 DEF ReportInv
  <2>7. ASSUME NEW d \in Reported', failed'[d]
        PROVE  d \in errs' \/ \E i \in 1..Len(writeCh') : writeCh'[i].client = d
    <3>1. d \in errs \/ \E i \in 1..Len(writeCh) : writeCh[i].client = d
      BY <1>0, <1>1, <2>1, <2>7 DEF ReportInv
    <3>2. CASE d \in errs
      BY <1>1, <3>2
    <3>3. CASE d = res.client
      BY <1>1, <2>3, <2>7, <3>3
    <3>4. ASSUME NEW i \in 1..Len(writeCh), writeCh[i].client = d, i # 1
          PROVE  \E j \in 1..Len(writeCh') : writeCh'[j].client = d
      <4>1. i - 1 \in 1..Len(w) /\ (i - 1) + 1 = i
        BY <1>3, <3>4
      <4>2. w[i - 1] = writeCh[i]
        BY <1>3, <4>1
      <4> QED BY <1>1, <3>4, <4>1, <4>2
    <3> QED BY <1>3, <3>1, <3>2, <3>3, <3>4
  <2> QED BY <2>2, <2>5, <2>6, <2>7 DEF ReportInv
<1> QED BY <1>5, <1>6, <1>7, <1>8 DEF IInv

\* When as many results were collected as there are parts, the channel is
\* empty and every client reported, so errs holds exactly those that failed.
LEMMA AllCollected ==
  ASSUME IInv, got = Len(senders)
  PROVE  Reported = Sized /\ errs = {c \in Sized : failed[c]}
<1>1. /\ Len(writeCh) \in Nat /\ got \in Nat
      /\ Cardinality(Reported) = got + Len(writeCh)
      /\ Cardinality(Reported) <= Len(senders)
  BY ReportedCount DEF IInv, ReportInv
<1>2. Len(writeCh) = 0 /\ Cardinality(Reported) = Len(senders)
  BY <1>1
<1>3. Reported = Sized
  BY <1>2, ReportedCount
<1> QED BY <1>2, <1>3 DEF IInv, ReportInv

\* The end of Simulate, of the process or of the context keeps the invariant.
LEMMA CallerEndsIInv ==
  ASSUME IInv, Return \/ Exit \/ Expire
  PROVE  IInv'
<1> USE DEF transfer, caller
<1>1. CASE Return
  <2>1. TypeOK'
    BY <1>1 DEF IInv, TypeOK, Return, MainPcs
  <2>2. CallerInv'
    <3>1. got \in Nat /\ Len(senders) \in Nat
      BY ReportedCount
    <3> QED BY <1>1, <3>1 DEF IInv, CallerInv, Return, Sized
  <2>3. \A c \in Clients : LinkInv(c)' /\ DataInv(c)'
    BY <1>1 DEF IInv, LinkInv, DataInv, Return
  <2>4. ReportInv'
    BY <1>1 DEF IInv, ReportInv, Return, Reported
  <2> QED BY <2>1, <2>2, <2>3, <2>4 DEF IInv
<1>2. CASE Exit \/ Expire
  <2>1. TypeOK'
    BY <1>2 DEF IInv, TypeOK, Exit, Expire
  <2>2. UNCHANGED <<caller, writeCh, pc, awaiting, link, transfer, failed>>
    BY <1>2 DEF Exit, Expire
  <2>3. CallerInv' /\ ReportInv' /\ \A c \in Clients : LinkInv(c)' /\ DataInv(c)'
    BY <2>2 DEF IInv, CallerInv, ReportInv, LinkInv, DataInv, Sized, Reported
  <2> QED BY <2>1, <2>3 DEF IInv
<1> QED BY <1>1, <1>2

\* A crash changes nothing but the process, and a stutter not even that.
LEMMA CrashIInv ==
  ASSUME IInv, (\E c \in Clients, a \in Answers : Crash(c, a)) \/ UNCHANGED vars
  PROVE  IInv'
<1> USE DEF transfer, caller, vars
<1>1. /\ proc' \in {"running", "exited", "crashed"}
      /\ UNCHANGED <<caller, writeCh, expired, pc, awaiting, link, transfer, failed>>
  BY DEF IInv, TypeOK, Crash
<1>2. TypeOK'
  BY <1>1 DEF IInv, TypeOK
<1>3. CallerInv' /\ ReportInv' /\ \A c \in Clients : LinkInv(c)' /\ DataInv(c)'
  BY <1>1 DEF IInv, CallerInv, ReportInv, LinkInv, DataInv, Sized, Reported
<1> QED BY <1>2, <1>3 DEF IInv

\* Every step of a transfer keeps the invariant.
LEMMA NextIInv == IInv /\ [Next]_vars => IInv'
<1> SUFFICES ASSUME IInv, [Next]_vars PROVE IInv'
  OBVIOUS
<1>1. CASE Running(Caller)
  BY <1>1, CallerStarts, SpawnIInv, CollectIInv, CallerEndsIInv DEF Running, Caller
<1>2. CASE Running(Expire)
  BY <1>2, CallerEndsIInv DEF Running
<1>3. ASSUME NEW c \in Clients, Running(Step(c)) PROVE IInv'
  <2>1. CASE DialOk(c) \/ DialFails(c) \/ HandshakeOk(c) \/ SessionOk(c) \/ ConnectFails(c)
             \/ Send(c) \/ Teardown(c)
    BY <2>1, ConnectIInv DEF ConnectFails
  <2>2. CASE SendFails(c) \/ RecvFails(c)
    BY <2>2, FailuresIInv
  <2>3. CASE Report(c)
    BY <2>3, ReportIInv
  <2> QED BY <1>3, <2>1, <2>2, <2>3 DEF Running, Step
<1>4. ASSUME NEW c \in Clients, Running(Deadline(c)) PROVE IInv'
  BY <1>4, ConnectIInv DEF Running, Deadline
<1>5. ASSUME NEW c \in Clients, Running(Peer(c)) PROVE IInv'
  BY <1>5, ConnectIInv, FailuresIInv, GrantedIInv, CrashIInv
  DEF Running, Peer, Lose, ConnectFails
<1>6. CASE Terminated \/ UNCHANGED vars
  BY <1>6, CrashIInv DEF Terminated
<1> QED BY <1>1, <1>2, <1>3, <1>4, <1>5, <1>6 DEF Next

\* The invariant holds in every reachable state, without fairness.
LEMMA SafetyIInv == Safety => []IInv
<1>1. Init => IInv
  BY InitIInv
<1>2. IInv /\ [Next]_vars => IInv'
  BY NextIInv
<1> QED BY <1>1, <1>2, PTL DEF Safety
-----------------------------------------------------------------------------
(* The count of the bytes.  The results in the channel are those of         *)
(* different clients, each with its client's counter; the others that were  *)
(* reported were collected, and make up the total.                          *)

InChannel == {writeCh[i].client : i \in 1..Len(writeCh)}

Collected == Reported \ InChannel

CountInv ==
  /\ \A i, j \in 1..Len(writeCh) : writeCh[i].client = writeCh[j].client => i = j
  /\ \A i \in 1..Len(writeCh) : writeCh[i].bytes = sent[writeCh[i].client]
  /\ Len(senders) > 0 => SumFunction(senders) = sendSize
  /\ errs = {} => total = SumFunctionOnSet(senders, Collected)

\* Nothing is counted before the first result.
LEMMA InitCountInv == Init => CountInv
<1> SUFFICES ASSUME Init PROVE CountInv
  OBVIOUS
<1>1. Len(writeCh) = 0 /\ Len(senders) = 0 /\ 1..0 = {}
  BY DEF Init
<1>2. Collected = {}
  BY DEF Init, Collected, Reported
<1>3. SumFunctionOnSet(senders, {}) = 0
  BY SumLaws, FS_EmptySet
<1> QED BY <1>1, <1>2, <1>3 DEF Init, CountInv

\* The shares are naturals, of a finite set of clients, and add up to the size.
LEMMA ShareSums ==
  ASSUME IInv, CountInv, NEW T \in SUBSET Sized
  PROVE  /\ IsFiniteSet(T)
         /\ \A c \in T : senders[c] \in Nat
         /\ SumFunctionOnSet(senders, T) \in Nat
         /\ Len(senders) > 0 => SumFunctionOnSet(senders, T) <= sendSize
<1>1. IsFiniteSet(Sized)
  BY ReportedCount, FS_Interval DEF Sized
<1>2. DOMAIN senders = Sized /\ \A c \in Sized : senders[c] \in Nat
  BY LenProperties, ElementOfSeq DEF IInv, TypeOK, Sized
<1>3. IsFiniteSet(T) /\ \A c \in T : senders[c] \in Nat
  BY <1>1, <1>2, FS_Subset
<1>4. SumFunctionOnSet(senders, T) \in Nat
  BY <1>3, SumLaws
<1>5. SumFunctionOnSet(senders, T) <= SumFunctionOnSet(senders, Sized)
  BY <1>1, <1>2, SumMonotone
<1>6. SumFunction(senders) = SumFunctionOnSet(senders, Sized)
  BY <1>2 DEF SumFunction
<1> QED BY <1>3, <1>4, <1>5, <1>6 DEF CountInv

\* A step that touches no result keeps the count.
LEMMA CountKept ==
  ASSUME CountInv, UNCHANGED <<sendSize, senders, errs, total, writeCh>>, ReportInv,
         Reported' = Reported, \A c \in Reported : sent'[c] = sent[c]
  PROVE  CountInv'
<1>1. \A i \in 1..Len(writeCh) : writeCh[i].client \in Reported
  BY DEF ReportInv
<1>2. Collected' = Collected
  BY DEF Collected, InChannel
<1> QED BY <1>1, <1>2 DEF CountInv

\* No client that has reported sends again.
LEMMA ClientCountInv ==
  ASSUME IInv, CountInv, NEW c \in Clients,
         \/ DialOk(c) \/ DialFails(c) \/ HandshakeOk(c) \/ SessionOk(c)
         \/ HandshakeFails(c) \/ SessionFails(c) \/ Break(c) \/ Send(c) \/ Teardown(c)
         \/ SendFails(c) \/ RecvFails(c)
         \/ \E a \in Answers : Denied(c, a) \/ Granted(c, a) \/ Crash(c, a)
  PROVE  CountInv'
<1> USE DEF caller, transfer
<1>0. TypeOK /\ LinkInv(c) /\ ReportInv
  BY DEF IInv
<1>1. CASE DialOk(c) \/ DialFails(c) \/ HandshakeOk(c) \/ SessionOk(c)
           \/ HandshakeFails(c) \/ SessionFails(c)
  <2>1. UNCHANGED <<sendSize, senders, errs, total, writeCh, sent>>
    BY <1>1 DEF DialOk, DialFails, HandshakeOk, SessionOk, ConnectOk, HandshakeFails, SessionFails, Refuse
  <2>2. Reported' = Reported
    BY <1>0, <1>1 DEF TypeOK, Reported, DialOk, DialFails, HandshakeOk, SessionOk, ConnectOk,
                      HandshakeFails, SessionFails, Refuse
  <2> QED BY <1>0, <2>1, <2>2, CountKept
<1>2. CASE Break(c) \/ Send(c) \/ Teardown(c) \/ \E a \in Answers : Crash(c, a)
  <2>1. UNCHANGED <<sendSize, senders, errs, total, writeCh, sent>>
    BY <1>2 DEF Break, Send, Teardown, Crash
  <2>2. Reported' = Reported
    BY <1>0, <1>2 DEF TypeOK, Reported, Break, Send, Teardown, Crash
  <2> QED BY <1>0, <2>1, <2>2, CountKept
<1>3. CASE SendFails(c) \/ RecvFails(c) \/ \E a \in Answers : Denied(c, a)
  <2>1. pc[c] \in Requests /\ Fail(c)
    BY <1>0, <1>3 DEF SendFails, RecvFails, Denied, LinkInv
  <2>2. \A d \in Clients \ {c} : sent'[d] = sent[d]
    BY <1>0, <1>3 DEF SendFails, RecvFails, Denied, Count, TypeOK
  <2>3. UNCHANGED <<sendSize, senders, errs, total, writeCh>>
    BY <2>1 DEF Fail
  <2>4. Reported' = Reported /\ c \notin Reported
    BY <1>0, <2>1 DEF TypeOK, Reported, Fail, Requests
  <2>5. \A d \in Reported : sent'[d] = sent[d]
    BY <2>2, <2>4 DEF Reported
  <2> QED BY <1>0, <2>3, <2>4, <2>5, CountKept
<1>4. ASSUME NEW a \in Answers, Granted(c, a) PROVE CountInv'
  <2>1. pc[c] \in Requests /\ pc' = [pc EXCEPT ![c] = Proceed(c)]
    BY <1>0, <1>4 DEF Granted, LinkInv
  <2>2. Proceed(c) \in {"open", "write", "close", "report"}
    BY <2>1 DEF Proceed, AfterWrite, Requests
  <2>3. UNCHANGED <<sendSize, senders, errs, total, writeCh>>
    BY <1>4 DEF Granted
  <2>4. \A d \in Clients \ {c} : sent'[d] = sent[d]
    BY <1>0, <1>4 DEF Granted, Count, TypeOK
  <2>5. Reported' = Reported /\ c \notin Reported
    BY <1>0, <2>1, <2>2 DEF TypeOK, Reported, Requests
  <2>6. \A d \in Reported : sent'[d] = sent[d]
    BY <2>4, <2>5 DEF Reported
  <2> QED BY <1>0, <2>3, <2>5, <2>6, CountKept
<1> QED BY <1>1, <1>2, <1>3, <1>4

\* The result that a client adds to the channel is its first.
LEMMA ReportCountInv ==
  ASSUME IInv, CountInv, NEW c \in Clients, Report(c)
  PROVE  CountInv'
<1> USE DEF caller, transfer
<1> DEFINE S == [client : Clients, bytes : 0..(WordSize - 1), err : BOOLEAN]
           r == WriteResponse(c)
           n == Len(writeCh)
<1>0. TypeOK /\ ReportInv
  BY DEF IInv
<1>1. /\ pc[c] \in {"refused", "report"} /\ c \notin Reported
      /\ pc' = [pc EXCEPT ![c] = IF @ = "refused" THEN "done" ELSE "teardown"]
      /\ writeCh' = Append(writeCh, r)
      /\ UNCHANGED <<sendSize, senders, errs, total, sent>>
  BY DEF Report, Reported
<1>2. r \in S /\ r.client = c /\ r.bytes = sent[c]
  BY <1>0 DEF WriteResponse, TypeOK
<1>3. writeCh \in Seq(S)
  BY <1>0 DEF TypeOK
<1> HIDE DEF S, r
<1>4. /\ n \in Nat /\ Len(writeCh') = n + 1
      /\ \A i \in 1..n : writeCh'[i] = writeCh[i]
      /\ writeCh'[n + 1] = r
  BY <1>1, <1>2, <1>3, AppendProperties, LenProperties
<1> HIDE DEF n
<1>5. \A i \in 1..n : writeCh[i].client \in Reported /\ writeCh[i].client # c
  BY <1>0, <1>1 DEF ReportInv, n
<1>6. \A i \in 1..(n + 1) : i \in 1..n \/ i = n + 1
  BY <1>4
<1>7. Collected' = Collected
  <2>1. Reported' = Reported \cup {c}
    BY <1>0, <1>1 DEF Reported, TypeOK
  <2>2. InChannel' = InChannel \cup {c}
    <3>1. InChannel = {writeCh[i].client : i \in 1..n}
      BY DEF InChannel, n
    <3>2. InChannel' = {writeCh'[i].client : i \in 1..(n + 1)}
      BY <1>4 DEF InChannel
    <3>3. n + 1 \in 1..(n + 1) /\ 1..n \subseteq 1..(n + 1)
      BY <1>4
    <3> QED BY <1>2, <1>4, <1>6, <3>1, <3>2, <3>3
  <2> QED BY <1>1, <2>1, <2>2 DEF Collected
<1>8. \A i, j \in 1..(n + 1) : writeCh'[i].client = writeCh'[j].client => i = j
  BY <1>2, <1>4, <1>5, <1>6 DEF CountInv, n
<1>9. \A i \in 1..(n + 1) : writeCh'[i].bytes = sent[writeCh'[i].client]
  BY <1>2, <1>4, <1>6 DEF CountInv, n
<1> QED BY <1>1, <1>4, <1>7, <1>8, <1>9 DEF CountInv

\* The split adds up to the size that Hosts read, and no total is kept yet.
LEMMA CallerStartsCountInv ==
  ASSUME IInv, CountInv, Hosts \/ Simulate
  PROVE  CountInv'
<1> USE DEF transfer
<1>0. TypeOK /\ CallerInv /\ ReportInv
  BY DEF IInv
<1>1. /\ Len(senders) = 0
      /\ UNCHANGED <<errs, total, writeCh, pc, sent>>
  BY <1>0 DEF Hosts, Simulate, CallerInv
<1>2. Reported = {} /\ Reported' = {}
  <2>1. \A c \in Clients : pc[c] = "idle"
    BY <1>0, <1>1, TransferAssumption DEF CallerInv, Clients
  <2> QED BY <1>1, <2>1 DEF Reported
<1>3. Collected = {} /\ Collected' = {}
  BY <1>2 DEF Collected
<1>4. SumFunctionOnSet(senders, {}) = 0 /\ SumFunctionOnSet(senders', {}) = 0
  BY SumLaws, FS_EmptySet
<1>5. Len(senders') > 0 => SumFunction(senders') = sendSize'
  <2>1. CASE Hosts
    BY <1>1, <2>1 DEF Hosts
  <2>2. CASE Simulate /\ sendSize = 0
    BY <1>1, <2>2 DEF Simulate
  <2>3. CASE Simulate /\ sendSize # 0
    <3>1. senders' = ComputeSenderSizes(MaxClients, sendSize, MinSendSize) /\ sendSize' = sendSize
      BY <2>3 DEF Simulate
    <3>2. sendSize \in Nat
      BY <1>0, TransferAssumption DEF TypeOK
    <3> QED BY <3>1, <3>2, SizesAddUp, TransferAssumption
  <2> QED BY <2>1, <2>2, <2>3
<1> QED BY <1>1, <1>3, <1>4, <1>5 DEF CountInv

\* Collecting a result adds the share of a client that was not counted yet,
\* and the sum of both is part of the size: the words do not overflow.
LEMMA CollectCountInv ==
  ASSUME IInv, CountInv, Collect
  PROVE  CountInv'
<1> USE DEF transfer
<1> DEFINE S == [client : Clients, bytes : 0..(WordSize - 1), err : BOOLEAN]
           res == Head(writeCh)
           w == Tail(writeCh)
           c == res.client
<1>0. TypeOK /\ CallerInv /\ ReportInv
  BY DEF IInv
<1>1. /\ main = "collect" /\ writeCh # <<>>
      /\ errs' = IF res.err THEN errs \cup {c} ELSE errs
      /\ total' = (total + res.bytes) % WordSize
      /\ writeCh' = w
      /\ UNCHANGED <<sendSize, senders, pc, sent, failed>>
  BY DEF Collect
<1>2. writeCh \in Seq(S)
  BY <1>0 DEF TypeOK
<1>3. /\ res = writeCh[1] /\ res \in S
      /\ Len(writeCh) \in Nat \ {0} /\ Len(w) = Len(writeCh) - 1
      /\ \A i \in 1..Len(w) : w[i] = writeCh[i + 1]
  <2> HIDE DEF S
  <2> QED BY <1>1, <1>2, HeadTailProperties, EmptySeq
<1>4. c \in Clients /\ res.err \in BOOLEAN
  <2> HIDE DEF res
  <2> QED BY <1>3
<1> DEFINE n == Len(writeCh)
<1>5. n \in Nat \ {0} /\ Len(writeCh') = n - 1 /\ \A i \in 1..(n - 1) : writeCh'[i] = writeCh[i + 1]
  BY <1>1, <1>3
<1>6. 1 \in 1..n /\ \A i \in 1..(n - 1) : i + 1 \in 1..n /\ i + 1 # 1
  BY <1>5
<1>7. c = writeCh[1].client /\ res.bytes = sent[c] /\ c \in Reported /\ res.err = failed[c]
  <2> HIDE DEF res
  <2> QED BY <1>0, <1>3, <1>6 DEF CountInv, ReportInv
<1>8. InChannel = InChannel' \cup {c} /\ c \notin InChannel'
  <2> HIDE DEF n, res
  <2>1. \A i \in 1..n : i = 1 \/ (i - 1 \in 1..(n - 1) /\ (i - 1) + 1 = i)
    BY <1>5
  <2>2. InChannel = {writeCh[i].client : i \in 1..n}
    BY DEF InChannel, n
  <2>3. InChannel' = {writeCh'[i].client : i \in 1..(n - 1)}
    BY <1>5 DEF InChannel
  <2>4. \A i \in 1..(n - 1) : writeCh'[i] = writeCh[i + 1] /\ writeCh[i + 1].client # c
    BY <1>5, <1>6, <1>7 DEF CountInv, n
  <2>5. \A x \in InChannel : x = c \/ x \in InChannel'
    <3>1. ASSUME NEW i \in 1..n, i # 1 PROVE writeCh[i].client \in InChannel'
      <4>1. i - 1 \in 1..(n - 1) /\ writeCh'[i - 1] = writeCh[(i - 1) + 1] /\ (i - 1) + 1 = i
        BY <1>5, <2>1, <3>1
      <4> QED BY <2>3, <4>1
    <3> QED BY <1>7, <2>2, <3>1
  <2>6. c \in InChannel /\ \A x \in InChannel' : x \in InChannel /\ x # c
    BY <1>6, <1>7, <2>2, <2>3, <2>4
  <2> QED BY <2>5, <2>6
<1>9. Reported' = Reported
  BY <1>1 DEF Reported
<1>10. Collected' = Collected \cup {c} /\ c \notin Collected
  BY <1>7, <1>8, <1>9 DEF Collected
<1>11. \A i, j \in 1..(n - 1) : writeCh'[i].client = writeCh'[j].client => i = j
  <2> SUFFICES ASSUME NEW i \in 1..(n - 1), NEW j \in 1..(n - 1),
                      writeCh'[i].client = writeCh'[j].client
               PROVE  i = j
    OBVIOUS
  <2>1. i + 1 \in 1..n /\ j + 1 \in 1..n /\ writeCh[i + 1].client = writeCh[j + 1].client
    BY <1>5, <1>6
  <2>2. i + 1 = j + 1
    BY <2>1 DEF CountInv
  <2> QED BY <1>5, <2>2
<1>12. \A i \in 1..(n - 1) : writeCh'[i].bytes = sent'[writeCh'[i].client]
  <2> HIDE DEF n
  <2> QED BY <1>1, <1>5, <1>6 DEF CountInv, n
<1>13. errs' = {} => total' = SumFunctionOnSet(senders, Collected')
  <2> HIDE DEF res, n
  <2> SUFFICES ASSUME errs' = {} PROVE total' = SumFunctionOnSet(senders, Collected')
    OBVIOUS
  <2>1. errs = {} /\ ~failed[c]
    BY <1>1, <1>4, <1>7
  <2>2. c \in Sized /\ res.bytes = senders[c]
    <3>1. pc[c] \in {"teardown", "done"} /\ DataInv(c) /\ pc[c] # "idle"
      BY <1>4, <1>7 DEF IInv, Reported
    <3> QED BY <1>4, <1>7, <2>1, <3>1, Share DEF DataInv
  <2>3. Collected \cup {c} \in SUBSET Sized /\ Collected \in SUBSET Sized
    BY <2>2, ReportedCount DEF Collected
  <2> DEFINE k == SumFunctionOnSet(senders, Collected)
             m == SumFunctionOnSet(senders, Collected \cup {c})
  <2>4. m = k + senders[c]
    <3>1. IsFiniteSet(Collected) /\ \A d \in Collected \cup {c} : senders[d] \in Nat
      BY <2>3, ShareSums
    <3> QED BY <1>10, <3>1, SumWith
  <2>5. m \in Nat /\ m <= sendSize
    <3>1. Len(senders) > 0
      BY <1>0, <1>1 DEF CallerInv
    <3> QED BY <2>3, <3>1, ShareSums
  <2>6. total = k
    BY <2>1 DEF CountInv
  <2>7. sendSize \in Nat /\ sendSize < WordSize /\ WordSize \in Nat
    BY <1>0, TransferAssumption DEF TypeOK
  <2> HIDE DEF k, m
  <2>8. total + res.bytes = m
    BY <2>2, <2>4, <2>6
  <2>9. m % WordSize = m
    BY <2>5, <2>7
  <2> QED BY <1>1, <1>10, <2>8, <2>9 DEF m
<1> HIDE DEF n
<1> QED BY <1>1, <1>5, <1>11, <1>12, <1>13 DEF CountInv

\* Every step keeps the count.
LEMMA NextCountInv == IInv /\ CountInv /\ [Next]_vars => CountInv'
<1> SUFFICES ASSUME IInv, CountInv, [Next]_vars PROVE CountInv'
  OBVIOUS
<1> USE DEF caller, transfer, vars
<1>0. ReportInv
  BY DEF IInv
<1>1. CASE Running(Caller)
  <2>1. ASSUME NEW c \in Clients, Spawn(c) PROVE CountInv'
    <3>1. UNCHANGED <<sendSize, senders, errs, total, writeCh, sent>>
      BY <2>1 DEF Spawn
    <3>2. Reported' = Reported
      BY <2>1 DEF Spawn, Reported, IInv, TypeOK
    <3> QED BY <1>0, <3>1, <3>2, CountKept
  <2>2. CASE Return \/ Exit
    BY <1>0, <2>2, CountKept DEF Return, Exit, Reported
  <2> QED BY <1>1, <2>1, <2>2, CallerStartsCountInv, CollectCountInv DEF Running, Caller
<1>2. CASE Running(Expire)
  BY <1>0, <1>2, CountKept DEF Running, Expire, Reported
<1>3. ASSUME NEW c \in Clients, Running(Step(c)) PROVE CountInv'
  BY <1>3, ClientCountInv, ReportCountInv DEF Running, Step, ConnectFails
<1>4. ASSUME NEW c \in Clients, Running(Deadline(c)) \/ Running(Peer(c)) PROVE CountInv'
  BY <1>4, ClientCountInv DEF Running, Deadline, Peer, Lose, ConnectFails
<1>5. CASE Terminated \/ UNCHANGED vars
  BY <1>0, <1>5, CountKept DEF Terminated, Reported
<1> QED BY <1>1, <1>2, <1>3, <1>4, <1>5 DEF Next

\* The count is right in every reachable state.
LEMMA SafetyCountInv == Safety => [](IInv /\ CountInv)
<1>1. Init => CountInv
  BY InitCountInv
<1>2. IInv /\ CountInv /\ [Next]_vars => CountInv'
  BY NextCountInv
<1> QED BY <1>1, <1>2, SafetyIInv, PTL DEF Safety
-----------------------------------------------------------------------------
\* For every number of clients and every server: the counters stay words,
\* and the places, links and results stay in their ranges.
THEOREM TransferTypeOK == Spec => []TypeOK
<1>1. IInv => TypeOK
  BY DEF IInv
<1> QED BY <1>1, SafetyIInv, PTL DEF Spec

\* No error path of a client leaves a connection behind.
THEOREM TransferNoConnectionLeft == Spec => []NoConnectionLeft
<1>1. IInv => NoConnectionLeft
  BY DEF IInv, LinkInv, NoConnectionLeft
<1> QED BY <1>1, SafetyIInv, PTL DEF Spec

\* For every chunk size and every share: the file of a client is a prefix of
\* its data at every moment, of the length its byte counter says.
THEOREM TransferGapless == Spec => []Gapless
<1>1. IInv => Gapless
  BY DEF IInv, DataInv, Gapless, Handle
<1> QED BY <1>1, SafetyIInv, PTL DEF Spec

\* The channel always has room for a client that has its result.
THEOREM TransferResultNeverBlocks == Spec => []ResultNeverBlocks
<1>1. ASSUME IInv, NEW c \in Clients, pc[c] \in {"refused", "report"}
      PROVE  Len(writeCh) < Capacity
  <2>1. c \in Sized /\ c \notin Reported
    BY <1>1, Share DEF Reported
  <2>2. /\ Cardinality(Reported) # Len(senders) /\ Cardinality(Reported) <= Len(senders)
        /\ Cardinality(Reported) = got + Len(writeCh)
        /\ got \in Nat /\ Len(writeCh) \in Nat /\ Len(senders) \in Nat
    BY <1>1, <2>1, ReportedCount DEF IInv, ReportInv
  <2> QED BY <2>2 DEF Capacity
<1>2. IInv => ResultNeverBlocks
  BY <1>1 DEF ResultNeverBlocks
<1> QED BY <1>2, SafetyIInv, PTL DEF Spec

\* The shares as the properties name them.
LEMMA SharesAreSized ==
  ASSUME IInv
  PROVE  DOMAIN senders = Sized /\ (senders # <<>> <=> Len(senders) > 0)
  BY LenProperties, EmptySeq DEF IInv, TypeOK, Sized

\* Simulate answers after every client reported, and with an error just when
\* one of them failed, in whatever order the results came.
THEOREM TransferVerdictIsTrue == Spec => []VerdictIsTrue
<1>1. ASSUME IInv, main \in {"ok", "error"}, senders # <<>>
      PROVE  /\ \A c \in Sized : pc[c] \in {"teardown", "done"}
             /\ main = "error" <=> \E c \in Sized : failed[c]
  <2>1. got = Len(senders) /\ Len(senders) > 0
    BY <1>1, SharesAreSized DEF IInv, CallerInv
  <2>2. Reported = Sized /\ errs = {c \in Sized : failed[c]}
    BY <1>1, <2>1, AllCollected
  <2>3. main = "error" <=> errs # {}
    BY <1>1, <2>1 DEF IInv, CallerInv
  <2> QED BY <2>2, <2>3 DEF Reported
<1>2. IInv => VerdictIsTrue
  BY <1>1, SharesAreSized DEF VerdictIsTrue
<1> QED BY <1>2, SafetyIInv, PTL DEF Spec

\* A success means that the server acknowledged all of every client's share.
THEOREM TransferFilesComplete == Spec => []FilesComplete
<1>1. ASSUME IInv, main = "ok", NEW c \in Sized
      PROVE  stored[c] = 0..(senders[c] - 1)
  <2>1. Reported = Sized /\ errs = {d \in Sized : failed[d]} /\ errs = {}
    BY <1>1, AllCollected DEF IInv, CallerInv
  <2>2. c \in Clients /\ pc[c] \in {"teardown", "done"} /\ ~failed[c]
    BY <2>1 DEF Reported
  <2>3. sent[c] = senders[c] /\ stored[c] = 0..(sent[c] - 1)
    BY <1>1, <2>2 DEF IInv, DataInv
  <2> QED BY <2>3
<1>2. IInv => FilesComplete
  BY <1>1, SharesAreSized DEF FilesComplete, Handle, Mine
<1> QED BY <1>2, SafetyIInv, PTL DEF Spec

\* The success that Simulate reports is about the size asked for: the bytes it
\* counted, and the bytes in the server's files, are that many.
THEOREM TransferSuccessIsComplete == Spec => []SuccessIsComplete
<1>1. ASSUME IInv, CountInv, main = "ok"
      PROVE  /\ total = sendSize
             /\ SumFunction([h \in Clients |-> Cardinality(stored[h])]) = sendSize
  <2> DEFINE size == [h \in Clients |-> Cardinality(stored[h])]
  <2>1. /\ got = Len(senders) /\ Len(senders) > 0 /\ errs = {}
        /\ DOMAIN senders = Sized /\ Sized \subseteq Clients
    BY <1>1, SharesAreSized, ReportedCount DEF IInv, CallerInv
  <2>2. Reported = Sized /\ errs = {c \in Sized : failed[c]} /\ Len(writeCh) = 0
    <3>1. Len(writeCh) \in Nat /\ got \in Nat /\ Cardinality(Reported) = got + Len(writeCh)
          /\ Cardinality(Reported) <= Len(senders)
      BY <1>1, ReportedCount DEF IInv, ReportInv
    <3> QED BY <1>1, <2>1, <3>1, AllCollected
  <2>3. SumFunctionOnSet(senders, Sized) = sendSize
    BY <1>1, <2>1 DEF CountInv, SumFunction
  <2>4. total = sendSize
    <3>1. Collected = Sized
      BY <2>2 DEF Collected, InChannel
    <3> QED BY <1>1, <2>1, <2>3, <3>1 DEF CountInv
  <2>5. ASSUME NEW c \in Sized
        PROVE  senders[c] \in Nat /\ size[c] = senders[c]
    <3>1. c \in Clients /\ pc[c] \in {"teardown", "done"} /\ ~failed[c]
      BY <2>1, <2>2 DEF Reported
    <3>2. stored[c] = 0..(senders[c] - 1)
      BY <1>1, <3>1 DEF IInv, DataInv
    <3>3. senders[c] \in Nat
      BY <1>1, <3>1, Share
    <3>4. Cardinality(0..(senders[c] - 1)) = senders[c]
      BY <3>3, FS_Interval
    <3> QED BY <3>1, <3>2, <3>3, <3>4
  <2>6. ASSUME NEW c \in Clients \ Sized
        PROVE  size[c] = 0
    <3>1. pc[c] = "idle"
      BY <1>1, Share
    <3>2. stored[c] = 0..(0 - 1) /\ 0..(0 - 1) = {}
      BY <1>1, <3>1 DEF IInv, DataInv, LinkInv
    <3> QED BY <3>2, FS_EmptySet
  <2>7. SumFunctionOnSet(size, Clients) = SumFunctionOnSet(senders, Sized)
    <3>1. IsFiniteSet(Clients)
      BY TransferAssumption, FS_Interval DEF Clients
    <3> HIDE DEF size
    <3> QED BY <2>1, <2>5, <2>6, <3>1, SumSame
  <2>8. SumFunction(size) = SumFunctionOnSet(size, Clients)
    BY DEF SumFunction
  <2> QED BY <2>3, <2>4, <2>7, <2>8
<1>2. IInv /\ CountInv => SuccessIsComplete
  BY <1>1 DEF SuccessIsComplete
<1> QED BY <1>2, SafetyCountInv, PTL DEF Spec
-----------------------------------------------------------------------------
(* The refinement: for every number of clients and every server, the        *)
(* protocol takes no step that ScatterGather does not allow.  A step of a   *)
(* client is a stutter until it reports, and Simulate launches, gathers and *)
(* answers as the abstract caller does.                                     *)

\* A step of clients alone that none of them sees in its outcome is a stutter.
LEMMA QuietStep ==
  ASSUME IInv, proc' = proc, main' = main, senders' = senders,
         \A c \in Clients : outcome'[c] = outcome[c]
  PROVE  UNCHANGED SG!vars
<1>1. phase' = phase
  BY DEF phase
<1>2. outcome' = outcome
  BY DEF outcome
<1> QED BY <1>1, <1>2 DEF SG!vars

\* Where a client is, the abstract worker is.
LEMMA OutcomeOf ==
  ASSUME NEW c \in Clients
  PROVE  /\ outcome[c] = "none" <=> pc[c] = "idle"
         /\ pc[c] \notin {"idle", "teardown", "done"} => outcome[c] = "working"
         /\ pc[c] \in {"teardown", "done"} => outcome[c] = IF failed[c] THEN "error" ELSE "ok"
  BY DEF outcome

\* The steps of a client before its report, and its teardown.
LEMMA ClientStutters ==
  ASSUME IInv, NEW c \in Clients, proc' = proc,
         \/ DialOk(c) \/ DialFails(c) \/ HandshakeOk(c) \/ SessionOk(c) \/ ConnectFails(c)
         \/ Break(c) \/ Send(c) \/ SendFails(c) \/ RecvFails(c) \/ Teardown(c)
         \/ \E a \in Answers : Denied(c, a) \/ Granted(c, a)
  PROVE  UNCHANGED SG!vars
<1> USE DEF caller, transfer
<1>0. TypeOK /\ LinkInv(c)
  BY DEF IInv
<1>1. main' = main /\ senders' = senders
  BY DEF DialOk, DialFails, HandshakeOk, SessionOk, ConnectFails, HandshakeFails, SessionFails,
         ConnectOk, Refuse, Break, Send, SendFails, RecvFails, Fail, Teardown, Denied, Granted
<1>2. /\ \A d \in Clients \ {c} : pc'[d] = pc[d] /\ failed'[d] = failed[d]
      /\ \/ pc'[c] = pc[c] /\ failed'[c] = failed[c]
         \/ pc[c] = "teardown" /\ pc'[c] = "done" /\ failed'[c] = failed[c]
         \/ /\ pc[c] \notin {"idle", "teardown", "done"}
            /\ pc'[c] \notin {"idle", "teardown", "done"}
  <2>1. CASE DialOk(c) \/ DialFails(c) \/ HandshakeOk(c) \/ SessionOk(c) \/ ConnectFails(c)
    BY <1>0, <2>1 DEF DialOk, DialFails, HandshakeOk, SessionOk, ConnectFails, HandshakeFails,
                      SessionFails, ConnectOk, Refuse, TypeOK
  <2>2. CASE Break(c) \/ Send(c) \/ Teardown(c)
    BY <1>0, <2>2 DEF Break, Send, Teardown, TypeOK
  <2>3. CASE SendFails(c) \/ RecvFails(c) \/ \E a \in Answers : Denied(c, a)
    <3>1. Fail(c) /\ pc[c] \in Requests
      BY <1>0, <2>3 DEF SendFails, RecvFails, Denied, LinkInv
    <3> QED BY <1>0, <3>1 DEF Fail, TypeOK, Requests
  <2>4. ASSUME NEW a \in Answers, Granted(c, a)
        PROVE  /\ \A d \in Clients \ {c} : pc'[d] = pc[d] /\ failed'[d] = failed[d]
               /\ pc[c] \notin {"idle", "teardown", "done"}
               /\ pc'[c] \notin {"idle", "teardown", "done"}
    <3>1. pc[c] \in Requests /\ pc' = [pc EXCEPT ![c] = Proceed(c)] /\ failed' = failed
      BY <1>0, <2>4 DEF Granted, LinkInv
    <3>2. Proceed(c) \in {"open", "write", "close", "report"}
      BY <3>1 DEF Proceed, AfterWrite, Requests
    <3> QED BY <1>0, <3>1, <3>2 DEF TypeOK, Requests
  <2> QED BY <2>1, <2>2, <2>3, <2>4
<1>3. \A d \in Clients : outcome'[d] = outcome[d]
  BY <1>2 DEF outcome
<1> QED BY <1>1, <1>3, QuietStep

\* A client that reports is a worker that reports.
LEMMA ReportRefines ==
  ASSUME IInv, NEW c \in Clients, Report(c), proc = "running", proc' = proc
  PROVE  SG!Report(c)
<1> USE DEF caller
<1>0. TypeOK /\ CallerInv
  BY DEF IInv
<1>1. /\ pc[c] \in {"refused", "report"}
      /\ pc' = [pc EXCEPT ![c] = IF @ = "refused" THEN "done" ELSE "teardown"]
      /\ main' = main /\ senders' = senders /\ failed' = failed
  BY DEF Report
<1>2. c \in Sized /\ c \notin Reported
  BY <1>1, Share DEF Reported
<1>3. main \in {"spawn", "collect"}
  <2>1. Len(senders) \in Nat /\ Len(senders) > 0
    BY <1>2, ReportedCount DEF Sized
  <2>2. got # Len(senders)
    BY <1>2, AllCollected
  <2> QED BY <1>0, <2>1, <2>2 DEF TypeOK, MainPcs, CallerInv
<1>4. phase \in {"launching", "gathering"} /\ phase' = phase
  BY <1>1, <1>3 DEF phase
<1>5. outcome[c] = "working"
  BY <1>1 DEF outcome
<1>6. outcome' = [outcome EXCEPT ![c] = IF failed[c] THEN "error" ELSE "ok"]
  BY <1>0, <1>1 DEF outcome, TypeOK
<1> QED BY <1>1, <1>4, <1>5, <1>6 DEF SG!Report

\* A go statement launches a worker.
LEMMA SpawnRefines ==
  ASSUME IInv, NEW c \in Clients, Spawn(c), proc = "running"
  PROVE  SG!Launch(c)
<1> USE DEF transfer
<1> DEFINE L == Len(senders)
<1>0. TypeOK /\ CallerInv
  BY DEF IInv
<1>1. /\ main = "spawn" /\ pc[c] = "idle" /\ pc[L] = "idle"
      /\ \A d \in 1..(c - 1) : pc[d] # "idle"
      /\ pc' = [pc EXCEPT ![c] = "dial"]
      /\ main' = IF c = L THEN "collect" ELSE "spawn"
      /\ proc' = proc /\ senders' = senders /\ failed' = failed
  BY <1>0 DEF Spawn, CallerInv
<1>2. /\ c \in Nat /\ 1 <= c
      /\ L \in Nat /\ 1 <= L /\ L \in Clients
      /\ DOMAIN senders = Sized /\ Sized = 1..L /\ Sized \subseteq Clients
  <2>1. c \in Nat /\ 1 <= c
    BY TransferAssumption DEF Clients
  <2>2. L \in 0..MaxClients /\ L > 0
    BY <1>0, <1>1 DEF CallerInv
  <2>3. L \in Nat /\ 1 <= L /\ L \in Clients
    <3> HIDE DEF L
    <3> QED BY <2>2, TransferAssumption DEF Clients
  <2> QED BY <2>1, <2>3, SharesAreSized, ReportedCount DEF Sized
<1> HIDE DEF L
<1>3. c <= L
  <2> SUFFICES ASSUME L < c PROVE FALSE
    BY <1>2
  <2>1. L \in 1..(c - 1)
    BY <1>2
  <2> QED BY <1>1, <2>1
<1>4. phase = "launching"
  BY <1>1 DEF phase
<1>5. c \in Sized /\ outcome[c] = "none"
  BY <1>1, <1>2, <1>3, OutcomeOf
<1>6. outcome' = [outcome EXCEPT ![c] = "working"]
  BY <1>0, <1>1 DEF outcome, TypeOK
<1>7. phase' = IF \E v \in Sized \ {c} : outcome[v] = "none" THEN "launching" ELSE "gathering"
  <2>1. CASE c = L
    <3>1. \A v \in Sized \ {c} : pc[v] # "idle"
      BY <1>1, <1>2, <2>1
    <3>2. \A v \in Sized \ {c} : outcome[v] # "none"
      BY <1>2, <3>1, OutcomeOf
    <3> QED BY <1>1, <2>1, <3>2 DEF phase
  <2>2. CASE c # L
    <3>1. L \in Sized \ {c} /\ outcome[L] = "none"
      BY <1>1, <1>2, <2>2, OutcomeOf
    <3> QED BY <1>1, <2>2, <3>1 DEF phase
  <2> QED BY <2>1, <2>2
<1> QED BY <1>1, <1>2, <1>4, <1>5, <1>6, <1>7 DEF SG!Launch

\* The other steps of Simulate are those of the abstract caller.
LEMMA CallerRefines ==
  ASSUME IInv, IInv', proc = "running", Hosts \/ Simulate \/ Collect \/ Return \/ Exit
  PROVE  SG!Reject \/ SG!Scatter \/ SG!Gather \/ UNCHANGED SG!vars
<1> USE DEF caller, transfer
<1>0. TypeOK /\ CallerInv /\ DOMAIN senders = Sized /\ (DOMAIN senders = Sized)'
  <2>1. \A s \in Seq(Nat) : DOMAIN s = 1..Len(s)
    OBVIOUS
  <2> QED BY <2>1 DEF IInv, TypeOK, Sized
<1>1. pc' = pc /\ failed' = failed /\ outcome' = outcome
  BY DEF Hosts, Simulate, Collect, Return, Exit, outcome
<1>2. CASE Hosts
  <2>1. proc' = proc /\ senders' = senders /\ main = "hosts" /\ main' \in {"simulate", "skipped"}
    BY <1>2 DEF Hosts
  <2>2. phase = "ready" /\ phase' \in {"ready", "skipped"}
    BY <2>1 DEF phase
  <2> QED BY <1>1, <2>1, <2>2 DEF SG!Reject, SG!vars
<1>3. CASE Simulate
  <2>1. proc' = proc /\ main = "simulate" /\ phase = "ready"
    BY <1>3 DEF Simulate, phase
  <2>2. CASE sendSize = 0
    <3>1. main' = "error" /\ senders' = senders
      BY <1>3, <2>2 DEF Simulate
    <3>2. phase' = "error"
      BY <2>1, <3>1 DEF phase
    <3> QED BY <1>1, <2>1, <3>1, <3>2 DEF SG!Reject
  <2>3. CASE sendSize # 0
    <3>1. main' = "spawn"
      BY <1>3, <2>3 DEF Simulate
    <3>2. phase' = "launching"
      BY <2>1, <3>1 DEF phase
    <3>3. Len(senders') > 0 /\ Len(senders') \in Nat /\ Sized' \subseteq Clients
      BY <3>1, TransferAssumption DEF IInv, CallerInv, Sized, Clients
    <3>4. DOMAIN senders' \in (SUBSET Clients) \ {{}}
      BY <1>0, <3>3 DEF Sized
    <3> QED BY <1>1, <2>1, <3>2, <3>4 DEF SG!Scatter
  <2> QED BY <2>2, <2>3
<1>4. CASE Collect
  BY <1>1, <1>4 DEF Collect, SG!vars, phase
<1>5. CASE Return
  <2>1. /\ main = "collect" /\ got = Len(senders) /\ proc' = proc /\ senders' = senders
        /\ main' = IF errs = {} THEN "ok" ELSE "error"
    BY <1>5 DEF Return
  <2>2. Reported = Sized /\ errs = {c \in Sized : failed[c]} /\ Sized \subseteq Clients
    BY <2>1, AllCollected, ReportedCount
  <2>3. \A c \in Sized : outcome[c] = IF failed[c] THEN "error" ELSE "ok"
    BY <2>2, OutcomeOf DEF Reported
  <2>4. phase = "gathering" /\ phase' = main'
    BY <2>1, <1>5 DEF phase
  <2>5. phase' = IF \E c \in Sized : outcome[c] = "error" THEN "error" ELSE "ok"
    <3>1. CASE \E c \in Sized : failed[c]
      BY <2>1, <2>2, <2>3, <2>4, <3>1
    <3>2. CASE ~\E c \in Sized : failed[c]
      BY <2>1, <2>2, <2>3, <2>4, <3>2
    <3> QED BY <3>1, <3>2
  <2> QED BY <1>0, <1>1, <2>1, <2>3, <2>4, <2>5 DEF SG!Gather
<1>6. CASE Exit
  <2>1. main' = main /\ senders' = senders /\ proc' = "exited" /\ main \in {"ok", "error", "skipped"}
    BY <1>6 DEF Exit
  <2>2. phase' = phase
    BY <2>1 DEF phase
  <2> QED BY <1>1, <2>1, <2>2 DEF SG!vars
<1> QED BY <1>2, <1>3, <1>4, <1>5, <1>6

\* A panic of a client is a crash while some worker is at work.
LEMMA CrashRefines ==
  ASSUME IInv, NEW c \in Clients, NEW a \in Answers, Crash(c, a)
  PROVE  SG!Crash
<1> USE DEF caller, transfer
<1>1. /\ pc[c] \in Requests /\ proc' = "crashed"
      /\ pc' = pc /\ failed' = failed /\ senders' = senders
  BY DEF Crash, IInv, LinkInv
<1>2. c \in DOMAIN senders
  BY <1>1, Share, SharesAreSized DEF Requests
<1>3. outcome[c] = "working" /\ outcome' = outcome
  BY <1>1 DEF outcome, Requests
<1>4. phase' = "crashed"
  BY <1>1 DEF phase
<1> QED BY <1>1, <1>2, <1>3, <1>4 DEF SG!Crash

\* Every step is a step of ScatterGather, or a stutter.
LEMMA StepRefines == IInv /\ IInv' /\ [Next]_vars => [SG!Next]_(SG!vars)
<1> SUFFICES ASSUME IInv, IInv', [Next]_vars PROVE SG!Next \/ UNCHANGED SG!vars
  OBVIOUS
<1>1. CASE Running(Caller)
  <2>1. CASE \E c \in Clients : Spawn(c)
    BY <1>1, <2>1, SpawnRefines DEF Running, SG!Next
  <2>2. CASE ~\E c \in Clients : Spawn(c)
    BY <1>1, <2>2, CallerRefines DEF Running, Caller, SG!Next
  <2> QED BY <2>1, <2>2
<1>2. CASE Running(Expire)
  <2>1. UNCHANGED <<proc, main, senders, pc, failed>>
    BY <1>2 DEF Running, Expire, caller
  <2> QED BY <2>1 DEF SG!vars, phase, outcome
<1>3. ASSUME NEW c \in Clients, Running(Step(c)) \/ Running(Deadline(c)) \/ Running(Peer(c))
      PROVE  SG!Next \/ UNCHANGED SG!vars
  <2>1. CASE Report(c)
    <3>1. proc = "running" /\ proc' = proc
      BY <1>3, <2>1 DEF Running, Report
    <3> QED BY <2>1, <3>1, ReportRefines DEF SG!Next
  <2>2. CASE \E a \in Answers : Crash(c, a)
    BY <2>2, CrashRefines DEF SG!Next
  <2>3. CASE ~Report(c) /\ ~\E a \in Answers : Crash(c, a)
    <3>1. \/ DialOk(c) \/ DialFails(c) \/ HandshakeOk(c) \/ SessionOk(c) \/ ConnectFails(c)
          \/ Break(c) \/ Send(c) \/ SendFails(c) \/ RecvFails(c) \/ Teardown(c)
          \/ \E a \in Answers : Denied(c, a) \/ Granted(c, a)
      BY <1>3, <2>3 DEF Running, Step, Deadline, Peer, Lose
    <3>2. proc' = proc
      BY <3>1 DEF DialOk, DialFails, HandshakeOk, SessionOk, ConnectFails, HandshakeFails,
             SessionFails, ConnectOk, Refuse, Break, Send, SendFails, RecvFails, Fail,
             Teardown, Denied, Granted
    <3> QED BY <3>1, <3>2, ClientStutters
  <2> QED BY <2>1, <2>2, <2>3
<1>4. CASE Terminated \/ UNCHANGED vars
  <2>1. UNCHANGED <<proc, main, senders, pc, failed>>
    BY <1>4 DEF Terminated, vars, caller
  <2> QED BY <2>1 DEF SG!vars, phase, outcome
<1> QED BY <1>1, <1>2, <1>3, <1>4 DEF Next

\* The initial states are those of ScatterGather.
LEMMA InitRefines == Init => SG!Init
  BY DEF Init, SG!Init, phase, outcome

\* The safety part of ImplementsScatterGather, for every value of the
\* constants; that Simulate does answer is left to the run.
THEOREM TransferScattersAndGathers == Safety => SG!Safe
<1>1. Init => SG!Init
  BY InitRefines
<1>2. IInv /\ IInv' /\ [Next]_vars => [SG!Next]_(SG!vars)
  BY StepRefines
<1> QED BY <1>1, <1>2, SafetyIInv, PTL DEF Safety, SG!Safe
=============================================================================
