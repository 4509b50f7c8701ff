---------------------------- MODULE SFTPPackets ----------------------------
(***************************************************************************)
(* The bytes of an SFTP session: how requests are marshalled, how answers   *)
(* are cut out of the stream (ReadPacket) and parsed (FieldParser), and     *)
(* what ReadResp makes of them.  The server answers each request with a     *)
(* well-formed packet, or with one that is cut short, extended, changed in  *)
(* a byte, or announced with a wrong length; then it may hang up.           *)
(*                                                                         *)
(* A byte is a number below 256.  Integers are Word32 and Word64 bytes      *)
(* long, fewer than in the code; that some number of bytes is needed, and   *)
(* their order, is all that the parser depends on.                          *)
(***************************************************************************)
EXTENDS Integers, SequencesExt

CONSTANTS Word32, Word64,   \* bytes of a uint32 and of a uint64
          Strings,          \* handles, messages and data, as bytes
          Offsets,          \* offsets of writes
          NoiseBytes        \* what a damaged byte may become

\* What k bytes can count to.
Pow256[k \in Nat] == IF k = 0 THEN 1 ELSE 256 * Pow256[k - 1]

\* Offsets fit a uint64, and the length of the longest packet, a write of one
\* string to a handle of another, a uint32.
ASSUME PacketsAssumption ==
  /\ {Word32, Word64} \subseteq Nat \ {0}
  /\ Strings \subseteq Seq(0..255)
  /\ \A s, t \in Strings : 1 + 4 * Word32 + Word64 + Len(s) + Len(t) < Pow256[Word32]
  /\ Offsets \subseteq Nat /\ \A o \in Offsets : o < Pow256[Word64]
  /\ NoiseBytes \subseteq 0..255

A == INSTANCE SFTPAnswers

ClientVer == 3
SSH_FX_OK == 0
reqID == 1

Layout(kind) ==
  CASE kind \in {"init", "version"} -> <<"uint32">>
    [] kind \in {"handle", "close"} -> <<"uint32", "string">>
    [] kind = "status" -> <<"uint32", "uint32", "string", "string">>
    [] kind = "open" -> <<"uint32", "string", "uint32">>
    [] kind = "write" -> <<"uint32", "string", "uint64", "string">>

TypeCode(kind) ==
  CASE kind = "init" -> 1 [] kind = "version" -> 2 [] kind = "open" -> 3 [] kind = "close" -> 4
    [] kind = "write" -> 6 [] kind = "status" -> 101 [] kind = "handle" -> 102
-----------------------------------------------------------------------------
(* Marshalling. *)

\* Big endian, in w bytes.
MarshalUint(n, w) == [i \in 1..w |-> (n \div Pow256[w - i]) % 256]

UnmarshalUint(b) == FoldLeft(LAMBDA n, d : 256 * n + d, 0, b)

\* Mutant: the special case of the empty string returns one byte.
MutMarshalString(str) ==
  IF str = <<>> THEN <<0>> ELSE MarshalUint(Len(str), Word32) \o str

MarshalString(str) == MarshalUint(Len(str), Word32) \o str

MarshalField(type, v) ==
  CASE type = "uint32" -> MarshalUint(v, Word32)
    [] type = "uint64" -> MarshalUint(v, Word64)
    [] type = "string" -> MarshalString(v)

\* An open packet ends in empty attributes.
Marshal(kind, fields) ==
  FlattenSeq([i \in DOMAIN fields |-> MarshalField(Layout(kind)[i], fields[i])])
    \o (IF kind = "open" THEN MarshalUint(0, Word32) ELSE <<>>)

Body(kind, fields) == <<TypeCode(kind)>> \o Marshal(kind, fields)

\* Mutant: the type byte is not counted.
MutRawPacket(kind, fields) ==
  MarshalUint(Len(Marshal(kind, fields)), Word32) \o Body(kind, fields)

MakeRawPacket(kind, fields) ==
  MarshalUint(Len(Marshal(kind, fields)) + 1, Word32) \o Body(kind, fields)
-----------------------------------------------------------------------------
(* Parsing: a parser keeps its last error and goes on with the next field. *)

NewFieldParser(data) == [buffer |-> data, err |-> FALSE, values |-> <<>>]

Drop(s, n) == SubSeq(s, n + 1, Len(s))

Took(p, n, v) == [p EXCEPT !.buffer = Drop(@, n), !.values = Append(@, v)]
TooShort(p, v) == [p EXCEPT !.err = TRUE, !.values = Append(@, v)]

\* Mutant: the bytes of the integer are looked at and not consumed.
MutReadUint(p, w) ==
  IF Len(p.buffer) < w THEN TooShort(p, 0) ELSE Took(p, 0, UnmarshalUint(SubSeq(p.buffer, 1, w)))

ReadUint(p, w) ==
  IF Len(p.buffer) < w THEN TooShort(p, 0) ELSE Took(p, w, UnmarshalUint(SubSeq(p.buffer, 1, w)))

\* Mutant: the length of the string is not checked, and Next gives what there is.
MutReadString(p) ==
  IF Len(p.buffer) < Word32 THEN TooShort(p, <<>>)
  ELSE LET length == UnmarshalUint(SubSeq(p.buffer, 1, Word32))
           rest   == Drop(p.buffer, Word32)
           n      == IF Len(rest) < length THEN Len(rest) ELSE length
       IN  Took([p EXCEPT !.buffer = rest], n, SubSeq(rest, 1, n))

\* The length is consumed even when the string is cut short.
ReadString(p) ==
  IF Len(p.buffer) < Word32 THEN TooShort(p, <<>>)
  ELSE LET length == UnmarshalUint(SubSeq(p.buffer, 1, Word32))
           rest   == Drop(p.buffer, Word32)
           q      == [p EXCEPT !.buffer = rest]
       IN  IF Len(rest) < length THEN TooShort(q, <<>>)
                                 ELSE Took(q, length, SubSeq(rest, 1, length))

ReadField(p, type) ==
  CASE type = "uint32" -> ReadUint(p, Word32)
    [] type = "uint64" -> ReadUint(p, Word64)
    [] type = "string" -> ReadString(p)

Unmarshal(kind, data) == FoldLeft(ReadField, NewFieldParser(data), Layout(kind))

Error == [kind |-> "error", values |-> <<>>]
Packet(kind, p) == IF p.err THEN Error ELSE [kind |-> kind, values |-> p.values]

\* ReadResp: an empty packet has no first byte.  Status packets are parsed
\* whatever is expected.
ReadResp(expected, resp) ==
  IF resp = <<>> THEN [kind |-> "panic", values |-> <<>>]
  ELSE IF Head(resp) # TypeCode(expected) THEN Error
  ELSE Packet(expected, Unmarshal(expected, Tail(resp)))

\* What the callers of ReadResp look at.
Verdict(r) ==
  CASE r.kind = "version" -> IF r.values[1] = ClientVer THEN "version" ELSE "oldversion"
    [] r.kind = "status" -> IF r.values[2] = SSH_FX_OK THEN "ok" ELSE "denied"
    [] OTHER -> r.kind
-----------------------------------------------------------------------------
VARIABLES
  at,       \* where the client is: see Places
  request,  \* the request under way
  packet,   \* its fields
  answer,   \* what the server's answer says: its kind and its fields
  damaged,  \* an answer was damaged on its way
  pipe,     \* bytes sent by the server and not yet read
  want,     \* the length announced by the current answer
  resp      \* the answer as ReadPacket returns it

vars == <<at, request, packet, answer, damaged, pipe, want, resp>>

Places == {"send", "answer", "length", "body", "judge", "ended", "panic"}

Statuses == {<<reqID, c, m, l>> : c \in {SSH_FX_OK, 4}, m \in Strings, l \in Strings}

RequestFields(kind) ==
  CASE kind = "init" -> {<<ClientVer>>}
    [] kind = "open" -> {<<reqID, n, 64>> : n \in Strings}
    [] kind = "write" -> {<<reqID, h, o, d>> : h \in Strings, o \in Offsets, d \in Strings}
    [] kind = "close" -> {<<reqID, h>> : h \in Strings}

\* What a server may answer by the protocol: what was asked for, or a status.
Answers(kind) ==
  {[kind |-> "status", values |-> s] : s \in Statuses} \cup
    CASE A!Expected(kind) = "version" -> {[kind |-> "version", values |-> <<v>>] : v \in {2, ClientVer}}
      [] A!Expected(kind) = "handle" -> {[kind |-> "handle", values |-> <<reqID, h>>] : h \in Strings}
      [] OTHER -> {}

Damage(b) ==
  {SubSeq(b, 1, n) : n \in 0..Len(b)}
    \cup {[b EXCEPT ![i] = x] : i \in DOMAIN b, x \in NoiseBytes}
    \cup {Append(b, x) : x \in NoiseBytes}

Init ==
  /\ at = "send"
  /\ request = "init"
  /\ packet = <<>>
  /\ answer = [kind |-> "none", values |-> <<>>]
  /\ damaged = FALSE
  /\ pipe = <<>>
  /\ want = 0
  /\ resp = <<>>

SendRequest ==
  /\ at = "send"
  /\ packet' \in RequestFields(request)
  /\ at' = "answer"
  /\ UNCHANGED <<request, answer, damaged, pipe, want, resp>>

Respond ==
  /\ at = "answer"
  /\ answer' \in Answers(request)
  /\ pipe' = pipe \o MakeRawPacket(answer'.kind, answer'.values)
  /\ at' = "length"
  /\ UNCHANGED <<request, packet, damaged, want, resp>>

\* One answer of a session is damaged, or announced with a wrong length.
RespondBadly ==
  /\ at = "answer" /\ ~damaged
  /\ answer' \in Answers(request)
  /\ \E b \in Damage(Body(answer'.kind, answer'.values)), off \in {-1, 0, 1} :
       /\ Len(b) + off >= 0
       /\ pipe' = pipe \o MarshalUint(Len(b) + off, Word32) \o b
  /\ damaged' = TRUE
  /\ at' = "length"
  /\ UNCHANGED <<request, packet, want, resp>>

\* ReadPacket's two reads.  One that finds too little waits until the server
\* hangs up, and fails.
HangUp ==
  /\ \/ at = "length" /\ Len(pipe) < Word32
     \/ at = "body" /\ Len(pipe) < want
  /\ at' = "ended"
  /\ UNCHANGED <<request, packet, answer, damaged, pipe, want, resp>>

\* Mutant: the length is read as a signed integer.
MutReadLength ==
  /\ at = "length" /\ Len(pipe) >= Word32
  /\ LET n == UnmarshalUint(SubSeq(pipe, 1, Word32))
     IN  want' = IF n >= Pow256[Word32] \div 2 THEN n - Pow256[Word32] ELSE n
  /\ pipe' = Drop(pipe, Word32)
  /\ at' = "body"
  /\ UNCHANGED <<request, packet, answer, damaged, resp>>

ReadLength ==
  /\ at = "length" /\ Len(pipe) >= Word32
  /\ want' = UnmarshalUint(SubSeq(pipe, 1, Word32))
  /\ pipe' = Drop(pipe, Word32)
  /\ at' = "body"
  /\ UNCHANGED <<request, packet, answer, damaged, resp>>

ReadBody ==
  /\ at = "body" /\ Len(pipe) >= want
  /\ resp' = SubSeq(pipe, 1, want)
  /\ pipe' = Drop(pipe, want)
  /\ at' = "judge"
  /\ UNCHANGED <<request, packet, answer, damaged, want>>

Result == ReadResp(A!Expected(request), resp)

NextRequests ==
  CASE request = "init" -> {"open"}
    [] request = "close" -> {}
    [] OTHER -> {"write", "close"}

\* The answer decides: the next request, or the end of the session.
Judge ==
  /\ at = "judge"
  /\ IF Verdict(Result) \in A!Accepted /\ NextRequests # {}
       THEN request' \in NextRequests /\ at' = "send"
       ELSE at' = (IF Result.kind = "panic" THEN "panic" ELSE "ended") /\ UNCHANGED request
  /\ packet' = <<>> /\ want' = 0 /\ resp' = <<>>
  /\ answer' = [kind |-> "none", values |-> <<>>]
  /\ UNCHANGED <<damaged, pipe>>

Terminated == at \in {"ended", "panic"} /\ UNCHANGED vars

Next ==
  \/ SendRequest \/ Respond \/ RespondBadly \/ HangUp
  \/ ReadLength \/ ReadBody \/ Judge \/ Terminated

Spec == Init /\ [][Next]_vars
-----------------------------------------------------------------------------
\* Every variable keeps to its range; the pipe holds bytes.
TypeOK ==
  /\ at \in Places
  /\ request \in A!Requests
  /\ answer.kind \in {"none", "version", "handle", "status"}
  /\ damaged \in BOOLEAN
  /\ \A s \in {pipe, resp} : \A i \in DOMAIN s : s[i] \in 0..255
  /\ want \in Nat

\* An integer in the middle of the bytes d.
UintAt(d, from) == UnmarshalUint(SubSeq(d, from + 1, from + Word32))

StringFits(d, from) == from + Word32 <= Len(d) /\ from + Word32 + UintAt(d, from) <= Len(d)

\* The answer that a packet is, by the layout of the protocol: every field
\* lies where the lengths before it say.
AnswerOf(b) ==
  LET d     == Tail(b)
      after == 3 * Word32 + UintAt(d, 2 * Word32)
  IN  CASE b = <<>> -> "empty"
        [] b # <<>> /\ b[1] = 2 /\ Word32 <= Len(d) ->
             IF UintAt(d, 0) = ClientVer THEN "version" ELSE "oldversion"
        [] b # <<>> /\ b[1] = 102 /\ StringFits(d, Word32) -> "handle"
        [] b # <<>> /\ b[1] = 101 /\ StringFits(d, 2 * Word32) /\ StringFits(d, after) ->
             IF UintAt(d, Word32) = SSH_FX_OK THEN "ok" ELSE "denied"
        [] OTHER -> "garbled"

\* Every packet, however damaged, is one of the seven answers of SFTPAnswers,
\* and ReadResp with its parser does to it what that module says: no field
\* that is cut short slips through, and only an empty packet panics.
AnswersAreSeven ==
  at = "judge" => Verdict(Result) = A!ReadResp(A!Expected(request), AnswerOf(resp))

\* A well-formed answer is read back as it was written, field by field, when
\* it is of the kind asked for; any other is an error.
AnswersAreUnderstood ==
  at = "judge" /\ ~damaged =>
    IF answer.kind = A!Expected(request) THEN Result = answer ELSE Result = Error

\* A session with a sound server never loses its place in the stream: no
\* byte is left over when the next request is sent, or when the session ends
\* in a denial.
InStep == at \in {"send", "ended"} /\ ~damaged => pipe = <<>>

\* The server can parse what the client marshals, and the bytes of a write
\* beside its data are as many whatever the data are: WriteRandom's
\* pktOverhead.
RequestsAreUnderstood ==
  at = "answer" =>
    LET raw == MakeRawPacket(request, packet)
    IN  /\ UintAt(raw, 0) = Len(raw) - Word32
        /\ Unmarshal(request, Drop(raw, Word32 + 1)).values = packet
        /\ request = "write" =>
             Len(raw) - Len(packet[4]) = 1 + 4 * Word32 + Word64 + Len(packet[2])
=============================================================================
