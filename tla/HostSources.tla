---------------------------- MODULE HostSources ----------------------------
(***************************************************************************)
(* Where the hosts of a simulation come from: scan draws addresses of the   *)
(* test networks, spambot looks up the mail servers of well-known domains,  *)
(* tor has a list of sites, and c2, sink, miner, imposter and irc ask the   *)
(* wisdom API.  Each returns at most size hosts, in a random order of its   *)
(* own.  The get command asks the same API for families, and takes all.     *)
(***************************************************************************)
EXTENDS Integers, SequencesExt

CONSTANTS
  Sizes,         \* what run asks for
  Networks,      \* len(scanIPRanges)
  Addresses,     \* of one network, 256 in the code
  PerNetwork,    \* sizes that take one more network, 20 in the code
  NumOfDomains,  \* len(domains) of spambot
  Sites,         \* len(torHosts)
  Servers,       \* mail servers, as positive numbers
  Items,         \* items that the API may hold
  MaxItems       \* bound: how many it returns

\* run asks these modules for a positive number of hosts, their NumOfHosts
\* when there is no -size.
ASSUME SourcesAssumption ==
  /\ Sizes \subseteq Nat \ {0}
  /\ {Networks, Addresses, PerNetwork, NumOfDomains, Sites} \subseteq Nat \ {0}
  /\ Servers \subseteq Nat \ {0}
  /\ Items \subseteq [domain : STRING, port : Int, tcp : BOOLEAN]
  /\ MaxItems \in Nat

Domains == 1..NumOfDomains

VARIABLES
  source,    \* "scan", "spambot", "tor", "families", or the host type of a WisdomHosts
  size,
  pc,        \* "scan", "lookup", "request", "read", "pick", "done" or "error"
  hosts,     \* addresses, mail servers, or places of sites or items
  tried,     \* k of scan; requests made by query
  netIdx,    \* the networks that scan draws from
  left,      \* domains, or places of sites or items, not yet looked at
  mx,        \* the first mail server of each domain, or 0
  lost,      \* domains whose lookup failed
  reply,     \* what the API answered
  items      \* the items in its answer

world == <<netIdx, mx, items>>
vars == <<source, size, pc, hosts, tried, left, lost, reply, world>>

WisdomTypes == {"dns", "ip"}
Start ==
  [scan |-> "scan", spambot |-> "lookup", tor |-> "pick",
   dns |-> "request", ip |-> "request", families |-> "request"]

numOfNets(n) ==
  IF n \div PerNetwork + 1 > Networks THEN Networks ELSE n \div PerNetwork + 1

Init ==
  /\ source \in DOMAIN Start
  /\ size \in Sizes
  /\ pc = Start[source]
  /\ hosts = <<>>
  /\ tried = 0
  /\ netIdx \in IF source = "scan"
                  THEN {f \in [1..numOfNets(size) -> 1..Networks] : IsInjective(f)}
                  ELSE {<<>>}
  /\ left = CASE source = "spambot" -> Domains
              [] source = "tor" -> 1..Sites
              [] OTHER -> {}
  /\ mx \in IF source = "spambot" THEN [Domains -> Servers \cup {0}] ELSE {<<>>}
  /\ lost = {}
  /\ reply = "none"
  /\ items = <<>>
-----------------------------------------------------------------------------
(* scan *)

\* Mutant: the attempts take turns, not the hosts found.
MutNetworkOf(n) == netIdx[(tried % Len(netIdx)) + 1]

\* The network that the host after n others is drawn from.
NetworkOf(n) == netIdx[(n % Len(netIdx)) + 1]

\* Any address of a network: random bits under its mask.
randIP(net) == {net * Addresses + a : a \in 0..(Addresses - 1)}

\* Mutant: no address is remembered.
MutDraw ==
  /\ pc = "scan"
  /\ tried < 2 * size /\ Len(hosts) < size
  /\ \E ip \in randIP(NetworkOf(Len(hosts))) : hosts' = Append(hosts, ip)
  /\ tried' = tried + 1
  /\ UNCHANGED <<source, size, pc, left, lost, reply, world>>

Draw ==
  /\ pc = "scan"
  /\ tried < 2 * size /\ Len(hosts) < size
  /\ \E ip \in randIP(NetworkOf(Len(hosts))) :
       hosts' = IF ip \in Range(hosts) THEN hosts ELSE Append(hosts, ip)
  /\ tried' = tried + 1
  /\ UNCHANGED <<source, size, pc, left, lost, reply, world>>

\* Different addresses in ascending order, each at the place of its rank.
Sorted(s) == [i \in DOMAIN s |-> CHOOSE x \in Range(s) : Cardinality({y \in Range(s) : y < x}) = i - 1]

Sort ==
  /\ pc = "scan"
  /\ tried = 2 * size \/ Len(hosts) = size
  /\ hosts' = Sorted(hosts)
  /\ pc' = "done"
  /\ UNCHANGED <<source, size, tried, left, lost, reply, world>>
-----------------------------------------------------------------------------
(* spambot *)

\* A lookup that fails is passed over, and so is a server seen before.
Lookup ==
  /\ pc = "lookup"
  /\ Len(hosts) < size
  /\ \E d \in left :
       /\ left' = left \ {d}
       /\ \/ lost' = lost \cup {d} /\ UNCHANGED hosts
          \/ /\ hosts' = IF mx[d] = 0 \/ mx[d] \in Range(hosts) THEN hosts ELSE Append(hosts, mx[d])
             /\ UNCHANGED lost
  /\ UNCHANGED <<source, size, pc, tried, reply, world>>
-----------------------------------------------------------------------------
(* The wisdom API *)

Attempts == 3

Fails ==
  /\ tried' = tried + 1
  /\ pc' = IF tried' = Attempts THEN "error" ELSE "request"
  /\ UNCHANGED <<source, size, hosts, left, lost, reply, world>>

\* Mutant: the loop does not stop at an answer.
MutAnswers ==
  /\ tried' = tried + 1
  /\ reply' \in {"items", "status", "garbled"}
  /\ pc' = IF tried' = Attempts THEN "read" ELSE "request"
  /\ UNCHANGED <<source, size, hosts, left, lost, world>>

\* The server answers: items, another status than 200, or a body that cannot
\* be read or parsed.
Answers ==
  /\ tried' = tried + 1
  /\ reply' \in {"items", "status", "garbled"}
  /\ pc' = "read"
  /\ UNCHANGED <<source, size, hosts, left, lost, world>>

query == pc = "request" /\ (Fails \/ Answers)

Read ==
  /\ pc = "read"
  /\ IF reply = "items"
       THEN /\ items' \in BoundedSeq(Items, MaxItems)
            /\ IF source = "families"
                 THEN pc' = "done" /\ hosts' = [i \in DOMAIN items' |-> i] /\ UNCHANGED left
                 ELSE pc' = "pick" /\ left' = DOMAIN items' /\ UNCHANGED hosts
       ELSE pc' = "error" /\ UNCHANGED <<items, left, hosts>>
  /\ UNCHANGED <<source, size, tried, lost, reply, netIdx, mx>>

Usable(i) ==
  CASE source = "dns" -> items[i].domain # ""
    [] source = "ip" -> items[i].port > 0 /\ items[i].tcp
    [] OTHER -> TRUE

\* Mutant: the test of the number of hosts is missing.
MutPick ==
  /\ pc = "pick"
  /\ \E i \in left :
       /\ left' = left \ {i}
       /\ hosts' = IF Usable(i) THEN Append(hosts, i) ELSE hosts
  /\ UNCHANGED <<source, size, pc, tried, lost, reply, world>>

Pick ==
  /\ pc = "pick"
  /\ Len(hosts) < size
  /\ \E i \in left :
       /\ left' = left \ {i}
       /\ hosts' = IF Usable(i) THEN Append(hosts, i) ELSE hosts
  /\ UNCHANGED <<source, size, pc, tried, lost, reply, world>>
-----------------------------------------------------------------------------
\* Mutant: the limit is on what was looked at, usable or not.
MutReturn ==
  /\ pc \in {"lookup", "pick"}
  /\ Cardinality((IF pc = "pick" THEN DOMAIN items ELSE Domains) \ left) >= size \/ left = {}
  /\ pc' = "done"
  /\ UNCHANGED <<source, size, hosts, tried, left, lost, reply, world>>

Return ==
  /\ pc \in {"lookup", "pick"}
  /\ Len(hosts) = size \/ left = {}
  /\ pc' = "done"
  /\ UNCHANGED <<source, size, hosts, tried, left, lost, reply, world>>

Terminated == pc \in {"done", "error"} /\ UNCHANGED vars

Next == Draw \/ Sort \/ Lookup \/ query \/ Read \/ Pick \/ Return \/ Terminated

Spec == Init /\ [][Next]_vars
-----------------------------------------------------------------------------
\* Every variable keeps to its range; a source never returns more than size
\* hosts or makes more than its number of attempts.
TypeOK ==
  /\ source \in DOMAIN Start
  /\ size \in Sizes
  /\ pc \in {"scan", "lookup", "request", "read", "pick", "done", "error"}
  /\ hosts \in Seq(Nat) /\ (source # "families" => Len(hosts) <= size)
  /\ tried <= (IF source = "scan" THEN 2 * size ELSE Attempts)
  /\ netIdx \in BoundedSeq(1..Networks, Networks)
  /\ left \subseteq Domains \cup DOMAIN items \cup 1..Sites
  /\ lost \subseteq Domains
  /\ reply \in {"none", "items", "status", "garbled"}

\* No address, mail server, item or place in the list of sites is taken twice,
\* and the addresses of a scan come in ascending order.
NoneTwice ==
  /\ IsInjective(hosts)
  /\ pc = "done" /\ source = "scan" =>
       \A i, j \in DOMAIN hosts : i < j => hosts[i] < hosts[j]

\* A scan that still wants an address, and has not found all that its networks
\* have, can find one at its next attempt: the networks run dry together.
NeverStuck ==
  pc = "scan" /\ Len(hosts) < Len(netIdx) * Addresses =>
    \E ip \in randIP(NetworkOf(Len(hosts))) : ip \notin Range(hosts)

\* A source that takes its hosts from a list returns fewer than asked only when
\* it has no more: spambot when every server it learnt of is there, tor when
\* every site is, wisdom when every usable item is.  (A scan draws at random:
\* addresses drawn again may use up its attempts.)
ShortOnlyWhenExhausted ==
  pc = "done" /\ source # "scan" /\ Len(hosts) < size =>
    CASE source = "spambot" -> Range(hosts) = {mx[d] : d \in Domains \ lost} \ {0}
      [] source = "tor" -> Range(hosts) = 1..Sites
      [] OTHER -> Range(hosts) = {i \in DOMAIN items : Usable(i)}

\* Hosts, or Families, returns an error when three requests in a row got no
\* answer, or when the answer was bad; a failed request before a good answer
\* does no harm.
OnlyAnswersDecide ==
  pc \in {"done", "error"} /\ source \in WisdomTypes \cup {"families"} =>
    /\ pc = "done" <=> reply = "items"
    /\ reply = "none" => tried = Attempts
=============================================================================
