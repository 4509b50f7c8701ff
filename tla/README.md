# Verification of flightsim

TLA+ models of flightsim (`src/v2`), the runs that check them with TLC and the theorems about them
that TLAPS proves. `PROJECT.json` lists components, runs, findings, hazards and theorems in a form
for tools, and maps every definition to the lines it models.

flightsim generates suspicious-looking network traffic: `flightsim run` goes through a list of
*simulations*, and each of them sends something to a list of hosts. The process is short and keeps
nothing on disk, so the difficulties are inside one execution: goroutines that report on a channel,
deadlines, servers that answer anything or nothing, panics, arithmetic on unsigned words, loops that
must stop on time and must not flood.

## Inventory

| Component | State it keeps | Operations | What makes it hard | What makes it correct |
| --- | --- | --- | --- | --- |
| `cmd/run/run.go` (run loop) | current simulation and host, success count, context | probe, Init, Hosts, sample, Simulate, wait, cancel, Cleanup | any step fails; Simulate may panic or hang; one object serves every selection of its module | handles open only during their simulation; true counts; pace between hosts; a failure does not stop the rest |
| `simulator/ssh-transfer.go`, `ssh-exfil.go` | send size, results, error list, byte total | Hosts, Simulate, simulate, newClient | concurrent clients, any order of results, deadline | the answer is an error just when some client failed; success means every byte is at the server; every client ends and closes its connection |
| `simulator/ssh/client.go` | connection, session, byte and chunk counters | NewClient, SendInit/Open/Write/Close, ReadResp, WriteRandom, Teardown | eight places to fail, each with its own clean-up; unsigned subtraction | no gaps in the file, no leaked connection, a true count |
| `simulator/ssh/packet.go`, `ssh/fxp`, `utils/marshal.go` | parser's buffer and sticky error | Marshal, MakeRawPacket, ReadPacket, FieldParser | damaged, short or misframed packets | no truncated field is accepted; the stream stays in step |
| `utils/conn.go` | growing minimum, slice of sizes | ComputeSenderSizes | overflow, remainders | exact split, first one that fits, no wrap |
| `tunnel-dns.go`, `oast.go`, `scan.go` (Simulate), `simulator.go` (soft errors) | deadline, timers, contexts of probes | loops of lookups and connects | races of the deadline with pauses and answers | back in time, no spinning, no flood, every port gets its time |
| `scan.go`, `spambot.go`, `tor.go`, `wisdom.go` (Hosts, Families) | hosts found, what was seen, attempts | random draws, MX lookups, three requests to the API | repetition, failures, retries | no place taken twice; a list of servers, sites or items not cut short; a scan can go on while its networks have addresses; errors only for bad or missing answers |
| `tunnel-icmp.go`, `tor.go` | socket, tor process | Init, Simulate, Cleanup | privileges, slow lookups | handle closed; in time |
| `miner.go`, `irc.go`, `cleartext-protocol.go`, `telegram-bot.go`, `dga.go`, connect and resolve | connection and its deadlines, during a call | one exchange each | hosts that fall silent, clean-up on every path, libraries with timeouts of their own, a server that makes girc reconnect over TLS | back in time, soft errors told from hard ones, success only when earned, connections closed |
| `main.go`, `cmd/get`, the command line of `cmd/run`, `utils/net.go` | list of simulations, bind address | parse, select, look at interfaces, exit | names that occur twice, families of names, scopes, experimental modules | a default run takes every module once; scopes stay with their argument; one bad name stops all; the address given to Init is the one asked for |
| `utils/rand.go`, `ssh/auth.go`, `ssh/scope.go` | none | random letters, an embedded key, the units of a size | nothing concurrent | - |

Interaction: `main` calls `get` or `run`; `RunCmd` picks an address and the simulations; `run` calls a module's Init, Hosts, Simulate and Cleanup in that
order, in one goroutine, with a fresh context for each Simulate. The ssh simulations start client
goroutines of their own, which share only the channel of results. girc, which
irc uses, has four loops that end one by one. No other component starts goroutines whose outcome matters. `hijack.go` is not in the table of modules.

## Modules

Each `MCx.tla` extends `x.tla` and defines the values that its `.cfg` cannot write directly.

**SenderSizes, SenderSizesLoop** (`utils/conn.go`). `SenderSizes` is the function that
`ComputeSenderSizes` computes, on integers: `computeSenders` splits, `FirstFit` is the first multiple of
the minimum whose split is short enough. `SenderSizesLoop` is the loop itself on words
(`% WordSize`): one `Widen` is one iteration, and a divisor that wraps to zero is a panic.

**SSHTransfer** (`ssh-transfer.go`, `ssh/client.go`). The caller's place is `main`, each client's is
`pc[c]`, from `dial` through `handshake`, `session`, the four requests, `report` and `teardown`;
`refused` is the path on which newClient returned an error. A request is sent (`Send`) and then
`awaiting` its answer, so the deadline, a lost connection or another client's steps may come between.
`sent` and `chunk` are `totalDataBytesSent` and `i` of WriteRandom; `stored` is the ghost of the
server's files. What the server may answer is one of the seven `AllAnswers` of **SFTPAnswers**.
`Crash` is the panic at `client.go:120`. After Simulate returned, `Exit` may end the process while a
client is between its report and its teardown, as in the code.

**ScatterGather** is the promise of `Simulate` without the protocol: launch workers, each reports
once, answer after all of them, an error just when one of them failed, and do answer.
`SSHTransfer!SG` is its instance, with `phase` and `outcome` computed from the places of the caller
and the clients. Between report and teardown a client already has its outcome.

**SFTPPackets** (`packet.go`, `fxp.go`, `marshal.go`, `ReadResp`). Bytes, with integers of two and three
bytes instead of four and eight. The server's answers are marshalled with the same layout, may be
damaged once per session (cut, extended, one byte changed, wrong announced length), are cut out of the
stream by `ReadLength` and `ReadBody` and judged by `ReadResp`. `AnswersAreSeven` ties it to
`SFTPAnswers`: whatever the bytes, the client does what SSHTransfer assumes. So the two modules
compose: one shows that seven answers are all there is, the other what comes of them.

**Runner** (`run.go`). One action for each step of the loop. Modules are told apart by what run can see:
number of hosts, `Fast`, whether Init opens something (`Holders`: tunnel-icmp and tor), whether Hosts
may fail, whether Simulate heeds its context (telegram-bot does not). A Simulate returns nil or an
error, or panics; the last two count nothing. `ctx` remembers the last context: cancelled early
(`cut`), or after it expired (`elapsed`).

**Probes** (`tunnel-dns.go`, `oast.go`, `scan.go`). A clock in ticks of 100 ms. Steps of the program take no
time; the clock moves while a probe is out, or the loop waits. Context of a probe: `Until`, never
later than the parent's deadline. In oast both branches of the select may be ready: either is taken.

**HostSources** (`scan.go`, `spambot.go`, `tor.go`, `wisdom.go`). The `Hosts` functions that loop, draw and
retry, and `Families`. `rand.Perm` is a choice among what is left; a lookup may fail; the API may not
answer, answer badly, or return any items. The sites of tor are places in its list, whose last entry
repeats the first: two places may be one site, and `NoneTwice` is about places. A scan draws at random, so it
may come out short with addresses left: `NeverStuck` says only that its next draw can find one, and
`ShortOnlyWhenExhausted` is about the sources that take hosts from a list. `Sorted` puts each address at the place of its rank,
which is what `sort.Slice` does to different addresses.

**SoftErrors** (`simulator.go:121-147`). The errors of lookups and connects and what `isSoftError` says of
them; Probes and Exchanges share it.

**Exchanges** (`miner.go`, `cleartext-protocol.go`, `irc.go`, `telegram-bot.go`, `tor.go`, `tunnel-icmp.go`, and
the connect and the lookup of `simulator.go`, which c2, dga, sink, spambot and imposter embed). `kind` is
the simulator and `pc` what it waits for. The host and the network may answer or fail at every wait, or
say nothing: then the clock, in seconds, runs until `Patience` says that the wait is over. `Patience` is
the context's deadline, the deadline of the socket (`Armed`, set by Simulate or by `IRCDialer`), the
resolver's limit for a lookup without context (tunnel-icmp), the first ping of girc, or nothing at all
(telegram-bot). Writes and closes take no time. `saw` remembers the failure that ended the exchange.

girc is modelled from its vendored source as far as irc uses it. Its read loop replaces the read deadline by
five minutes, so a session ends by an error, by a late write (girc's first ping, 40 s in, or an answer that
the server asks for), or when the handler of CONNECTED closes the client (`Leave`). It is then in `flush`: the loop
that runs handlers still goes through the lines it holds (up to 25), and each that it answers may wait for the rate
limit (`asked`, `Backlog`). `flightsim` does not set `DisableSTS`, so a server that acknowledges a strict transport
policy (`Upgrade`) makes girc dial again, on the port it names and with TLS (`secure`). The handshake is done by
the first write and read, which wait for the server under the read deadline alone: pings are only queued,
so at 80 s the loop that pings gives up (`NoPong`), but its error is returned when the others have
ended, at 300 s (`stuck`). That error (`ErrTimedOut`, here `noping`) and a second dial that fails
(`ErrSTSUpgradeFailed`, here `late` or `upgrade`) are not network errors, so isSoftError does not let them pass.

**Command** (`main.go`, `get.go`, the first half of `run.go`, `utils/net.go`). A command line is a record; a
name is the sequence of its words between hyphens, an argument the sequence of its parts between
colons, so that prefixes and scopes are those of the code. Its names are none of Runner's, so that
`RunnerProofs` can extend both. `Select` is one round of the loop in
`selectSimulations`. The sequence `chosen` that it leaves is what Runner takes any value of, and the two
outcomes of `Fetch` are the ends of `families` in HostSources. `UsableIP` without an interface asks the
system by connecting to the API and returns the local address.

## Runs

| Run | Instance | States | Shows |
| --- | --- | --- | --- |
| `transfer` | 2 clients (as in the code), shares and chunks of 2 bytes, sizes 0, 1, 4, 7, words of 16 | 37,157 | `TypeOK`, `FilesComplete`, `SuccessIsComplete`, `Gapless`, `ResultNeverBlocks`, `VerdictIsTrue`, `NoConnectionLeft`, `ClientsEnd`, `ImplementsScatterGather` |
| `packets` | strings of 0 to 2 bytes, 5 noise bytes, sessions of any number of requests | 272,782 | `TypeOK`, `AnswersAreSeven`, `AnswersAreUnderstood`, `InStep`, `RequestsAreUnderstood` |
| `runner` | 4 kinds of modules, up to 3 selections, 3 hosts, every flag | 176,927 | `HandlesAreCurrent`, `SuccessesAreHosts`, `Paced`, `Finishes` |
| `probes` | 5 deadlines, 4 ports, 17 ticks | 4,808 | `EndsInTime`, `TimelyProbes`, `Spaced`, `Returns` |
| `exchanges` | 8 kinds, deadlines of 1, 5 and 20 seconds, 3 pings, clock up to 351 | 1,111,157 | `TypeOK`, `NoneLeftOpen`, `EndsSoon`, `SilenceIsNoFailure`, `SuccessIsEarned`, `Returns` |
| `hosts` | 3 networks of 2 addresses, 4 domains on 2 servers, 4 sites, up to 4 items of 4 kinds | 278,747 | `TypeOK`, `NoneTwice`, `NeverStuck`, `ShortOnlyWhenExhausted`, `OnlyAnswersDecide` |
| `command` | the whole table of modules, 21 arguments, up to 2 of them, 7 interfaces and addresses, 3 sizes | 72,650 | `DefaultRunsAllOnce`, `RunsWhatWasNamed`, `BindIsBest` |
| `split` | words of 6 bits, all 64 sizes, 8 minima, 2 or 3 senders | 5,262 | `SplitIsExact`, `ResultIsFirstFit`, `NeverWraps`, `Terminates` |
| `panic` | as `transfer` | | `PanicIsRecovered` is violated |
| `miscount` | as `transfer` | | `TransferredWithinSize` is violated |
| `dry` | as `runner` | | `DryIsOffline` is violated |
| `irc` | as `exchanges` | | `IrcInTime` is violated |

The type invariants of Runner, Probes and SenderSizesLoop are proved for every instance (see Proofs) and
not repeated by the runs; Command's variables are records of the command line and have none.

Every property is stated with a comment at the end of its module. For every property of a passing run
there is a mutant, an operator `Mut...` before the definition it changes, that makes TLC find it violated.

### Bounds

- `transfer`: two clients are all that `maxClients` allows. Size 1 takes one client with a partial
  chunk, 4 takes two with one full chunk each, 7 takes shares of 4 and 3: several chunks, and a partial
  last one. The word is small enough to see the counter wrap and larger than any size.
- `packets`: two bytes show the order of bytes in an integer. The noise bytes are the codes of the
  other packet types, a version and a small length, and one that makes a length exceed the packet.
- `runner`: three selections hold a module repeated with another between, before and after; three
  hosts and two sizes make the sample both cut and leave alone.
- `probes`: the deadlines are multiples of the lookup timeout or not, and of the number of ports or
  not; in one the share of a port is less than a tick. `MaxTime` lies past every deadline, so the clock
  stops there only in a mutant.
- `hosts`: seven hosts are more than the networks have, so a scan exhausts its addresses and its
  attempts; two servers for four domains make duplicates.
- `exchanges`: a deadline shorter than a lookup, one longer, and all shorter than girc's first ping;
  girc's own times are those of the code (40, 80 and 300 s), but for `Backlog`: 30 s stand for what 25 lines
  and a rate limit of some seconds per answer can add up to. `MaxTime` lies past the last deadline and the longest overrun (`ExchangesAssumption`), so the clock
  stops there only for telegram-bot, or in a mutant. Three pings stand for eighty: the first, a middle
  one and the last.
- `command`: two arguments show scopes and repetitions side by side; the names are those of one entry,
  of two entries, of a family, of the experimental module, of nothing, and empty.
- `split`: the widths of words do not matter beyond the corner where the minimum is half a word,
  which is included; the proof covers the rest.

### Fairness

- `transfer`: weak fairness of the caller, of the deadline's timer, of each client's own steps, and of
  the failing of reads and writes once the deadline is past. Go schedules every goroutine that can run,
  and `SetDeadline` was called on the connection. No fairness for anything the server or the network
  does (`Peer`), the end of the handshake and of the opening of a session included: the server may fall
  silent at any point, and `ClientsEnd` holds for it.
- `runner`: weak fairness of the loop, of the timers, and of Simulate for the modules that heed their
  context; `Finishes` allows the loop to hang in one that does not.
- `probes`: time passes, lookups and connects end by their contexts' deadlines (`Tick` cannot pass
  `until`), and the loop runs. `split`: the loop runs. `packets`, `hosts` and `command` claim no liveness.
- `exchanges`: time passes, a wait that is over is noticed, and the program's own steps are taken, those of
  girc's loops and of its handler of CONNECTED included; nothing makes a host answer, or complete a handshake. `Returns` leaves out telegram-bot, whose requests have no timeout.

`split` may stop (`CHECK_DEADLOCK FALSE`): the function has returned. The other modules have a
`Terminated` disjunct, so that TLC reports every other state without a step.

## Findings

1. `panic`: an SFTP packet of length zero makes `ReadResp` index an empty slice (`client.go:120`) in a
   client goroutine; the recover announced at `run.go:451` is in another goroutine, so the process ends.
2. `miscount`: a write that fails before the header of its packet is out wraps the byte counter
   (`client.go:271`), and the error text reports it as "successfully transferred" (`ssh-transfer.go:157`).
   The total never reaches the verdict, so `VerdictIsTrue` holds all the same.
3. `dry`: `-dry` promises no network activity (`run.go:60`) and only leaves out Simulate.
4. `irc`: `IRCDialer` is there "to use the given context in simulation" (`irc.go:15-16, 20`) and sets the
   context's deadline on the connection, but girc's read loop gives the socket five minutes for each
   line. A server that accepts and keeps silent holds Simulate for 40 seconds instead of 5; one that has
   girc reconnect over TLS and then keeps silent, for five minutes (`EndsSoon` states the limit).

More that the models show and nothing in the repository contradicts: the miner leaves its
connection open when its write fails (the exception in `NoneLeftOpen`), and reports a failure when the
pool accepts just as time runs out (the first exception in `SilenceIsNoFailure`). irc reports a failure when a
server made girc talk TLS and then says nothing (the second one).

## Proofs

Eight modules hold theorems; all of them are checked to the last leaf.

- `Facts`: what several proofs share. What the split of SenderSizes gives: positive parts that add up
  (`PartsOfSplit`, `SplitAddsUp`, `SizesAddUp`), some multiple of the minimum that fits for any positive
  number of senders (`FirstFitExists`), and so at most `maxSenders` parts (`SplitFits`). Sums: the fold that
  the community modules define a sum with is a recursion over the subsets of a finite set; such a
  recursion has a solution (`RecursionExists`, from a smallest counterexample, since the induction
  theorems cannot be instantiated), which gives the laws of sums (`SumLaws`, `SumWith`, `SumMonotone`).
  And that the ranks of n different numbers are all of 0 .. n - 1 (`Ranks`).
- `SenderSizesLoopProofs`: `TypeOK`, `NeverWraps`, `ResultIsFirstFit` and `SplitIsExact`, for every word
  size, every size and every minimum up to half a word, with at least two senders (`LoopAssumption`;
  the only caller passes 2 and one megabyte). The invariant says that the current minimum is the k-th
  multiple of the first and no smaller one fitted (`Tried`): while the split is too long, the size is
  at least twice the minimum, which leaves room for one more addition.
- `SSHTransferProofs`: `TypeOK`, `NoConnectionLeft`, `Gapless`, `ResultNeverBlocks`, `VerdictIsTrue` and
  `FilesComplete`, for any number of clients, chunk size, overhead, word size, sizes and answers
  (`TransferAssumption`). None of these is inductive. `CallerInv` says which clients were started and
  when the caller knows of errors, `LinkInv` what a client's place says of its link, `DataInv` that
  while writing `sent` is `chunk` full chunks and is what the file holds, and `ReportInv` that the
  clients which reported are as many as the results collected plus those in the channel, and that
  no error is lost between them: this is what makes room in the channel and a true verdict.
  `SuccessIsComplete` is about sums: `CountInv` says that as long as there is no error the total is the
  sum of the counters of the clients whose results were collected, and that the results in the channel
  are of different clients, each with its counter. The last section shows the refinement, `Safety => SG!Safe`: every step of the protocol is a step of ScatterGather or a
  stutter. The run `transfer` checks `SG!Spec`, which adds that the call comes back.
- `SFTPPacketsProofs`: all five invariants of SFTPPackets, for integers of any width, any strings and
  offsets that fit them and any damage (`PacketsAssumption`: the widths, and that a whole request fits the
  integer that announces its length, as 32 bits do in the code). Writing and reading an integer are
  inverse (`UintRoundTrip`); whatever the bytes, the parser ends where the lengths in them say or in an
  error that stays (`SevenAnswers`), so no truncated field is accepted; every packet is read back as it
  was written (`PacketRoundTrip`) and its announced length is its own (the `Framed...` lemmas). The
  invariant of the session (`FramingInv`) says that the pipe is empty between packets and holds what is
  left of one within it.
- `RunnerProofs`: `TypeOK`, `HandlesAreCurrent`, `SuccessesAreHosts` and `Paced` for any modules,
  selections and numbers of hosts, from `RunnerAssumption`. Its part that a holder's Hosts never fails is true of
  the code today and is needed: the `continue` at `run.go:439` skips Cleanup. `PaceInv` says
  that a context cancelled early belongs to a fast simulation or to the last host of the last one.
  Its second part is about the list that the loop is given: `DefaultRunsAllOnce`, `RunsWhatWasNamed` and
  `BindIsBest` of Command, for any arguments, interfaces, addresses and sizes
  (`CommandAssumption`). `SelectInv` says that the simulations chosen so far are those of the first n
  arguments, each as often as one of them names it (`Looked`). `BindIsBest` is about
  what UsableIP picks and run hands to Init; tor (`tor.go:38`) and telegram-bot (`telegram-bot.go:60, 112`)
  ignore it. Two facts about the table are used: no name of a default module is the beginning of another
  (`NoPrefix`), and each name has one first place (`OneUnseen`).
- `ProbesProofs`: `TypeOK`, `EndsInTime`, `TimelyProbes` and `Spaced`, for any deadlines and ports. A loop
  knows only the end of its last probe; `ScanInStep` says that scan is always at a multiple of a port's
  share of the time (so the last port still has some), `TunnelInStep` and `OastInStep` where the clock
  is at the top of the other loops.
- `ExchangesProofs`: `TypeOK`, `NoneLeftOpen`, `EndsSoon`, `SilenceIsNoFailure` and `SuccessIsEarned`, for any
  deadlines, pings and patience of the libraries (`ExchangesAssumption`). `Waits` says which simulators
  can be in a wait and how late, `Deadlined` which deadlines the socket has by then, `Undecided` that
  nothing is decided before Simulate returns or girc cleans up. No session of irc, over TLS or not, begins
  after the context has ended, since its first write fails: so five minutes are counted at most once.
  `ReturnKeepsIInv` says once what a return must satisfy, `EndedKeepsIInv` and `LeaveKeepsIInv` what the end of a wait
  and of a session satisfy, and every action that ends an exchange is shown to do so.
- `HostSourcesProofs`: all five invariants of HostSources, for any sizes, networks, servers, sites and
  items. `NeverStuck` is a counting argument: `Drawn` says that host k came from the network whose turn
  it was, so the hosts of one network are numbered r + 1, n + r + 1, ... (`TurnNumber`), fewer than its
  addresses (`NoneRunsDry`, by the pigeonhole principle). That sorting loses nothing is shown without
  induction, by their ranks (`Ranks`).

Only model-checked: what needs fairness, that is `ClientsEnd`, `Finishes`, both `Returns`, `Terminates` and the
liveness of ScatterGather. Every safety property that a passing run checks is proved.

## What is not modelled

Contents of data, names and messages, printing, the SSH protocol below a session, and memory: a
hostile length is read but not allocated (`packet.go:66`), and a huge size is split in one piece
(`conn.go:9`). `RandString`, `FQDN`, the units of a size (`ssh/scope.go`) and the embedded key are pure data.
`hijack.go` is in no table of modules and cannot be reached. An ssh simulation is modelled by itself; in
Runner it is a Simulate like others, so that goroutines left over from one simulation are not followed
into the next. Nothing promises that sessions are torn down before the process exits
(`ssh-transfer.go:110`), so no property says so, though the model has the order of the steps.

## Plan

Done: everything above. What is left, in order of worth:

1. The disjointness in `RunnerAssumption` from the table of modules in Command.
2. A composition of Runner with an abstract transfer: client goroutines that outlive their simulation.
3. The units of `ssh/scope.go` as a function checked against a reference definition.
