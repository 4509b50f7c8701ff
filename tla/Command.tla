------------------------------ MODULE Command ------------------------------
(***************************************************************************)
(* The command line: main.go hands it to get or run; run picks the address  *)
(* that it gives to Init, and turns its arguments into the list of          *)
(* simulations that the loop in Runner goes through.                        *)
(*                                                                         *)
(* An argument is the sequence of its parts between colons, and a part the  *)
(* sequence of its words between hyphens: "ssh-transfer:1GB" is             *)
(* <<<<"ssh", "transfer">>, <<"1GB">>>>.  No name is one of Runner's, so    *)
(* that both parts of run.go can be spoken of together.                     *)
(***************************************************************************)
EXTENDS Integers, SequencesExt

CONSTANTS
  Arguments,   \* that may be given
  MaxArgs,     \* bound: how many are given to run
  Literals,    \* values of -iface that are IP addresses
  Interfaces,  \* the addresses of each interface, as a sequence
  External,    \* addresses that are not loopback or link-local
  SizeFlags    \* values of -size

ASSUME CommandAssumption ==
  /\ \A a \in Arguments : Len(a) > 0 /\ \A i \in DOMAIN a : Len(a[i]) > 0
  /\ MaxArgs \in Nat
  /\ \A i \in DOMAIN Interfaces : Interfaces[i] \in Seq(Range(Interfaces[i]))
  /\ "" \notin Literals \cup DOMAIN Interfaces
  /\ SizeFlags \subseteq Int

Entry(name) == [name |-> name, experimental |-> FALSE]

allModules ==
  << Entry(<<"c2">>), Entry(<<"c2">>), Entry(<<"dga">>), Entry(<<"scan">>),
     Entry(<<"sink">>), Entry(<<"sink">>), Entry(<<"spambot">>), Entry(<<"tunnel", "dns">>),
     Entry(<<"miner">>), [name |-> <<"tor">>, experimental |-> TRUE], Entry(<<"tunnel", "icmp">>),
     Entry(<<"imposter">>), Entry(<<"oast">>), Entry(<<"ssh", "transfer">>), Entry(<<"ssh", "exfil">>),
     Entry(<<"irc">>), Entry(<<"irc">>), Entry(<<"telegram", "bot">>), Entry(<<"cleartext">>) >>

IsDefault(m) == ~m.experimental

\* Mutant: a name is listed as often as the table has it.
MutModuleNames ==
  LET m == SelectSeq(allModules, IsDefault) IN [i \in DOMAIN m |-> <<m[i].name>>]

\* Some places of the table, from the first to the last.
InOrder(S) == [n \in 1..Cardinality(S) |-> CHOOSE i \in S : Cardinality({j \in S : j < i}) = n - 1]

\* The default modules whose name has not come before.
Unseen ==
  {i \in DOMAIN allModules :
     /\ IsDefault(allModules[i])
     /\ \A j \in 1..(i - 1) : IsDefault(allModules[j]) => allModules[j].name # allModules[i].name}

\* Each name once; the code also sorts them.
allModuleNames == [n \in DOMAIN InOrder(Unseen) |-> <<allModules[InOrder(Unseen)[n]].name>>]

VARIABLES
  line,    \* the command line
  place,   \* "main", "run", "bind", "select", "running", "get", "fetch" or "exited"
  size,    \* that run is asked for
  bind,    \* the address given to Init
  todo,    \* arguments that selectSimulations has not looked at
  chosen,  \* the simulations it has selected: places in allModules, and scopes
  code     \* the exit status

commandVars == <<line, place, size, bind, todo, chosen, code>>

\* How the parsing of the flags ends: -h is asked for, or a flag is unknown.
FlagErrors == {"help", "bad"}

Lines ==
  [verb : {"none", "version", "other"}, flags : {"ok"} \cup FlagErrors]
    \cup [verb : {"get"}, flags : {"ok"} \cup FlagErrors, args : BoundedSeq(Arguments, 1)]
    \cup [verb : {"run"}, flags : FlagErrors]
    \cup [verb : {"run"}, flags : {"ok"}, args : BoundedSeq(Arguments, MaxArgs), size : SizeFlags,
          iface : {"", "nonesuch"} \cup Literals \cup DOMAIN Interfaces]

CommandInit ==
  /\ line \in Lines
  /\ place = "main"
  /\ size = 0
  /\ bind = [addr |-> "none", userSet |-> FALSE]
  /\ todo = <<>>
  /\ chosen = <<>>
  /\ code = -1

Exit(c) ==
  /\ place' = "exited"
  /\ code' = c
  /\ UNCHANGED <<line, size, bind, todo, chosen>>

FlagsExit == Exit(IF line.flags = "help" THEN 0 ELSE 2)

Goto(p) == place' = p /\ UNCHANGED <<line, size, bind, todo, chosen, code>>

\* The flags of get and run are parsed by their own RunCmd.
main ==
  /\ place = "main"
  /\ CASE line.verb \in {"get", "run"} -> Goto(line.verb)
       [] line.flags \in FlagErrors -> FlagsExit
       [] line.verb = "version" -> Exit(0)
       [] OTHER -> Exit(1)

-----------------------------------------------------------------------------
(* get *)

elem(arg) == arg[1]

supportedElements == {<<"families">>}

GetCmd ==
  /\ place = "get"
  /\ CASE line.flags \in FlagErrors -> FlagsExit
       [] line.args \in {<<>>, <<<<<<"">>>>>>} -> Exit(1)
       [] OTHER -> LET arg == line.args[1] IN
            IF Len(arg) = 2 /\ elem(arg) \in supportedElements THEN Goto("fetch") ELSE Exit(1)

\* Families: the API answers with a list, or does not.
Fetch == place = "fetch" /\ \E c \in {0, 1} : Exit(c)
-----------------------------------------------------------------------------
(* run *)

RunCmd ==
  /\ place = "run"
  /\ IF line.flags \in FlagErrors
       THEN FlagsExit
       ELSE /\ todo' = IF line.args = <<>> THEN allModuleNames ELSE line.args
            /\ size' = IF line.size < 0 THEN 0 ELSE line.size
            /\ place' = "bind"
            /\ UNCHANGED <<line, bind, chosen, code>>

IsExternalIP(ip) == ip \in External

\* Mutant: the first address of any kind.
MutUsable(ips) == ips[1]

\* The first external address, else the first of all.
Usable(ips) ==
  LET ext == {i \in DOMAIN ips : IsExternalIP(ips[i])} IN ips[IF ext # {} THEN Min(ext) ELSE 1]

\* An address for itself, or for the name of an interface; without either,
\* the one that a connection to the API leaves from.
UsableIP ==
  CASE line.iface = "" -> External
    [] line.iface \in Literals -> {line.iface}
    [] line.iface \in DOMAIN Interfaces \ Literals ->
         IF Interfaces[line.iface] = <<>> THEN {} ELSE {Usable(Interfaces[line.iface])}
    [] OTHER -> {}

BindOk ==
  /\ place = "bind"
  /\ \E ip \in UsableIP : bind' = [addr |-> ip, userSet |-> line.iface # ""]
  /\ place' = "select"
  /\ UNCHANGED <<line, size, todo, chosen, code>>

\* There is no such interface, it has no address or cannot be asked, or the
\* API cannot be reached.
BindFails == place = "bind" /\ line.iface \notin Literals /\ Exit(1)

\* Mutant: the scope of an argument stays for those without one.
MutScope(arg) ==
  IF Len(arg) > 1 \/ chosen = <<>> THEN Tail(arg) ELSE chosen[Len(chosen)].scope

\* What follows the first colon.
Scope(arg) == Tail(arg)

\* The name itself, or a name that goes on with a hyphen.
Matches(arg, m) == IsPrefix(arg[1], m.name)

Matching(arg) ==
  LET places == InOrder({i \in DOMAIN allModules : Matches(arg, allModules[i])})
  IN  [n \in DOMAIN places |-> [module |-> places[n], scope |-> Scope(arg)]]

\* selectSimulations, one argument at a time.
Select ==
  /\ place = "select"
  /\ IF todo = <<>>
       THEN Goto("running")
       ELSE LET found == Matching(Head(todo)) IN
              IF found = <<>>
                THEN Exit(1)
                ELSE /\ chosen' = chosen \o found
                     /\ todo' = Tail(todo)
                     /\ UNCHANGED <<line, place, size, bind, code>>

\* run has no error of its own; a panic outside of its reach ends the process.
Run == place = "running" /\ \E c \in {0, 2} : Exit(c)

Exited == place = "exited" /\ UNCHANGED commandVars

CommandNext ==
  \/ main \/ GetCmd \/ Fetch \/ RunCmd \/ BindOk \/ BindFails \/ Select \/ Run
  \/ Exited

CommandSpec == CommandInit /\ [][CommandNext]_commandVars
-----------------------------------------------------------------------------
\* The command that prompts no question: every default module of the table,
\* domains and addresses alike, is run exactly once, without a scope, and no
\* experimental one.
DefaultRunsAllOnce ==
  place = "running" /\ line.args = <<>> =>
    /\ {chosen[k].module : k \in DOMAIN chosen} = {i \in DOMAIN allModules : ~allModules[i].experimental}
    /\ IsInjective(chosen)
    /\ \A k \in DOMAIN chosen : chosen[k].scope = <<>>

\* Each argument runs the modules it names, once, under its own scope and no
\* other's; nothing is run unless every argument names a module.  The loop in
\* Runner gets a list that is not empty and a size that is not negative.
RunsWhatWasNamed ==
  place = "running" =>
    /\ chosen # <<>> /\ size >= 0
    /\ \A a \in Range(line.args) : \E m \in Range(allModules) : Matches(a, m)
    /\ line.args # <<>> => \A i \in DOMAIN allModules, s \in {Tail(a) : a \in Arguments} :
         Cardinality({k \in DOMAIN chosen : chosen[k] = [module |-> i, scope |-> s]})
           = Cardinality({n \in DOMAIN line.args :
                            Matches(line.args[n], allModules[i]) /\ Tail(line.args[n]) = s})

\* The address that UsableIP picks, and that run gives to Init, is one of the
\* interface asked for, an internal one only if it has no other; an address
\* asked for is taken as it is.  (What a module does with it is its own
\* matter: tor and telegram-bot ignore it.)
BindIsBest ==
  place = "running" /\ bind.userSet =>
    IF line.iface \in Literals
      THEN bind.addr = line.iface
      ELSE LET ips == Range(Interfaces[line.iface]) IN
             bind.addr \in (IF ips \cap External # {} THEN External ELSE ips) \cap ips
=============================================================================
