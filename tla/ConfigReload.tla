---------------------------- MODULE ConfigReload ----------------------------
(***************************************************************************)
(* The configuration file and the routes made from it                      *)
(* (internal/config/options.go, internal/config/config.go,                 *)
(* internal/router/router.go, cmd/session-proxy/main.go): the file as the  *)
(* user edits it, the watcher, a reload, and the router's rules.           *)
(*                                                                         *)
(* A file is a record: whether it parses, its upstreams with what it says  *)
(* of each, its routes, their default.  An upstream's settings are "given" *)
(* when the file states all of them and "omitted" when it leaves some to   *)
(* their defaults.  A route matches a set of destinations: a CIDR matches  *)
(* addresses, a pattern host names.                                        *)
(***************************************************************************)
EXTENDS Integers, Sequences, FiniteSets

CONSTANTS
    Files,       \* what the configuration file may hold
    StartFile,   \* what it held when the program started
    MaxWrites    \* bound: writes to the file

Blank == ""
DirectName == "DIRECT"

\* validate: names that resolve; settings left out are allowed.
NamesResolve(f) ==
    LET names == DOMAIN f.upstreams IN
    /\ names # {}
    /\ f.default \in names \cup {Blank, DirectName}
    /\ \A i \in DOMAIN f.routes : f.routes[i].upstream \in names \cup {DirectName}

\* parseRules: every CIDR is one.
RulesParse(f) == \A i \in DOMAIN f.routes : f.routes[i].parses

RulesOf(f) == [routes |-> f.routes, default |-> f.default]

ASSUME FileAssumption ==
    /\ \A f \in Files : DOMAIN f.routes \subseteq Nat
    /\ StartFile \in Files /\ StartFile.parses
    /\ NamesResolve(StartFile) /\ RulesParse(StartFile)
    /\ MaxWrites \in Nat

VARIABLES
    file,         \* the configuration file
    writes,       \* writes left
    options,      \* opt.Upstreams, the upstreams the program started with
    watch,        \* the watcher: off, on, ended
    events,       \* its events for the file that have not been received
    reload,       \* its goroutine: idle, reading the file, about to update
    loaded,       \* what it has read, until the update
    rules         \* the router's rules and defaultName

configVars == <<file, writes, options, watch, events, reload, loaded, rules>>

\* validate gives the settings left out their defaults; the map it is given is
\* that of the Options it is called for, which therefore change too.
Defaulted(upstreams) == [u \in DOMAIN upstreams |-> "given"]

ConfigInit ==
    /\ file = StartFile /\ writes = MaxWrites
    /\ options = Defaulted(StartFile.upstreams)
    /\ watch = "off" /\ events = 0 /\ reload = "idle" /\ loaded = StartFile
    /\ rules = RulesOf(StartFile)

-----------------------------------------------------------------------------
\* Saved by an editor, perhaps in several writes.
WriteFile == \E f \in Files \ {file} :
    /\ writes > 0 /\ writes' = writes - 1 /\ file' = f
    /\ events' = IF watch = "on" THEN events + 1 ELSE events
    /\ UNCHANGED <<options, watch, reload, loaded, rules>>

(***************************************************************************)
(* Watch                                                                   *)
(***************************************************************************)
AddWatch ==
    /\ watch = "off" /\ watch' = "on"
    /\ UNCHANGED <<file, writes, options, events, reload, loaded, rules>>

TakeEvent ==
    /\ watch = "on" /\ reload = "idle" /\ events > 0
    /\ events' = events - 1 /\ reload' = "read"
    /\ UNCHANGED <<file, writes, options, watch, loaded, rules>>

EndWatch ==
    /\ watch = "on" /\ reload = "idle" /\ watch' = "ended"
    /\ UNCHANGED <<file, writes, options, events, reload, loaded, rules>>

(***************************************************************************)
(* reload and onConfigReload                                               *)
(***************************************************************************)
\* Mutant: only the number of upstreams is compared.
SameNumber(f) == Cardinality(DOMAIN f.upstreams) = Cardinality(DOMAIN options)

\* validateUpstreamsUnchanged
UpstreamsUnchanged(f) == f.upstreams = options

Reload ==
    /\ reload = "read"
    /\ \/ /\ file.parses /\ UpstreamsUnchanged(file) /\ NamesResolve(file)
          /\ reload' = "update" /\ loaded' = file
       \/ /\ ~(file.parses /\ UpstreamsUnchanged(file) /\ NamesResolve(file))
          /\ reload' = "idle" /\ UNCHANGED loaded
    /\ UNCHANGED <<file, writes, options, watch, events, rules>>

\* Mutant: the file's last version is forgotten by the time of the update.
UpdateOnce ==
    /\ reload = "update" /\ reload' = "idle" /\ loaded' = StartFile /\ events' = 0
    /\ rules' = IF RulesParse(loaded) THEN RulesOf(loaded) ELSE rules
    /\ UNCHANGED <<file, writes, options, watch>>

\* Router.Update
Update ==
    /\ reload = "update" /\ reload' = "idle" /\ loaded' = StartFile
    /\ rules' = IF RulesParse(loaded) THEN RulesOf(loaded) ELSE rules
    /\ UNCHANGED <<file, writes, options, watch, events>>

ConfigStep == AddWatch \/ TakeEvent \/ Reload \/ Update

(***************************************************************************)
(* Router.Match: the first route that matches, or the default.             *)
(***************************************************************************)
Matching(dest) == {i \in DOMAIN rules.routes : dest \in rules.routes[i].match}

Match(dest) ==
    IF Matching(dest) = {} THEN rules.default
    ELSE rules.routes[CHOOSE i \in Matching(dest) : \A j \in Matching(dest) : i <= j].upstream
=============================================================================
