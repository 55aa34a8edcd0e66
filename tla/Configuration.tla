---------------------------- MODULE Configuration ----------------------------
(***************************************************************************)
(* Reading the configuration: parseConfigFile and parseSeverBlock of       *)
(* src/src/Webserv.cpp with the insert functions of                        *)
(* src/src/config/Config.cpp.  A file is a sequence of marks and lines; a  *)
(* line is a step.  Anything wrong ends the parse (main prints the reason  *)
(* and the process ends).                                                  *)
(***************************************************************************)
EXTENDS Integers, Sequences, FiniteSets

CONSTANTS
  Files,      \* the files, sequences of items, see ItemType
  Path,       \* paths of routes and targets of redirects
  Port,       \* numbers that may be written for a port
  MinPort, MaxPort  \* the ports that are admitted (1024 and 65535)

NoRedirect == ""

\* "SERVER" is the opening mark, "[" any other opening bracket, "other" a line without
\* "=" or ";", without a value or with an unknown key.  Of the other lines: what the
\* parse keeps, and whether the value is one the insert function admits.
ItemType ==
  [key : {"SERVER", "[", "]", "other"}]
  \cup [key : {"port"}, ports : Seq(Port)]
  \cup [key : {"host", "server_names", "allowed_methods", "max_body_size"}, valid : BOOLEAN]
  \cup [key : {"error_pages"}, codes : Seq(Nat)]
  \cup [key : {"route"}, valid : BOOLEAN, path : Path, redirects : Seq(Path)]

ASSUME ConfigurationAssumption ==
  /\ Files \subseteq Seq(ItemType)
  /\ NoRedirect \notin Path
  /\ Port \subseteq Nat /\ MinPort \in Nat /\ MaxPort \in Nat

VARIABLES
  file,        \* the file
  pos,         \* the next item
  pc,          \* "file" between blocks, "block" inside, "done"
  conf,        \* the Config of this block
  serverPool,  \* the Configs of the blocks before
  verdict      \* "none", "accepted" or the reason of the rejection

vars == <<file, pos, pc, conf, serverPool, verdict>>

EmptyConfig == [ports |-> <<>>, host |-> FALSE, pages |-> {}, routes |-> <<>>, redirLoopDetector |-> <<>>]

Reject(reason) == pc' = "done" /\ verdict' = reason
Put(map, key, value) == [k \in DOMAIN map \cup {key} |-> IF k = key THEN value ELSE map[k]]

(***************************************************************************)
(* The insert functions                                                    *)
(***************************************************************************)
\* Each gives the set of the Configs it may leave, which is empty when it throws.
NoConfig == {}

\* Variant: only the ports of earlier lines are compared.
PortsFitEarlier(ports, more) ==
  \A i \in DOMAIN more : more[i] \in MinPort..MaxPort /\ \A j \in DOMAIN ports : ports[j] # more[i]
\* Every number is in range and new, also among those of this line.
PortsFit(ports, more) ==
  LET all == ports \o more
  IN  \A i \in (Len(ports) + 1)..Len(all) :
        all[i] \in MinPort..MaxPort /\ \A j \in 1..(i - 1) : all[j] # all[i]

insertPort(c, line) ==
  IF PortsFit(c.ports, line.ports) THEN {[c EXCEPT !.ports = @ \o line.ports]} ELSE NoConfig

insertHost(c, line) == IF line.valid THEN {[c EXCEPT !.host = TRUE]} ELSE NoConfig
insertChecked(c, line) == IF line.valid THEN {c} ELSE NoConfig

ErrorCodes ==
  <<400, 401, 402, 403, 404, 405, 406, 407, 408, 409, 410, 411, 412, 413, 414, 415, 416, 417, 418, 421,
    422, 423, 424, 425, 426, 428, 429, 431, 451, 500, 501, 502, 503, 504, 505, 506, 507, 508, 510, 511>>
validErrorCode(code) == \E i \in 0..(39 - 1) : ErrorCodes[i + 1] = code
insertErrorPages(c, line) ==
  IF \A i \in DOMAIN line.codes : validErrorCode(line.codes[i])
  THEN {[c EXCEPT !.pages = @ \cup {line.codes[i] : i \in DOMAIN line.codes}]} ELSE NoConfig

\* The last redirect of a line counts.  A route that is defined again is replaced; the
\* detector keeps the redirect of the one before, unless there is a new one.
Redirect(line) == IF line.redirects = <<>> THEN NoRedirect ELSE line.redirects[Len(line.redirects)]
insertRoute(c, line) ==
  IF ~line.valid THEN NoConfig
  ELSE {[c EXCEPT !.routes = Put(@, line.path, Redirect(line)),
                  !.redirLoopDetector = IF line.redirects = <<>> THEN @
                                        ELSE Put(@, line.path, Redirect(line))]}

\* Variant: a target that redirects in its turn, wherever to.
HasAnyChain(redirections) ==
  \E source \in DOMAIN redirections : redirections[source] \in DOMAIN redirections
\* Two entries that name one another, or one that names itself.
HasDirectLoop(redirections) ==
  \E source \in DOMAIN redirections :
    /\ redirections[source] \in DOMAIN redirections
    /\ redirections[redirections[source]] = source

(***************************************************************************)
(* parseSeverBlock                                                         *)
(***************************************************************************)
Inserted(line) ==
  CASE line.key = "port" -> insertPort(conf, line)
    [] line.key = "host" -> insertHost(conf, line)
    [] line.key \in {"allowed_methods", "server_names", "max_body_size"} -> insertChecked(conf, line)
    [] line.key = "error_pages" -> insertErrorPages(conf, line)
    [] line.key = "route" -> insertRoute(conf, line)
    [] OTHER -> NoConfig

\* Variant: the loops are looked for before the line is inserted.
ParseLineLate ==
  /\ pc = "block" /\ file[pos].key # "]"
  /\ IF Inserted(file[pos]) = NoConfig THEN Reject(file[pos].key) /\ UNCHANGED conf
     ELSE /\ conf' \in Inserted(file[pos])
          /\ IF HasDirectLoop(conf.redirLoopDetector) THEN Reject("redirect loop")
             ELSE UNCHANGED <<pc, verdict>>
  /\ pos' = pos + 1
  /\ UNCHANGED <<file, serverPool>>
ParseLine ==
  /\ pc = "block" /\ file[pos].key # "]"
  /\ IF Inserted(file[pos]) = NoConfig THEN Reject(file[pos].key) /\ UNCHANGED conf
     ELSE /\ conf' \in Inserted(file[pos])
          /\ IF HasDirectLoop(conf'.redirLoopDetector) THEN Reject("redirect loop")
             ELSE UNCHANGED <<pc, verdict>>
  /\ pos' = pos + 1
  /\ UNCHANGED <<file, serverPool>>

EndBlock ==
  /\ pc = "block" /\ file[pos].key = "]"
  /\ CASE conf.ports = <<>> -> Reject("no ports") /\ UNCHANGED <<serverPool, conf>>
       [] conf.ports # <<>> /\ ~conf.host -> Reject("no host") /\ UNCHANGED <<serverPool, conf>>
       [] OTHER -> /\ pc' = "file" /\ serverPool' = Append(serverPool, conf)
                   /\ conf' = EmptyConfig /\ UNCHANGED verdict
  /\ UNCHANGED <<file, pos>>

(***************************************************************************)
(* parseConfigFile                                                         *)
(***************************************************************************)
\* The next block runs from its mark to the next "]" and holds no other bracket; the
\* text between blocks is skipped.
Marks(from, keys) == {i \in from..Len(file) : file[i].key \in keys}
First(from, keys) == CHOOSE i \in Marks(from, keys) : \A j \in Marks(from, keys) : i <= j

FindBlock ==
  /\ pc = "file"
  /\ IF Marks(pos, {"SERVER"}) = {} THEN Reject("accepted") /\ UNCHANGED pos
     ELSE LET start == First(pos, {"SERVER"}) IN
            CASE Marks(start, {"]"}) = {} -> Reject("no bracket") /\ UNCHANGED pos
              [] Marks(start, {"]"}) # {} /\ First(start + 1, {"[", "SERVER", "]"}) # First(start, {"]"}) ->
                   Reject("nested") /\ UNCHANGED pos
              [] OTHER -> pc' = "block" /\ pos' = start + 1 /\ UNCHANGED verdict
  /\ UNCHANGED <<file, conf, serverPool>>

Init ==
  /\ file \in Files
  /\ pos = 1 /\ pc = "file" /\ conf = EmptyConfig /\ serverPool = <<>> /\ verdict = "none"

Next == FindBlock \/ ParseLine \/ EndBlock
Spec == Init /\ [][Next]_vars

(***************************************************************************)
(* Properties                                                              *)
(***************************************************************************)
IsConfig(c) ==
  /\ c.ports \in Seq(Port) /\ c.host \in BOOLEAN /\ c.pages \subseteq Nat
  /\ DOMAIN c.routes \subseteq Path /\ \A p \in DOMAIN c.routes : c.routes[p] \in Path \cup {NoRedirect}
  /\ DOMAIN c.redirLoopDetector \subseteq Path
  /\ \A p \in DOMAIN c.redirLoopDetector : c.redirLoopDetector[p] \in Path

\* Every variable has its type.
TypeOK ==
  /\ pos \in Nat \ {0}
  /\ pc \in {"file", "block", "done"}
  /\ IsConfig(conf)
  /\ \A i \in DOMAIN serverPool : IsConfig(serverPool[i])

\* Two paths whose redirects send a client back and forth.
BackAndForth(routes) == \E p, q \in DOMAIN routes : routes[p] = q /\ routes[q] = p

\* No server is started whose routes send a client back and forth between two paths.
NoDirectLoop ==
  \A i \in DOMAIN serverPool : ~BackAndForth(serverPool[i].routes)

\* A server is started only with a host and with ports in range, no two the same; an
\* accepted file has one server for every mark in it, in whatever text it stands.
CanListen ==
  /\ \A i \in DOMAIN serverPool :
       LET ports == serverPool[i].ports IN
         /\ serverPool[i].host /\ ports # <<>>
         /\ \A j, k \in DOMAIN ports : ports[j] \in MinPort..MaxPort /\ (ports[j] = ports[k] => j = k)
  /\ verdict = "accepted" => Len(serverPool) = Cardinality(Marks(1, {"SERVER"}))

\* A file is rejected for a redirect loop only if its routes have one, or if a path has
\* two definitions: the detector keeps a redirect that is not in force any more.
DefinedTwice(path) ==
  Cardinality({i \in DOMAIN file : file[i].key = "route" /\ file[i].path = path}) > 1
LoopRejectedHasCause ==
  verdict = "redirect loop" => BackAndForth(conf.routes) \/ \E path \in Path : DefinedTwice(path)
=============================================================================
