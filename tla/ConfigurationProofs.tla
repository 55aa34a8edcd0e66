------------------------- MODULE ConfigurationProofs -------------------------
(* Proofs about Configuration, for any files, paths and ports.             *)
EXTENDS Configuration, SequenceTheorems, FiniteSetTheorems, NaturalsInduction, WellFoundedInduction, TLAPS

----------------------------------------------------------------------------
(* Configs and items.                                                      *)

\* The functions of some of Path to T.
PathMap(T) == UNION {[D -> T] : D \in SUBSET Path}
ConfigSet ==
  [ports : Seq(Port), host : BOOLEAN, pages : SUBSET Nat,
   routes : PathMap(Path \cup {NoRedirect}), redirLoopDetector : PathMap(Path)]

\* The same fact about the routes and about the detector.
LEMMA RoutesPut ==
  ASSUME NEW m \in PathMap(Path \cup {NoRedirect}), NEW p \in Path, NEW t \in Path \cup {NoRedirect}
  PROVE  /\ Put(m, p, t) \in PathMap(Path \cup {NoRedirect})
         /\ DOMAIN Put(m, p, t) = DOMAIN m \cup {p}
         /\ \A q \in DOMAIN m \cup {p} : Put(m, p, t)[q] = IF q = p THEN t ELSE m[q]
<1>1. DOMAIN m \subseteq Path /\ \A q \in DOMAIN m : m[q] \in Path \cup {NoRedirect}
  BY DEF PathMap
<1>2. Put(m, p, t) = [q \in DOMAIN m \cup {p} |-> IF q = p THEN t ELSE m[q]]
  BY DEF Put
<1>3. Put(m, p, t) \in [DOMAIN m \cup {p} -> Path \cup {NoRedirect}]
  BY <1>1, <1>2
<1> QED
  BY <1>1, <1>2, <1>3 DEF PathMap

LEMMA DetectorPut ==
  ASSUME NEW m \in PathMap(Path), NEW p \in Path, NEW t \in Path
  PROVE  /\ Put(m, p, t) \in PathMap(Path)
         /\ DOMAIN Put(m, p, t) = DOMAIN m \cup {p}
         /\ \A q \in DOMAIN m \cup {p} : Put(m, p, t)[q] = IF q = p THEN t ELSE m[q]
<1>1. DOMAIN m \subseteq Path /\ \A q \in DOMAIN m : m[q] \in Path
  BY DEF PathMap
<1>2. Put(m, p, t) = [q \in DOMAIN m \cup {p} |-> IF q = p THEN t ELSE m[q]]
  BY DEF Put
<1>3. Put(m, p, t) \in [DOMAIN m \cup {p} -> Path]
  BY <1>1, <1>2
<1> QED
  BY <1>1, <1>2, <1>3 DEF PathMap

LEMMA EmptyMap == ASSUME NEW T PROVE <<>> \in PathMap(T) /\ DOMAIN <<>> = {}
<1>1. <<>> \in [{} -> T]
  OBVIOUS
<1> QED
  BY <1>1 DEF PathMap

LEMMA EmptyConfigTyped ==
  /\ EmptyConfig \in ConfigSet
  /\ DOMAIN EmptyConfig.routes = {} /\ DOMAIN EmptyConfig.redirLoopDetector = {}
BY EmptyMap DEF EmptyConfig, ConfigSet

LEMMA ItemParts ==
  ASSUME NEW line \in ItemType
  PROVE  /\ line.key = "port" => line.ports \in Seq(Port)
         /\ line.key = "error_pages" => line.codes \in Seq(Nat)
         /\ line.key = "route" => line.path \in Path /\ line.redirects \in Seq(Path)
BY DEF ItemType

\* First is what it says: the least mark, when there is one.
LEMMA FirstIsLeast ==
  ASSUME NEW from \in Nat, NEW keys, file \in Seq(ItemType), Marks(from, keys) # {}
  PROVE  /\ First(from, keys) \in Marks(from, keys)
         /\ \A m \in Marks(from, keys) : First(from, keys) <= m
<1> DEFINE M == Marks(from, keys)
<1>1. M \subseteq Nat
  BY DEF Marks
<1>2. \E x \in M : \A y \in M : ~(<<y, x>> \in OpToRel(<, Nat))
  BY <1>1, NatLessThanWellFounded, WFMin
<1>3. PICK x \in M : \A y \in M : ~(<<y, x>> \in OpToRel(<, Nat))
  BY <1>2
<1>4. ASSUME NEW y \in M PROVE x <= y
  <2>1. x \in Nat /\ y \in Nat
    BY <1>1
  <2>2. y < x => <<y, x>> \in OpToRel(<, Nat)
    BY <2>1 DEF OpToRel
  <2>3. ~(y < x)
    BY <1>3, <2>2
  <2> QED
    BY <2>1, <2>3
<1> QED
  BY <1>3, <1>4 DEF First

----------------------------------------------------------------------------
(* The invariant.                                                          *)

\* Every variable has its type; a block that is being read is closed further on.
TypeInv ==
  /\ file \in Seq(ItemType)
  /\ pos \in Nat \ {0} /\ pc \in {"file", "block", "done"}
  /\ conf \in ConfigSet /\ serverPool \in Seq(ConfigSet)
BlockCloses == pc = "block" => \E e \in pos..Len(file) : file[e].key = "]"

\* The detector of one Config knows the redirects in force.
Detects(c) ==
  \A p \in DOMAIN c.routes :
    c.routes[p] # NoRedirect => p \in DOMAIN c.redirLoopDetector /\ c.redirLoopDetector[p] = c.routes[p]
LoopFree(c) == Detects(c) /\ ~HasDirectLoop(c.redirLoopDetector)

PortsGood(ports) ==
  \A j, k \in DOMAIN ports : ports[j] \in MinPort..MaxPort /\ (ports[j] = ports[k] => j = k)

ConfInv == /\ PortsGood(conf.ports)
           /\ pc # "done" => LoopFree(conf)
PoolInv ==
  \A i \in DOMAIN serverPool :
    /\ LoopFree(serverPool[i]) /\ PortsGood(serverPool[i].ports)
    /\ serverPool[i].host /\ serverPool[i].ports # <<>>

\* One server, or the block being read, for every mark that was passed.
Passed(to) == {i \in 1..(to - 1) : file[i].key = "SERVER"}
CountInv ==
  /\ pc = "file" => Cardinality(Passed(pos)) = Len(serverPool)
  /\ pc = "block" => Cardinality(Passed(pos)) = Len(serverPool) + 1
  /\ pc # "done" => pos - 1 <= Len(file) /\ verdict = "none"
  /\ verdict = "accepted" => Len(serverPool) = Cardinality(Marks(1, {"SERVER"}))

ConfigurationInv == TypeInv /\ BlockCloses /\ ConfInv /\ PoolInv /\ CountInv

----------------------------------------------------------------------------
(* The line and what it leaves.                                            *)

LEMMA BlockLine ==
  ASSUME TypeInv, BlockCloses, pc = "block"
  PROVE  pos \in DOMAIN file /\ file[pos] \in ItemType
<1>1. PICK e \in pos..Len(file) : file[e].key = "]"
  BY DEF BlockCloses
<1>2. pos \in 1..Len(file)
  BY <1>1 DEF TypeInv
<1> QED
  BY <1>2 DEF TypeInv

LEMMA PortsJoined ==
  ASSUME NEW old \in Seq(Port), NEW new \in Seq(Port), PortsGood(old), PortsFit(old, new)
  PROVE  old \o new \in Seq(Port) /\ PortsGood(old \o new)
<1> DEFINE all == old \o new
<1>1. /\ all \in Seq(Port) /\ Len(all) = Len(old) + Len(new)
      /\ \A i \in 1..Len(old) : all[i] = old[i]
  BY ConcatProperties
<1>2. Len(old) \in Nat /\ Len(all) \in Nat /\ DOMAIN old = 1..Len(old) /\ DOMAIN all = 1..Len(all)
  BY <1>1, LenProperties
<1>3. \A i \in (Len(old) + 1)..Len(all) : all[i] \in MinPort..MaxPort /\ \A j \in 1..(i - 1) : all[j] # all[i]
  BY DEF PortsFit
<1> HIDE DEF all
<1>4. /\ \A i \in 1..Len(old) : all[i] \in MinPort..MaxPort
      /\ \A i, j \in 1..Len(old) : all[i] = all[j] => i = j
  BY <1>1, <1>2 DEF PortsGood
<1>5. \A i \in 1..Len(all) : all[i] \in MinPort..MaxPort
  BY <1>2, <1>3, <1>4
<1>6. ASSUME NEW i \in 1..Len(all), NEW j \in 1..Len(all), all[i] = all[j], i < j
      PROVE  FALSE
  <2>1. CASE j <= Len(old)
    BY <1>2, <1>4, <1>6, <2>1
  <2>2. CASE j > Len(old)
    BY <1>2, <1>3, <1>6, <2>2
  <2> QED
    BY <1>2, <2>1, <2>2
<1>7. \A i, j \in 1..Len(all) : all[i] = all[j] => i = j
  BY <1>2, <1>6
<1>8. PortsGood(all)
  BY <1>2, <1>5, <1>7 DEF PortsGood
<1> QED
  BY <1>1, <1>8 DEF all

LEMMA RouteInserted ==
  ASSUME NEW c \in ConfigSet, NEW line \in ItemType, line.key = "route", Detects(c),
         NEW d \in insertRoute(c, line)
  PROVE  d \in ConfigSet /\ Detects(d) /\ d.ports = c.ports
<1>1. line.path \in Path /\ line.redirects \in Seq(Path)
  BY ItemParts
<1>2. /\ line.redirects # <<>> => Redirect(line) \in Path
      /\ line.redirects = <<>> => Redirect(line) = NoRedirect
  <2>1. ASSUME line.redirects # <<>> PROVE line.redirects[Len(line.redirects)] \in Path
    <3>1. Len(line.redirects) \in 1..Len(line.redirects)
      BY <1>1, <2>1, EmptySeq, LenProperties
    <3> QED
      BY <1>1, <3>1
  <2> QED
    BY <2>1 DEF Redirect
<1> DEFINE path == line.path
           target == Redirect(line)
           newRoutes == Put(c.routes, path, target)
           newDetector == IF line.redirects = <<>> THEN c.redirLoopDetector
                          ELSE Put(c.redirLoopDetector, path, target)
<1>3. d = [c EXCEPT !.routes = newRoutes, !.redirLoopDetector = newDetector]
  BY DEF insertRoute, NoConfig
<1>4. c.routes \in PathMap(Path \cup {NoRedirect}) /\ c.redirLoopDetector \in PathMap(Path)
  BY DEF ConfigSet
<1>5. target \in Path \cup {NoRedirect} /\ path \in Path
  BY <1>1, <1>2
<1> HIDE DEF path, target
<1>6. /\ newRoutes \in PathMap(Path \cup {NoRedirect})
      /\ DOMAIN newRoutes = DOMAIN c.routes \cup {path}
      /\ \A q \in DOMAIN c.routes \cup {path} : newRoutes[q] = IF q = path THEN target ELSE c.routes[q]
  <2>r. PICK routes : routes = c.routes
    OBVIOUS
  <2>1. routes \in PathMap(Path \cup {NoRedirect})
    BY <1>4, <2>r
  <2>p. PICK p : p = path
    OBVIOUS
  <2>t. PICK t : t = target
    OBVIOUS
  <2>2. p \in Path /\ t \in Path \cup {NoRedirect}
    BY <1>5, <2>p, <2>t
  <2>3. /\ Put(routes, p, t) \in PathMap(Path \cup {NoRedirect})
        /\ DOMAIN Put(routes, p, t) = DOMAIN routes \cup {p}
        /\ \A q \in DOMAIN routes \cup {p} : Put(routes, p, t)[q] = IF q = p THEN t ELSE routes[q]
    <3>1. Put(routes, p, t) \in PathMap(Path \cup {NoRedirect})
      BY <2>1, <2>2, RoutesPut
    <3>2. DOMAIN Put(routes, p, t) = DOMAIN routes \cup {p}
      BY <2>1, <2>2, RoutesPut
    <3>3. \A q \in DOMAIN routes \cup {p} : Put(routes, p, t)[q] = IF q = p THEN t ELSE routes[q]
      <4>1. Put(routes, p, t) = [q \in DOMAIN routes \cup {p} |-> IF q = p THEN t ELSE routes[q]]
        BY DEF Put
      <4> QED
        BY <4>1
    <3> QED
      BY <3>1, <3>2, <3>3
  <2>4. newRoutes = Put(routes, p, t)
    BY <2>p, <2>r, <2>t
  <2> HIDE DEF newRoutes
  <2> QED
    BY <2>3, <2>4, <2>p, <2>r, <2>t
<1>7. CASE line.redirects = <<>>
  <2>1. newDetector = c.redirLoopDetector
    BY <1>7
  <2>2. target = NoRedirect
    BY <1>2, <1>7 DEF target
  <2> HIDE DEF newRoutes, newDetector
  <2>3. d.routes = newRoutes /\ d.redirLoopDetector = c.redirLoopDetector /\ d.ports = c.ports /\ d \in ConfigSet
    BY <1>3, <1>4, <1>6, <2>1 DEF ConfigSet
  <2> QED
    BY <1>6, <2>2, <2>3 DEF Detects
<1>8. CASE line.redirects # <<>>
  <2>1. newDetector = Put(c.redirLoopDetector, path, target)
    BY <1>8
  <2>2. target \in Path
    BY <1>2, <1>8 DEF target
  <2>3. c.redirLoopDetector \in PathMap(Path) /\ path \in Path
    BY <1>4, <1>5
  <2> DEFINE detector == Put(c.redirLoopDetector, path, target)
  <2>6. /\ detector \in PathMap(Path)
        /\ DOMAIN detector = DOMAIN c.redirLoopDetector \cup {path}
        /\ \A q \in DOMAIN c.redirLoopDetector \cup {path} :
             detector[q] = IF q = path THEN target ELSE c.redirLoopDetector[q]
    <3>1. /\ DOMAIN detector = DOMAIN c.redirLoopDetector \cup {path}
          /\ \A q \in DOMAIN c.redirLoopDetector \cup {path} :
               detector[q] = IF q = path THEN target ELSE c.redirLoopDetector[q]
      BY DEF Put
    <3>2. detector \in PathMap(Path)
      BY <2>2, <2>3, DetectorPut
    <3> QED
      BY <3>1, <3>2
  <2> HIDE DEF newRoutes, detector
  <2>4. d = [c EXCEPT !.routes = newRoutes, !.redirLoopDetector = detector]
    BY <1>3, <2>1 DEF detector
  <2>5. d.routes = newRoutes /\ d.redirLoopDetector = detector /\ d.ports = c.ports /\ d \in ConfigSet
    BY <1>6, <2>4, <2>6 DEF ConfigSet
  <2> QED
    BY <1>6, <2>5, <2>6 DEF Detects
<1> QED
  BY <1>7, <1>8

\* Whatever the line: a Config with a sound detector and good ports stays one.
LEMMA InsertedGood ==
  ASSUME NEW line \in ItemType, conf \in ConfigSet, Detects(conf), PortsGood(conf.ports),
         NEW d \in Inserted(line)
  PROVE  d \in ConfigSet /\ Detects(d) /\ PortsGood(d.ports)
<1>1. CASE line.key = "port"
  <2>1. Inserted(line) = insertPort(conf, line)
    BY <1>1 DEF Inserted
  <2>2. PortsFit(conf.ports, line.ports) /\ d = [conf EXCEPT !.ports = conf.ports \o line.ports]
    BY <2>1 DEF insertPort, NoConfig
  <2>3. conf.ports \in Seq(Port) /\ line.ports \in Seq(Port)
    BY <1>1, ItemParts DEF ConfigSet
  <2>4. conf.ports \o line.ports \in Seq(Port) /\ PortsGood(conf.ports \o line.ports)
    BY <2>2, <2>3, PortsJoined
  <2>5. /\ d \in ConfigSet /\ d.ports = conf.ports \o line.ports
        /\ d.routes = conf.routes /\ d.redirLoopDetector = conf.redirLoopDetector
    BY <2>2, <2>4 DEF ConfigSet
  <2> QED
    BY <2>4, <2>5 DEF Detects
<1>2. CASE line.key = "host"
  <2>1. Inserted(line) = insertHost(conf, line)
    BY <1>2 DEF Inserted
  <2>2. d = [conf EXCEPT !.host = TRUE]
    BY <2>1 DEF insertHost, NoConfig
  <2>3. /\ d \in ConfigSet /\ d.ports = conf.ports
        /\ d.routes = conf.routes /\ d.redirLoopDetector = conf.redirLoopDetector
    BY <2>2 DEF ConfigSet
  <2> QED
    BY <2>3 DEF Detects
<1>3. CASE line.key \in {"allowed_methods", "server_names", "max_body_size"}
  <2>1. Inserted(line) = insertChecked(conf, line)
    BY <1>3 DEF Inserted
  <2>2. d = conf
    BY <2>1 DEF insertChecked, NoConfig
  <2> QED
    BY <2>2
<1>4. CASE line.key = "error_pages"
  <2>1. Inserted(line) = insertErrorPages(conf, line)
    BY <1>4 DEF Inserted
  <2> DEFINE new == {line.codes[i] : i \in DOMAIN line.codes}
  <2>2. d = [conf EXCEPT !.pages = conf.pages \cup new]
    BY <2>1 DEF insertErrorPages, NoConfig
  <2>3. line.codes \in Seq(Nat)
    BY <1>4, ItemParts
  <2>4. new \subseteq Nat
    BY <2>3
  <2> HIDE DEF new
  <2>5. /\ d \in ConfigSet /\ d.ports = conf.ports
        /\ d.routes = conf.routes /\ d.redirLoopDetector = conf.redirLoopDetector
    BY <2>2, <2>4 DEF ConfigSet
  <2> QED
    BY <2>5 DEF Detects
<1>5. CASE line.key = "route"
  <2>1. Inserted(line) = insertRoute(conf, line)
    BY <1>5 DEF Inserted
  <2>2. d \in insertRoute(conf, line)
    BY <2>1
  <2> QED
    BY <1>5, <2>2, RouteInserted
<1>6. CASE line.key \notin {"port", "host", "allowed_methods", "server_names", "max_body_size", "error_pages", "route"}
  BY <1>6 DEF Inserted, NoConfig
<1> QED
  BY <1>1, <1>2, <1>3, <1>4, <1>5, <1>6

LEMMA MarkIsNoLine ==
  ASSUME NEW line, line.key = "SERVER" PROVE Inserted(line) = NoConfig
BY DEF Inserted

----------------------------------------------------------------------------
(* Counting marks.                                                         *)

LEMMA PassedFinite ==
  ASSUME NEW n \in Nat PROVE IsFiniteSet(Passed(n)) /\ Cardinality(Passed(n)) \in Nat
<1>1. Passed(n) \subseteq 1..(n - 1)
  BY DEF Passed
<1>2. IsFiniteSet(1..(n - 1))
  BY FS_Interval
<1> QED
  BY <1>1, <1>2, FS_Subset, FS_CardinalityType

LEMMA PassedMore ==
  ASSUME NEW n \in Nat, NEW m \in Nat \ {0}, m \notin Passed(n), Passed(m + 1) = Passed(n) \cup {m}
  PROVE  Cardinality(Passed(m + 1)) = Cardinality(Passed(n)) + 1
BY PassedFinite, FS_AddElement

----------------------------------------------------------------------------
(* The steps.                                                              *)

LEMMA InitInv == Init => ConfigurationInv
<1> SUFFICES ASSUME Init PROVE ConfigurationInv
  OBVIOUS
<1>1. TypeInv
  BY ConfigurationAssumption, EmptyConfigTyped, EmptySeq DEF Init, TypeInv, ConfigurationAssumption
<1>2. ConfInv
  BY EmptyConfigTyped DEF Init, ConfInv, LoopFree, Detects, HasDirectLoop, PortsGood, EmptyConfig
<1>3. PoolInv
  BY DEF Init, PoolInv
<1>4. CountInv
  <2>1. Passed(1) = {}
    BY DEF Passed
  <2>2. Len(serverPool) = 0 /\ Len(file) \in Nat
    BY <1>1, LenProperties DEF Init, TypeInv
  <2> QED
    BY <2>1, <2>2, FS_EmptySet DEF Init, CountInv
<1> QED
  BY <1>1, <1>2, <1>3, <1>4 DEF ConfigurationInv, BlockCloses, Init

LEMMA ParseLineInv ==
  ASSUME ConfigurationInv, ParseLine
  PROVE  ConfigurationInv'
<1> DEFINE line == file[pos]
<1>1. TypeInv /\ BlockCloses /\ ConfInv /\ PoolInv /\ CountInv /\ pc = "block" /\ line.key # "]"
  BY DEF ConfigurationInv, ParseLine
<1>2. pos \in DOMAIN file /\ line \in ItemType
  BY <1>1, BlockLine
<1>3. pos' = pos + 1 /\ file' = file /\ serverPool' = serverPool
  BY DEF ParseLine
<1>4. PoolInv'
  BY <1>1, <1>3 DEF PoolInv
<1>5. Detects(conf) /\ PortsGood(conf.ports) /\ conf \in ConfigSet
  BY <1>1 DEF ConfInv, LoopFree, TypeInv
<1>6. pos \in Nat \ {0} /\ pos + 1 \in Nat \ {0}
  BY <1>1 DEF TypeInv
<1>7. CASE Inserted(line) = NoConfig
  <2>1. conf' = conf /\ pc' = "done" /\ verdict' = line.key
    BY <1>7 DEF ParseLine, Reject
  <2>2. line.key # "accepted"
    BY <1>2 DEF ItemType
  <2>3. TypeInv'
    BY <1>1, <1>3, <1>6, <2>1 DEF TypeInv
  <2>4. ConfInv' /\ BlockCloses' /\ CountInv'
    BY <1>5, <2>1, <2>2 DEF ConfInv, BlockCloses, CountInv
  <2> QED
    BY <1>4, <2>3, <2>4 DEF ConfigurationInv
<1>8. CASE Inserted(line) # NoConfig
  <2>1. conf' \in Inserted(line)
    BY <1>8 DEF ParseLine
  <2>2. conf' \in ConfigSet /\ Detects(conf') /\ PortsGood(conf'.ports)
    BY <1>2, <1>5, <2>1, InsertedGood
  <2>3. \/ HasDirectLoop(conf'.redirLoopDetector) /\ pc' = "done" /\ verdict' = "redirect loop"
        \/ ~HasDirectLoop(conf'.redirLoopDetector) /\ pc' = pc /\ verdict' = verdict
    BY <1>8 DEF ParseLine, Reject
  <2>4. TypeInv'
    BY <1>1, <1>3, <1>6, <2>2, <2>3 DEF TypeInv
  <2>5. ConfInv'
    BY <2>2, <2>3 DEF ConfInv, LoopFree
  <2>6. BlockCloses'
    <3>1. PICK e \in pos..Len(file) : file[e].key = "]"
      BY <1>1 DEF BlockCloses
    <3>2. e # pos
      BY <1>1, <3>1
    <3>3. e \in (pos + 1)..Len(file)
      BY <1>6, <3>1, <3>2
    <3> QED
      BY <1>3, <3>1, <3>3 DEF BlockCloses
  <2>7. CountInv'
    <3>1. line.key # "SERVER"
      BY <1>8, MarkIsNoLine
    <3>2. Passed(pos + 1) = Passed(pos)
      BY <1>6, <3>1 DEF Passed
    <3>4. pos <= Len(file)
      BY <1>1, <1>2, LenProperties DEF TypeInv
    <3>6. verdict' # "accepted" /\ (pc' # "done" => verdict' = "none" /\ pc' = "block")
      BY <1>1, <2>3 DEF CountInv
    <3>7. pos' - 1 <= Len(file') /\ Cardinality(Passed(pos)) = Len(serverPool') + 1
      BY <1>1, <1>3, <1>6, <3>4 DEF CountInv
    <3>8. (Passed(pos))' = Passed(pos)
      BY <1>3, <3>2 DEF Passed
    <3> QED
      BY <3>6, <3>7, <3>8 DEF CountInv
  <2> QED
    BY <1>4, <2>4, <2>5, <2>6, <2>7 DEF ConfigurationInv
<1> QED
  BY <1>7, <1>8

LEMMA EndBlockInv ==
  ASSUME ConfigurationInv, EndBlock
  PROVE  ConfigurationInv'
<1>1. TypeInv /\ BlockCloses /\ ConfInv /\ PoolInv /\ CountInv /\ pc = "block" /\ file[pos].key = "]"
  BY DEF ConfigurationInv, EndBlock
<1>2. pos' = pos /\ file' = file
  BY DEF EndBlock
<1>3. CASE pc' = "done" /\ verdict' \in {"no ports", "no host"} /\ UNCHANGED <<serverPool, conf>>
  BY <1>1, <1>2, <1>3 DEF ConfigurationInv, TypeInv, BlockCloses, ConfInv, PoolInv, CountInv
<1>4. CASE /\ conf.ports # <<>> /\ conf.host
           /\ pc' = "file" /\ serverPool' = Append(serverPool, conf) /\ conf' = EmptyConfig /\ verdict' = verdict
  <2>1. serverPool \in Seq(ConfigSet) /\ conf \in ConfigSet
    BY <1>1 DEF TypeInv
  <2>2. /\ serverPool' \in Seq(ConfigSet) /\ Len(serverPool') = Len(serverPool) + 1
        /\ \A i \in 1..Len(serverPool) : serverPool'[i] = serverPool[i]
        /\ serverPool'[Len(serverPool) + 1] = conf
    BY <1>4, <2>1, AppendProperties
  <2>3. Len(serverPool) \in Nat /\ DOMAIN serverPool = 1..Len(serverPool)
        /\ DOMAIN serverPool' = 1..(Len(serverPool) + 1)
    BY <2>1, <2>2, LenProperties
  <2>4. TypeInv' /\ BlockCloses' /\ ConfInv'
    <3>1. TypeInv'
      BY <1>1, <1>2, <1>4, <2>2, EmptyConfigTyped DEF TypeInv
    <3>2. ConfInv'
      BY <1>4, EmptyConfigTyped DEF ConfInv, LoopFree, Detects, HasDirectLoop, PortsGood, EmptyConfig
    <3> QED
      BY <1>4, <3>1, <3>2 DEF BlockCloses
  <2>5. PoolInv'
    <3>1. LoopFree(conf) /\ PortsGood(conf.ports)
      BY <1>1 DEF ConfInv
    <3>2. ASSUME NEW i \in DOMAIN serverPool'
          PROVE  /\ LoopFree(serverPool'[i]) /\ PortsGood(serverPool'[i].ports)
                 /\ serverPool'[i].host /\ serverPool'[i].ports # <<>>
      <4>1. CASE i \in DOMAIN serverPool
        BY <1>1, <2>2, <2>3, <4>1 DEF PoolInv
      <4>2. CASE i = Len(serverPool) + 1
        BY <1>4, <2>2, <3>1, <4>2
      <4> QED
        BY <2>3, <3>2, <4>1, <4>2
    <3> QED
      BY <3>2 DEF PoolInv
  <2>6. CountInv'
    <3>1. (Passed(pos))' = Passed(pos)
      BY <1>2 DEF Passed
    <3> QED
      BY <1>1, <1>2, <1>4, <2>2, <3>1 DEF CountInv
  <2> QED
    BY <2>4, <2>5, <2>6 DEF ConfigurationInv
<1> QED
  BY <1>3, <1>4 DEF EndBlock, Reject

LEMMA FindBlockInv ==
  ASSUME ConfigurationInv, FindBlock
  PROVE  ConfigurationInv'
<1> DEFINE Opens == {"SERVER"}
           start == First(pos, Opens)
<1>1. TypeInv /\ ConfInv /\ PoolInv /\ CountInv /\ pc = "file"
  BY DEF ConfigurationInv, FindBlock
<1>2. /\ file' = file /\ conf' = conf /\ serverPool' = serverPool
      /\ pos \in Nat \ {0} /\ file \in Seq(ItemType) /\ Len(file) \in Nat
  BY <1>1, LenProperties DEF FindBlock, TypeInv
<1>3. PoolInv'
  BY <1>1, <1>2 DEF PoolInv
<1>4. CASE Marks(pos, Opens) = {}
  <2>1. pos' = pos /\ pc' = "done" /\ verdict' = "accepted"
    BY <1>4 DEF FindBlock, Reject
  <2>2. Marks(1, Opens) = Passed(pos)
    BY <1>1, <1>2, <1>4 DEF Marks, Passed, CountInv
  <2>3. Cardinality(Passed(pos)) = Len(serverPool)
    BY <1>1 DEF CountInv
  <2>4. (Marks(1, Opens))' = Marks(1, Opens)
    BY <1>2 DEF Marks
  <2>5. CountInv'
    BY <1>2, <2>1, <2>2, <2>3, <2>4 DEF CountInv
  <2> QED
    BY <1>1, <1>2, <1>3, <2>1, <2>5 DEF ConfigurationInv, TypeInv, ConfInv, BlockCloses
<1>5. CASE /\ Marks(pos, Opens) # {}
           /\ pc' = "done" /\ verdict' \in {"no bracket", "nested"} /\ pos' = pos
  BY <1>1, <1>2, <1>3, <1>5 DEF ConfigurationInv, TypeInv, ConfInv, BlockCloses, CountInv
<1>6. CASE /\ Marks(pos, Opens) # {} /\ Marks(start, {"]"}) # {}
           /\ pc' = "block" /\ pos' = start + 1 /\ verdict' = verdict
  <2>1. start \in Marks(pos, Opens)
    BY <1>2, <1>6, FirstIsLeast
  <2>2. start \in pos..Len(file) /\ file[start].key = "SERVER" /\ start \in Nat \ {0}
    BY <1>2, <2>1 DEF Marks
  <2>3. ASSUME NEW i \in pos..Len(file), file[i].key = "SERVER" PROVE start <= i
    <3>1. i \in Marks(pos, Opens)
      BY <2>3 DEF Marks
    <3> QED
      BY <1>2, <1>6, <3>1, FirstIsLeast
  <2> HIDE DEF start
  <2>4. \E e \in (start + 1)..Len(file) : file[e].key = "]"
    <3>1. PICK e \in start..Len(file) : file[e].key = "]"
      BY <1>6 DEF Marks
    <3>2. e # start
      BY <2>2, <3>1
    <3>3. e \in (start + 1)..Len(file)
      BY <2>2, <3>1, <3>2
    <3> QED
      BY <3>1, <3>3
  <2>5. TypeInv' /\ BlockCloses' /\ ConfInv'
    BY <1>1, <1>2, <1>6, <2>2, <2>4 DEF TypeInv, BlockCloses, ConfInv
  <2>6. Passed(start + 1) = Passed(pos) \cup {start} /\ start \notin Passed(pos)
    BY <1>2, <2>2, <2>3 DEF Passed
  <2>7. Cardinality(Passed(start + 1)) = Len(serverPool) + 1
    BY <1>1, <1>2, <2>2, <2>6, PassedMore DEF CountInv
  <2>8. (Passed(pos))' = Passed(start + 1)
    BY <1>2, <1>6 DEF Passed
  <2>9. verdict' = "none" /\ pos' - 1 <= Len(file')
    BY <1>1, <1>2, <1>6, <2>2 DEF CountInv
  <2>10. CountInv'
    BY <1>2, <1>6, <2>7, <2>8, <2>9 DEF CountInv
  <2> QED
    BY <1>3, <2>5, <2>10 DEF ConfigurationInv
<1> QED
  BY <1>4, <1>5, <1>6 DEF FindBlock, Reject

LEMMA NextInv == ConfigurationInv /\ [Next]_vars => ConfigurationInv'
<1>1. ASSUME ConfigurationInv, UNCHANGED vars PROVE ConfigurationInv'
  <2>1. (Passed(pos))' = Passed(pos) /\ (Marks(1, {"SERVER"}))' = Marks(1, {"SERVER"})
    BY <1>1 DEF vars, Passed, Marks
  <2>2. TypeInv' /\ BlockCloses' /\ ConfInv' /\ PoolInv'
    BY <1>1 DEF vars, ConfigurationInv, TypeInv, BlockCloses, ConfInv, PoolInv
  <2>3. CountInv'
    BY <1>1, <2>1 DEF vars, ConfigurationInv, CountInv
  <2> QED
    BY <2>2, <2>3 DEF ConfigurationInv
<1> QED
  BY <1>1, ParseLineInv, EndBlockInv, FindBlockInv DEF Next

----------------------------------------------------------------------------
(* Why a loop is found.                                                    *)

Ambiguous == \E path \in Path : DefinedTwice(path)
\* Every redirect the detector knows is in force.
InForce(c) ==
  \A p \in DOMAIN c.redirLoopDetector :
    p \in DOMAIN c.routes /\ c.routes[p] = c.redirLoopDetector[p]
\* Every path the detector knows was defined by a line that was read.
Origin ==
  \A p \in DOMAIN conf.redirLoopDetector :
    \E i \in 1..(pos - 1) : i \in DOMAIN file /\ file[i].key = "route" /\ file[i].path = p
CauseInv ==
  /\ pc # "done" => Origin /\ (InForce(conf) \/ Ambiguous)
  /\ LoopRejectedHasCause

LEMMA TwoLinesTwice ==
  ASSUME file \in Seq(ItemType), NEW i \in DOMAIN file, NEW j \in DOMAIN file, i # j,
         file[i].key = "route", file[j].key = "route", NEW path, file[i].path = path,
         file[j].path = path
  PROVE  DefinedTwice(path)
<1> DEFINE D == {k \in DOMAIN file : file[k].key = "route" /\ file[k].path = path}
<1>1. IsFiniteSet(D)
  <2>1. Len(file) \in Nat /\ DOMAIN file = 1..Len(file)
    BY LenProperties
  <2>2. IsFiniteSet(1..Len(file))
    BY <2>1, FS_Interval
  <2> QED
    BY <2>1, <2>2, FS_Subset
<1>2. i \in D /\ j \in D \ {i}
  OBVIOUS
<1> HIDE DEF D
<1>3. /\ Cardinality(D \ {i}) = Cardinality(D) - 1 /\ IsFiniteSet(D \ {i})
      /\ Cardinality(D) \in Nat
  BY <1>1, <1>2, FS_RemoveElement, FS_CardinalityType
<1>4. Cardinality(D \ {i}) # 0 /\ Cardinality(D \ {i}) \in Nat
  BY <1>2, <1>3, FS_EmptySet, FS_CardinalityType
<1>5. Cardinality(D) > 1
  BY <1>3, <1>4
<1> QED
  BY <1>5 DEF D, DefinedTwice

LEMMA RouteParts ==
  ASSUME NEW c \in ConfigSet, NEW line, NEW d \in insertRoute(c, line)
  PROVE  /\ d.routes = Put(c.routes, line.path, Redirect(line))
         /\ d.redirLoopDetector = IF line.redirects = <<>> THEN c.redirLoopDetector
                                  ELSE Put(c.redirLoopDetector, line.path, Redirect(line))
<1> DEFINE newRoutes == Put(c.routes, line.path, Redirect(line))
           newDetector == IF line.redirects = <<>> THEN c.redirLoopDetector
                          ELSE Put(c.redirLoopDetector, line.path, Redirect(line))
<1>1. d = [c EXCEPT !.routes = newRoutes, !.redirLoopDetector = newDetector]
  BY DEF insertRoute, NoConfig
<1> HIDE DEF newRoutes, newDetector
<1>2. d.routes = newRoutes /\ d.redirLoopDetector = newDetector
  BY <1>1 DEF ConfigSet
<1> QED
  BY <1>2 DEF newRoutes, newDetector

LEMMA OtherParts ==
  ASSUME NEW line, line.key # "route", conf \in ConfigSet, NEW d \in Inserted(line)
  PROVE  d.routes = conf.routes /\ d.redirLoopDetector = conf.redirLoopDetector
<1>1. CASE line.key = "port"
  <2>1. d \in insertPort(conf, line)
    BY <1>1 DEF Inserted
  <2>2. d = [conf EXCEPT !.ports = conf.ports \o line.ports]
    BY <2>1 DEF insertPort, NoConfig
  <2> QED
    BY <2>2 DEF ConfigSet
<1>2. CASE line.key = "host"
  <2>1. d \in insertHost(conf, line)
    BY <1>2 DEF Inserted
  <2>2. d = [conf EXCEPT !.host = TRUE]
    BY <2>1 DEF insertHost, NoConfig
  <2> QED
    BY <2>2 DEF ConfigSet
<1>3. CASE line.key \in {"allowed_methods", "server_names", "max_body_size"}
  BY <1>3 DEF Inserted, insertChecked, NoConfig
<1>4. CASE line.key = "error_pages"
  <2>1. d \in insertErrorPages(conf, line)
    BY <1>4 DEF Inserted
  <2> DEFINE all == conf.pages \cup {line.codes[i] : i \in DOMAIN line.codes}
  <2>2. d = [conf EXCEPT !.pages = all]
    BY <2>1 DEF insertErrorPages, NoConfig
  <2> HIDE DEF all
  <2> QED
    BY <2>2 DEF ConfigSet
<1>5. CASE line.key \notin {"port", "host", "allowed_methods", "server_names", "max_body_size", "error_pages", "route"}
  BY <1>5 DEF Inserted, NoConfig
<1> QED
  BY <1>1, <1>2, <1>3, <1>4, <1>5

\* A route keeps the detector in force, unless it is the second of its path.
LEMMA RouteCause ==
  ASSUME ConfigurationInv, CauseInv, pc = "block", file[pos].key = "route",
         NEW d \in insertRoute(conf, file[pos])
  PROVE  /\ InForce(d) \/ Ambiguous
         /\ \A p \in DOMAIN d.redirLoopDetector : p \in DOMAIN conf.redirLoopDetector \/ p = file[pos].path
<1> DEFINE line == file[pos]
<1>1. /\ pos \in DOMAIN file /\ line \in ItemType /\ conf \in ConfigSet
      /\ file \in Seq(ItemType) /\ pos \in Nat
  BY BlockLine DEF ConfigurationInv, TypeInv
<1>2. line.path \in Path /\ Origin /\ (InForce(conf) \/ Ambiguous)
  BY <1>1, ItemParts DEF CauseInv
<1>3. /\ d.routes = Put(conf.routes, line.path, Redirect(line))
      /\ d.redirLoopDetector = IF line.redirects = <<>> THEN conf.redirLoopDetector
                               ELSE Put(conf.redirLoopDetector, line.path, Redirect(line))
  BY <1>1, RouteParts
<1> DEFINE path == line.path
           target == Redirect(line)
<1>4. /\ DOMAIN d.routes = DOMAIN conf.routes \cup {path}
      /\ \A q \in DOMAIN conf.routes \cup {path} :
           d.routes[q] = IF q = path THEN target ELSE conf.routes[q]
  BY <1>3 DEF Put
<1>5. CASE line.redirects # <<>>
  <2>1. d.redirLoopDetector = Put(conf.redirLoopDetector, path, target)
    BY <1>3, <1>5
  <2> HIDE DEF path, target
  <2>2. /\ DOMAIN d.redirLoopDetector = DOMAIN conf.redirLoopDetector \cup {path}
        /\ \A q \in DOMAIN conf.redirLoopDetector \cup {path} :
             d.redirLoopDetector[q] = IF q = path THEN target ELSE conf.redirLoopDetector[q]
    BY <2>1 DEF Put
  <2>3. InForce(conf) => InForce(d)
    BY <1>4, <2>2 DEF InForce
  <2> QED
    BY <1>2, <2>2, <2>3 DEF path
<1>6. CASE line.redirects = <<>>
  <2>1. d.redirLoopDetector = conf.redirLoopDetector
    BY <1>3, <1>6
  <2>2. CASE path \in DOMAIN conf.redirLoopDetector
    <3>1. PICK i \in 1..(pos - 1) : i \in DOMAIN file /\ file[i].key = "route" /\ file[i].path = path
      BY <1>2, <2>2 DEF Origin
    <3>2. i # pos
      BY <1>1, <3>1
    <3>3. DefinedTwice(path)
      BY <1>1, <3>1, <3>2, TwoLinesTwice
    <3> QED
      BY <1>2, <2>1, <3>3 DEF Ambiguous
  <2>3. CASE path \notin DOMAIN conf.redirLoopDetector
    <3> HIDE DEF path, target
    <3>1. InForce(conf) => InForce(d)
      BY <1>4, <2>1, <2>3 DEF InForce
    <3> QED
      BY <1>2, <2>1, <3>1
  <2> QED
    BY <2>2, <2>3
<1> QED
  BY <1>5, <1>6

\* A loop in a detector whose redirects are in force is a loop of the routes.
LEMMA LoopIsInRoutes ==
  ASSUME NEW c, InForce(c), HasDirectLoop(c.redirLoopDetector)
  PROVE  BackAndForth(c.routes)
<1>1. PICK p \in DOMAIN c.redirLoopDetector :
        /\ c.redirLoopDetector[p] \in DOMAIN c.redirLoopDetector
        /\ c.redirLoopDetector[c.redirLoopDetector[p]] = p
  BY DEF HasDirectLoop
<1> DEFINE r == c.redirLoopDetector[p]
<1>2. /\ p \in DOMAIN c.routes /\ c.routes[p] = r
      /\ r \in DOMAIN c.routes /\ c.routes[r] = p
  BY <1>1 DEF InForce
<1> QED
  BY <1>2 DEF BackAndForth

LEMMA ParseLineCause ==
  ASSUME ConfigurationInv, CauseInv, ParseLine
  PROVE  CauseInv'
<1> DEFINE line == file[pos]
<1>1. /\ pc = "block" /\ pos' = pos + 1 /\ file' = file /\ Origin /\ (InForce(conf) \/ Ambiguous)
      /\ conf \in ConfigSet /\ pos \in DOMAIN file /\ line \in ItemType /\ pos \in Nat \ {0}
      /\ verdict = "none"
  BY BlockLine DEF ParseLine, ConfigurationInv, TypeInv, CauseInv, CountInv
<1>2. Ambiguous' = Ambiguous
  BY <1>1 DEF Ambiguous, DefinedTwice
<1>3. CASE Inserted(line) = NoConfig
  <2>1. pc' = "done" /\ verdict' = line.key
    BY <1>3 DEF ParseLine, Reject
  <2>2. line.key # "redirect loop"
    BY <1>1 DEF ItemType
  <2> QED
    BY <2>1, <2>2 DEF CauseInv, LoopRejectedHasCause
<1>4. CASE Inserted(line) # NoConfig
  <2>1. conf' \in Inserted(line)
    BY <1>4 DEF ParseLine
  <2>2. /\ InForce(conf') \/ Ambiguous
        /\ \A p \in DOMAIN conf'.redirLoopDetector :
             p \in DOMAIN conf.redirLoopDetector \/ (line.key = "route" /\ p = line.path)
    <3>1. CASE line.key = "route"
      <4>1. conf' \in insertRoute(conf, file[pos])
        BY <2>1, <3>1 DEF Inserted
      <4> QED
        BY <1>1, <3>1, <4>1, RouteCause
    <3>2. CASE line.key # "route"
      <4>1. conf'.routes = conf.routes /\ conf'.redirLoopDetector = conf.redirLoopDetector
        BY <1>1, <2>1, <3>2, OtherParts
      <4> QED
        BY <1>1, <4>1 DEF InForce
    <3> QED
      BY <3>1, <3>2
  <2>3. Origin'
    <3> SUFFICES ASSUME NEW p \in DOMAIN conf'.redirLoopDetector
                 PROVE  \E i \in 1..(pos' - 1) :
                          i \in DOMAIN file' /\ file'[i].key = "route" /\ file'[i].path = p
      BY DEF Origin
    <3>1. CASE p \in DOMAIN conf.redirLoopDetector
      <4>1. PICK i \in 1..(pos - 1) : i \in DOMAIN file /\ file[i].key = "route" /\ file[i].path = p
        BY <1>1, <3>1 DEF Origin
      <4>2. i \in 1..(pos' - 1)
        BY <1>1
      <4> QED
        BY <1>1, <4>1, <4>2
    <3>2. CASE line.key = "route" /\ p = line.path
      <4>1. pos \in 1..(pos' - 1)
        BY <1>1
      <4> QED
        BY <1>1, <3>2, <4>1
    <3> QED
      BY <2>2, <3>1, <3>2
  <2>4. \/ HasDirectLoop(conf'.redirLoopDetector) /\ pc' = "done" /\ verdict' = "redirect loop"
        \/ pc' = pc /\ verdict' = verdict
    BY <1>4 DEF ParseLine, Reject
  <2>5. LoopRejectedHasCause'
    <3>1. CASE HasDirectLoop(conf'.redirLoopDetector)
      <4>1. BackAndForth(conf'.routes) \/ Ambiguous
        BY <2>2, <3>1, LoopIsInRoutes
      <4> QED
        BY <1>2, <4>1 DEF LoopRejectedHasCause, Ambiguous
    <3>2. CASE verdict' = verdict
      BY <1>1, <3>2 DEF LoopRejectedHasCause
    <3> QED
      BY <2>4, <3>1, <3>2
  <2>6. InForce(conf)' \/ Ambiguous'
    BY <1>2, <2>2 DEF InForce
  <2> QED
    BY <2>3, <2>5, <2>6 DEF CauseInv
<1> QED
  BY <1>3, <1>4

LEMMA NextCause == ConfigurationInv /\ CauseInv /\ [Next]_vars => CauseInv'
<1> SUFFICES ASSUME ConfigurationInv, CauseInv, [Next]_vars PROVE CauseInv'
  OBVIOUS
<1>1. CASE ParseLine
  BY <1>1, ParseLineCause
<1>2. CASE EndBlock
  <2>1. \/ pc' = "done" /\ verdict' \in {"no ports", "no host"}
        \/ pc' = "file" /\ conf' = EmptyConfig /\ verdict' = verdict /\ verdict = "none"
    BY <1>2 DEF EndBlock, Reject, ConfigurationInv, CountInv
  <2>2. LoopRejectedHasCause'
    BY <2>1 DEF LoopRejectedHasCause
  <2>3. pc' # "done" => Origin' /\ InForce(conf)'
    BY <2>1, EmptyConfigTyped DEF Origin, InForce
  <2> QED
    BY <2>2, <2>3 DEF CauseInv
<1>3. CASE FindBlock
  <2>1. /\ file' = file /\ conf' = conf
        /\ \/ pc' = "done" /\ verdict' \in {"accepted", "no bracket", "nested"}
           \/ /\ pc = "file" /\ Marks(pos, {"SERVER"}) # {} /\ verdict' = verdict /\ verdict = "none"
              /\ pos' = First(pos, {"SERVER"}) + 1
    BY <1>3 DEF FindBlock, Reject, ConfigurationInv, CountInv
  <2>2. LoopRejectedHasCause'
    BY <2>1 DEF LoopRejectedHasCause
  <2>3. pc' # "done" => Origin' /\ (InForce(conf)' \/ Ambiguous')
    <3> SUFFICES ASSUME pc' # "done" PROVE Origin' /\ (InForce(conf)' \/ Ambiguous')
      OBVIOUS
    <3>1. file \in Seq(ItemType) /\ pos \in Nat /\ Origin /\ (InForce(conf) \/ Ambiguous)
      BY <2>1 DEF ConfigurationInv, TypeInv, CauseInv
    <3>2. pos' \in Nat /\ pos <= pos'
      <4>1. First(pos, {"SERVER"}) \in Marks(pos, {"SERVER"})
        BY <2>1, <3>1, FirstIsLeast
      <4>2. First(pos, {"SERVER"}) \in pos..Len(file)
        BY <4>1 DEF Marks
      <4>3. pos' = First(pos, {"SERVER"}) + 1
        BY <2>1
      <4> QED
        BY <3>1, <4>2, <4>3
    <3>3. Origin'
      <4> SUFFICES ASSUME NEW p \in DOMAIN conf.redirLoopDetector
                   PROVE  \E i \in 1..(pos' - 1) :
                            i \in DOMAIN file /\ file[i].key = "route" /\ file[i].path = p
        BY <2>1 DEF Origin
      <4>1. PICK i \in 1..(pos - 1) : i \in DOMAIN file /\ file[i].key = "route" /\ file[i].path = p
        BY <3>1 DEF Origin
      <4>2. ASSUME NEW m \in Nat, NEW n \in Nat, m <= n, NEW j \in 1..(m - 1)
             PROVE  j \in 1..(n - 1)
        BY <4>2
      <4>3. i \in 1..(pos' - 1)
        BY <3>1, <3>2, <4>2
      <4> QED
        BY <4>1, <4>3
    <3> QED
      BY <2>1, <3>1, <3>3 DEF InForce, Ambiguous, DefinedTwice
  <2> QED
    BY <2>2, <2>3 DEF CauseInv
<1>4. CASE UNCHANGED vars
  <2>1. UNCHANGED <<file, pos, pc, conf, verdict>>
    BY <1>4 DEF vars
  <2>2. Origin' = Origin /\ InForce(conf)' = InForce(conf) /\ Ambiguous' = Ambiguous
    BY <2>1 DEF Origin, InForce, Ambiguous, DefinedTwice
  <2>3. LoopRejectedHasCause'
    BY <2>1 DEF CauseInv, LoopRejectedHasCause, DefinedTwice
  <2> QED
    BY <2>1, <2>2, <2>3 DEF CauseInv
<1> QED
  BY <1>1, <1>2, <1>3, <1>4 DEF Next

LEMMA InitCause == Init => CauseInv
<1> SUFFICES ASSUME Init PROVE CauseInv
  OBVIOUS
<1>1. DOMAIN conf.redirLoopDetector = {} /\ verdict = "none"
  BY EmptyConfigTyped DEF Init
<1> QED
  BY <1>1 DEF CauseInv, Origin, InForce, LoopRejectedHasCause

----------------------------------------------------------------------------
(* The theorems.                                                           *)

\* What the invariant is for: a detector without a loop, that knows the redirects in
\* force, means routes without one.
LEMMA NoLoopInPool == ConfigurationInv => NoDirectLoop
<1> SUFFICES ASSUME ConfigurationInv,
                    NEW i \in DOMAIN serverPool, BackAndForth(serverPool[i].routes)
             PROVE  FALSE
  BY DEF NoDirectLoop
<1> DEFINE c == serverPool[i]
<1>1. LoopFree(c)
  BY DEF ConfigurationInv, PoolInv
<1>2. c \in ConfigSet
  BY DEF ConfigurationInv, TypeInv
<1>3. c.routes \in PathMap(Path \cup {NoRedirect})
  BY <1>2 DEF ConfigSet
<1>4. DOMAIN c.routes \subseteq Path
  BY <1>3 DEF PathMap
<1>5. PICK p, q \in DOMAIN c.routes : c.routes[p] = q /\ c.routes[q] = p
  BY DEF BackAndForth
<1>6. p # NoRedirect /\ q # NoRedirect
  BY <1>4, <1>5, ConfigurationAssumption DEF ConfigurationAssumption
<1>7. /\ p \in DOMAIN c.redirLoopDetector /\ c.redirLoopDetector[p] = q
      /\ q \in DOMAIN c.redirLoopDetector /\ c.redirLoopDetector[q] = p
  BY <1>1, <1>5, <1>6 DEF LoopFree, Detects
<1> QED
  BY <1>1, <1>7 DEF LoopFree, HasDirectLoop

LEMMA ConfigSetIsConfig == ASSUME NEW c \in ConfigSet PROVE IsConfig(c)
<1>1. c.routes \in PathMap(Path \cup {NoRedirect}) /\ c.redirLoopDetector \in PathMap(Path)
  BY DEF ConfigSet
<1>2. /\ DOMAIN c.routes \subseteq Path
      /\ \A p \in DOMAIN c.routes : c.routes[p] \in Path \cup {NoRedirect}
  BY <1>1 DEF PathMap
<1>3. /\ DOMAIN c.redirLoopDetector \subseteq Path
      /\ \A p \in DOMAIN c.redirLoopDetector : c.redirLoopDetector[p] \in Path
  BY <1>1 DEF PathMap
<1> QED
  BY <1>2, <1>3 DEF ConfigSet, IsConfig

LEMMA TypesInPool == ConfigurationInv => TypeOK
BY ConfigSetIsConfig DEF ConfigurationInv, TypeInv, TypeOK

LEMMA PoolCanListen == ConfigurationInv => CanListen
BY DEF ConfigurationInv, PoolInv, CountInv, PortsGood, CanListen

\* Every variable keeps its type, those of the servers already made included.
THEOREM ConfigurationTypeCorrect == Spec => []TypeOK
<1>1. Spec => []ConfigurationInv
  BY InitInv, NextInv, PTL DEF Spec
<1> QED
  BY <1>1, TypesInPool, PTL

\* No server that is started has two routes, or one, whose redirects send a client back
\* and forth, whatever the file defines and defines again: HasDirectLoop is asked after
\* every line and the detector forgets no redirect that is in force.
THEOREM NoServerRedirectsBackAndForth == Spec => []NoDirectLoop
<1>1. Spec => []ConfigurationInv
  BY InitInv, NextInv, PTL DEF Spec
<1> QED
  BY <1>1, NoLoopInPool, PTL

\* Every server that is started has a host and ports in range, all different, and of an
\* accepted file every server block has become a server.
THEOREM EveryServerCanListen == Spec => []CanListen
<1>1. Spec => []ConfigurationInv
  BY InitInv, NextInv, PTL DEF Spec
<1> QED
  BY <1>1, PoolCanListen, PTL

\* A file is rejected for a redirect loop only if the routes read so far have one or some
\* path is defined twice: HasDirectLoop asks the detector, which follows the routes line
\* by line until a second definition takes a redirect away.
THEOREM LoopRejectionHasCause == Spec => []LoopRejectedHasCause
<1>1. Spec => []ConfigurationInv
  BY InitInv, NextInv, PTL DEF Spec
<1>2. CauseInv => LoopRejectedHasCause
  BY DEF CauseInv
<1> QED
  BY <1>1, <1>2, InitCause, NextCause, PTL DEF Spec
=============================================================================
