---------------------------- MODULE PublishProofs ----------------------------
(* Invariance proofs for Publish, and what lookup finds for every answer of the
   databases. *)
EXTENDS Publish, RankingProofs

----------------------------------------------------------------------------
(* Lookups and labels *)

LEMMA LookupIsHop ==
    ASSUME NEW a \in Answers
    PROVE  Lookup(a) \in Hop
<1>1. /\ {a.dbip, a.city, a.ip2region, a.qqwry} \subseteq Located
      /\ a.country \in STRING /\ a.asn \in Nat
  BY DEF Answers
<1>2. \A l \in Located : l.country \in STRING /\ l.region \in STRING /\ l.city \in STRING
  BY DEF Located
<1>3. \A x, y \in STRING : Or(x, y) \in STRING
  BY DEF Or
<1>4. Country(a) \in STRING
  BY <1>1, <1>2, <1>3 DEF Country
<1>5. PlaceInChina(a).region \in STRING /\ PlaceInChina(a).city \in STRING
  BY <1>1, <1>2, <1>3 DEF PlaceInChina
<1>6. PlaceAbroad(a).region \in STRING /\ PlaceAbroad(a).city \in STRING
  BY <1>1, <1>2, <1>3 DEF PlaceAbroad
<1>7. Or(Place(a).city, Place(a).region) \in STRING
  BY <1>3, <1>5, <1>6 DEF Place
<1> DEFINE known == [asn |-> a.asn, country |-> Country(a), place |-> Or(Place(a).city, Place(a).region)]
           unknown == [asn |-> NoAsn, country |-> "", place |-> ""]
<1>8. Lookup(a) = known \/ Lookup(a) = unknown
  BY DEF Lookup
<1>9. unknown \in Hop
  BY StringAssumption DEF Hop, NoAsn
<1>10. known \in Hop
  BY <1>1, <1>4, <1>7 DEF Hop
<1> QED
  BY <1>8, <1>9, <1>10

(* A chain of or asks its fields in order. *)
LEMMA FirstOfThree ==
    ASSUME NEW x, NEW y, NEW z
    PROVE  IsFirstKnown(Or(x, Or(y, z)), <<x, y, z>>)
<1> DEFINE none == ""
<1>1. \A u, v : Or(u, v) = IF u # none THEN u ELSE v
  BY DEF Or
<1>2. \A value, fields : IsFirstKnown(value, fields) <=>
        \/ value = none /\ \A k \in DOMAIN fields : fields[k] = none
        \/ \E k \in DOMAIN fields : /\ value = fields[k] /\ value # none
                                    /\ \A j \in DOMAIN fields : j < k => fields[j] = none
  BY DEF IsFirstKnown
<1> HIDE DEF none
<1> DEFINE s == <<x, y, z>>
<1>3. DOMAIN s = {1, 2, 3} /\ s[1] = x /\ s[2] = y /\ s[3] = z
  OBVIOUS
<1> HIDE DEF s
<1>4. IsFirstKnown(Or(x, Or(y, z)), s)
  BY <1>1, <1>2, <1>3
<1> QED
  BY <1>4 DEF s

LEMMA FirstOfFour ==
    ASSUME NEW x, NEW y, NEW z, NEW w
    PROVE  IsFirstKnown(Or(x, Or(y, Or(z, w))), <<x, y, z, w>>)
<1> DEFINE none == ""
<1>1. \A u, v : Or(u, v) = IF u # none THEN u ELSE v
  BY DEF Or
<1>2. \A value, fields : IsFirstKnown(value, fields) <=>
        \/ value = none /\ \A k \in DOMAIN fields : fields[k] = none
        \/ \E k \in DOMAIN fields : /\ value = fields[k] /\ value # none
                                    /\ \A j \in DOMAIN fields : j < k => fields[j] = none
  BY DEF IsFirstKnown
<1> HIDE DEF none
<1> DEFINE s == <<x, y, z, w>>
<1>3. DOMAIN s = {1, 2, 3, 4} /\ s[1] = x /\ s[2] = y /\ s[3] = z /\ s[4] = w
  OBVIOUS
<1> HIDE DEF s
<1>4. IsFirstKnown(Or(x, Or(y, Or(z, w))), s)
  BY <1>1, <1>2, <1>3
<1> QED
  BY <1>4 DEF s

LEMMA OrIsAssociative ==
    ASSUME NEW x, NEW y, NEW z
    PROVE  Or(Or(x, y), z) = Or(x, Or(y, z))
  BY DEF Or

(* Whatever the databases answer, country, region and city of a hop are each what the
   first database of the field's chain has, in China and abroad: no condition under which
   lookup leaves a database out changes a field, but for dbip's region in China next to a
   city known without it (master/enrich.py, lookup and the module's docstring). *)
THEOREM ChainsAreFollowed ==
    ASSUME NEW a \in Answers
    PROVE  FieldsFollowChains(a)
<1> DEFINE dbipRegion == IF DbipIsSkipped(a) THEN "" ELSE a.dbip.region
<1>1. IsFirstKnown(Country(a), <<a.dbip.country, a.country, a.ip2region.country, a.qqwry.country>>)
  BY FirstOfFour DEF Country
<1>2. ASSUME Country(a) = "CN"
      PROVE  /\ IsFirstKnown(Place(a).city,
                    <<a.ip2region.city, a.qqwry.city, a.dbip.city, a.city.city>>)
             /\ IsFirstKnown(Place(a).region,
                    <<a.ip2region.region, a.qqwry.region, dbipRegion, a.city.region>>)
  <2>1. Place(a).city = Or(a.ip2region.city, Or(a.qqwry.city, Or(a.dbip.city, a.city.city)))
    BY <1>2, OrIsAssociative DEF Place, PlaceInChina
  <2>2. Place(a).region = Or(a.ip2region.region, Or(a.qqwry.region, Or(dbipRegion, a.city.region)))
    <3>1. CASE DbipIsSkipped(a)
      <4>1. Or(a.ip2region.city, a.qqwry.city) # ""
        BY <3>1 DEF DbipIsSkipped
      <4>2. Place(a).region = Or(Or(a.ip2region.region, a.qqwry.region), a.city.region)
        BY <1>2, <4>1 DEF Place, PlaceInChina
      <4>3. Or(dbipRegion, a.city.region) = a.city.region
        BY <3>1 DEF Or
      <4> HIDE DEF dbipRegion
      <4> QED
        BY <4>2, <4>3, OrIsAssociative
    <3>2. CASE ~DbipIsSkipped(a)
      <4>1. Or(a.ip2region.city, a.qqwry.city) = ""
        BY <1>2, <3>2 DEF DbipIsSkipped
      <4>2. Place(a).region =
              Or(Or(Or(a.ip2region.region, a.qqwry.region), a.dbip.region), a.city.region)
        BY <1>2, <4>1 DEF Place, PlaceInChina
      <4>3. dbipRegion = a.dbip.region
        BY <3>2
      <4> HIDE DEF dbipRegion
      <4> QED
        BY <4>2, <4>3, OrIsAssociative
    <3> HIDE DEF dbipRegion
    <3> QED
      BY <3>1, <3>2
  <2> HIDE DEF dbipRegion
  <2> QED
    BY <2>1, <2>2, FirstOfFour
<1>3. ASSUME Country(a) # "CN"
      PROVE  /\ IsFirstKnown(Place(a).city, <<a.dbip.city, a.city.city, a.ip2region.city>>)
             /\ IsFirstKnown(Place(a).region, <<a.dbip.region, a.city.region, a.ip2region.region>>)
  BY <1>3, FirstOfThree DEF Place, PlaceAbroad
<1> QED
  BY <1>1, <1>2, <1>3 DEF FieldsFollowChains

LEMMA StoredIsHops ==
    /\ \A path \in Paths : path # <<>> => Enriched(path) \in Stored
    /\ \A hops \in Stored : hops \in Seq(Hop)
<1>1. ASSUME NEW path \in Paths
      PROVE  path \in Seq(Answers) /\ Enriched(path) \in Seq(Hop) /\ Len(Enriched(path)) = Len(path)
  <2>1. path \in Seq(Answers)
    BY PublishAssumption
  <2> QED
    BY <2>1, LookupIsHop DEF Enriched
<1>2. ASSUME NEW path \in Paths, path # <<>> PROVE Enriched(path) \in Stored
  <2>1. Len(path) \in 1 .. Len(path) /\ Enriched(path) = SubSeq(Enriched(path), 1, Len(path))
    BY <1>1, <1>2
  <2> QED
    BY <2>1 DEF Stored
<1>3. ASSUME NEW hops \in Stored PROVE hops \in Seq(Hop)
  <2>1. PICK path \in Paths : \E n \in 1 .. Len(path) : hops = SubSeq(Enriched(path), 1, n)
    BY DEF Stored
  <2> QED
    BY <1>1, <2>1
<1> QED
  BY <1>2, <1>3

LEMMA LineIsKnown ==
    ASSUME NEW asns, NEW isp
    PROVE  DetectLineType(asns, isp) \in DOMAIN Quality
<1> DEFINE matching == {k \in DOMAIN LineRules : LineRules[k].asn \in asns}
<1>1. DOMAIN LineRules = 1 .. 5
  BY DEF LineRules
<1>2. \A k \in 1 .. 5 : LineRules[k].line \in DOMAIN Quality
  BY DEF LineRules, Quality
<1>3. \A i \in DOMAIN Backbone : Backbone[i].line \in DOMAIN Quality
  BY DEF Backbone, Quality
<1>4. "unknown" \in DOMAIN Quality
  BY DEF Quality
<1>5. ASSUME matching # {}
      PROVE  (CHOOSE k \in matching : \A j \in matching : k <= j) \in matching
  <2>1. \E k \in matching : \A j \in matching : k <= j
    BY <1>1, <1>5, EndsOfPlaces
  <2> QED
    BY <2>1
<1> QED
  BY <1>1, <1>2, <1>3, <1>4, <1>5 DEF DetectLineType

LEMMA ExitIsNamed ==
    ASSUME NEW hops \in Seq(Hop)
    PROVE  DetectExitCity(hops) \in STRING
<1> DEFINE inside == {k \in DOMAIN hops : hops[k].country = "CN" /\ hops[k].place # ""}
<1>1. DOMAIN hops = 1 .. Len(hops) /\ Len(hops) \in Nat
  OBVIOUS
<1> DEFINE last == CHOOSE k \in inside : \A j \in inside : j <= k
<1>2. ASSUME inside # {} PROVE last \in inside
  <2>1. \E k \in inside : \A j \in inside : j <= k
    BY <1>1, <1>2, EndsOfPlaces
  <2> QED
    BY <2>1
<1>3. DetectExitCity(hops) = IF inside = {} THEN "" ELSE hops[last].place
  BY DEF DetectExitCity
<1>4. inside \subseteq DOMAIN hops
  OBVIOUS
<1> HIDE DEF inside, last
<1>5. ASSUME NEW k \in DOMAIN hops PROVE hops[k].place \in STRING
  <2>1. hops[k] \in Hop
    OBVIOUS
  <2> QED
    BY <2>1 DEF Hop
<1> QED
  BY <1>2, <1>3, <1>4, <1>5, StringAssumption

LEMMA LabelOneIsLabel ==
    ASSUME NEW hops \in Seq(Hop), NEW isp, NEW at \in Nat
    PROVE  LabelOne(hops, isp, at) \in Label /\ LabelOne(hops, isp, at).at = at
<1>1. DetectLineType(Asns(hops), isp) \in DOMAIN Quality
  BY LineIsKnown
<1>2. \A line \in DOMAIN Quality : Quality[line] \in 0 .. 100
  BY DEF Quality
<1>3. \A S \in SUBSET DOMAIN hops : Cardinality(S) \in Nat
  <2>1. IsFiniteSet(DOMAIN hops)
    BY FS_Interval
  <2> QED
    BY <2>1, FS_Subset, FS_CardinalityType
<1> DEFINE cn == {k \in DOMAIN hops : hops[k].country = "CN"}
           overseas == {k \in DOMAIN hops : hops[k].country \notin {"", "CN"}}
<1>4. Cardinality(cn) \in Nat /\ Cardinality(overseas) \in Nat
  BY <1>3
<1> QED
  BY <1>1, <1>2, <1>4, ExitIsNamed DEF LabelOne, Label

----------------------------------------------------------------------------
(* Type correctness.  A job is never between two operators without one left to do, and
   a report that is being stored has hops. *)

TraceJob == [pc: {"idle", "snapshot", "recent", "queue"}, since: Int, todo: SUBSET Isp,
             cur: SUBSET Isp, ips: SUBSET Ip]
RelabelJob == [pc: {"idle", "recent", "fetch", "upsert"}, since: Int, todo: SUBSET Isp,
               cur: SUBSET Isp, ips: SUBSET Ip, ip: SUBSET Ip, label: Label]
ExportJob == [pc: {"idle", "pick", "save", "text", "find", "put", "return"}, todo: SUBSET Isp,
              cur: SUBSET Isp, batch: Batch, found: BOOLEAN, text: BOOLEAN, dns: BOOLEAN]

ClockTypes == now \in Nat /\ count \in [{"trace", "relabel", "export", "fault"} -> Nat]
TraceTypes ==
    /\ due \in Nat /\ open \subseteq Task /\ tj \in TraceJob
    /\ tj.pc = "snapshot" => tj.todo # {}
ReportTypes ==
    /\ sent \subseteq Report /\ traces \subseteq Trace
    /\ \A r \in sent : r.pc = "hops" => r.hops # <<>>
RelabelTypes ==
    /\ labels \in [Isp -> [Ip -> Label]] /\ rj \in RelabelJob
    /\ rj.pc = "recent" => rj.todo # {}
ExportTypes ==
    /\ snaps \subseteq [isp: Isp, ip: Ip, at: Nat]
    /\ file \in Batch /\ dns \in Batch /\ ej \in ExportJob
    /\ ej.pc \in {"pick", "text", "find"} => ej.todo # {}
TypeInv == ClockTypes /\ TraceTypes /\ ReportTypes /\ RelabelTypes /\ ExportTypes

LEMMA FirstIsMember ==
    ASSUME NEW todo \in SUBSET Isp, todo # {}
    PROVE  First(todo) \in todo
BY DEF First

LEMMA CountKept ==
    ASSUME ClockTypes, NEW what \in {"trace", "relabel", "export", "fault"}
    PROVE  /\ Count(what) => count' \in [{"trace", "relabel", "export", "fault"} -> Nat]
           /\ Fault => count' \in [{"trace", "relabel", "export", "fault"} -> Nat]
BY DEF ClockTypes, Count, Fault

LEMMA NextIspKeeps ==
    ASSUME NEW j, NEW pc, NEW idle
    PROVE  /\ j \in TraceJob /\ pc = "snapshot" /\ idle = IdleTrace =>
                /\ NextIsp(j, pc, idle) \in TraceJob
                /\ NextIsp(j, pc, idle).pc = "snapshot" => NextIsp(j, pc, idle).todo # {}
           /\ j \in RelabelJob /\ pc = "recent" /\ idle = IdleRelabel =>
                /\ NextIsp(j, pc, idle) \in RelabelJob
                /\ NextIsp(j, pc, idle).pc = "recent" => NextIsp(j, pc, idle).todo # {}
<1>1. IdleTrace \in TraceJob /\ IdleTrace.pc = "idle"
  BY DEF IdleTrace, TraceJob
<1>2. IdleRelabel \in RelabelJob /\ IdleRelabel.pc = "idle"
  BY DEF IdleRelabel, RelabelJob, Label
<1>3. ASSUME j \in TraceJob
      PROVE  LET k == [j EXCEPT !.pc = "snapshot", !.cur = {}, !.ips = {}]
             IN  k \in TraceJob /\ k.todo = j.todo
  BY <1>3 DEF TraceJob
<1>4. ASSUME j \in RelabelJob
      PROVE  LET k == [j EXCEPT !.pc = "recent", !.cur = {}, !.ips = {}]
             IN  k \in RelabelJob /\ k.todo = j.todo
  BY <1>4 DEF RelabelJob
<1> QED
  BY <1>1, <1>2, <1>3, <1>4 DEF NextIsp

LEMMA TraceStepTypes ==
    ASSUME TypeInv, TraceStart \/ TraceSnapshot \/ TraceRecent \/ TraceQueue
    PROVE  TypeInv'
<1> USE DEF TypeInv
<1>1. CASE TraceStart
  <2> DEFINE j == [IdleTrace EXCEPT !.pc = "snapshot", !.todo = Isp, !.since = now - 2 * Interval]
  <2>1. now - 2 * Interval \in Int /\ now + Interval \in Nat
    <3>1. now \in Nat /\ Interval \in Nat
      BY PublishAssumption DEF ClockTypes
    <3> QED
      BY <3>1
  <2>2. j \in TraceJob /\ j.todo # {}
    BY <2>1, PublishAssumption DEF IdleTrace, TraceJob
  <2>3. TraceTypes'
    BY <1>1, <2>1, <2>2 DEF TraceStart, TraceTypes
  <2>4. ClockTypes'
    BY <1>1, CountKept DEF TraceStart, ClockTypes
  <2> QED
    BY <1>1, <2>3, <2>4 DEF TraceStart, reportVars, relabelVars, exportVars,
                            ReportTypes, RelabelTypes, ExportTypes
<1>2. CASE TraceSnapshot
  <2> DEFINE i == First(tj.todo)
             ips == SnapshotIps(i, tj.since)
             j == [tj EXCEPT !.todo = @ \ {i}, !.cur = {i}, !.ips = ips]
  <2>1. i \in Isp /\ ips \subseteq Ip
    BY <1>2, FirstIsMember DEF TraceSnapshot, TraceTypes, TraceJob, SnapshotIps, ExportTypes
  <2> HIDE DEF i, ips
  <2>2. j \in TraceJob /\ [j EXCEPT !.pc = "recent"] \in TraceJob
    BY <2>1 DEF TraceTypes, TraceJob
  <2>3. tj' = NextIsp(j, "snapshot", IdleTrace) \/ tj' = [j EXCEPT !.pc = "recent"]
    BY <1>2 DEF TraceSnapshot, i, ips
  <2>4. tj' \in TraceJob /\ (tj'.pc = "snapshot" => tj'.todo # {})
    <3>1. [j EXCEPT !.pc = "recent"].pc = "recent"
      BY <2>2 DEF TraceJob
    <3> HIDE DEF j
    <3> QED
      BY <2>2, <2>3, <3>1, NextIspKeeps
  <2> QED
    BY <1>2, <2>4 DEF TraceSnapshot, reportVars, relabelVars, exportVars, TraceTypes,
                      ClockTypes, ReportTypes, RelabelTypes, ExportTypes
<1>3. CASE TraceRecent
  <2>1. PICK ips \in SUBSET tj.ips :
            tj' = NextIsp(tj, "snapshot", IdleTrace) \/ tj' = [tj EXCEPT !.pc = "queue", !.ips = ips]
    BY <1>3 DEF TraceRecent
  <2> DEFINE j == [tj EXCEPT !.pc = "queue", !.ips = ips]
  <2>2. j \in TraceJob /\ j.pc = "queue" /\ tj \in TraceJob
    BY <2>1 DEF TraceTypes, TraceJob
  <2>3. tj' = NextIsp(tj, "snapshot", IdleTrace) \/ tj' = j
    BY <2>1
  <2>4. tj' \in TraceJob /\ (tj'.pc = "snapshot" => tj'.todo # {})
    <3> HIDE DEF j
    <3> QED
      BY <2>2, <2>3, NextIspKeeps
  <2> QED
    BY <1>3, <2>4 DEF TraceRecent, reportVars, relabelVars, exportVars, TraceTypes,
                      ClockTypes, ReportTypes, RelabelTypes, ExportTypes
<1>4. CASE TraceQueue
  <2>1. TraceRows \subseteq Task
    BY DEF TraceRows, Task, TraceTypes, TraceJob, ClockTypes
  <2>2. tj' \in TraceJob /\ (tj'.pc = "snapshot" => tj'.todo # {})
    BY <1>4, NextIspKeeps DEF TraceQueue, TraceTypes
  <2> QED
    BY <1>4, <2>1, <2>2 DEF TraceQueue, reportVars, relabelVars, exportVars, TraceTypes,
                            ClockTypes, ReportTypes, RelabelTypes, ExportTypes
<1> QED
  BY <1>1, <1>2, <1>3, <1>4

LEMMA TraceOfIsTrace ==
    ASSUME TypeInv, NEW r \in sent, NEW hops \in Stored
    PROVE  TraceOf(r, hops) \in Trace
BY DEF TraceOf, Trace, TypeInv, ReportTypes, Report, Task

LEMMA ReportStepTypes ==
    ASSUME TypeInv, TraceDone \/ ReportLost \/ ReportMarkDone \/ ReportInsertHops
    PROVE  TypeInv'
<1> USE DEF TypeInv
<1>1. CASE TraceDone
  <2>1. PICK t \in open, path \in Paths \cup {<<>>} :
            sent' = sent \cup {[task |-> t, at |-> now, hops |-> path, pc |-> "sent"]}
    BY <1>1 DEF TraceDone
  <2> DEFINE new == [task |-> t, at |-> now, hops |-> path, pc |-> "sent"]
  <2>2. new \in Report /\ new.pc = "sent"
    BY <2>1 DEF Report, TraceTypes, ClockTypes
  <2> HIDE DEF new
  <2>3. sent' \subseteq Report /\ \A r \in sent' : r.pc = "hops" => r.hops # <<>>
    BY <2>1, <2>2 DEF ReportTypes, new
  <2> QED
    BY <1>1, <2>3 DEF TraceDone, traceVars, relabelVars, exportVars, TraceTypes,
                      ClockTypes, ReportTypes, RelabelTypes, ExportTypes
<1>2. CASE ReportLost
  <2>1. ClockTypes'
    BY <1>2, CountKept DEF ReportLost, ClockTypes
  <2> QED
    BY <1>2, <2>1 DEF ReportLost, traceVars, relabelVars, exportVars, TraceTypes,
                      ReportTypes, RelabelTypes, ExportTypes
<1>3. CASE ReportMarkDone
  <2>1. PICK r \in sent :
            /\ open' = open \ {r.task}
            /\ sent' = (sent \ {r}) \cup (IF r.hops = <<>> THEN {} ELSE {[r EXCEPT !.pc = "hops"]})
    BY <1>3 DEF ReportMarkDone
  <2> DEFINE new == [r EXCEPT !.pc = "hops"]
  <2>2. new \in Report /\ new.hops = r.hops
    BY DEF ReportTypes, Report
  <2> HIDE DEF new
  <2>3. sent' \subseteq sent \/ (sent' \subseteq sent \cup {new} /\ r.hops # <<>>)
    BY <2>1 DEF new
  <2>4. sent' \subseteq Report /\ \A x \in sent' : x.pc = "hops" => x.hops # <<>>
    BY <2>2, <2>3 DEF ReportTypes
  <2> QED
    BY <1>3, <2>1, <2>4 DEF ReportMarkDone, relabelVars, exportVars, TraceTypes,
                            ClockTypes, ReportTypes, RelabelTypes, ExportTypes
<1>4. CASE ReportInsertHops
  <2>1. PICK r \in sent : /\ r.pc = "hops" /\ sent' = sent \ {r}
                          /\ traces' = traces \cup {TraceOf(r, Enriched(r.hops))}
    BY <1>4 DEF ReportInsertHops
  <2>2. r.hops \in Paths \cup {<<>>} /\ r.hops # <<>>
    BY <2>1 DEF ReportTypes, Report
  <2>3. TraceOf(r, Enriched(r.hops)) \in Trace
    BY <2>2, StoredIsHops, TraceOfIsTrace
  <2> QED
    BY <1>4, <2>1, <2>3 DEF ReportInsertHops, traceVars, relabelVars, exportVars, TraceTypes,
                            ClockTypes, ReportTypes, RelabelTypes, ExportTypes
<1> QED
  BY <1>1, <1>2, <1>3, <1>4

LEMMA NextLabelKeeps ==
    ASSUME NEW j \in RelabelJob
    PROVE  /\ NextLabel(j) \in RelabelJob
           /\ NextLabel(j).pc = "recent" => NextLabel(j).todo # {}
           /\ NextLabel(j).pc # "upsert"
<1>1. [j EXCEPT !.pc = "fetch"] \in RelabelJob /\ [j EXCEPT !.pc = "fetch"].pc = "fetch"
  BY DEF RelabelJob
<1>2. NextIsp(j, "recent", IdleRelabel).pc # "upsert"
  BY DEF NextIsp, IdleRelabel, RelabelJob
<1> QED
  BY <1>1, <1>2, NextIspKeeps DEF NextLabel

(* What relabel_round reads of a traceroute is a label. *)
LEMMA FetchedIsLabel ==
    ASSUME TypeInv, NEW i, NEW p, NEW since, NEW tr \in LatestTraces(i, p, since)
    PROVE  /\ tr \in traces /\ tr.isp = i /\ tr.ip = p /\ tr.at \in Nat
           /\ LabelOne(tr.hops, i, tr.at) \in Label
           /\ LabelOne(tr.hops, i, tr.at).at = tr.at
<1>1. tr \in traces /\ tr.isp = i /\ tr.ip = p
  BY DEF LatestTraces
<1>2. tr.hops \in Seq(Hop) /\ tr.at \in Nat
  BY <1>1, StoredIsHops DEF TypeInv, ReportTypes, Trace
<1> QED
  BY <1>1, <1>2, LabelOneIsLabel

LEMMA RelabelStepTypes ==
    ASSUME TypeInv, RelabelStart \/ RelabelRecent \/ RelabelFetch \/ RelabelUpsert
    PROVE  TypeInv'
<1> USE DEF TypeInv
<1>1. CASE RelabelStart
  <2> DEFINE j == [IdleRelabel EXCEPT !.pc = "recent", !.todo = Isp, !.since = now - 2 * Interval]
  <2>1. now - 2 * Interval \in Int
    BY PublishAssumption DEF ClockTypes
  <2>2. j \in RelabelJob /\ j.todo # {}
    BY <2>1, PublishAssumption DEF IdleRelabel, RelabelJob, Label
  <2>3. RelabelTypes'
    BY <1>1, <2>2 DEF RelabelStart, RelabelTypes
  <2>4. ClockTypes'
    BY <1>1, CountKept DEF RelabelStart, ClockTypes
  <2> QED
    BY <1>1, <2>3, <2>4 DEF RelabelStart, traceVars, reportVars, exportVars,
                            TraceTypes, ReportTypes, ExportTypes
<1>2. CASE RelabelRecent
  <2> DEFINE i == First(rj.todo)
             ips == RecentTraceIps(i, now - 2 * Interval)
             j == [rj EXCEPT !.todo = @ \ {i}, !.cur = {i}, !.ips = ips]
  <2>1. i \in Isp /\ ips \subseteq Ip
    BY <1>2, FirstIsMember DEF RelabelRecent, RelabelTypes, RelabelJob, RecentTraceIps,
                               ReportTypes, Trace
  <2> HIDE DEF i, ips
  <2>2. j \in RelabelJob
    BY <2>1 DEF RelabelTypes, RelabelJob
  <2>3. rj' = NextLabel(j)
    BY <1>2 DEF RelabelRecent, i, ips
  <2> HIDE DEF j
  <2>4. RelabelTypes'
    BY <1>2, <2>2, <2>3, NextLabelKeeps DEF RelabelRecent, RelabelTypes
  <2> QED
    BY <1>2, <2>4 DEF RelabelRecent, traceVars, reportVars, exportVars, TraceTypes,
                      ClockTypes, ReportTypes, ExportTypes
<1>3. CASE RelabelFetch
  <2>1. PICK i \in rj.cur, p \in rj.ips :
            \/ rj' = NextLabel([rj EXCEPT !.ips = @ \ {p}])
            \/ \E tr \in LatestTraces(i, p, rj.since) :
                  rj' = [rj EXCEPT !.pc = "upsert", !.ips = @ \ {p}, !.ip = {p},
                                   !.label = LabelOne(tr.hops, i, tr.at)]
    BY <1>3 DEF RelabelFetch
  <2>2. rj' \in RelabelJob /\ (rj'.pc = "recent" => rj'.todo # {})
    <3>1. CASE rj' = NextLabel([rj EXCEPT !.ips = @ \ {p}])
      <4> DEFINE j == [rj EXCEPT !.ips = @ \ {p}]
      <4>1. j \in RelabelJob
        BY DEF RelabelTypes, RelabelJob
      <4>2. rj' = NextLabel(j)
        BY <3>1
      <4> HIDE DEF j
      <4> QED
        BY <4>1, <4>2, NextLabelKeeps
    <3>2. ASSUME NEW tr \in LatestTraces(i, p, rj.since),
                 rj' = [rj EXCEPT !.pc = "upsert", !.ips = @ \ {p}, !.ip = {p},
                                  !.label = LabelOne(tr.hops, i, tr.at)]
          PROVE  rj' \in RelabelJob /\ (rj'.pc = "recent" => rj'.todo # {})
      <4>1. LabelOne(tr.hops, i, tr.at) \in Label
        BY FetchedIsLabel
      <4> QED
        BY <3>2, <4>1 DEF RelabelTypes, RelabelJob
    <3> QED
      BY <2>1, <3>1, <3>2
  <2> QED
    BY <1>3, <2>2 DEF RelabelFetch, traceVars, reportVars, exportVars, TraceTypes,
                      ClockTypes, ReportTypes, RelabelTypes, ExportTypes
<1>4. CASE RelabelUpsert
  <2> DEFINE j == [rj EXCEPT !.ip = {}, !.label = NoLabel]
  <2>1. j \in RelabelJob /\ rj.label \in Label
    BY DEF RelabelTypes, RelabelJob, Label
  <2>2. rj' = NextLabel(j)
    BY <1>4 DEF RelabelUpsert
  <2>3. PICK i \in rj.cur, p \in rj.ip : labels' = [labels EXCEPT ![i][p] = rj.label]
    BY <1>4 DEF RelabelUpsert
  <2>4. labels' \in [Isp -> [Ip -> Label]]
    BY <2>1, <2>3 DEF RelabelTypes, RelabelJob
  <2> HIDE DEF j
  <2>5. RelabelTypes'
    BY <2>1, <2>2, <2>4, NextLabelKeeps DEF RelabelTypes
  <2> QED
    BY <1>4, <2>5 DEF RelabelUpsert, traceVars, reportVars, exportVars, TraceTypes,
                      ClockTypes, ReportTypes, ExportTypes
<1> QED
  BY <1>1, <1>2, <1>3, <1>4

LEMMA ExportJobKept ==
    ASSUME NEW j \in ExportJob
    PROVE  /\ ToDns(j) \in ExportJob /\ ToDns(j).todo # {}
           /\ EndExport(j) \in ExportJob /\ EndExport(j).pc = "return"
           /\ AfterDns(j) \in ExportJob
           /\ AfterDns(j).pc \in {"pick", "text", "find"} => AfterDns(j).todo # {}
<1>1. ToDns(j) \in ExportJob /\ ToDns(j).todo # {}
  BY PublishAssumption DEF ToDns, ExportJob
<1>2. EndExport(j) \in ExportJob /\ EndExport(j).pc = "return"
  BY DEF EndExport, ExportJob
<1>3. ASSUME j.todo # {}
      PROVE  LET k == [j EXCEPT !.pc = "find", !.cur = {}] IN k \in ExportJob /\ k.todo # {}
  BY <1>3 DEF ExportJob
<1> QED
  BY <1>1, <1>2, <1>3 DEF AfterDns

(* What a step of the export needs to keep its types. *)
LEMMA ExportTypesKept ==
    ASSUME TypeInv, ClockTypes', ExportTypes',
           UNCHANGED <<traceVars, reportVars, relabelVars>>
    PROVE  TypeInv'
BY DEF TypeInv, traceVars, reportVars, relabelVars, TraceTypes, ReportTypes, RelabelTypes

LEMMA TextStepTypes ==
    ASSUME TypeInv, TextWrite \/ TextWriteMerged \/ TextFail
    PROVE  TypeInv'
<1>1. ej \in ExportJob /\ file \in Batch /\ ej.batch \in Batch
  BY DEF TypeInv, ExportTypes, ExportJob
<1>2. CASE TextWrite
  <2> DEFINE i == First(ej.todo)
             j == [ej EXCEPT !.todo = @ \ {i}]
  <2>1. i \in ej.todo /\ i \in Isp
    BY <1>1, <1>2, FirstIsMember DEF TextWrite, TypeInv, ExportTypes, ExportJob
  <2> HIDE DEF i
  <2>2. file' \in Batch
    BY <1>1, <1>2, <2>1 DEF TextWrite, Batch, i
  <2>3. j \in ExportJob /\ j.todo = ej.todo \ {i}
    BY <1>1 DEF ExportJob
  <2>4. ej' = IF ej.todo = {i} THEN ToDns(ej) ELSE j
    BY <1>2 DEF TextWrite, i
  <2> HIDE DEF j
  <2>5. ej' \in ExportJob /\ ej'.todo # {}
    BY <1>1, <2>1, <2>3, <2>4, ExportJobKept
  <2>6. ExportTypes' /\ ClockTypes'
    BY <1>2, <2>2, <2>5 DEF TextWrite, TypeInv, ExportTypes, ClockTypes
  <2> QED
    BY <1>2, <2>6, ExportTypesKept DEF TextWrite
<1>3. CASE TextWriteMerged
  <2>1. ej' \in ExportJob /\ ej'.todo # {}
    BY <1>1, <1>3, ExportJobKept DEF TextWriteMerged
  <2>2. ExportTypes' /\ ClockTypes'
    BY <1>1, <1>3, <2>1 DEF TextWriteMerged, TypeInv, ExportTypes, ClockTypes
  <2> QED
    BY <1>3, <2>2, ExportTypesKept DEF TextWriteMerged
<1>4. CASE TextFail
  <2> DEFINE j == [ej EXCEPT !.text = FALSE]
  <2>1. j \in ExportJob
    BY <1>1 DEF ExportJob
  <2>2. ej' = ToDns(j)
    BY <1>4 DEF TextFail
  <2> HIDE DEF j
  <2>3. ej' \in ExportJob /\ ej'.todo # {}
    BY <2>1, <2>2, ExportJobKept
  <2>4. ClockTypes'
    BY <1>4, CountKept DEF TextFail, TypeInv, ClockTypes
  <2>5. ExportTypes'
    BY <1>4, <2>3 DEF TextFail, TypeInv, ExportTypes
  <2> QED
    BY <1>4, <2>4, <2>5, ExportTypesKept DEF TextFail
<1> QED
  BY <1>2, <1>3, <1>4

(* What a request does to the record sets, whether it is answered or not. *)
LEMMA DnsChange ==
    ASSUME TypeInv, DnsPut \/ DnsFail
    PROVE  /\ dns' \in Batch
           /\ UNCHANGED dns \/ (ej.pc = "put" /\ \E i \in ej.cur : Serve(i))
           /\ \A i \in Isp : dns'[i] = dns[i] \/ dns'[i] \subseteq ej.batch[i]
<1>1. ej.cur \subseteq Isp /\ dns \in Batch /\ ej.batch \in Batch
  BY DEF TypeInv, ExportTypes, ExportJob
<1>2. UNCHANGED dns \/ (ej.pc = "put" /\ \E i \in ej.cur : Serve(i))
  BY DEF DnsPut, DnsFail
<1>3. CASE UNCHANGED dns
  BY <1>1, <1>2, <1>3
<1>4. ASSUME NEW i \in ej.cur, Serve(i)
      PROVE  /\ dns' \in Batch
             /\ \A x \in Isp : dns'[x] = dns[x] \/ dns'[x] \subseteq ej.batch[x]
  <2>1. PICK records \in SUBSET ej.batch[i] : dns' = [dns EXCEPT ![i] = records]
    BY <1>4 DEF Serve
  <2> QED
    BY <1>1, <2>1 DEF Batch
<1> QED
  BY <1>2, <1>3, <1>4

LEMMA DnsStepTypes ==
    ASSUME TypeInv, DnsFind \/ DnsPut \/ DnsFail
    PROVE  TypeInv'
<1>1. ej \in ExportJob /\ dns \in Batch /\ ej.batch \in Batch
  BY DEF TypeInv, ExportTypes, ExportJob
<1>2. CASE DnsFind
  <2> DEFINE i == First(ej.todo)
             j == [ej EXCEPT !.todo = @ \ {i}]
  <2>1. i \in Isp
    BY <1>1, <1>2, FirstIsMember DEF DnsFind, TypeInv, ExportTypes, ExportJob
  <2> HIDE DEF i
  <2>2. j \in ExportJob /\ j.dns = ej.dns /\ j.dns \in BOOLEAN
    BY <1>1 DEF ExportJob
  <2>3. \/ ej' = AfterDns(j)
        \/ ej' = [j EXCEPT !.pc = "put", !.cur = {i}, !.found = dns[i] # {}]
        \/ ej' = [j EXCEPT !.pc = "put", !.cur = {i}, !.found = FALSE, !.dns = FALSE]
    BY <1>2 DEF DnsFind, i
  <2>4. ClockTypes'
    BY <1>2, CountKept DEF DnsFind, TypeInv, ClockTypes
  <2> HIDE DEF j
  <2>5. CASE ej' = AfterDns(j)
    <3>1. ej' \in ExportJob /\ (ej'.pc \in {"pick", "text", "find"} => ej'.todo # {})
      BY <2>2, <2>5, ExportJobKept
    <3>2. ExportTypes'
      BY <1>2, <3>1 DEF DnsFind, TypeInv, ExportTypes
    <3> QED
      BY <1>2, <2>4, <3>2, ExportTypesKept DEF DnsFind
  <2>6. CASE ej' # AfterDns(j)
    <3> DEFINE found == [j EXCEPT !.pc = "put", !.cur = {i}, !.found = dns[i] # {}]
               missed == [j EXCEPT !.pc = "put", !.cur = {i}, !.found = FALSE, !.dns = FALSE]
    <3>0. (dns[i] # {}) \in BOOLEAN
      OBVIOUS
    <3>a. found \in ExportJob /\ found.pc = "put"
      BY <2>1, <2>2, <3>0 DEF ExportJob
    <3>b. missed \in ExportJob /\ missed.pc = "put"
      BY <2>1, <2>2 DEF ExportJob
    <3>c. ej' = found \/ ej' = missed
      BY <2>3, <2>6
    <3>1. ej' \in ExportJob /\ ej'.pc = "put"
      BY <3>a, <3>b, <3>c
    <3>2. ExportTypes'
      BY <1>2, <3>1 DEF DnsFind, TypeInv, ExportTypes
    <3> QED
      BY <1>2, <2>4, <3>2, ExportTypesKept DEF DnsFind
  <2> QED
    BY <2>5, <2>6
<1>3. CASE DnsPut
  <2>1. PICK i \in ej.cur :
          ej' = AfterDns(ej) \/ ej' = AfterDns([ej EXCEPT !.dns = FALSE])
    BY <1>3 DEF DnsPut
  <2>3. dns' \in Batch
    BY <1>3, DnsChange
  <2>4. ej' \in ExportJob /\ (ej'.pc \in {"pick", "text", "find"} => ej'.todo # {})
    <3> DEFINE j == [ej EXCEPT !.dns = FALSE]
    <3>1. j \in ExportJob
      BY <1>1 DEF ExportJob
    <3>2. ej' = AfterDns(ej) \/ ej' = AfterDns(j)
      BY <2>1
    <3> HIDE DEF j
    <3> QED
      BY <1>1, <3>1, <3>2, ExportJobKept
  <2>5. ClockTypes'
    BY <1>3, CountKept DEF DnsPut, TypeInv, ClockTypes
  <2>6. ExportTypes'
    BY <1>3, <2>3, <2>4 DEF DnsPut, TypeInv, ExportTypes
  <2> QED
    BY <1>3, <2>5, <2>6, ExportTypesKept DEF DnsPut
<1>4. CASE DnsFail
  <2> DEFINE j == [ej EXCEPT !.dns = FALSE]
  <2>1. j \in ExportJob
    BY <1>1 DEF ExportJob
  <2>2. ej' = EndExport(j)
    BY <1>4 DEF DnsFail
  <2> HIDE DEF j
  <2>3. ej' \in ExportJob /\ ej'.pc = "return"
    BY <2>1, <2>2, ExportJobKept
  <2>4. ClockTypes'
    BY <1>4, CountKept DEF DnsFail, TypeInv, ClockTypes
  <2>5. ExportTypes'
    BY <1>4, <2>3, DnsChange DEF DnsFail, TypeInv, ExportTypes
  <2> QED
    BY <1>4, <2>4, <2>5, ExportTypesKept DEF DnsFail
<1> QED
  BY <1>2, <1>3, <1>4

LEMMA IdleExportIsJob == IdleExport \in ExportJob /\ IdleExport.pc = "idle"
BY DEF IdleExport, ExportJob, Batch

LEMMA ExportStepTypes ==
    ASSUME TypeInv, ExportStart \/ ExportPick \/ ExportSave \/ ExportReturn
    PROVE  TypeInv'
<1>1. ej \in ExportJob /\ ej.batch \in Batch
  BY DEF TypeInv, ExportTypes, ExportJob
<1>2. CASE ExportStart
  <2> DEFINE j == [IdleExport EXCEPT !.pc = "pick", !.todo = Isp]
  <2>1. j \in ExportJob /\ j.todo # {}
    BY IdleExportIsJob, PublishAssumption DEF ExportJob
  <2>2. ClockTypes'
    BY <1>2, CountKept DEF ExportStart, TypeInv, ClockTypes
  <2>3. ExportTypes'
    BY <1>2, <2>1 DEF ExportStart, TypeInv, ExportTypes
  <2> QED
    BY <1>2, <2>2, <2>3, ExportTypesKept DEF ExportStart
<1>3. CASE ExportPick
  <2> DEFINE i == First(ej.todo)
  <2>1. i \in ej.todo /\ i \in Isp
    BY <1>1, <1>3, FirstIsMember DEF ExportPick, TypeInv, ExportTypes, ExportJob
  <2> HIDE DEF i
  <2>2. PICK found \in [Ip -> Rows \cup {NoRow}] : \E picks \in PickBest(found, SeenLabels(i)) :
           ej' = [ej EXCEPT !.pc = IF ej.todo = {i} THEN "save" ELSE "pick",
                            !.todo = @ \ {i}, !.batch[i] = picks]
    BY <1>3 DEF ExportPick, i
  <2>3. PICK picks \in PickBest(found, SeenLabels(i)) :
           ej' = [ej EXCEPT !.pc = IF ej.todo = {i} THEN "save" ELSE "pick",
                            !.todo = @ \ {i}, !.batch[i] = picks]
    BY <2>2
  <2>4. picks \subseteq Ip
    BY <2>3 DEF PickBest
  <2>5. [ej.batch EXCEPT ![i] = picks] \in Batch
    BY <1>1, <2>1, <2>4 DEF Batch
  <2>6. ej' \in ExportJob /\ (ej'.pc \in {"pick", "text", "find"} => ej'.todo # {})
    BY <1>1, <2>1, <2>3, <2>5 DEF ExportJob
  <2>7. ClockTypes' /\ ExportTypes'
    BY <1>3, <2>6 DEF ExportPick, TypeInv, ClockTypes, ExportTypes
  <2> QED
    BY <1>3, <2>7, ExportTypesKept DEF ExportPick
<1>4. CASE ExportSave
  <2>1. ej' \in ExportJob /\ ej'.todo # {}
    BY <1>1, <1>4, PublishAssumption DEF ExportSave, ExportJob
  <2>2. BatchRows \subseteq [isp: Isp, ip: Ip, at: Nat]
    BY DEF BatchRows, SnapshotRows, TypeInv, ClockTypes
  <2>3. ClockTypes' /\ ExportTypes'
    BY <1>4, <2>1, <2>2 DEF ExportSave, TypeInv, ClockTypes, ExportTypes
  <2> QED
    BY <1>4, <2>3, ExportTypesKept DEF ExportSave
<1>5. CASE ExportReturn
  <2>1. ClockTypes' /\ ExportTypes'
    BY <1>5, IdleExportIsJob DEF ExportReturn, TypeInv, ClockTypes, ExportTypes
  <2> QED
    BY <1>5, <2>1, ExportTypesKept DEF ExportReturn
<1> QED
  BY <1>2, <1>3, <1>4, <1>5

LEMMA CrashTypes ==
    ASSUME TypeInv, Crash
    PROVE  TypeInv'
<1>1. ClockTypes'
  BY CountKept DEF Crash, TypeInv, ClockTypes
<1>2. TraceTypes'
  <2>1. TraceRows \subseteq Task
    BY DEF TraceRows, Task, TypeInv, TraceTypes, TraceJob, ClockTypes
  <2>2. open' \subseteq Task
    BY <2>1 DEF Crash, TypeInv, TraceTypes
  <2>3. IdleTrace \in TraceJob /\ IdleTrace.pc = "idle"
    BY DEF IdleTrace, TraceJob
  <2> QED
    BY <2>2, <2>3 DEF Crash, TypeInv, TraceTypes, ClockTypes
<1>3. ReportTypes'
  <2> DEFINE cut == {r \in sent : r.pc = "hops"}
  <2>1. sent' = sent \ cut
    BY DEF Crash
  <2>2. PICK kept \in [cut -> Stored \cup {<<>>}] :
           traces' = traces \cup {TraceOf(r, kept[r]) : r \in {x \in cut : kept[x] # <<>>}}
    BY DEF Crash
  <2>3. \A r \in cut : kept[r] # <<>> => TraceOf(r, kept[r]) \in Trace
    BY TraceOfIsTrace
  <2>4. traces' \subseteq Trace
    BY <2>2, <2>3 DEF TypeInv, ReportTypes
  <2> QED
    BY <2>1, <2>4 DEF TypeInv, ReportTypes
<1>4. RelabelTypes'
  <2>1. IdleRelabel \in RelabelJob /\ IdleRelabel.pc = "idle"
    BY DEF IdleRelabel, RelabelJob, Label
  <2> QED
    BY <2>1 DEF Crash, TypeInv, RelabelTypes
<1>5. ExportTypes'
  <2>1. BatchRows \subseteq [isp: Isp, ip: Ip, at: Nat]
    BY DEF BatchRows, SnapshotRows, TypeInv, ClockTypes
  <2>2. snaps' \subseteq [isp: Isp, ip: Ip, at: Nat]
    BY <2>1 DEF Crash, TypeInv, ExportTypes
  <2> QED
    BY <2>2, IdleExportIsJob DEF Crash, TypeInv, ExportTypes
<1> QED
  BY <1>1, <1>2, <1>3, <1>4, <1>5 DEF TypeInv

LEMMA TypesHold == Spec => []TypeInv
<1>1. Init => TypeInv
  <2> SUFFICES ASSUME Init PROVE TypeInv
    OBVIOUS
  <2>1. ClockTypes
    BY DEF Init, ClockTypes
  <2>2. TraceTypes
    BY DEF Init, TraceTypes, TraceJob, IdleTrace
  <2>3. ReportTypes
    BY DEF Init, ReportTypes
  <2>4. RelabelTypes
    BY DEF Init, RelabelTypes, RelabelJob, IdleRelabel, Label
  <2>5. ExportTypes
    BY IdleExportIsJob DEF Init, ExportTypes, Batch
  <2> QED
    BY <2>1, <2>2, <2>3, <2>4, <2>5 DEF TypeInv
<1>2. TypeInv /\ [Next]_vars => TypeInv'
  <2> SUFFICES ASSUME TypeInv, [Next]_vars PROVE TypeInv'
    OBVIOUS
  <2>1. CASE Tick \/ UNCHANGED vars
    BY <2>1 DEF Tick, vars, traceVars, reportVars, relabelVars, exportVars, TypeInv, ClockTypes,
                TraceTypes, ReportTypes, RelabelTypes, ExportTypes
  <2> QED
    BY <2>1, CrashTypes, TraceStepTypes, ReportStepTypes, RelabelStepTypes, ExportStepTypes,
       TextStepTypes, DnsStepTypes DEF Next
<1> QED
  BY <1>1, <1>2, PTL DEF Spec

(* Every variable keeps its type: labels carry the quality of their line, and what is
   stored of a traceroute is the lookup of a part of a path (master/storage.py). *)
THEOREM TypeCorrect == Spec => []TypeOK
<1>1. TypeInv => TypeOK
  BY DEF TypeInv, ClockTypes, TraceTypes, ReportTypes, RelabelTypes, ExportTypes,
         TraceJob, RelabelJob, ExportJob, TypeOK
<1> QED
  BY <1>1, TypesHold, PTL

----------------------------------------------------------------------------
(* Published addresses.  Once saved, a batch is recorded for as long as it is being
   exported, and every exporter is as far as its list of operators says. *)

PublishedInv ==
    /\ PublishedIsRecorded
    /\ ej.pc \in Exporting => \A i \in Isp : ej.batch[i] \subseteq Recorded(i)

LEMMA RecordedKept ==
    ASSUME PublishedInv, snaps \subseteq snaps', UNCHANGED <<file, dns>>,
           ej'.pc \in Exporting => ej.pc \in Exporting /\ ej'.batch = ej.batch
    PROVE  PublishedInv'
<1>1. \A i \in Isp : Recorded(i) \subseteq Recorded(i)'
  BY DEF Recorded
<1> QED
  BY <1>1 DEF PublishedInv, PublishedIsRecorded, Recorded

(* The batch stays as it was picked while it is exported. *)
LEMMA ExportStepBatch ==
    ASSUME TypeInv, TextWrite \/ TextWriteMerged \/ TextFail \/ DnsFind \/ DnsPut \/ DnsFail
    PROVE  ej.pc \in Exporting /\ ej'.pc \in Exporting /\ ej'.batch = ej.batch
<1>1. ej \in ExportJob
  BY DEF TypeInv, ExportTypes
<1>2. ASSUME NEW j \in ExportJob
      PROVE  /\ ToDns(j).batch = j.batch /\ EndExport(j).batch = j.batch
             /\ AfterDns(j).batch = j.batch
             /\ {ToDns(j).pc, EndExport(j).pc, AfterDns(j).pc} \subseteq Exporting
  BY DEF ToDns, EndExport, AfterDns, ExportJob, Exporting
<1>3. ASSUME NEW i
      PROVE  LET j == [ej EXCEPT !.todo = @ \ {i}] IN
                /\ j \in ExportJob /\ j.batch = ej.batch /\ j.pc = ej.pc
  BY <1>1 DEF ExportJob
<1>4. /\ [ej EXCEPT !.text = FALSE] \in ExportJob /\ [ej EXCEPT !.text = FALSE].batch = ej.batch
      /\ [ej EXCEPT !.dns = FALSE] \in ExportJob /\ [ej EXCEPT !.dns = FALSE].batch = ej.batch
  BY <1>1 DEF ExportJob
<1>5. CASE TextWrite \/ TextWriteMerged \/ TextFail
  <2> DEFINE j == [ej EXCEPT !.todo = @ \ {First(ej.todo)}]
             k == [ej EXCEPT !.text = FALSE]
  <2>1. j.batch = ej.batch /\ j.pc = ej.pc /\ k \in ExportJob /\ k.batch = ej.batch
    BY <1>3, <1>4
  <2>2. ej' \in {ToDns(ej), j, ToDns(k)} /\ ej.pc \in Exporting
    BY <1>5 DEF TextWrite, TextWriteMerged, TextFail, Exporting
  <2> HIDE DEF j, k
  <2> QED
    BY <1>1, <1>2, <2>1, <2>2
<1>6. CASE DnsFind
  <2> DEFINE i == First(ej.todo)
             j == [ej EXCEPT !.todo = @ \ {i}]
  <2>1. j \in ExportJob /\ j.batch = ej.batch
    BY <1>3
  <2>2. \/ ej' = AfterDns(j)
        \/ ej' = [j EXCEPT !.pc = "put", !.cur = {i}, !.found = dns[i] # {}]
        \/ ej' = [j EXCEPT !.pc = "put", !.cur = {i}, !.found = FALSE, !.dns = FALSE]
    BY <1>6 DEF DnsFind
  <2> HIDE DEF j
  <2>3. ej'.batch = j.batch /\ ej'.pc \in Exporting
    BY <1>2, <2>1, <2>2 DEF ExportJob, Exporting
  <2> QED
    BY <1>6, <2>1, <2>3 DEF DnsFind, Exporting
<1>7. CASE DnsPut \/ DnsFail
  <2> DEFINE j == [ej EXCEPT !.dns = FALSE]
  <2>1. j \in ExportJob /\ j.batch = ej.batch
    BY <1>4
  <2>2. ej' \in {AfterDns(ej), AfterDns(j), EndExport(j)} /\ ej.pc \in Exporting
    BY <1>7 DEF DnsPut, DnsFail, Exporting
  <2> HIDE DEF j
  <2> QED
    BY <1>1, <1>2, <2>1, <2>2
<1> QED
  BY <1>5, <1>6, <1>7

LEMMA PublishedStep ==
    ASSUME TypeInv, PublishedInv, [Next]_vars
    PROVE  PublishedInv'
<1>1. CASE \/ Tick \/ UNCHANGED vars
           \/ TraceStart \/ TraceSnapshot \/ TraceRecent \/ TraceQueue
           \/ TraceDone \/ ReportLost \/ ReportMarkDone \/ ReportInsertHops
           \/ RelabelStart \/ RelabelRecent \/ RelabelFetch \/ RelabelUpsert
  <2>1. UNCHANGED exportVars
    BY <1>1 DEF Tick, vars, TraceStart, TraceSnapshot, TraceRecent, TraceQueue, TraceDone,
                ReportLost, ReportMarkDone, ReportInsertHops, RelabelStart, RelabelRecent,
                RelabelFetch, RelabelUpsert
  <2> QED
    BY <2>1, RecordedKept DEF exportVars
<1>2. CASE ExportStart \/ ExportPick \/ ExportReturn
  <2>1. ej'.pc \in {"idle", "pick", "save"}
    <3>1. CASE ExportStart \/ ExportReturn
      BY <3>1, IdleExportIsJob DEF ExportStart, ExportReturn, ExportJob
    <3>2. CASE ExportPick
      BY <3>2 DEF ExportPick, TypeInv, ExportTypes, ExportJob
    <3> QED
      BY <1>2, <3>1, <3>2
  <2> QED
    BY <1>2, <2>1, RecordedKept DEF ExportStart, ExportPick, ExportReturn, Exporting
<1>3. CASE ExportSave
  <2>1. ej'.batch = ej.batch /\ ej.batch \in Batch
    BY <1>3 DEF ExportSave, TypeInv, ExportTypes, ExportJob
  <2>2. snaps' = snaps \cup BatchRows
    BY <1>3 DEF ExportSave
  <2>3. ASSUME NEW i \in Isp PROVE ej.batch[i] \subseteq Recorded(i)'
    <3> SUFFICES ASSUME NEW p \in ej.batch[i] PROVE p \in Recorded(i)'
      OBVIOUS
    <3> DEFINE row == [isp |-> i, ip |-> p, at |-> now]
    <3>1. row \in BatchRows
      BY <2>1 DEF BatchRows, SnapshotRows, Batch
    <3> QED
      BY <2>2, <3>1 DEF Recorded
  <2>4. \A i \in Isp : Recorded(i) \subseteq Recorded(i)'
    BY <2>2 DEF Recorded
  <2> QED
    BY <1>3, <2>1, <2>3, <2>4 DEF ExportSave, PublishedInv, PublishedIsRecorded, Recorded
<1>4. CASE TextFail \/ DnsFind
  <2>1. snaps' = snaps /\ UNCHANGED <<file, dns>>
    BY <1>4 DEF TextFail, DnsFind
  <2> QED
    BY <1>4, <2>1, ExportStepBatch, RecordedKept
<1>5. CASE TextWrite \/ TextWriteMerged
  <2>1. ej.pc \in Exporting /\ ej'.batch = ej.batch /\ UNCHANGED <<snaps, dns>>
    BY <1>5, ExportStepBatch DEF TextWrite, TextWriteMerged
  <2>2. \A i \in Isp : file'[i] = file[i] \/ file'[i] = ej.batch[i]
    BY <1>5 DEF TextWrite, TextWriteMerged, TypeInv, ExportTypes, Batch
  <2> QED
    BY <2>1, <2>2 DEF PublishedInv, PublishedIsRecorded, Recorded
<1>6. CASE DnsPut \/ DnsFail
  <2>1. ej.pc \in Exporting /\ ej'.batch = ej.batch /\ UNCHANGED <<snaps, file>>
    BY <1>6, ExportStepBatch DEF DnsPut, DnsFail
  <2>2. \A i \in Isp : dns'[i] = dns[i] \/ dns'[i] \subseteq ej.batch[i]
    BY <1>6, DnsChange
  <2> QED
    BY <2>1, <2>2 DEF PublishedInv, PublishedIsRecorded, Recorded
<1>7. CASE Crash
  <2>1. ej'.pc \notin Exporting /\ snaps \subseteq snaps' /\ UNCHANGED <<file, dns>>
    BY <1>7 DEF Crash, IdleExport, Exporting
  <2> QED
    BY <2>1, RecordedKept
<1> QED
  BY <1>1, <1>2, <1>3, <1>4, <1>5, <1>6, <1>7 DEF Next

LEMMA PublishedHolds == Spec => []PublishedInv
<1>1. Init => PublishedInv
  BY DEF Init, PublishedInv, PublishedIsRecorded, IdleExport, Exporting
<1>2. TypeInv /\ PublishedInv /\ [Next]_vars => PublishedInv'
  BY PublishedStep
<1> QED
  BY <1>1, <1>2, TypesHold, PTL DEF Spec

(* Nothing reaches a file or DNS that was not saved first, whatever fails and whenever
   the master is killed (master/scheduler.py, run_export_round). *)
THEOREM RecordedBeforePublished == Spec => []PublishedIsRecorded
<1>1. PublishedInv => PublishedIsRecorded
  BY DEF PublishedInv
<1> QED
  BY <1>1, PublishedHolds, PTL

----------------------------------------------------------------------------
(* Exporters.  Each is done with the operators it has taken off its list, unless it
   has failed before. *)

Written(i) == file[i] = ej.batch[i]
Served(i) ==
    ej.batch[i] # {} =>
        /\ dns[i] \subseteq ej.batch[i]
        /\ Cardinality(dns[i]) = AtMost(RecordsPerLine, Cardinality(ej.batch[i]))
ExporterInv ==
    /\ ej.pc = "text" => \A i \in Isp \ ej.todo : Written(i)
    /\ ej.pc \in {"find", "put", "return"} /\ ej.text => \A i \in Isp : Written(i)
    /\ ej.pc = "find" /\ ej.dns => \A i \in Isp \ ej.todo : Served(i)
    /\ ej.pc = "put" => ej.cur # {}
    /\ ej.pc = "put" /\ ej.dns => \A i \in Isp \ (ej.todo \cup ej.cur) : Served(i)
    /\ ej.pc = "put" => \E i \in Isp : ej.cur = {i} /\ ej.batch[i] # {}
    /\ ej.pc = "return" /\ ej.dns => \A i \in Isp : Served(i)

(* The fields of a job at the end of an operator, and of a run. *)
LEMMA ExportJobFields ==
    ASSUME NEW j \in ExportJob
    PROVE  /\ LET k == ToDns(j) IN
                k.pc = "find" /\ k.todo = Isp /\ k.batch = j.batch /\ k.text = j.text /\ k.dns = j.dns
           /\ LET k == EndExport(j) IN
                k.pc = "return" /\ k.batch = j.batch /\ k.text = j.text /\ k.dns = j.dns
           /\ LET k == AfterDns(j) IN
                /\ k.batch = j.batch /\ k.text = j.text /\ k.dns = j.dns
                /\ IF j.todo = {} THEN k.pc = "return" ELSE k.pc = "find" /\ k.todo = j.todo
BY DEF ToDns, EndExport, AfterDns, ExportJob

LEMMA ExporterText ==
    ASSUME TypeInv, ExporterInv, TextWrite \/ TextWriteMerged \/ TextFail
    PROVE  ExporterInv'
<1>1. ej \in ExportJob /\ file \in Batch /\ ej.batch \in Batch /\ ej.pc = "text"
  BY DEF TypeInv, ExportTypes, ExportJob, TextWrite, TextWriteMerged, TextFail
<1>2. CASE TextWrite
  <2> DEFINE i == First(ej.todo)
             j == [ej EXCEPT !.todo = @ \ {i}]
  <2>1. i \in ej.todo /\ i \in Isp
    BY <1>1, FirstIsMember DEF TypeInv, ExportTypes, ExportJob
  <2>2. file' = [file EXCEPT ![i] = ej.batch[i]] /\ ej' = IF ej.todo = {i} THEN ToDns(ej) ELSE j
    BY <1>2 DEF TextWrite
  <2>3. j.pc = "text" /\ j.todo = ej.todo \ {i} /\ j.batch = ej.batch
    BY <1>1 DEF ExportJob
  <2> HIDE DEF i, j
  <2>4. ej'.batch = ej.batch
    BY <1>1, <2>2, <2>3, ExportJobFields
  <2>5. \A x \in Isp : x = i \/ Written(x) => Written(x)'
    BY <1>1, <2>1, <2>2, <2>4 DEF Written, Batch
  <2>6. \A x \in (Isp \ ej.todo) \cup {i} : Written(x)'
    BY <1>1, <2>1, <2>5 DEF ExporterInv
  <2>7. CASE ej.todo = {i}
    <3>1. ej'.pc = "find" /\ ej'.todo = Isp
      BY <1>1, <2>2, <2>7, ExportJobFields
    <3> QED
      BY <2>6, <2>7, <3>1 DEF ExporterInv
  <2>8. CASE ej.todo # {i}
    <3>1. ej'.pc = "text" /\ ej'.todo = ej.todo \ {i}
      BY <2>2, <2>3, <2>8
    <3> QED
      BY <2>6, <3>1 DEF ExporterInv
  <2> QED
    BY <2>7, <2>8
<1>3. CASE TextWriteMerged
  <2>1. ej' = ToDns(ej) /\ file' = ej.batch
    BY <1>3 DEF TextWriteMerged
  <2>2. ej'.pc = "find" /\ ej'.todo = Isp /\ ej'.batch = ej.batch
    BY <1>1, <2>1, ExportJobFields
  <2> QED
    BY <2>1, <2>2 DEF ExporterInv, Written
<1>4. CASE TextFail
  <2> DEFINE j == [ej EXCEPT !.text = FALSE]
  <2>1. j \in ExportJob /\ j.text = FALSE
    BY <1>1 DEF ExportJob
  <2>2. ej' = ToDns(j)
    BY <1>4 DEF TextFail
  <2> HIDE DEF j
  <2>3. ej'.pc = "find" /\ ej'.todo = Isp /\ ej'.text = FALSE
    BY <2>1, <2>2, ExportJobFields
  <2> QED
    BY <2>3 DEF ExporterInv
<1> QED
  BY <1>2, <1>3, <1>4

(* The DNS exporter leaves the outcome of the other one alone. *)
LEMMA DnsStepText ==
    ASSUME TypeInv, DnsFind \/ DnsPut \/ DnsFail
    PROVE  ej'.text = ej.text
<1>1. ej \in ExportJob
  BY DEF TypeInv, ExportTypes
<1> DEFINE failed == [ej EXCEPT !.dns = FALSE]
<1>2. failed \in ExportJob /\ failed.text = ej.text
  BY <1>1 DEF ExportJob
<1>3. CASE DnsFind
  <2> DEFINE i == First(ej.todo)
             j == [ej EXCEPT !.todo = @ \ {i}]
             found == [j EXCEPT !.pc = "put", !.cur = {i}, !.found = dns[i] # {}]
             missed == [j EXCEPT !.pc = "put", !.cur = {i}, !.found = FALSE, !.dns = FALSE]
  <2>1. ej' \in {AfterDns(j), found, missed}
    BY <1>3 DEF DnsFind
  <2> HIDE DEF i
  <2>2. j \in ExportJob /\ j.text = ej.text
    BY <1>1 DEF ExportJob
  <2>3. found.text = j.text /\ missed.text = j.text
    BY <2>2 DEF ExportJob
  <2> HIDE DEF j, found, missed
  <2> QED
    BY <2>1, <2>2, <2>3, ExportJobFields
<1>4. CASE DnsPut \/ DnsFail
  <2>1. ej' \in {AfterDns(ej), AfterDns(failed), EndExport(failed)}
    BY <1>4 DEF DnsPut, DnsFail
  <2> HIDE DEF failed
  <2> QED
    BY <1>1, <1>2, <2>1, ExportJobFields
<1> QED
  BY <1>3, <1>4

LEMMA ExporterDns ==
    ASSUME TypeInv, ExporterInv, DnsFind \/ DnsPut \/ DnsFail
    PROVE  ExporterInv'
<1>1. ej \in ExportJob /\ dns \in Batch /\ ej.batch \in Batch /\ file' = file
  BY DEF TypeInv, ExportTypes, ExportJob, DnsFind, DnsPut, DnsFail
<1>2. ej'.batch = ej.batch /\ ej'.text = ej.text
  BY ExportStepBatch, DnsStepText
<1>3. ej.text => \A i \in Isp : Written(i)
  BY DEF ExporterInv, DnsFind, DnsPut, DnsFail
<1>4. ej'.text => \A i \in Isp : Written(i)'
  BY <1>1, <1>2, <1>3 DEF Written
<1>5. CASE DnsFind
  <2> DEFINE i == First(ej.todo)
             j == [ej EXCEPT !.todo = @ \ {i}]
             found == [j EXCEPT !.pc = "put", !.cur = {i}, !.found = dns[i] # {}]
             missed == [j EXCEPT !.pc = "put", !.cur = {i}, !.found = FALSE, !.dns = FALSE]
  <2>1. i \in ej.todo /\ i \in Isp /\ ej.pc = "find" /\ dns' = dns
    BY <1>1, <1>5, FirstIsMember DEF DnsFind, TypeInv, ExportTypes, ExportJob
  <2>2. \/ ej.batch[i] = {} /\ ej' = AfterDns(j)
        \/ ej.batch[i] # {} /\ (ej' = found \/ ej' = missed)
    BY <1>5 DEF DnsFind
  <2> HIDE DEF i
  <2>3. j \in ExportJob /\ j.todo = ej.todo \ {i} /\ j.dns = ej.dns
    BY <1>1 DEF ExportJob
  <2>4. /\ found.pc = "put" /\ found.todo = j.todo /\ found.cur = {i} /\ found.dns = j.dns
        /\ missed.pc = "put" /\ missed.cur = {i} /\ missed.dns = FALSE
    BY <2>3 DEF ExportJob
  <2> HIDE DEF j, found, missed
  <2>5. \A x \in Isp : Served(x) => Served(x)'
    BY <1>2, <2>1 DEF Served
  <2>6. ej.dns => \A x \in Isp \ ej.todo : Served(x)'
    BY <2>1, <2>5 DEF ExporterInv
  <2>7. CASE ej.batch[i] = {} /\ ej' = AfterDns(j)
    <3>1. ej'.batch[i] = {}
      BY <1>2, <2>7
    <3>2. ej.dns => \A x \in Isp \ j.todo : Served(x)'
      <4> SUFFICES ASSUME ej.dns, NEW x \in Isp, x \notin j.todo PROVE Served(x)'
        OBVIOUS
      <4>1. CASE x = i
        BY <3>1, <4>1 DEF Served
      <4>2. CASE x # i
        BY <2>3, <2>6, <4>2
      <4> QED
        BY <4>1, <4>2
    <3>3. IF j.todo = {} THEN ej'.pc = "return" ELSE ej'.pc = "find" /\ ej'.todo = j.todo
      BY <2>3, <2>7, ExportJobFields
    <3>4. ej'.dns = ej.dns
      BY <2>3, <2>7, ExportJobFields
    <3> QED
      BY <1>4, <3>2, <3>3, <3>4 DEF ExporterInv
  <2>8. CASE ej.batch[i] # {} /\ ej' = found
    BY <1>2, <1>4, <2>1, <2>3, <2>4, <2>6, <2>8 DEF ExporterInv
  <2>9. CASE ej.batch[i] # {} /\ ej' = missed
    BY <1>2, <1>4, <2>1, <2>4, <2>9 DEF ExporterInv
  <2> QED
    BY <2>2, <2>7, <2>8, <2>9
<1>6. CASE DnsPut
  <2>1. ej.pc = "put"
    BY <1>6 DEF DnsPut
  <2>2. PICK i \in Isp : ej.cur = {i}
    BY <2>1 DEF ExporterInv
  <2> DEFINE j == [ej EXCEPT !.dns = FALSE]
             good == Serve(i)
  <2>3. (good /\ ej' = AfterDns(ej)) \/ ej' = AfterDns(j)
    BY <1>6, <2>2 DEF DnsPut
  <2>4. j \in ExportJob /\ j.dns = FALSE
    BY <1>1 DEF ExportJob
  <2> HIDE DEF j
  <2>5. CASE good /\ ej' = AfterDns(ej)
    <3>1. Served(i)'
      BY <1>1, <1>2, <2>2, <2>5 DEF Served, Serve, Batch
    <3>2. \A x \in Isp : x # i /\ Served(x) => Served(x)'
      BY <1>1, <1>2, <2>2, <2>5 DEF Served, Serve, Batch
    <3>3. ej.dns => \A x \in Isp \ ej.todo : Served(x)'
      BY <2>1, <2>2, <3>1, <3>2 DEF ExporterInv
    <3>4. /\ IF ej.todo = {} THEN ej'.pc = "return" ELSE ej'.pc = "find" /\ ej'.todo = ej.todo
          /\ ej'.dns = ej.dns
      BY <1>1, <2>5, ExportJobFields
    <3> QED
      BY <1>4, <3>3, <3>4 DEF ExporterInv
  <2>6. CASE ej' = AfterDns(j)
    <3>1. ej'.pc \in {"return", "find"} /\ ej'.dns = FALSE
      BY <2>4, <2>6, ExportJobFields
    <3> QED
      BY <1>4, <3>1 DEF ExporterInv
  <2> QED
    BY <2>3, <2>5, <2>6
<1>7. CASE DnsFail
  <2> DEFINE j == [ej EXCEPT !.dns = FALSE]
  <2>1. j \in ExportJob /\ j.dns = FALSE
    BY <1>1 DEF ExportJob
  <2>2. ej' = EndExport(j)
    BY <1>7 DEF DnsFail
  <2> HIDE DEF j
  <2>3. ej'.pc = "return" /\ ej'.dns = FALSE
    BY <2>1, <2>2, ExportJobFields
  <2> QED
    BY <1>4, <2>3 DEF ExporterInv
<1> QED
  BY <1>5, <1>6, <1>7

LEMMA ExporterStep ==
    ASSUME TypeInv, ExporterInv, [Next]_vars
    PROVE  ExporterInv'
<1>1. CASE \/ Tick \/ UNCHANGED vars
           \/ TraceStart \/ TraceSnapshot \/ TraceRecent \/ TraceQueue
           \/ TraceDone \/ ReportLost \/ ReportMarkDone \/ ReportInsertHops
           \/ RelabelStart \/ RelabelRecent \/ RelabelFetch \/ RelabelUpsert
  <2>1. UNCHANGED exportVars
    BY <1>1 DEF Tick, vars, TraceStart, TraceSnapshot, TraceRecent, TraceQueue, TraceDone,
                ReportLost, ReportMarkDone, ReportInsertHops, RelabelStart, RelabelRecent,
                RelabelFetch, RelabelUpsert
  <2> QED
    BY <2>1 DEF exportVars, ExporterInv, Written, Served
<1>2. CASE ExportStart \/ ExportPick \/ ExportReturn \/ Crash
  <2>1. ej'.pc \in {"idle", "pick", "save"}
    <3>1. CASE ExportStart \/ ExportReturn \/ Crash
      BY <3>1, IdleExportIsJob DEF ExportStart, ExportReturn, Crash, ExportJob, IdleExport
    <3>2. CASE ExportPick
      BY <3>2 DEF ExportPick, TypeInv, ExportTypes, ExportJob
    <3> QED
      BY <1>2, <3>1, <3>2
  <2> QED
    BY <2>1 DEF ExporterInv
<1>3. CASE ExportSave
  <2>1. ej'.pc = "text" /\ ej'.todo = Isp
    BY <1>3 DEF ExportSave, TypeInv, ExportTypes, ExportJob
  <2> QED
    BY <2>1 DEF ExporterInv
<1> QED
  BY <1>1, <1>2, <1>3, ExporterText, ExporterDns DEF Next

LEMMA ExportersHold == Spec => []ExporterInv
<1>1. Init => ExporterInv
  BY DEF Init, ExporterInv, IdleExport
<1>2. TypeInv /\ ExporterInv /\ [Next]_vars => ExporterInv'
  BY ExporterStep
<1> QED
  BY <1>1, <1>2, TypesHold, PTL DEF Spec

(* At the end of a run each exporter that met no failure has published the whole batch,
   whatever became of the other one (master/scheduler.py, run_export_round). *)
THEOREM ExportersIndependent == Spec => []ExportersFailAlone
<1>1. ExporterInv => ExportersFailAlone
  BY DEF ExporterInv, ExportersFailAlone, Written, Served
<1> QED
  BY <1>1, ExportersHold, PTL

----------------------------------------------------------------------------
(* The feed.  The steps that touch it, and what each does to it. *)

FeedStep ==
    [Public!FDNext]_<<[i \in Isp |-> Recorded(i)],
                      IF ej.pc \in Exporting THEN {ej.batch} ELSE {}, file, dns>>

(* Snapshots are only added; an offer lasts, or is withdrawn. *)
LEMMA FeedRecords ==
    ASSUME snaps \subseteq snaps', UNCHANGED <<file, dns>>,
           \/ ej'.pc \notin Exporting
           \/ ej.pc \notin Exporting /\ \A i \in Isp : ej'.batch[i] \subseteq Recorded(i)'
    PROVE  Public!Record
<1>1. \A i \in Isp : Recorded(i) \subseteq Recorded(i)'
  BY DEF Recorded
<1>2. CASE ej'.pc \notin Exporting
  BY <1>1, <1>2 DEF Public!Record
<1>3. CASE ej'.pc \in Exporting
  BY <1>1, <1>3 DEF Public!Record
<1> QED
  BY <1>2, <1>3

LEMMA FeedWrites ==
    ASSUME TypeInv, TextWrite \/ TextWriteMerged
    PROVE  Public!Write
<1>1. ej.batch \in Batch /\ file \in Batch
  BY DEF TypeInv, ExportTypes, ExportJob
<1>2. ej.pc \in Exporting /\ ej'.batch = ej.batch /\ UNCHANGED <<snaps, dns>>
  BY ExportStepBatch DEF TextWrite, TextWriteMerged
<1>3. \E J \in SUBSET Isp : file' = [i \in Isp |-> IF i \in J THEN ej.batch[i] ELSE file[i]]
  <2>1. CASE TextWrite
    <3> DEFINE x == First(ej.todo)
    <3>1. x \in Isp /\ file' = [file EXCEPT ![x] = ej.batch[x]]
      BY <2>1, FirstIsMember DEF TextWrite, TypeInv, ExportTypes, ExportJob
    <3> HIDE DEF x
    <3>2. file' = [i \in Isp |-> IF i \in {x} THEN ej.batch[i] ELSE file[i]]
      BY <1>1, <3>1 DEF Batch
    <3> QED
      BY <3>1, <3>2
  <2>2. CASE TextWriteMerged
    <3>1. file' = ej.batch
      BY <2>2 DEF TextWriteMerged
    <3>2. file' = [i \in Isp |-> IF i \in Isp THEN ej.batch[i] ELSE file[i]]
      BY <1>1, <3>1 DEF Batch
    <3> QED
      BY <3>2
  <2> QED
    BY <2>1, <2>2
<1>4. ej'.pc \in Exporting
  BY ExportStepBatch
<1> QED
  BY <1>2, <1>3, <1>4 DEF Public!Write, Recorded

LEMMA FeedServes ==
    ASSUME TypeInv, ExporterInv, DnsPut \/ DnsFail
    PROVE  Public!Serve \/ UNCHANGED <<[i \in Isp |-> Recorded(i)],
                IF ej.pc \in Exporting THEN {ej.batch} ELSE {}, file, dns>>
<1>1. /\ ej.pc \in Exporting /\ ej'.pc \in Exporting /\ ej'.batch = ej.batch
      /\ UNCHANGED <<snaps, file>>
  BY ExportStepBatch DEF DnsPut, DnsFail
<1>2. CASE UNCHANGED dns
  BY <1>1, <1>2 DEF Recorded
<1>3. CASE ej.pc = "put" /\ \E i \in ej.cur : Serve(i)
  <2>1. PICK i \in Isp : ej.batch[i] # {} /\ Serve(i)
    BY <1>3 DEF ExporterInv
  <2>2. PICK records \in SUBSET ej.batch[i] :
          /\ Cardinality(records) = AtMost(RecordsPerLine, Cardinality(ej.batch[i]))
          /\ dns' = [dns EXCEPT ![i] = records]
    BY <2>1 DEF Serve
  <2>0. \A S : Public!Cardinality(S) = Cardinality(S)
    BY Zenon DEF Public!Cardinality, Cardinality
  <2>3. Public!Cardinality(records) = IF Public!Cardinality(ej.batch[i]) > RecordsPerLine
                                      THEN RecordsPerLine ELSE Public!Cardinality(ej.batch[i])
    BY <2>0, <2>2 DEF AtMost
  <2> QED
    BY <1>1, <2>1, <2>2, <2>3 DEF Public!Serve, Recorded
<1> QED
  BY <1>2, <1>3, DnsChange

LEMMA FeedSimulation ==
    ASSUME TypeInv, PublishedInv, PublishedInv', ExporterInv, [Next]_vars
    PROVE  FeedStep
<1>1. CASE \/ Tick \/ UNCHANGED vars
           \/ TraceStart \/ TraceSnapshot \/ TraceRecent \/ TraceQueue
           \/ TraceDone \/ ReportLost \/ ReportMarkDone \/ ReportInsertHops
           \/ RelabelStart \/ RelabelRecent \/ RelabelFetch \/ RelabelUpsert
  <2>1. UNCHANGED exportVars
    BY <1>1 DEF Tick, vars, TraceStart, TraceSnapshot, TraceRecent, TraceQueue, TraceDone,
                ReportLost, ReportMarkDone, ReportInsertHops, RelabelStart, RelabelRecent,
                RelabelFetch, RelabelUpsert
  <2> QED
    BY <2>1 DEF exportVars, FeedStep, Recorded
<1>2. CASE ExportStart \/ ExportPick \/ ExportReturn \/ Crash
  <2>1. ej'.pc \notin Exporting
    <3>1. CASE ExportStart \/ ExportReturn \/ Crash
      BY <3>1, IdleExportIsJob DEF ExportStart, ExportReturn, Crash, ExportJob, Exporting
    <3>2. CASE ExportPick
      BY <3>2 DEF ExportPick, TypeInv, ExportTypes, ExportJob, Exporting
    <3> QED
      BY <1>2, <3>1, <3>2
  <2>2. snaps \subseteq snaps' /\ UNCHANGED <<file, dns>>
    BY <1>2 DEF ExportStart, ExportPick, ExportReturn, Crash
  <2> QED
    BY <2>1, <2>2, FeedRecords DEF FeedStep, Public!FDNext
<1>3. CASE ExportSave
  <2>1. ej.pc \notin Exporting /\ snaps \subseteq snaps' /\ UNCHANGED <<file, dns>>
    BY <1>3 DEF ExportSave, Exporting
  <2>2. ej'.pc \in Exporting => \A i \in Isp : ej'.batch[i] \subseteq Recorded(i)'
    BY DEF PublishedInv
  <2> QED
    BY <2>1, <2>2, FeedRecords DEF FeedStep, Public!FDNext
<1>4. CASE TextWrite \/ TextWriteMerged
  BY <1>4, FeedWrites DEF FeedStep, Public!FDNext
<1>5. CASE TextFail \/ DnsFind
  <2>1. /\ ej.pc \in Exporting /\ ej'.pc \in Exporting /\ ej'.batch = ej.batch
        /\ UNCHANGED <<snaps, file, dns>>
    BY <1>5, ExportStepBatch DEF TextFail, DnsFind
  <2> QED
    BY <2>1 DEF FeedStep, Recorded
<1>6. CASE DnsPut \/ DnsFail
  BY <1>6, FeedServes DEF FeedStep, Public!FDNext
<1> QED
  BY <1>1, <1>2, <1>3, <1>4, <1>5, <1>6 DEF Next

(* Those who read the files and DNS see whole batches, recorded before, each only until it
   is withdrawn: for any number of operators and addresses, and whatever fails or is killed
   (master/scheduler.py, run_export_round; master/exporters). *)
THEOREM FeedIsKept == Spec => ReadersSeeBatches
<1>1. Init => Public!FDInit
  BY DEF Init, Public!FDInit, Public!Nothing, Recorded, IdleExport, Exporting
<1>2. TypeInv /\ PublishedInv /\ PublishedInv' /\ ExporterInv /\ [Next]_vars => FeedStep
  BY FeedSimulation
<1> QED
  BY <1>1, <1>2, TypesHold, PublishedHolds, ExportersHold, PTL
  DEF Spec, ReadersSeeBatches, Public!FDSpec, FeedStep

----------------------------------------------------------------------------
(* Labels.  What relabel_round is about to store it has read off a traceroute, one no
   older than the one behind the label it replaces; no other job writes labels. *)

Earned(i, p, label) ==
    \E tr \in traces : tr.isp = i /\ tr.ip = p /\ label = LabelOne(tr.hops, i, tr.at)
Fetched(i, p) ==
    /\ rj.cur = {i} /\ rj.ip = {p}
    /\ Earned(i, p, rj.label)
    /\ rj.label.at >= labels[i][p].at
LabelInv ==
    /\ LabelsAreEarned
    /\ rj.pc = "fetch" => \E i \in Isp : rj.cur = {i}
    /\ rj.pc = "upsert" => \E i \in Isp : \E p \in Ip : Fetched(i, p)

LEMMA LabelAge ==
    /\ NoLabel.at = -1
    /\ \A label \in Label : label.at \in Int
<1>1. NoLabel.at = -1
  BY DEF NoLabel
<1>2. \A label \in Label : label = NoLabel \/ label.at \in Nat
  BY DEF Label
<1> QED
  BY <1>1, <1>2

(* Traceroutes are only ever added, and a label read off one stays read off it. *)
LEMMA LabelKept ==
    ASSUME LabelInv, traces \subseteq traces', labels' = labels,
           rj' = rj \/ rj'.pc = "idle"
    PROVE  LabelInv'
<1>1. \A i, p, label : Earned(i, p, label) => Earned(i, p, label)'
  BY DEF Earned
<1>2. LabelsAreEarned'
  BY <1>1 DEF LabelInv, LabelsAreEarned, Earned
<1>3. CASE rj' = rj
  BY <1>1, <1>2, <1>3 DEF LabelInv, Fetched
<1>4. CASE rj'.pc = "idle"
  BY <1>2, <1>4 DEF LabelInv
<1> QED
  BY <1>3, <1>4

LEMMA NextLabelFetches ==
    ASSUME NEW j \in RelabelJob, NEW i, j.cur = {i}
    PROVE  /\ NextLabel(j).pc # "upsert"
           /\ NextLabel(j).pc = "fetch" => NextLabel(j).cur = {i}
<1>1. [j EXCEPT !.pc = "fetch"].cur = j.cur
  BY DEF RelabelJob
<1>2. NextIsp(j, "recent", IdleRelabel).pc \in {"idle", "recent"}
  BY DEF NextIsp, IdleRelabel, RelabelJob
<1> QED
  BY <1>1, <1>2, NextLabelKeeps DEF NextLabel

LEMMA LabelFetch ==
    ASSUME TypeInv, LabelInv, RelabelFetch
    PROVE  LabelInv'
<1>1. rj \in RelabelJob /\ UNCHANGED <<labels, traces>> /\ labels \in [Isp -> [Ip -> Label]]
  BY DEF TypeInv, RelabelTypes, RelabelFetch, reportVars
<1>2. LabelsAreEarned'
  BY <1>1 DEF LabelInv, LabelsAreEarned
<1>3. PICK i \in Isp : rj.cur = {i}
  BY DEF LabelInv, RelabelFetch
<1>4. PICK p \in rj.ips :
          \/ rj' = NextLabel([rj EXCEPT !.ips = @ \ {p}])
          \/ \E tr \in LatestTraces(i, p, rj.since) :
                rj' = [rj EXCEPT !.pc = "upsert", !.ips = @ \ {p}, !.ip = {p},
                                 !.label = LabelOne(tr.hops, i, tr.at)]
  BY <1>3 DEF RelabelFetch
<1>5. p \in Ip
  BY <1>1 DEF RelabelJob
<1>6. CASE rj' = NextLabel([rj EXCEPT !.ips = @ \ {p}])
  <2> DEFINE j == [rj EXCEPT !.ips = @ \ {p}]
  <2>1. j \in RelabelJob /\ j.cur = {i}
    BY <1>1, <1>3 DEF RelabelJob
  <2>2. rj' = NextLabel(j)
    BY <1>6
  <2> HIDE DEF j
  <2>3. rj'.pc # "upsert" /\ (rj'.pc = "fetch" => rj'.cur = {i})
    BY <2>1, <2>2, NextLabelFetches
  <2> QED
    BY <1>2, <2>3 DEF LabelInv
<1>7. ASSUME NEW tr \in LatestTraces(i, p, rj.since),
             rj' = [rj EXCEPT !.pc = "upsert", !.ips = @ \ {p}, !.ip = {p},
                              !.label = LabelOne(tr.hops, i, tr.at)]
      PROVE  LabelInv'
  <2> DEFINE label == LabelOne(tr.hops, i, tr.at)
  <2>1. /\ tr \in traces /\ tr.isp = i /\ tr.ip = p
        /\ label.at = tr.at /\ tr.at \in Nat
    BY FetchedIsLabel
  <2> HIDE DEF label
  <2>2. rj'.pc = "upsert" /\ rj'.cur = {i} /\ rj'.ip = {p} /\ rj'.label = label
    BY <1>1, <1>3, <1>7 DEF RelabelJob, label
  <2>3. Earned(i, p, rj.label)'
    BY <1>1, <2>1, <2>2 DEF Earned, label
  <2>4. tr.at >= labels[i][p].at
    <3>1. CASE labels[i][p] = NoLabel
      <4>1. labels[i][p].at = -1
        BY <3>1, LabelAge
      <4> QED
        BY <2>1, <4>1
    <3>2. CASE labels[i][p] # NoLabel
      <4>1. PICK u \in traces : u.isp = i /\ u.ip = p /\ labels[i][p] = LabelOne(u.hops, i, u.at)
        BY <1>5, <3>2 DEF LabelInv, LabelsAreEarned
      <4>2. u.hops \in Seq(Hop) /\ u.at \in Nat
        BY <4>1, StoredIsHops DEF TypeInv, ReportTypes, Trace
      <4>3. labels[i][p].at = u.at
        BY <4>1, <4>2, LabelOneIsLabel
      <4>4. u.at <= tr.at
        BY <4>1 DEF LatestTraces
      <4> QED
        BY <4>2, <4>3, <4>4, <2>1
    <3> QED
      BY <3>1, <3>2
  <2>5. Fetched(i, p)'
    BY <1>1, <2>1, <2>2, <2>3, <2>4 DEF Fetched
  <2> QED
    BY <1>2, <1>5, <2>2, <2>5 DEF LabelInv
<1> QED
  BY <1>4, <1>6, <1>7

LEMMA LabelUpsert ==
    ASSUME TypeInv, LabelInv, RelabelUpsert
    PROVE  /\ LabelInv'
           /\ \A i \in Isp, p \in Ip : labels'[i][p].at >= labels[i][p].at
<1>1. rj \in RelabelJob /\ traces' = traces /\ labels \in [Isp -> [Ip -> Label]]
  BY DEF TypeInv, RelabelTypes, RelabelUpsert, reportVars
<1>2. PICK i \in Isp : \E p \in Ip : Fetched(i, p)
  BY DEF LabelInv, RelabelUpsert
<1>3. PICK p \in Ip : Fetched(i, p)
  BY <1>2
<1>4. labels' = [labels EXCEPT ![i][p] = rj.label]
  BY <1>3 DEF Fetched, RelabelUpsert
<1>5. labels'[i][p] = rj.label
  BY <1>1, <1>4
<1>6. \A x \in Isp, y \in Ip : labels'[x][y] = labels[x][y] \/ (x = i /\ y = p)
  BY <1>1, <1>4
<1>7. LabelsAreEarned'
  BY <1>1, <1>3, <1>5, <1>6 DEF LabelInv, LabelsAreEarned, Fetched, Earned
<1>8. \A x \in Isp, y \in Ip : labels'[x][y].at >= labels[x][y].at
  <2>1. \A x \in Isp, y \in Ip : labels[x][y].at \in Int
    BY <1>1, LabelAge
  <2> QED
    BY <1>3, <1>5, <1>6, <2>1 DEF Fetched
<1> DEFINE j == [rj EXCEPT !.ip = {}, !.label = NoLabel]
<1>9. j \in RelabelJob /\ j.cur = {i}
  BY <1>1, <1>3 DEF RelabelJob, Fetched, Label
<1>10. rj' = NextLabel(j)
  BY DEF RelabelUpsert
<1> HIDE DEF j
<1>11. rj'.pc # "upsert" /\ (rj'.pc = "fetch" => rj'.cur = {i})
  BY <1>9, <1>10, NextLabelFetches
<1> QED
  BY <1>7, <1>8, <1>11 DEF LabelInv

LEMMA LabelStep ==
    ASSUME TypeInv, LabelInv, [Next]_vars
    PROVE  LabelInv' /\ (\A i \in Isp, p \in Ip : labels'[i][p].at >= labels[i][p].at)
<1>1. \A i \in Isp, p \in Ip : labels[i][p].at >= labels[i][p].at
  <2>1. \A i \in Isp, p \in Ip : labels[i][p].at \in Int
    BY LabelAge DEF TypeInv, RelabelTypes
  <2> QED
    BY <2>1
<1>2. CASE \/ Tick \/ UNCHANGED vars
           \/ TraceStart \/ TraceSnapshot \/ TraceRecent \/ TraceQueue
           \/ TraceDone \/ ReportLost \/ ReportMarkDone \/ ReportInsertHops
           \/ ExportStart \/ ExportPick \/ ExportSave \/ TextWrite \/ TextWriteMerged
           \/ TextFail \/ DnsFind \/ DnsPut \/ DnsFail \/ ExportReturn
  <2>1. UNCHANGED relabelVars /\ traces \subseteq traces'
    BY <1>2 DEF Tick, vars, TraceStart, TraceSnapshot, TraceRecent, TraceQueue, TraceDone,
                ReportLost, ReportMarkDone, ReportInsertHops, ExportStart, ExportPick,
                ExportSave, TextWrite, TextWriteMerged, TextFail, DnsFind, DnsPut, DnsFail,
                ExportReturn, reportVars
  <2> QED
    BY <1>1, <2>1, LabelKept DEF relabelVars
<1>3. CASE Crash
  <2>1. labels' = labels /\ traces \subseteq traces' /\ rj'.pc = "idle"
    BY <1>3 DEF Crash, IdleRelabel
  <2> QED
    BY <1>1, <2>1, LabelKept
<1>4. CASE RelabelStart
  <2>1. labels' = labels /\ traces' = traces /\ rj'.pc = "recent"
    BY <1>4 DEF RelabelStart, reportVars, IdleRelabel
  <2> QED
    BY <1>1, <2>1 DEF LabelInv, LabelsAreEarned
<1>5. CASE RelabelRecent
  <2>1. labels' = labels /\ traces' = traces
    BY <1>5 DEF RelabelRecent, reportVars
  <2> DEFINE i == First(rj.todo)
             ips == RecentTraceIps(i, now - 2 * Interval)
             j == [rj EXCEPT !.todo = @ \ {i}, !.cur = {i}, !.ips = ips]
  <2>2. i \in Isp /\ ips \subseteq Ip
    BY <1>5, FirstIsMember DEF RelabelRecent, TypeInv, RelabelTypes, RelabelJob,
                               RecentTraceIps, ReportTypes, Trace
  <2> HIDE DEF i, ips
  <2>3. j \in RelabelJob /\ j.cur = {i}
    BY <2>2 DEF TypeInv, RelabelTypes, RelabelJob
  <2>4. rj' = NextLabel(j)
    BY <1>5 DEF RelabelRecent, i, ips
  <2> HIDE DEF j
  <2>5. rj'.pc # "upsert" /\ (rj'.pc = "fetch" => rj'.cur = {i})
    BY <2>3, <2>4, NextLabelFetches
  <2> QED
    BY <1>1, <2>1, <2>2, <2>5 DEF LabelInv, LabelsAreEarned
<1>6. CASE RelabelFetch
  BY <1>1, <1>6, LabelFetch DEF RelabelFetch
<1>7. CASE RelabelUpsert
  BY <1>7, LabelUpsert
<1> QED
  BY <1>2, <1>3, <1>4, <1>5, <1>6, <1>7 DEF Next

LEMMA LabelsHold == Spec => []LabelInv
<1>1. Init => LabelInv
  BY DEF Init, LabelInv, LabelsAreEarned, IdleRelabel
<1>2. TypeInv /\ LabelInv /\ [Next]_vars => LabelInv'
  BY LabelStep
<1> QED
  BY <1>1, <1>2, TypesHold, PTL DEF Spec

(* Every label was read off a traceroute its own operator's agents made of its address,
   whichever rounds and reports ran meanwhile (master/labeling.py, relabel_recent). *)
THEOREM LabelsEarned == Spec => []LabelsAreEarned
<1>1. LabelInv => LabelsAreEarned
  BY DEF LabelInv
<1> QED
  BY <1>1, LabelsHold, PTL

(* A label never gives way to one read off an older traceroute, though reports arrive
   late and in any order (master/storage.py, fetch_trace_hops). *)
THEOREM LabelsOnlyAdvance == Spec => LabelsNeverGoBack
<1>1. TypeInv /\ LabelInv /\ [Next]_vars =>
        [\A i \in Isp, p \in Ip : labels'[i][p].at >= labels[i][p].at]_labels
  BY LabelStep
<1> QED
  BY <1>1, TypesHold, LabelsHold, PTL DEF Spec, LabelsNeverGoBack

----------------------------------------------------------------------------
(* What the runs check of the pick and of lookup over some data holds over all *)

(* pick_best leaves no address out for a worse one, whatever is measured and labelled
   (master/scoring.py). *)
THEOREM BestPublished == Spec => []BestIsPublished
<1>1. BestIsPublished
  BY BetterIsNotLeftOut, PublishAssumption DEF BestIsPublished
<1> QED
  BY <1>1, PTL

(* Country, region and city of a hop each follow their chain, whatever answers are
   checked (master/enrich.py). *)
THEOREM HopsLocated == Spec => []HopsAreLocated
<1>1. HopsAreLocated
  BY ChainsAreFollowed, PublishAssumption DEF HopsAreLocated
<1> QED
  BY <1>1, PTL
=============================================================================
