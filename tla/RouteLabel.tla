------------------------------ MODULE RouteLabel -----------------------------
(****************************************************************************)
(* Route labels (master/labeling.py): what the hops of one traceroute say   *)
(* about the line a path takes.  A hop is a record of its enriched fields:  *)
(* asn (NoAsn when unknown), country ("" when unknown) and place, its city  *)
(* or else its region ("" when both are unknown).                           *)
(****************************************************************************)
EXTENDS Integers, Sequences, FiniteSets

\* No assumption on the code: a fact of TLA+ that the provers do not know.
ASSUME StringAssumption == "" \in STRING

NoAsn == 0
Hop == [asn: Nat, country: STRING, place: STRING]

\* _LINE_RULES: the first rule an AS of the path matches decides.
LineRules ==
    << [asn |-> 23764, line |-> "CN2-GIA"], [asn |-> 4809, line |-> "CN2-GT"],
       [asn |-> 9929, line |-> "CU-9929"], [asn |-> 58453, line |-> "CMI"],
       [asn |-> 10099, line |-> "CU-Global"] >>

\* _LINE_BY_ISP_BACKBONE: an operator's own backbone.
Backbone ==
    [telecom |-> [asn |-> 4134, line |-> "CT-163"],
     unicom  |-> [asn |-> 4837, line |-> "CU-4837"],
     mobile  |-> [asn |-> 9808, line |-> "CM-9808"]]

\* _QUALITY, in hundredths.
Quality ==
    [line \in {"CN2-GIA", "CU-9929", "CN2-GT", "CU-Global", "CMI",
               "CT-163", "CU-4837", "CM-9808", "unknown"} |->
        CASE line = "CN2-GIA" -> 100
          [] line = "CU-9929" -> 95
          [] line \in {"CN2-GT", "CU-Global"} -> 85
          [] line = "CMI" -> 80
          [] line \in {"CT-163", "CU-4837", "CM-9808"} -> 55
          [] line = "unknown" -> 40]

Asns(hops) == {hops[k].asn : k \in DOMAIN hops} \ {NoAsn}

\* _detect_line_type
DetectLineType(asns, isp) ==
    LET matching == {k \in DOMAIN LineRules : LineRules[k].asn \in asns}
    IN  IF matching # {}
        THEN LineRules[CHOOSE k \in matching : \A j \in matching : k <= j].line
        ELSE IF isp \in DOMAIN Backbone /\ Backbone[isp].asn \in asns
        THEN Backbone[isp].line
        ELSE "unknown"

\* _detect_exit_city: the last hop inside China that has a place.
DetectExitCity(hops) ==
    LET inside == {k \in DOMAIN hops : hops[k].country = "CN" /\ hops[k].place # ""}
    IN  IF inside = {} THEN ""
        ELSE hops[CHOOSE k \in inside : \A j \in inside : j <= k].place

\* Faulty variant: the quality on another scale than the default one.
LabelOneScaled(hops, isp, at) ==
    LET line == DetectLineType(Asns(hops), isp)
    IN  [line |-> line, quality |-> 100 * Quality[line], exit |-> DetectExitCity(hops),
         cn |-> Cardinality({k \in DOMAIN hops : hops[k].country = "CN"}),
         overseas |-> Cardinality({k \in DOMAIN hops : hops[k].country \notin {"", "CN"}}),
         at |-> at]

\* label_one.  at is not in the code: it remembers when the traceroute was made, for the
\* properties (the code stores the time of the labelling, which no job reads back).
LabelOne(hops, isp, at) ==
    LET line == DetectLineType(Asns(hops), isp)
    IN  [line |-> line, quality |-> Quality[line], exit |-> DetectExitCity(hops),
         cn |-> Cardinality({k \in DOMAIN hops : hops[k].country = "CN"}),
         overseas |-> Cardinality({k \in DOMAIN hops : hops[k].country \notin {"", "CN"}}),
         at |-> at]

NoLabel == [line |-> "none", quality |-> 0, exit |-> "", cn |-> 0, overseas |-> 0, at |-> -1]
\* What is stored of an address, or not.  The quality is always the one of the line.
Label == {NoLabel} \cup
    {l \in [line: DOMAIN Quality, quality: 0 .. 100, exit: STRING, cn: Nat, overseas: Nat, at: Nat] :
        l.quality = Quality[l.line]}
=============================================================================
