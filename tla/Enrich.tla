-------------------------------- MODULE Enrich -------------------------------
(****************************************************************************)
(* The Enricher (master/enrich.py): what six databases together know of an  *)
(* address.  Their answers are given; "" is a field a database does not     *)
(* have, has no entry for, or cannot be asked for, and so is every field of *)
(* a database that could not be opened.                                     *)
(****************************************************************************)
EXTENDS RouteLabel

Located == [country: STRING, region: STRING, city: STRING]
\* The answers about a hop.  public is FALSE for a hop that did not answer and for one
\* with a private address, which are not looked up; qqwry is read for CN only.
Answers == [public: BOOLEAN, asn: Nat, dbip: Located, country: STRING, city: Located,
            ip2region: Located, qqwry: Located]

\* Python's or, for fields.
Or(a, b) == IF a # "" THEN a ELSE b

Country(a) == Or(a.dbip.country, Or(a.country, Or(a.ip2region.country, a.qqwry.country)))

\* Faulty variant: in China dbip is asked for the city alone.
PlaceInChinaCityOnly(a) ==
    [region |-> Or(Or(a.ip2region.region, a.qqwry.region), a.city.region),
     city |-> Or(Or(Or(a.ip2region.city, a.qqwry.city), a.dbip.city), a.city.city)]

\* In China ip2region comes first, abroad dbip does; dbip is asked for a region in China
\* only where the city is still unknown.
PlaceInChina(a) ==
    LET region == Or(a.ip2region.region, a.qqwry.region)
        city == Or(a.ip2region.city, a.qqwry.city)
    IN  [region |-> Or(IF city = "" THEN Or(region, a.dbip.region) ELSE region, a.city.region),
         city |-> Or(Or(city, a.dbip.city), a.city.city)]
PlaceAbroad(a) ==
    [region |-> Or(a.dbip.region, Or(a.city.region, a.ip2region.region)),
     city |-> Or(a.dbip.city, Or(a.city.city, a.ip2region.city))]

Place(a) == IF Country(a) = "CN" THEN PlaceInChina(a) ELSE PlaceAbroad(a)

\* lookup, and the place label_one reads off its result.  The names of operators, which
\* nothing reads back, are left out.
Lookup(a) ==
    IF a.public
    THEN [asn |-> a.asn, country |-> Country(a), place |-> Or(Place(a).city, Place(a).region)]
    ELSE [asn |-> NoAsn, country |-> "", place |-> ""]

----------------------------------------------------------------------------
(* The order in which the databases are asked for a field *)

\* value is the first of fields that is known, or "" if none is.
IsFirstKnown(value, fields) ==
    \/ value = "" /\ \A k \in DOMAIN fields : fields[k] = ""
    \/ \E k \in DOMAIN fields :
          value = fields[k] /\ value # "" /\ \A j \in DOMAIN fields : j < k => fields[j] = ""

\* In China dbip is not asked where a city is known without it.
DbipIsSkipped(a) == Country(a) = "CN" /\ Or(a.ip2region.city, a.qqwry.city) # ""

\* Reference for lookup, the chains of its module's docstring: country, city and region
\* are each what the first database in the field's order has, but for the region that
\* dbip has in China next to a city another database has, which is not read.
FieldsFollowChains(a) ==
    LET china == Country(a) = "CN"
        dbipRegion == IF DbipIsSkipped(a) THEN "" ELSE a.dbip.region
    IN  /\ IsFirstKnown(Country(a),
              <<a.dbip.country, a.country, a.ip2region.country, a.qqwry.country>>)
        /\ china => IsFirstKnown(Place(a).city,
              <<a.ip2region.city, a.qqwry.city, a.dbip.city, a.city.city>>)
        /\ china => IsFirstKnown(Place(a).region,
              <<a.ip2region.region, a.qqwry.region, dbipRegion, a.city.region>>)
        /\ ~china => IsFirstKnown(Place(a).city, <<a.dbip.city, a.city.city, a.ip2region.city>>)
        /\ ~china => IsFirstKnown(Place(a).region,
              <<a.dbip.region, a.city.region, a.ip2region.region>>)
=============================================================================
