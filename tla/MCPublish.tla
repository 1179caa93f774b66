------------------------------ MODULE MCPublish ------------------------------
(* A small instance of Publish for TLC. *)
EXTENDS Publish

CONSTANTS pa, pb

OneIp == {pa}
TwoIps == {pa, pb}
TwoColos == ("HKG" :> "hk" @@ "NRT" :> "jp")
FastRow == {[latency |-> 10, jitter |-> 0, speed |-> 20, colo |-> "HKG"]}
TwoRows == FastRow \cup {[latency |-> 10, jitter |-> 0, speed |-> 20, colo |-> "NRT"]}
Nowhere == [country |-> "", region |-> "", city |-> ""]
Silent == [public |-> FALSE, asn |-> NoAsn, dbip |-> Nowhere, country |-> "", city |-> Nowhere,
           ip2region |-> Nowhere, qqwry |-> Nowhere]
InChina(asn, region) == [Silent EXCEPT !.public = TRUE, !.asn = asn, !.country = "CN",
                                       !.ip2region.region = region]
\* A gateway, the operator's backbone and then a premium line; killed after the gateway's
\* row, the master keeps a path nobody answers on.
SomePaths == {<<Silent, InChina(4134, "Shanghai"), InChina(4809, "")>>}

----------------------------------------------------------------------------
\* All answers of the databases in which they name at most two countries.  The regions and
\* cities of two databases differ, so that a result shows which of them was asked first.
SomePlaces(countries, region, city) ==
    [country: countries, region: {"", region}, city: {"", city}]
FewCountries ==
    {a \in [public: {TRUE}, asn: {NoAsn}, dbip: SomePlaces({"", "CN", "US"}, "r1", "c1"),
            country: {"", "CN", "US"}, city: SomePlaces({""}, "r2", "c2"),
            ip2region: SomePlaces({"", "CN", "US"}, "r3", "c3"),
            qqwry: SomePlaces({"", "CN"}, "r4", "c4")] :
        a.qqwry.region # "" \/ a.qqwry.city # "" => a.qqwry.country = "CN"}

----------------------------------------------------------------------------
\* Rows on both sides of every limit and cap of the score: latency at MaxLatency, jitter
\* unknown, none and past the floor of its penalty, speed at MinSpeed and past
\* three times that.
RowsAtLimits ==
    {[latency |-> l, jitter |-> j, speed |-> s, colo |-> "HKG"] :
        l \in {10, 20}, j \in {NoValue, 0, 100}, s \in {10, 40}}
    \cup {[latency |-> l, jitter |-> 0, speed |-> 40, colo |-> "HKG"] : l \in {100, 101}}
\* No label, and the one of the path above.
BothLabels == {NoLabel, [line |-> "CN2-GT", quality |-> 85, exit |-> "Shanghai", cn |-> 2,
                         overseas |-> 0, at |-> 0]}
=============================================================================
