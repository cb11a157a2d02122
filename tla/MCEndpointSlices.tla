-------------------------- MODULE MCEndpointSlices --------------------------
(***************************************************************************)
(* Instances of EndpointSlices for TLC, with ekglue-dump-config.            *)
(***************************************************************************)
EXTENDS DumpEndpoints, EndpointSlicesRefinement

CONSTANTS es1, es2, es3, a, b, m

Base == [name |-> None, type |-> None, option |-> None, target |-> None]
NoOverrides == <<>>

\* The region comes from a label of the node, the zone is fixed.
RegionByLabel ==
    [region |-> [literal |-> "", use_hostname |-> FALSE, label |-> "region"],
     zone |-> [literal |-> "z", use_hostname |-> FALSE, label |-> ""],
     sub_zone |-> None]

Port(name, number, protocol) ==
    [name |-> name, number |-> number, protocol |-> protocol]
Http == Port("http", 80, "")
Dns == Port("", 53, "UDP")

Ready(addr) == [node |-> m, ready |-> TRUE, addrs |-> {addr}]
Starting(addr) == [node |-> m, ready |-> FALSE, addrs |-> {addr}]
Floating(addr) == [node |-> "", ready |-> TRUE, addrs |-> {addr}]

Slice(svc, ports, endpoints) ==
    [service |-> svc, ports |-> ports, endpoints |-> endpoints]

\* Two slices of service a, which overlap in a port.  One may also hold
\* ports that cannot be served and a pod that is starting.
TwoSlices ==
    (es1 :> {Slice(a, {Http}, {Ready("1")}),
             Slice(a, {Http, Dns, Port("sctp", 9, "SCTP"), Port("any", None, "TCP")},
                   {Ready("1"), Starting("2")})}) @@
    (es2 :> {Slice(a, {Http}, {Floating("3")}),
             Slice(a, {Dns}, {Ready("3")})})

\* And one of another service, with a port of the same name.
ThreeSlices == TwoSlices @@ (es3 :> {Slice(b, {Http}, {Ready("4")})})

\* A slice whose label can change from one service to another.
Relabelled ==
    (es1 :> {Slice(a, {Http}, {Ready("1")}), Slice(b, {Http}, {Ready("1")})}) @@
    (es2 :> {Slice(a, {Http, Dns}, {Floating("3")})})

Labels == {[region |-> "x"]}
=============================================================================
