------------------------- MODULE MCServiceClusters -------------------------
(***************************************************************************)
(* Instances of ServiceClusters for TLC, with ekglue-dump-config.           *)
(***************************************************************************)
EXTENDS DumpClusters

CONSTANTS a, b, bad, tls

Base == [name |-> None, type |-> None, option |-> None, target |-> None]

Override(type, option) ==
    [name |-> None, type |-> type, option |-> option, target |-> None]

OfCluster(name) == [cluster_name |-> name, port_name |-> ""]
OfPort(name) == [cluster_name |-> None, port_name |-> name]

\* Ports named http use EDS; port https of a gets an option after that; port
\* metrics is suppressed.
SomeOverrides ==
    << [match |-> {OfPort("http"), OfPort("https")}, suppress |-> FALSE,
        override |-> Override("EDS", None)],
       [match |-> {OfCluster(<<a, "https", "TCP">>)}, suppress |-> FALSE,
        override |-> Override(None, tls)],
       [match |-> {OfPort("metrics")}, suppress |-> TRUE,
        override |-> None] >>

\* The same, and the override for port legacy gives a cluster that does not
\* validate.
OneBadOverride ==
    SomeOverrides \o
    << [match |-> {OfPort("legacy")}, suppress |-> FALSE,
        override |-> Override(None, bad)] >>

NoLocality == [region |-> None, zone |-> None, sub_zone |-> None]

Port(name, number, protocol) ==
    [name |-> name, number |-> number, protocol |-> protocol]

\* Services that change with the names of their ports, or without; ports that
\* cannot be served, and one whose cluster does not validate.
SomePorts ==
    (a :> {<<Port("http", 80, "TCP"), Port("metrics", 90, "TCP"),
             Port("x", 1, "SCTP")>>,
           <<Port("https", 443, "TCP"), Port("http", 8080, "TCP")>>,
           <<Port("admin", 80, "")>>,
           <<Port("admin", 81, "TCP")>>}) @@
    (b :> {<<Port("", 53, "UDP")>>,
           <<Port("dns", 53, "UDP"), Port("legacy", 23, "TCP"),
             Port("https", 443, "TCP")>>})
=============================================================================
