---------------------------- MODULE RecordStatus ----------------------------
(***************************************************************************)
(* The status of the record kinds.                                         *)
(***************************************************************************)
EXTENDS DNSRecords

-----------------------------------------------------------------------------
\* How to choose an address is copied from the spec: no GET answers it.
AAttributes == Flattened
AObserved == {"name", "ipv4Addr", "view"} \cup Annotations
AClusterObservation == AObserved \cup {"cidr", "networkView"}
ANamespacedObservation == AClusterObservation
ANamespacedParameters == AParameters
AStatus ==
    Status(AAttributes, AObserved, {"cidr", "networkView"},
           AClusterObservation, ANamespacedObservation, ANamespacedParameters)

-----------------------------------------------------------------------------
AAAAAttributes == Flattened
AAAAObserved == {"name", "ipv6Addr", "view"} \cup Annotations
AAAAClusterObservation == AAAAObserved \cup {"cidr", "networkView"}
AAAANamespacedObservation == AAAAClusterObservation
AAAANamespacedParameters == AAAAParameters
AAAAStatus ==
    Status(AAAAAttributes, AAAAObserved, {"cidr", "networkView"},
           AAAAClusterObservation, AAAANamespacedObservation, AAAANamespacedParameters)

-----------------------------------------------------------------------------
CNAMEAttributes == Flattened
CNAMEObserved == {"name", "canonical", "view"} \cup Annotations
CNAMEClusterObservation == CNAMEObserved
CNAMENamespacedObservation == CNAMEClusterObservation
CNAMENamespacedParameters == CNAMEParameters
CNAMEStatus ==
    Status(CNAMEAttributes, CNAMEObserved, {},
           CNAMEClusterObservation, CNAMENamespacedObservation, CNAMENamespacedParameters)

-----------------------------------------------------------------------------
MXAttributes == Flattened
MXObserved == {"name", "mailExchanger", "preference", "view"} \cup Annotations
MXClusterObservation == MXObserved
MXNamespacedObservation == MXClusterObservation
MXNamespacedParameters == MXParameters
MXStatus ==
    Status(MXAttributes, MXObserved, {},
           MXClusterObservation, MXNamespacedObservation, MXNamespacedParameters)

-----------------------------------------------------------------------------
SRVAttributes == Flattened
SRVObserved == {"name", "target", "priority", "weight", "port", "view"} \cup Annotations
SRVClusterObservation == SRVObserved
SRVNamespacedObservation == SRVClusterObservation
SRVNamespacedParameters == SRVParameters
SRVStatus ==
    Status(SRVAttributes, SRVObserved, {},
           SRVClusterObservation, SRVNamespacedObservation, SRVNamespacedParameters)

-----------------------------------------------------------------------------
TXTAttributes == Flattened
\* Mutant: the comment is not in the status.
TXTObserved_notComment == {"name", "text", "view", "useTtl", "ttl", "extAttrs"}

TXTObserved == {"name", "text", "view"} \cup Annotations
TXTClusterObservation == TXTObserved
TXTNamespacedObservation == TXTClusterObservation
TXTNamespacedParameters == TXTParameters
TXTStatus ==
    Status(TXTAttributes, TXTObserved, {},
           TXTClusterObservation, TXTNamespacedObservation, TXTNamespacedParameters)

-----------------------------------------------------------------------------
AliasAttributes == Flattened
AliasObserved == {"name", "targetName", "targetType", "view", "disable"} \cup Annotations
AliasClusterObservation == AliasObserved
AliasNamespacedObservation == AliasClusterObservation
AliasNamespacedParameters == AliasParameters
AliasStatus ==
    Status(AliasAttributes, AliasObserved, {},
           AliasClusterObservation, AliasNamespacedObservation, AliasNamespacedParameters)

-----------------------------------------------------------------------------
PTRAttributes == Flattened
PTRObserved == {"ptrdname", "name", "ipv4Addr", "view"} \cup Annotations
PTRClusterObservation == PTRObserved \cup {"cidr", "networkView"}
PTRNamespacedObservation == PTRClusterObservation
PTRNamespacedParameters == PTRParameters
PTRStatus ==
    Status(PTRAttributes, PTRObserved, {"cidr", "networkView"},
           PTRClusterObservation, PTRNamespacedObservation, PTRNamespacedParameters)

-----------------------------------------------------------------------------
NSObserved == {"name", "nameserver", "view", "addresses", "msDelegationName"}
NSClusterObservation == NSObserved
NSNamespacedObservation == NSClusterObservation
NSNamespacedParameters == NSParameters
NSStatus ==
    Status(NoFields, NSObserved, {},
           NSClusterObservation, NSNamespacedObservation, NSNamespacedParameters)

-----------------------------------------------------------------------------
HostAttributes == Flattened
HostObserved == {"name", "ipv4Addrs", "ipv6Addrs", "networkView", "view", "aliases",
                 "configureForDns", "disable"} \cup Annotations
HostReturned == HostObserved
HostClusterRead ==
    {"name", "ipv4Addrs", "ipv6Addrs", "view", "aliases", "configureForDns",
     "disable"} \cup Annotations
HostNamespacedRead == HostClusterRead
HostAllocation == {"networkView", "ipv4Cidr", "ipv6Cidr"}
HostClusterObservation == HostObserved \cup {"ipv4Cidr", "ipv6Cidr"}
HostNamespacedObservation == HostClusterObservation
HostNamespacedParameters == HostParameters
HostStatus ==
    [Status(HostAttributes, HostObserved, {"ipv4Cidr", "ipv6Cidr"},
            HostClusterObservation, HostNamespacedObservation, HostNamespacedParameters)
       EXCEPT !.returned = HostReturned,
              !.read = InEither(HostClusterRead \cup HostAllocation,
                               HostNamespacedRead \cup HostAllocation)]

RecordStatuses ==
    [A |-> AStatus, AAAA |-> AAAAStatus, CNAME |-> CNAMEStatus, MX |-> MXStatus, SRV |-> SRVStatus,
     TXT |-> TXTStatus, Alias |-> AliasStatus, PTR |-> PTRStatus, NS |-> NSStatus, Host |-> HostStatus]
=============================================================================
