----------------------------- MODULE DNSRecords -----------------------------
(***************************************************************************)
(* The record kinds.  All but NS records have a comment, a TTL with its    *)
(* use flag, and extensible attributes.                                    *)
(***************************************************************************)
EXTENDS Fields

Annotations == {"comment", "useTtl", "ttl", "extAttrs"}
TTLGate     == [ttl |-> "useTtl"]

-----------------------------------------------------------------------------
AParameters ==
    [required  |-> {"name", "ipv4Addr", "view"},
     optional  |-> Annotations \cup {"cidr", "networkView"},
     immutable |-> {"view"}]
ACompared    == {"name", "ipv4Addr"} \cup Annotations
ALateInitialized == Annotations
\* A CIDR makes the Grid choose the address.
ACreated     == ACompared \cup {"view", "cidr", "networkView"}
AUpdated     == {"name", "ipv4Addr"} \cup Annotations
A == [Kind(AParameters, TTLGate, ACompared, ALateInitialized, ACreated, AUpdated)
        EXCEPT !.cidr = [ipv4Addr |-> "cidr"], !.omitsEmpty = {"ipv4Addr"}]

-----------------------------------------------------------------------------
AAAAParameters ==
    [required  |-> {"name", "ipv6Addr", "view"},
     optional  |-> Annotations \cup {"cidr", "networkView"},
     immutable |-> {"view"}]
AAAACompared == {"name", "ipv6Addr"} \cup Annotations
AAAALateInitialized == Annotations
AAAACreated  == AAAACompared \cup {"view", "cidr", "networkView"}
AAAAUpdated  == {"name", "ipv6Addr"} \cup Annotations
AAAA == [Kind(AAAAParameters, TTLGate, AAAACompared, AAAALateInitialized,
              AAAACreated, AAAAUpdated)
           EXCEPT !.cidr = [ipv6Addr |-> "cidr"], !.omitsEmpty = {"ipv6Addr"}]

-----------------------------------------------------------------------------
CNAMEParameters ==
    [required  |-> {"name", "canonical", "view"},
     optional  |-> Annotations,
     immutable |-> {"view"}]
CNAMECompared == {"name", "canonical"} \cup Annotations
CNAMELateInitialized == Annotations
CNAMECreated  == {"view", "name", "canonical"} \cup Annotations
CNAMEUpdated  == {"name", "canonical"} \cup Annotations
CNAME == Kind(CNAMEParameters, TTLGate, CNAMECompared, CNAMELateInitialized,
              CNAMECreated, CNAMEUpdated)

-----------------------------------------------------------------------------
MXParameters ==
    [required  |-> {"name", "mailExchanger", "preference", "view"},
     optional  |-> Annotations,
     immutable |-> {"view"}]
MXCompared == {"name", "mailExchanger", "preference"} \cup Annotations
MXLateInitialized == Annotations
MXCreated  == {"view", "name", "mailExchanger", "preference"} \cup Annotations
MXUpdated  == {"view", "name", "mailExchanger", "preference"} \cup Annotations
MX == Kind(MXParameters, TTLGate, MXCompared, MXLateInitialized, MXCreated,
           MXUpdated)

-----------------------------------------------------------------------------
SRVParameters ==
    [required  |-> {"name", "target", "priority", "weight", "port", "view"},
     optional  |-> Annotations,
     immutable |-> {"view"}]
SRVCompared == {"name", "target", "priority", "weight", "port"} \cup Annotations
SRVLateInitialized == Annotations
SRVCreated  == {"view", "name", "target", "priority", "weight", "port"} \cup Annotations
SRVUpdated  == {"name", "target", "priority", "weight", "port"} \cup Annotations
SRV == Kind(SRVParameters, TTLGate, SRVCompared, SRVLateInitialized, SRVCreated,
            SRVUpdated)

-----------------------------------------------------------------------------
TXTParameters ==
    [required  |-> {"name", "text", "view"},
     optional  |-> Annotations,
     immutable |-> {"view"}]
\* Mutant: a change of the text goes unnoticed.
TXTCompared_notText == {"name"} \cup Annotations

TXTCompared == {"name", "text"} \cup Annotations

\* Mutant: the comment of an adopted record is not filled in.
TXTLateInitialized_notComment == {"useTtl", "ttl", "extAttrs"}

TXTLateInitialized == Annotations
TXTCreated == {"view", "name", "text"} \cup Annotations

TXTUpdated == {"name", "text"} \cup Annotations
TXT == Kind(TXTParameters, TTLGate, TXTCompared, TXTLateInitialized, TXTCreated,
            TXTUpdated)

-----------------------------------------------------------------------------
AliasParameters ==
    [required  |-> {"name", "targetName", "targetType", "view"},
     optional  |-> Annotations \cup {"disable"},
     immutable |-> {"view"}]
AliasCompared == {"name", "targetName", "targetType", "disable"} \cup Annotations
AliasLateInitialized == {"disable"} \cup Annotations
AliasCreated  == {"view", "name", "targetName", "targetType", "disable"} \cup Annotations
AliasUpdated  == {"name", "targetName", "targetType", "disable"} \cup Annotations
Alias == Kind(AliasParameters, TTLGate, AliasCompared, AliasLateInitialized,
              AliasCreated, AliasUpdated)

-----------------------------------------------------------------------------
(***************************************************************************)
(* A PTR record has one address, of either family; ipv4Addr stands for     *)
(* both, ipv6Addr being handled in the same way.                           *)
(***************************************************************************)
PTRParameters ==
    [required  |-> {"ptrdname", "view"},
     optional  |-> Annotations \cup {"name", "ipv4Addr", "cidr", "networkView"},
     immutable |-> {"view"}]
PTRCompared == {"ptrdname", "name", "ipv4Addr"} \cup Annotations
PTRLateInitialized == {"name"} \cup Annotations
PTRCreated  == PTRCompared \cup {"view", "cidr", "networkView"}
PTRUpdated  == {"ptrdname", "name", "ipv4Addr"} \cup Annotations
PTR == [Kind(PTRParameters, TTLGate, PTRCompared, PTRLateInitialized, PTRCreated,
             PTRUpdated)
          EXCEPT !.cidr = [ipv4Addr |-> "cidr"], !.omitsEmpty = {"ipv4Addr"}]

-----------------------------------------------------------------------------
NSParameters ==
    [required  |-> {"name", "nameserver", "view", "addresses"},
     optional  |-> {"msDelegationName"},
     immutable |-> {"name", "nameserver", "view"}]
NSCompared == {"nameserver", "addresses", "msDelegationName"}
NSLateInitialized == {"msDelegationName"}
NSCreated  == {"name", "nameserver", "view", "addresses", "msDelegationName"}
NSUpdated  == {"nameserver", "addresses", "msDelegationName"}
\* Outside Microsoft zones the Grid never reports the delegation name.
NS == [Kind(NSParameters, NoFields, NSCompared, NSLateInitialized, NSCreated,
            NSUpdated)
         EXCEPT !.whenReported = {"msDelegationName"}]

-----------------------------------------------------------------------------
(***************************************************************************)
(* A host record's address lists stand for their first entries, the only   *)
(* ones that are compared and sent.  The CRD asks for a list of IPv4       *)
(* addresses, which may be empty: so it counts as optional.  Allocation    *)
(* by an attribute filter (filterParams, ipAddressType) is left out.       *)
(***************************************************************************)
HostParameters ==
    [required  |-> {"name"},
     optional  |-> Annotations \cup {"ipv4Addrs", "ipv6Addrs", "networkView", "view",
                     "aliases", "configureForDns", "disable", "ipv4Cidr", "ipv6Cidr"},
     immutable |-> {"networkView"}]
HostCompared == {"name", "ipv4Addrs", "ipv6Addrs", "view", "aliases", "configureForDns",
                 "disable"} \cup Annotations
HostLateInitialized == {"view", "configureForDns", "disable", "aliases", "ipv4Addrs",
                        "ipv6Addrs"} \cup Annotations
HostCreated  == HostCompared \cup {"networkView", "ipv4Cidr", "ipv6Cidr"}
HostUpdated  == {"name", "ipv4Addrs", "ipv6Addrs", "view", "aliases", "configureForDns",
                 "disable"} \cup Annotations
Host == [Kind(HostParameters, TTLGate, HostCompared, HostLateInitialized,
              HostCreated, HostUpdated)
           EXCEPT !.cidr = [ipv4Addrs |-> "ipv4Cidr", ipv6Addrs |-> "ipv6Cidr"],
                  !.omitsEmpty = {"ipv4Addrs", "ipv6Addrs"}]

Records == [A |-> A, AAAA |-> AAAA, CNAME |-> CNAME, MX |-> MX, SRV |-> SRV, TXT |-> TXT,
            Alias |-> Alias, PTR |-> PTR, NS |-> NS, Host |-> Host]
=============================================================================
