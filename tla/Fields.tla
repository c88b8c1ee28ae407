------------------------------- MODULE Fields -------------------------------
(***************************************************************************)
(* The fields of spec.forProvider, and what a kind's functions do with     *)
(* them.  A kind's controller is a set of functions that pass some of the  *)
(* fields on: isUpToDate compares them, lateInitialize fills them in,      *)
(* Create and Update send them.  Whether the functions agree with one      *)
(* another is FieldSync's subject; the tables are read off the functions   *)
(* by the modules that extend this one.                                    *)
(***************************************************************************)
EXTENDS TLC

Unset == "unset"    \* a nil pointer, or an absent key
Empty == "empty"    \* false, 0, "" or a list or map without entries
On    == "on"       \* true, or a number that is not 0

\* Booleans, and numbers: the zero of either is a value like any other.
ViewFlags == {"enableMatchRecursiveOnly", "useBlacklist", "blacklistLogQuery", "enableBlacklist",
    "useRootNameServer", "useDdnsForceCreationTimestampUpdate",
    "ddnsForceCreationTimestampUpdate", "useDdnsPrincipalSecurity", "ddnsPrincipalTracking",
    "ddnsRestrictSecure", "useDdnsPatternsRestriction", "ddnsRestrictPatterns",
    "useDdnsRestrictProtected", "ddnsRestrictProtected", "useDdnsRestrictStatic",
    "ddnsRestrictStatic", "useDns64", "dns64Enabled", "useDnssec", "dnssecEnabled",
    "dnssecExpiredSignaturesEnabled", "dnssecValidationEnabled", "useFixedRrsetOrderFqdns",
    "enableFixedRrsetOrderFqdns", "useFilterAaaa", "useForwarders", "forwardOnly",
    "useLameTtl", "useMaxCacheTtl", "useMaxNcacheTtl", "useNxdomainRedirect",
    "nxdomainLogQuery", "nxdomainRedirect", "useRecursion", "recursion", "useRpzDropIPRule",
    "rpzDropIPRuleEnabled", "useRpzQnameWaitRecurse", "rpzQnameWaitRecurse", "useSortlist",
    "useResponseRateLimiting", "useScavengingSettings"}
ElementFlags == {"stealth", "sharedWithMsParentDelegation", "useTsigKeyName", "secureEntryPoint",
    "dnssecMustBeSecure", "enableRrl", "logOnly", "enableScavenging",
    "enableRecurrentScavenging", "enableAutoReclamation", "enableRrLastQueried",
    "enableZoneLastQueried", "reclaimAssociatedRecords", "gridReplicate", "lead",
    "enablePreferredPrimaries", "useOverrideForwarders", "invertMonitorMetric", "useOption",
    "autoCreatePtr", "configureForDhcp", "configureForDhcpV6"}
Flags == ViewFlags \cup ElementFlags \cup {"useTtl", "disable", "configureForDns", "useOptions",
    "clientIdentifierPrependZero", "locked", "useDelegatedTtl", "forwardersOnly",
    "useGridZoneTimer", "autoCreateHostRecord", "useSniHostname"}

Timers  == {"soaDefaultTtl", "soaExpire", "soaNegativeTtl", "soaRefresh", "soaRetry"}
ElementNumbers == {"responsesPerSecond", "window", "slip", "every", "minutesPastHour", "hourOfDay",
    "year", "month", "dayOfMonth", "recurringTime", "ratio", "num"}
Numbers == Timers \cup ElementNumbers \cup {"ttl", "preference", "priority", "weight", "port",
    "numberOfAddresses", "offset", "delegatedTtl", "persistence", "quorum", "min", "max",
    "notifyDelay", "blacklistRedirectTtl", "lameTtl", "maxCacheTtl", "maxNcacheTtl",
    "nxdomainRedirectTtl", "rpzDropIPRuleMinPrefixLengthIPv4",
    "rpzDropIPRuleMinPrefixLengthIPv6"}

Scalars == Flags \cup Numbers

\* Lists, maps and records: one without entries is the same as none at all.
ViewLists == {"matchClients", "matchDestinations", "dnssecNegativeTrustAnchors",
    "blacklistRedirectAddresses", "blacklistRulesets", "customRootNameServers",
    "ddnsRestrictPatternsList", "dns64Groups", "dnssecTrustedKeys", "fixedRrsetOrderFqdns",
    "filterAaaaList", "forwarders", "nxdomainRedirectAddresses",
    "nxdomainRedirectAddressesV6", "nxdomainRulesets", "sortlist", "responseRateLimiting",
    "scavengingSettings"}
ElementLists == {"matchList", "weekdays", "scavengingSchedule", "expressionList", "eaExpressionList",
    "preferredPrimaries"}
Lists == ViewLists \cup ElementLists \cup {"extAttrs", "aliases", "addresses", "ipv4Addrs", "ipv6Addrs",
    "filterParams", "options", "networks", "member", "delegateTo", "forwardTo",
    "forwardingServers", "gridPrimary", "gridSecondaries", "externalPrimaries",
    "externalSecondaries", "monitors", "servers", "patterns", "pools", "authZones", "types",
    "lbDynamicRatioPreferred", "lbDynamicRatioAlternate", "listValues", "allowedObjectTypes"}

\* What every object has, from the Grid if a request leaves it out: the view or network
\* it is in, a choice among named ones.
Givens == {"view", "networkView", "network", "ipv4addr", "ipv6addr", "zoneFormat",
    "matchClient", "serverAssociationType", "lbMethod", "lbPreferredMethod", "availability",
    "type", "blacklistAction", "rootNameServerType", "filterAaaa"}

Values(f) ==
    IF f \in Scalars THEN {Empty, On} ELSE IF f \in Givens THEN {"a", "b"} ELSE {Empty, "a", "b"}

\* An extensible attribute may have several values; it is shown as one string of them.
Several   == "several"
Flattened == Several :> "b"

\* What an object may hold.
Holds(f) == IF f = "extAttrs" THEN Values(f) \cup {Several} ELSE Values(f)

\* What a field shows that its use flag has left to the zone, view or Grid.
Inherited(f) == IF f \in Scalars THEN On ELSE "b"

NoFields == [f \in {} |-> f]

(***************************************************************************)
(* A kind: its parameters by how the CRD treats them; the fields each      *)
(* function passes on; the flag that governs a field, if one does.         *)
(*   cidr         an address and the field that has the Grid choose it     *)
(*   forced       a flag that counts as on when what it governs is set     *)
(*   whenReported compared only if the Grid reports a value                *)
(*   whenSet      compared only if the spec has a value                    *)
(*   omitsUnset   not sent when unset, instead of as its zero              *)
(*   omitsEmpty   not sent when empty                                      *)
(*   owned        the user's alone: unset means empty                      *)
(*   blank        read as unset when it is empty                           *)
(*   deep         unset and empty are compared as different                *)
(*   joined       flags, sent as on if one of them is; each compared alone *)
(*   ungated      compared although its flag is off                        *)
(***************************************************************************)
Kind(parameters, gate, compared, late, created, updated) ==
    [required |-> parameters.required, optional |-> parameters.optional,
     immutable |-> parameters.immutable, gate |-> gate, compared |-> compared,
     late |-> late, created |-> created, updated |-> updated, cidr |-> NoFields,
     forced |-> {}, whenReported |-> {}, whenSet |-> {}, omitsUnset |-> {},
     omitsEmpty |-> {}, owned |-> {}, blank |-> {}, deep |-> {}, ungated |-> {},
     joined |-> {}]

(***************************************************************************)
(* What surrounds these functions, for each of the two scopes a kind comes *)
(* in: its own API types, and functions that copy fields from and to them. *)
(*   attributes   how values of attributes are turned into strings         *)
(*   returned     what a GET is asked for                                  *)
(*   read         copied from the parameters, to be compared and sent      *)
(*   applied      copied back into them once filled in                     *)
(*   observed     copied from the object for the status                    *)
(*   echoed       copied into the status from the parameters               *)
(*   observation  the fields of the status                                 *)
(***************************************************************************)
InEither(c, n) == [cluster |-> c, namespaced |-> n]

Status(attributes, observed, echoed, clusterObservation, namespacedObservation, parameters) ==
    [attributes |-> attributes, observed |-> observed, echoed |-> echoed,
     observation |-> InEither(clusterObservation, namespacedObservation),
     namespaced |-> parameters,
     returned |-> parameters.required \cup parameters.optional,
     read |-> InEither(parameters.required \cup parameters.optional,
                       parameters.required \cup parameters.optional),
     applied |-> InEither(parameters.required \cup parameters.optional,
                          parameters.required \cup parameters.optional)]

\* A kind in a scope.
InScope(kind, mirror, scope) ==
    LET parameters == IF scope = "namespaced" THEN mirror.namespaced ELSE kind
    IN  [kind EXCEPT !.required  = parameters.required,
                     !.optional  = parameters.optional,
                     !.immutable = parameters.immutable,
                     !.compared  = @ \cap mirror.read[scope],
                     !.created   = @ \cap mirror.read[scope],
                     !.updated   = @ \cap mirror.read[scope],
                     !.late      = @ \cap mirror.applied[scope]]
          @@ [mirrored   |-> mirror.observed \cap mirror.observation[scope],
              echoed     |-> mirror.echoed \cap mirror.observation[scope],
              returned   |-> mirror.returned,
              attributes |-> mirror.attributes]

\* A kind, as far as some of its fields go.
Sliced(kind, fs) ==
    [kind EXCEPT !.required = @ \cap fs,     !.optional = @ \cap fs,   !.immutable = @ \cap fs,
                 !.compared = @ \cap fs,     !.late = @ \cap fs,       !.created = @ \cap fs,
                 !.updated = @ \cap fs,      !.forced = @ \cap fs,     !.whenReported = @ \cap fs,
                 !.whenSet = @ \cap fs,      !.omitsUnset = @ \cap fs, !.omitsEmpty = @ \cap fs,
                 !.owned = @ \cap fs,        !.blank = @ \cap fs,      !.deep = @ \cap fs,
                 !.ungated = @ \cap fs,      !.mirrored = @ \cap fs,   !.echoed = @ \cap fs,
                 !.returned = @ \cap fs,     !.joined = @ \cap fs,
                 !.gate = [f \in DOMAIN @ \cap fs |-> @[f]],
                 !.cidr = [f \in DOMAIN @ \cap fs |-> @[f]],
                 !.attributes = IF "extAttrs" \in fs THEN @ ELSE NoFields]

-----------------------------------------------------------------------------
(***************************************************************************)
(* The functions of a kind agree with one another: what its properties     *)
(* rest on, for a table k of fields fs.                                    *)
(***************************************************************************)
\* A flag is a boolean that no other flag governs, flags are joined only where they are
\* the user's alone, and every attribute has a string.
WellFormed(k, fs) ==
    /\ fs \cap Scalars \cap Lists = {} /\ fs \cap Givens \cap (Scalars \cup Lists) = {}
    /\ k.forced \subseteq Scalars
    /\ k.joined \subseteq (k.owned \cap Scalars) \ (k.late \cup k.forced)
    /\ \A f \in fs \cap DOMAIN k.gate :
         k.gate[f] \in (fs \cap Scalars) \ (DOMAIN k.gate \cup k.joined)
    /\ \A v \in DOMAIN k.attributes : v = Several /\ k.attributes[v] = "b"
    /\ "extAttrs" \in fs \cap k.returned => Several \in DOMAIN k.attributes

\* The users cannot leave the field unset, nor empty.
Demanded(k) == k.required \ DOMAIN k.cidr

\* What is compared is sent, read and shown.  It is filled in when the user has left it
\* to the Grid, or is then not compared, or means empty; and so is what a request omits.
Agree(k) ==
    /\ k.compared \subseteq (k.created \cap k.updated \cap k.returned \cap k.mirrored) \ k.echoed
    /\ k.compared \subseteq k.late \cup k.whenSet \cup k.owned \cup Demanded(k)
    /\ k.compared \cap (k.omitsUnset \cup k.omitsEmpty \cup Givens)
         \subseteq k.late \cup k.whenSet \cup Demanded(k)
    /\ k.compared \cap k.omitsEmpty
         \subseteq Givens \cup (Demanded(k) \ Scalars) \cup (Lists \cap (k.late \cup k.whenSet))
    /\ \A f \in DOMAIN k.gate : k.gate[f] \in k.created \cap k.updated
    /\ k.forced \cap k.deep = {}

\* What is sent has been filled in, if the user may have left it unset.
FillsIn(k) == (k.late \cap k.returned) \ k.blank
Preserves(k) ==
    /\ k.updated \subseteq k.owned \cup k.forced \cup FillsIn(k) \cup k.omitsEmpty \cup Givens
                           \cup (k.omitsUnset \ Lists) \cup Demanded(k)
    /\ \A f \in DOMAIN k.gate :
         /\ k.gate[f] \in k.updated \ (k.omitsEmpty \cup Givens)
         /\ k.gate[f] \in k.omitsUnset => k.gate[f] \in FillsIn(k) \cup Demanded(k)
=============================================================================
