------------------------------ MODULE Identity ------------------------------
(***************************************************************************)
(* The identity ladder of internal/clients/identity: how a controller      *)
(* decides which Grid object, if any, belongs to a managed resource.       *)
(*                                                                         *)
(* A Grid object is reached through its WAPI _ref, a rendering of the      *)
(* object's own identity fields.  The model calls that rendering an        *)
(* address: the object at address a answers to reference a, at most one    *)
(* object has an address, and a rename moves the object to another one,    *)
(* after which the old reference is a 404.  Ownership is a stamp, the uid  *)
(* of the managed resource written in the extensible attribute             *)
(* "Crossplane Internal ID".  A Grid is a function owner from addresses to *)
(* the stamp of the object there, NoStamp for an object without the        *)
(* attribute and Absent where there is no object.                          *)
(***************************************************************************)
CONSTANTS
    UID,      \* metadata.uid of the managed resources
    Addr,     \* identities a Grid object can have, that is, the _refs
    NoStamp,  \* an object that carries no identity attribute
    Absent,   \* no object
    NoRef     \* no WAPI reference is known yet (ref == "")

ASSUME IdentityConstants ==
    /\ NoStamp \notin UID
    /\ Absent \notin UID
    /\ Absent # NoStamp
    /\ NoRef \notin Addr

\* What Resolve reports: an Outcome, or one of the typed refusals.
Outcome == {"Resolved", "Adopted", "Rotated", "FoundByUID", "NotFound",
            "HandleReuseError", "AmbiguousMatchError"}

\* The SDK answers a GET of an unknown reference with a not-found error.
isNotFound(owner, ref) == owner[ref] = Absent

\* Every object whose identity attribute equals uid; none is not an error.
searchByUID(owner, uid) == {a \in Addr : owner[a] = uid}

(***************************************************************************)
(* The two WAPI calls of Resolve.  A reference that answers settles the    *)
(* matter, whatever stamp the object carries: only a 404 ("Search" below)  *)
(* falls through to the search by uid.                                     *)
(***************************************************************************)
\* Mutant: a reference held by another uid is adopted.
resolveByRef_steals(owner, ref, uid) ==
    CASE isNotFound(owner, ref) -> "Search"
      [] owner[ref] = uid       -> "Resolved"
      [] OTHER                  -> "Adopted"

\* Mutant: the SDK's not-found error is not recognised.
resolveByRef_404isError(owner, ref, uid) ==
    CASE owner[ref] = NoStamp -> "Adopted"
      [] owner[ref] = uid     -> "Resolved"
      [] OTHER                -> "HandleReuseError"

resolveByRef(owner, ref, uid) ==
    CASE isNotFound(owner, ref) -> "Search"
      [] owner[ref] = NoStamp   -> "Adopted"
      [] owner[ref] = uid       -> "Resolved"
      [] OTHER                  -> "HandleReuseError"

\* Mutant: without a reference there is nothing to search for.
resolveBySearch_needsRef(owner, ref, uid) ==
    IF ref = NoRef \/ searchByUID(owner, uid) = {} THEN "NotFound" ELSE "Rotated"

resolveBySearch(owner, ref, uid) ==
    LET matches == searchByUID(owner, uid) IN
    CASE matches = {}                       -> "NotFound"
      [] \E a, b \in matches : a # b        -> "AmbiguousMatchError"
      [] OTHER -> IF ref = NoRef THEN "FoundByUID" ELSE "Rotated"
=============================================================================
