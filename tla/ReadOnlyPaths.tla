--------------------------- MODULE ReadOnlyPaths ---------------------------
(***************************************************************************)
(* The read-only gate as the client decides it, on the method and the path *)
(* of a request (internal/api/client.go).  RequestPolicy has the same      *)
(* decision over the classes of paths this module computes.                *)
(***************************************************************************)
EXTENDS Naturals, Sequences

\* The segments of the program's own paths that are not lower case.
ToLower(segment) ==
  CASE segment = "queryMore" -> "querymore"
    [] segment = "customFields" -> "customfields"
    [] segment = "triggerDates" -> "triggerdates"
    [] segment = "orderActions" -> "orderactions"
    [] segment = "subscriptionOwner" -> "subscriptionowner"
    [] segment = "invoiceOwner" -> "invoiceowner"
    [] segment = "auditTrail" -> "audittrail"
    [] segment = "runStatus" -> "runstatus"
    [] OTHER -> segment

\* Mutant: paths are compared as they are written.
AsWritten(path) == path

\* A path typed by hand may hold a '#', in a segment of its own or behind
\* other text.  What follows is a fragment: buildURL keeps it, and net/http
\* does not send it.
Hashes == {"#", "key#"}
UpToHash(segment) == IF segment = "#" THEN "" ELSE "key"
Fragment(path) == \E i \in DOMAIN path : path[i] \in Hashes
OnTheWire(path) ==
  IF ~Fragment(path) THEN path
  ELSE LET i == CHOOSE i \in DOMAIN path :
                  path[i] \in Hashes /\ \A j \in 1 .. (i - 1) : path[j] \notin Hashes
       IN Append(SubSeq(path, 1, i - 1), UpToHash(path[i]))

\* The gate looks at a path as it was typed, fragment included.  A path here
\* has no host, no query and no leading slash; what is left to normalise is
\* the case.
extractPath(path) == [i \in DOMAIN path |-> ToLower(path[i])]

readOnlyPOSTAllowList ==
  { <<"v1", "action", "query">>, <<"v1", "action", "querymore">>,
    <<"commerce", "charges", "query">>, <<"commerce", "plans", "query">>,
    <<"commerce", "plans", "list">>, <<"commerce", "purchase-options", "list">>,
    <<"commerce", "legacy", "products", "list">>,
    <<"v1", "orders", "preview">>, <<"v1", "async", "orders", "preview">>,
    <<"v1", "subscriptions", "preview">> }

\* A pattern is a sequence with ANY for the one segment that may be anything
\* but empty.
ANY == "*"
readOnlyPOSTPatterns ==
  { <<"v1", "subscriptions", ANY, "preview">>, <<"meters", ANY, "summary">>,
    <<"commerce", "products", ANY>> }

\* Mutant: a pattern without its end anchor.
MatchesPrefix(path, pattern) ==
  /\ Len(path) >= Len(pattern)
  /\ \A i \in DOMAIN pattern : path[i] = pattern[i] \/ (pattern[i] = ANY /\ path[i] # "")

Matches(path, pattern) ==
  /\ DOMAIN path = DOMAIN pattern
  /\ \A i \in DOMAIN pattern : path[i] = pattern[i] \/ (pattern[i] = ANY /\ path[i] # "")

isReadOnlyAllowed(method, path) ==
  \/ method \in {"GET", "HEAD", "OPTIONS"}
  \/ /\ method = "POST"
     /\ \/ extractPath(path) \in readOnlyPOSTAllowList
        \/ \E pattern \in readOnlyPOSTPatterns : Matches(extractPath(path), pattern)

dataQueryJobPattern == <<"query", "jobs", ANY>>

isDataQueryWrite(method, path) ==
  \/ method = "POST" /\ extractPath(path) = <<"query", "jobs">>
  \/ method = "DELETE" /\ Matches(extractPath(path), dataQueryJobPattern)

\* The gate at the top of Do.
Blocks(readOnly, allowDataQuery, method, path) ==
  /\ readOnly
  /\ ~isReadOnlyAllowed(method, path)
  /\ ~(allowDataQuery /\ isDataQueryWrite(method, path))
=============================================================================
