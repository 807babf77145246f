--------------------------- MODULE CommandRunProofs ---------------------------
(***************************************************************************)
(* The properties of CommandRun, proved for every command of the table,    *)
(* all arguments, and every path a user gives to zr api.                   *)
(***************************************************************************)
EXTENDS CommandRun, FiniteSetTheorems, TLAPS

(* The requests of the commands.                                           *)

\* The reads without an argument are on the list as they are, but for the case.
FixedReads ==
  { <<"v1", "action", "query">>, <<"v1", "action", "queryMore">>,
    <<"v1", "orders", "preview">>, <<"v1", "subscriptions", "preview">>,
    <<"commerce", "plans", "query">>, <<"commerce", "plans", "list">>,
    <<"commerce", "purchase-options", "list">>, <<"commerce", "charges", "query">>,
    <<"v1", "async", "orders", "preview">>, <<"commerce", "legacy", "products", "list">> }

ReadPosts ==
  FixedReads \cup { <<"meters", "<1>", "summary">>, <<"commerce", "products", "<1>">>,
                   <<"v1", "subscriptions", "<1>", "preview">> }

ShortPosts ==
  { <<"v1", "accounts">>, <<"v1", "contacts">>, <<"v1", "orders">>, <<"v1", "subscriptions">>,
    <<"v1", "sign-up">>, <<"v1", "bill-runs">>, <<"v1", "payments">>, <<"v1", "usage">>,
    <<"v1", "fulfillments">>, <<"v1", "fulfillment-items">>,
    <<"v1", "omni-channel-subscriptions">>, <<"commerce", "products">>,
    <<"commerce", "plans">>, <<"commerce", "charges">> }
MiddlePosts ==
  { <<"v1", "object", "usage">>, <<"v1", "async", "orders">>,
    <<"v1", "order-line-items", "bulk">>, <<"v1", "prepaid-balance-funds", "deplete">>,
    <<"v1", "ppdd", "rollover">>, <<"v1", "ppdd", "reverse-rollover">> }
LongPosts ==
  { <<"v1", "orders", "<1>", "revert">>, <<"v1", "invoices", "<1>", "emails">>,
    <<"v1", "payments", "<1>", "refunds">>, <<"meters", "run", "<1>", "<2>">>,
    <<"meters", "debug", "<1>", "<2>">> }
WritePosts == ShortPosts \cup MiddlePosts \cup LongPosts

WriteDeletes ==
  { <<"v1", "accounts", "<1>">>, <<"v1", "contacts", "<1>">>, <<"v1", "orders", "<1>">>,
    <<"v1", "bill-runs", "<1>">>, <<"v1", "fulfillments", "<1>">>,
    <<"v1", "fulfillment-items", "<1>">>, <<"v1", "omni-channel-subscriptions", "<1>">>,
    <<"v1", "object", "usage", "<1>">>, <<"v1", "async", "orders", "<1>">> }

\* A request of a command, by what it is for.
Known(r) ==
  /\ r = Request(r.method, r.path, r.kind)
  /\ \/ r.kind = "read" /\ r.method = "GET"
     \/ r.kind = "read" /\ r.method = "POST" /\ r.path \in ReadPosts
     \/ r.kind = "write" /\ r.method = "PUT"
     \/ r.kind = "write" /\ r.method = "POST" /\ r.path \in WritePosts
     \/ r.kind = "write" /\ r.method = "DELETE" /\ r.path \in WriteDeletes
     \/ r.kind = "query" /\ r.method = "POST" /\ r.path = Jobs
     \/ r.kind = "query" /\ r.method = "DELETE" /\ r.path = Job

----------------------------------------------------------------------------
(* The gate, on every path a request of a command can become.              *)

LEMMA LowerEmpty == \A w : ToLower(w) = "" => w = ""
  BY DEF ToLower

LEMMA Sizes ==
  /\ 1 .. 2 # 1 .. 3 /\ 1 .. 2 # 1 .. 4 /\ 1 .. 3 # 1 .. 4
  /\ \A e \in readOnlyPOSTAllowList : DOMAIN e \in {1 .. 3, 1 .. 4}
  /\ \A e \in readOnlyPOSTPatterns : DOMAIN e \in {1 .. 3, 1 .. 4}
<1>1. 1 .. 2 # 1 .. 3 /\ 1 .. 2 # 1 .. 4 /\ 1 .. 3 # 1 .. 4
  <2>1. 3 \in 1 .. 3 /\ 3 \in 1 .. 4 /\ 3 \notin 1 .. 2 /\ 4 \in 1 .. 4 /\ 4 \notin 1 .. 3
    OBVIOUS
  <2>2. QED
    BY <2>1
<1>2. \A e \in readOnlyPOSTAllowList : DOMAIN e \in {1 .. 3, 1 .. 4}
  BY DEF readOnlyPOSTAllowList
<1>3. \A e \in readOnlyPOSTPatterns : DOMAIN e \in {1 .. 3, 1 .. 4}
  BY DEF readOnlyPOSTPatterns
<1>4. QED
  BY <1>1, <1>2, <1>3

\* A path of the shape of a write is on no list of reads.
LEMMA ShortNotAllowed ==
  ASSUME NEW p, DOMAIN p = 1 .. 2
  PROVE  ~isReadOnlyAllowed("POST", p)
<1>1. DOMAIN extractPath(p) = 1 .. 2
  BY DEF extractPath
<1>2. QED
  BY <1>1, Sizes DEF isReadOnlyAllowed, Matches

LEMMA MiddleNotAllowed ==
  ASSUME NEW p, DOMAIN p = 1 .. 3,
         extractPath(p)[1] = "v1", extractPath(p)[2] \notin {"action", "orders", "subscriptions"}
  PROVE  ~isReadOnlyAllowed("POST", p)
<1> DEFINE q == extractPath(p)
<1>1. DOMAIN q = 1 .. 3
  BY DEF extractPath
<1> HIDE DEF q
<1>2. q \notin readOnlyPOSTAllowList
  BY <1>1, Sizes DEF readOnlyPOSTAllowList, q
<1>3. ASSUME NEW e \in readOnlyPOSTPatterns, Matches(q, e) PROVE FALSE
  <2>0. DOMAIN q = DOMAIN e /\ \A i \in DOMAIN e : q[i] = e[i] \/ e[i] = "*"
    BY <1>3 DEF Matches, ANY
  <2>1. CASE e = <<"v1", "subscriptions", ANY, "preview">>
    <3>1. DOMAIN e = 1 .. 4 /\ e[1] = "v1" /\ e[2] = "subscriptions" /\ e[4] = "preview"
      BY <2>1 DEF ANY
    <3>2. QED
      BY <1>1, <2>0, <3>1, Sizes DEF q
  <2>2. CASE e = <<"meters", ANY, "summary">>
    <3>1. DOMAIN e = 1 .. 3 /\ e[1] = "meters"
      BY <2>2 DEF ANY
    <3>2. QED
      BY <1>1, <2>0, <3>1, Sizes DEF q
  <2>3. CASE e = <<"commerce", "products", ANY>>
    <3>1. DOMAIN e = 1 .. 3 /\ e[1] = "commerce"
      BY <2>3 DEF ANY
    <3>2. QED
      BY <1>1, <2>0, <3>1, Sizes DEF q
  <2>4. QED
    BY <2>1, <2>2, <2>3 DEF readOnlyPOSTPatterns
<1>4. QED
  BY <1>2, <1>3 DEF isReadOnlyAllowed, q

LEMMA LongNotAllowed ==
  ASSUME NEW p, DOMAIN p = 1 .. 4,
         \/ extractPath(p)[1] = "v1" /\ extractPath(p)[4] # "preview"
         \/ extractPath(p)[1] = "meters"
  PROVE  ~isReadOnlyAllowed("POST", p)
<1> DEFINE q == extractPath(p)
<1>1. DOMAIN q = 1 .. 4
  BY DEF extractPath
<1> HIDE DEF q
<1>2. q \notin readOnlyPOSTAllowList
  BY <1>1, Sizes DEF readOnlyPOSTAllowList, q
<1>3. ASSUME NEW e \in readOnlyPOSTPatterns, Matches(q, e) PROVE FALSE
  <2>0. DOMAIN q = DOMAIN e /\ \A i \in DOMAIN e : q[i] = e[i] \/ e[i] = "*"
    BY <1>3 DEF Matches, ANY
  <2>1. CASE e = <<"v1", "subscriptions", ANY, "preview">>
    <3>1. DOMAIN e = 1 .. 4 /\ e[1] = "v1" /\ e[2] = "subscriptions" /\ e[4] = "preview"
      BY <2>1 DEF ANY
    <3>2. QED
      BY <1>1, <2>0, <3>1, Sizes DEF q
  <2>2. CASE e = <<"meters", ANY, "summary">>
    <3>1. DOMAIN e = 1 .. 3 /\ e[1] = "meters"
      BY <2>2 DEF ANY
    <3>2. QED
      BY <1>1, <2>0, <3>1, Sizes DEF q
  <2>3. CASE e = <<"commerce", "products", ANY>>
    <3>1. DOMAIN e = 1 .. 3 /\ e[1] = "commerce"
      BY <2>3 DEF ANY
    <3>2. QED
      BY <1>1, <2>0, <3>1, Sizes DEF q
  <2>4. QED
    BY <2>1, <2>2, <2>3 DEF readOnlyPOSTPatterns
<1>4. QED
  BY <1>2, <1>3 DEF isReadOnlyAllowed, q

\* What a path takes over from the request it is of.
LEMMA SamePath ==
  ASSUME NEW r, NEW p, IsOf(p, r)
  PROVE  /\ DOMAIN p = DOMAIN r.path
         /\ \A i \in DOMAIN p : r.path[i] \notin Placeholders => extractPath(p)[i] = ToLower(r.path[i])
  BY DEF IsOf, extractPath

LEMMA WritesBlocked ==
  ASSUME NEW r, Known(r), r.kind = "write", NEW p, IsOf(p, r)
  PROVE  ~isReadOnlyAllowed(r.method, p) /\ ~isDataQueryWrite(r.method, p)
<1>1. CASE r.method = "PUT"
  BY <1>1 DEF isReadOnlyAllowed, isDataQueryWrite
<1>2. CASE r.method = "POST" /\ r.path \in ShortPosts
  <2>1. DOMAIN p = 1 .. 2 /\ extractPath(p)[1] # "query"
    <3>1. DOMAIN r.path = 1 .. 2 /\ r.path[1] \in {"v1", "commerce"}
      BY <1>2 DEF ShortPosts
    <3>2. QED
      BY <3>1, SamePath DEF Placeholders, ToLower
  <2>2. QED
    BY <1>2, <2>1, ShortNotAllowed DEF isDataQueryWrite
<1>3. CASE r.method = "POST" /\ r.path \in MiddlePosts
  <2>1. /\ DOMAIN p = 1 .. 3 /\ extractPath(p)[1] = "v1"
        /\ extractPath(p)[2] \notin {"action", "orders", "subscriptions"}
    <3>1. /\ DOMAIN r.path = 1 .. 3 /\ r.path[1] = "v1"
          /\ r.path[2] \in {"object", "async", "order-line-items", "prepaid-balance-funds", "ppdd"}
      BY <1>3 DEF MiddlePosts
    <3>2. QED
      BY <3>1, SamePath DEF Placeholders, ToLower
  <2>2. extractPath(p) # Jobs
    BY <2>1 DEF Jobs
  <2>3. QED
    BY <1>3, <2>1, <2>2, MiddleNotAllowed DEF isDataQueryWrite, Jobs
<1>4. CASE r.method = "POST" /\ r.path \in LongPosts
  <2>1. /\ DOMAIN p = 1 .. 4
        /\ \/ extractPath(p)[1] = "v1" /\ extractPath(p)[4] # "preview"
           \/ extractPath(p)[1] = "meters"
    <3>1. /\ DOMAIN r.path = 1 .. 4
          /\ \/ r.path[1] = "v1" /\ r.path[4] \in {"revert", "emails", "refunds"}
             \/ r.path[1] = "meters"
      BY <1>4 DEF LongPosts
    <3>2. QED
      BY <3>1, SamePath DEF Placeholders, ToLower
  <2>2. extractPath(p) # Jobs
    BY <2>1 DEF Jobs
  <2>3. QED
    BY <1>4, <2>1, <2>2, LongNotAllowed DEF isDataQueryWrite, Jobs
<1>5. CASE r.method = "DELETE" /\ r.path \in WriteDeletes
  <2>1. 1 \in DOMAIN p /\ extractPath(p)[1] = "v1"
    <3>1. 1 \in DOMAIN r.path /\ r.path[1] = "v1"
      BY <1>5 DEF WriteDeletes
    <3>2. QED
      BY <3>1, SamePath DEF Placeholders, ToLower
  <2>2. ~Matches(extractPath(p), dataQueryJobPattern)
    <3>1. 1 \in DOMAIN dataQueryJobPattern /\ dataQueryJobPattern[1] = "query"
      BY DEF dataQueryJobPattern
    <3>2. QED
      BY <2>1, <3>1 DEF Matches, ANY
  <2>3. QED
    BY <1>5, <2>2 DEF isReadOnlyAllowed, isDataQueryWrite
<1>6. QED
  BY <1>1, <1>2, <1>3, <1>4, <1>5 DEF Known, WritePosts

LEMMA QueriesBlocked ==
  ASSUME NEW r, Known(r), r.kind = "query", NEW p, IsOf(p, r)
  PROVE  ~isReadOnlyAllowed(r.method, p)
<1>1. CASE r.method = "POST" /\ r.path = Jobs
  <2>1. DOMAIN p = 1 .. 2
    BY <1>1, SamePath DEF Jobs
  <2>2. QED
    BY <1>1, <2>1, ShortNotAllowed
<1>2. CASE r.method = "DELETE"
  BY <1>2 DEF isReadOnlyAllowed
<1>3. QED
  BY <1>1, <1>2 DEF Known

LEMMA FixedReadsListed ==
  ASSUME NEW t \in FixedReads
  PROVE  /\ extractPath(t) \in readOnlyPOSTAllowList
         /\ \A i \in DOMAIN t : t[i] \notin Placeholders
<1>1. \A i \in DOMAIN t : t[i] \notin Placeholders
  BY DEF FixedReads, Placeholders
<1>2. CASE DOMAIN t = 1 .. 3
  <2>1. t = <<t[1], t[2], t[3]>>
    BY <1>2, Sizes DEF FixedReads
  <2>2. extractPath(t) = <<ToLower(t[1]), ToLower(t[2]), ToLower(t[3])>>
    BY <1>2, <2>1 DEF extractPath
  <2>3. QED
    BY <1>1, <2>1, <2>2, Sizes DEF FixedReads, ToLower, readOnlyPOSTAllowList
<1>3. CASE DOMAIN t = 1 .. 4
  <2>1. t = <<t[1], t[2], t[3], t[4]>>
    BY <1>3, Sizes DEF FixedReads
  <2>2. extractPath(t) = <<ToLower(t[1]), ToLower(t[2]), ToLower(t[3]), ToLower(t[4])>>
    BY <1>3, <2>1 DEF extractPath
  <2>3. QED
    BY <1>1, <2>1, <2>2, Sizes DEF FixedReads, ToLower, readOnlyPOSTAllowList
<1>4. DOMAIN t \in {1 .. 3, 1 .. 4}
  BY DEF FixedReads
<1>5. QED
  BY <1>2, <1>3, <1>4

LEMMA MatchesOf ==
  ASSUME NEW r, NEW p, IsOf(p, r), ~Blank(p),
         NEW e, DOMAIN e = DOMAIN r.path,
         \A i \in DOMAIN e : e[i] = ANY \/ (r.path[i] \notin Placeholders /\ ToLower(r.path[i]) = e[i])
  PROVE  Matches(extractPath(p), e)
<1>1. DOMAIN extractPath(p) = DOMAIN e /\ DOMAIN p = DOMAIN e
  BY SamePath DEF extractPath
<1>2. ASSUME NEW i \in DOMAIN e PROVE extractPath(p)[i] = e[i] \/ (e[i] = ANY /\ extractPath(p)[i] # "")
  <2>1. extractPath(p)[i] # ""
    BY <1>1, LowerEmpty DEF extractPath, Blank
  <2>2. QED
    BY <1>1, <2>1, SamePath
<1>3. QED
  BY <1>1, <1>2 DEF Matches

LEMMA ReadsAllowed ==
  ASSUME NEW r, Known(r), r.kind = "read", NEW p, IsOf(p, r), ~Blank(p)
  PROVE  isReadOnlyAllowed(r.method, p)
<1>1. CASE r.method = "GET"
  BY <1>1 DEF isReadOnlyAllowed
<1>2. CASE r.method = "POST" /\ r.path \in FixedReads
  <2>1. extractPath(p) = extractPath(r.path)
    <3>1. \A i \in DOMAIN p : r.path[i] \notin Placeholders
      BY <1>2, SamePath, FixedReadsListed
    <3>2. DOMAIN p = DOMAIN r.path /\ \A i \in DOMAIN p : ToLower(p[i]) = ToLower(r.path[i])
      BY <3>1, SamePath DEF extractPath
    <3>3. QED
      BY <3>2 DEF extractPath
  <2>2. QED
    BY <1>2, <2>1, FixedReadsListed DEF isReadOnlyAllowed
<1>3. CASE r.method = "POST" /\ r.path = <<"meters", "<1>", "summary">>
  <2> DEFINE e == <<"meters", ANY, "summary">>
  <2>1. DOMAIN e = 1 .. 3 /\ DOMAIN r.path = 1 .. 3
    BY <1>3 DEF ANY
  <2>2. e[1] = "meters" /\ r.path[1] = "meters" /\ e[3] = "summary" /\ r.path[3] = "summary"
    BY <1>3
  <2>3. e[2] = ANY
    OBVIOUS
  <2>4. \A i \in DOMAIN e : e[i] = ANY \/ (r.path[i] \notin Placeholders /\ ToLower(r.path[i]) = e[i])
    <3> HIDE DEF e
    <3>1. DOMAIN e = {1, 2, 3}
      BY <2>1
    <3>2. QED
      BY <2>2, <2>3, <3>1 DEF Placeholders, ToLower
  <2>5. e \in readOnlyPOSTPatterns
    BY DEF readOnlyPOSTPatterns
  <2> HIDE DEF e
  <2>6. Matches(extractPath(p), e)
    BY <2>1, <2>4, MatchesOf
  <2>7. QED
    BY <1>3, <2>5, <2>6 DEF isReadOnlyAllowed
<1>4. CASE r.method = "POST" /\ r.path = <<"commerce", "products", "<1>">>
  <2> DEFINE e == <<"commerce", "products", ANY>>
  <2>1. DOMAIN e = 1 .. 3 /\ DOMAIN r.path = 1 .. 3
    BY <1>4 DEF ANY
  <2>2. e[1] = "commerce" /\ r.path[1] = "commerce" /\ e[2] = "products" /\ r.path[2] = "products"
    BY <1>4
  <2>3. e[3] = ANY
    OBVIOUS
  <2>4. \A i \in DOMAIN e : e[i] = ANY \/ (r.path[i] \notin Placeholders /\ ToLower(r.path[i]) = e[i])
    <3> HIDE DEF e
    <3>1. DOMAIN e = {1, 2, 3}
      BY <2>1
    <3>2. QED
      BY <2>2, <2>3, <3>1 DEF Placeholders, ToLower
  <2>5. e \in readOnlyPOSTPatterns
    BY DEF readOnlyPOSTPatterns
  <2> HIDE DEF e
  <2>6. Matches(extractPath(p), e)
    BY <2>1, <2>4, MatchesOf
  <2>7. QED
    BY <1>4, <2>5, <2>6 DEF isReadOnlyAllowed
<1>5. CASE r.method = "POST" /\ r.path = <<"v1", "subscriptions", "<1>", "preview">>
  <2> DEFINE e == <<"v1", "subscriptions", ANY, "preview">>
  <2>1. DOMAIN e = 1 .. 4 /\ DOMAIN r.path = 1 .. 4
    BY <1>5 DEF ANY
  <2>2. e[1] = "v1" /\ r.path[1] = "v1" /\ e[2] = "subscriptions" /\ r.path[2] = "subscriptions" /\ e[4] = "preview" /\ r.path[4] = "preview"
    BY <1>5
  <2>3. e[3] = ANY
    OBVIOUS
  <2>4. \A i \in DOMAIN e : e[i] = ANY \/ (r.path[i] \notin Placeholders /\ ToLower(r.path[i]) = e[i])
    <3> HIDE DEF e
    <3>1. DOMAIN e = {1, 2, 3, 4}
      BY <2>1
    <3>2. QED
      BY <2>2, <2>3, <3>1 DEF Placeholders, ToLower
  <2>5. e \in readOnlyPOSTPatterns
    BY DEF readOnlyPOSTPatterns
  <2> HIDE DEF e
  <2>6. Matches(extractPath(p), e)
    BY <2>1, <2>4, MatchesOf
  <2>7. QED
    BY <1>5, <2>5, <2>6 DEF isReadOnlyAllowed
<1>6. QED
  BY <1>1, <1>2, <1>3, <1>4, <1>5 DEF Known, ReadPosts

----------------------------------------------------------------------------
(* The table, by the shapes its commands are built out of.                 *)

Fields == {"options", "inputs", "accepts", "route", "steps", "bodies", "view", "message",
           "bools", "cursor", "more"}

\* A command that makes one request, whatever the flags.
Built(c, request, steps, view, message) ==
  /\ DOMAIN c = Fields
  /\ c.accepts # {} /\ {} \in c.inputs /\ c.inputs \subseteq SUBSET c.options
  /\ \A o \in c.accepts : c.route[o] = request
  /\ c.cursor \in c.options \cup {""}
  /\ c.steps = steps /\ c.view = view /\ c.message = message

LEMMA CommandBuilt ==
  ASSUME NEW request, NEW steps, NEW view
  PROVE  Built(Command(request, steps, view), request, steps, view, FALSE)
  BY DEF Built, Command, Fields

LEMMA FlagsBuilt ==
  ASSUME NEW c, NEW request, NEW steps, NEW view, NEW message,
         Built(c, request, steps, view, message),
         NEW options, NEW accepts, accepts # {}, c.cursor \in options \cup {""}
  PROVE  Built(Flags(c, options, accepts), request, steps, view, message)
<1>1. (CHOOSE r \in {c.route[a] : a \in c.accepts} : TRUE) = request
  BY DEF Built
<1>2. QED
  BY <1>1 DEF Built, Flags, Fields

\* What the rest of the program reads of a command stays when its bodies change.
LEMMA BodiesBuilt ==
  ASSUME NEW c, NEW request, NEW steps, NEW view, NEW message,
         Built(c, request, steps, view, message), NEW bodies
  PROVE  Built([c EXCEPT !.bodies = bodies], request, steps, view, message)
  BY DEF Built, Fields

LEMMA AnnouncedBuilt ==
  ASSUME NEW c, NEW request, NEW steps, NEW view, NEW message,
         Built(c, request, steps, view, message)
  PROVE  Built(Announced(c), request, steps, view, TRUE)
  BY DEF Built, Announced, Fields

LEMMA StepsBuilt ==
  ASSUME NEW c, NEW request, NEW steps, NEW view, NEW message,
         Built(c, request, steps, view, message), NEW others
  PROVE  Built([c EXCEPT !.steps = others], request, others, view, message)
  BY DEF Built, Fields

LEMMA ConfirmedBuilt ==
  ASSUME NEW c, NEW request, NEW steps, NEW view, NEW message,
         Built(c, request, steps, view, message)
  PROVE  Built(Confirmed(c), request, <<"confirm">> \o steps, view, message)
  BY DEF Built, Confirmed, Fields

LEMMA RequiresBodyBuilt ==
  ASSUME NEW c, NEW request, NEW steps, NEW view, NEW message,
         Built(c, request, steps, view, message)
  PROVE  Built(RequiresBody(c), request, steps, view, message)
<1> DEFINE accepts == {o \cup {"body"} : o \in c.accepts}
<1>1. accepts # {}
  <2>1. PICK o : o \in c.accepts
    BY DEF Built
  <2>2. o \cup {"body"} \in accepts
    BY <2>1
  <2>3. QED
    BY <2>2
<1>2. c.cursor \in (c.options \cup {"body"}) \cup {""}
  BY DEF Built
<1> HIDE DEF accepts
<1>3. Built(Flags(c, c.options \cup {"body"}, accepts), request, steps, view, message)
  BY <1>1, <1>2, FlagsBuilt
<1>4. QED
  BY <1>3, BodiesBuilt DEF RequiresBody, accepts

LEMMA AllowsBodyBuilt ==
  ASSUME NEW c, NEW request, NEW steps, NEW view, NEW message,
         Built(c, request, steps, view, message)
  PROVE  Built(AllowsBody(c), request, steps, view, message)
<1> DEFINE accepts == {o \cup b : o \in c.accepts, b \in {{}, {"body"}}}
<1>1. accepts # {}
  <2>1. PICK o : o \in c.accepts
    BY DEF Built
  <2>2. o \cup {"body"} \in accepts
    BY <2>1
  <2>3. QED
    BY <2>2
<1>2. c.cursor \in (c.options \cup {"body"}) \cup {""}
  BY DEF Built
<1> HIDE DEF accepts
<1>3. Built(Flags(c, c.options \cup {"body"}, accepts), request, steps, view, message)
  BY <1>1, <1>2, FlagsBuilt
<1>4. AllowsBody(c) = [Flags(c, c.options \cup {"body"}, accepts) EXCEPT !.bodies = JsonValues \cup {"empty"}]
  BY DEF AllowsBody, accepts
<1>5. QED
  BY <1>3, <1>4, BodiesBuilt

\* The steps of a command: checks, the request, and what is done with the
\* answer, in that order.
Checks == {"confirm", "csv", "client", "body", "file"}
Ends == {"more", "render", "hint"}
Ordered(steps) ==
  /\ steps \in Seq(Steps)
  /\ \A i \in 1 .. Len(steps) : steps[i] \in Checks \cup {"send"} \cup Ends
  /\ \A i, j \in 1 .. Len(steps) : i < j /\ steps[i] \notin Checks => steps[j] \in Ends
Has(steps, step) == \E i \in 1 .. Len(steps) : steps[i] = step

Views == {"detail", "delete", "json", "notice", "table", "raw"}
ReadsOnly(c) == \A o \in c.accepts : c.route[o].kind = "read"

\* What the steps of CommandRun need of a command.
Sound(c) ==
  /\ {} \in c.inputs /\ c.inputs \subseteq SUBSET c.options
  /\ c.cursor \in c.options \cup {""}
  /\ \A o \in c.accepts : Known(c.route[o])
  /\ Ordered(c.steps)
  /\ c.view \in Views
  /\ c.view = "json" => Has(c.steps, "csv")
  /\ c.view = "table" \/ (c.view = "detail" /\ ~c.message) => ReadsOnly(c)
  /\ Has(c.steps, "more") => c.view = "table" /\ c.more = <<"v1", "action", "queryMore">>

LEMMA PlainOrders ==
  /\ Ordered(<<"client", "send", "render">>) /\ ~Has(<<"client", "send", "render">>, "more")
  /\ Ordered(<<"body", "client", "send", "render">>) /\ ~Has(<<"body", "client", "send", "render">>, "more")
  /\ Ordered(<<"client", "body", "send", "render">>) /\ ~Has(<<"client", "body", "send", "render">>, "more")
  /\ Ordered(<<"client", "send", "render", "hint">>) /\ ~Has(<<"client", "send", "render", "hint">>, "more")
  /\ Ordered(<<"client", "send", "more", "render">>)
<1>1. Ordered(<<"client", "send", "render">>) /\ ~Has(<<"client", "send", "render">>, "more")
  BY DEF Ordered, Has, Steps, Checks, Ends
<1>2. /\ Ordered(<<"body", "client", "send", "render">>)
      /\ ~Has(<<"body", "client", "send", "render">>, "more")
  BY DEF Ordered, Has, Steps, Checks, Ends
<1>3. /\ Ordered(<<"client", "body", "send", "render">>)
      /\ ~Has(<<"client", "body", "send", "render">>, "more")
  BY DEF Ordered, Has, Steps, Checks, Ends
<1>4. /\ Ordered(<<"client", "send", "render", "hint">>)
      /\ ~Has(<<"client", "send", "render", "hint">>, "more")
  BY DEF Ordered, Has, Steps, Checks, Ends
<1>5. Ordered(<<"client", "send", "more", "render">>)
  BY DEF Ordered, Has, Steps, Checks, Ends
<1>6. QED
  BY <1>1, <1>2, <1>3, <1>4, <1>5

\* A check before the steps of a command is one more check.
LEMMA CheckFirst ==
  ASSUME NEW steps, Ordered(steps), NEW check \in Checks
  PROVE  /\ Ordered(<<check>> \o steps) /\ Has(<<check>> \o steps, check)
         /\ \A step : step # check => (Has(<<check>> \o steps, step) <=> Has(steps, step))
<1> DEFINE all == <<check>> \o steps
<1>1. check \in Steps
  BY DEF Checks, Steps
<1>2. /\ all \in Seq(Steps) /\ Len(all) = Len(steps) + 1 /\ Len(steps) \in Nat
      /\ \A i \in 1 .. Len(all) : all[i] = IF i = 1 THEN check ELSE steps[i - 1]
  BY <1>1 DEF Ordered
<1> HIDE DEF all
<1>3. \A i \in 1 .. Len(all) : i # 1 => i - 1 \in 1 .. Len(steps)
  BY <1>2
<1>4. Ordered(all)
  <2>1. ASSUME NEW i \in 1 .. Len(all) PROVE all[i] \in Checks \cup {"send"} \cup Ends
    BY <1>2, <1>3 DEF Ordered
  <2>2. ASSUME NEW i \in 1 .. Len(all), NEW j \in 1 .. Len(all), i < j, all[i] \notin Checks
        PROVE  all[j] \in Ends
    <3>1. i # 1 /\ j # 1
      BY <1>2, <2>2
    <3>2. /\ i - 1 \in 1 .. Len(steps) /\ j - 1 \in 1 .. Len(steps) /\ i - 1 < j - 1
          /\ all[i] = steps[i - 1] /\ all[j] = steps[j - 1]
      BY <1>2, <1>3, <2>2, <3>1
    <3>3. QED
      BY <2>2, <3>2 DEF Ordered
  <2>3. QED
    BY <1>2, <2>1, <2>2 DEF Ordered
<1>5. Has(all, check)
  BY <1>2 DEF Has
<1>6. ASSUME NEW step, step # check PROVE Has(all, step) <=> Has(steps, step)
  <2>1. ASSUME NEW i \in 1 .. Len(all), all[i] = step PROVE Has(steps, step)
    BY <1>2, <1>3, <1>6, <2>1 DEF Has
  <2>2. ASSUME NEW i \in 1 .. Len(steps), steps[i] = step PROVE Has(all, step)
    <3>1. i + 1 \in 1 .. Len(all) /\ all[i + 1] = step
      BY <1>2, <2>2
    <3>2. QED
      BY <3>1 DEF Has
  <2>3. QED
    BY <2>1, <2>2 DEF Has
<1>7. QED
  BY <1>4, <1>5, <1>6 DEF all

LEMMA CSVFirst ==
  ASSUME NEW steps \in {<<"client", "send", "render">>, <<"client", "body", "send", "render">>}
  PROVE  /\ Ordered(<<"csv">> \o steps) /\ Has(<<"csv">> \o steps, "csv")
         /\ ~Has(<<"csv">> \o steps, "more")
  BY PlainOrders, CheckFirst DEF Checks

LEMMA BuiltSound ==
  ASSUME NEW c, NEW request, NEW steps, NEW view \in Views, NEW message,
         Built(c, request, steps, view, message), Known(request),
         Ordered(steps), ~Has(steps, "more"), view = "json" => Has(steps, "csv"),
         request.kind = "read" \/ view \notin {"table", "detail"} \/ (view = "detail" /\ message)
  PROVE  Sound(c)
  BY DEF Built, Sound, ReadsOnly

LEMMA RequestsKnown ==
  ASSUME NEW p
  PROVE  /\ Known(Get(p)) /\ Get(p).kind = "read"
         /\ Known(Put(p))
         /\ p \in WritePosts => Known(Post(p))
         /\ p \in WriteDeletes => Known(Delete(p))
         /\ p \in ReadPosts => Known(Search(p)) /\ Search(p).kind = "read"
  BY DEF Known, Request, Get, Put, Post, Delete, Search

LEMMA QueriesKnown ==
  Known(Request("POST", Jobs, "query")) /\ Known(Request("DELETE", Job, "query"))
  BY DEF Known, Request

\* One lemma per shape: what it is built from, and that it is sound.
LEMMA DetailShape ==
  ASSUME NEW r, Known(r)
  PROVE  /\ Built(Detail(r), r, <<"client", "send", "render">>, "detail", FALSE)
         /\ r.kind = "read" => Sound(Detail(r))
         /\ Built(Announced(Detail(r)), r, <<"client", "send", "render">>, "detail", TRUE)
         /\ Sound(Announced(Detail(r)))
         /\ Sound(Confirmed(Announced(Detail(r)))) /\ Has(Confirmed(Announced(Detail(r))).steps, "confirm")
<1> DEFINE plain == <<"client", "send", "render">>
<1>0. Ordered(plain) /\ ~Has(plain, "more")
  BY PlainOrders
<1> HIDE DEF plain
<1>1. Built(Detail(r), r, plain, "detail", FALSE)
  BY CommandBuilt DEF Detail, plain
<1>2. Built(Announced(Detail(r)), r, plain, "detail", TRUE)
  BY <1>1, AnnouncedBuilt
<1>3. Built(Confirmed(Announced(Detail(r))), r, <<"confirm">> \o plain, "detail", TRUE)
  BY <1>2, ConfirmedBuilt
<1>4. /\ Ordered(<<"confirm">> \o plain) /\ ~Has(<<"confirm">> \o plain, "more")
      /\ Has(<<"confirm">> \o plain, "confirm")
  BY <1>0, CheckFirst DEF Checks
<1>5. r.kind = "read" => Sound(Detail(r))
  BY <1>0, <1>1, BuiltSound DEF Views
<1>6. Sound(Announced(Detail(r)))
  BY <1>0, <1>2, BuiltSound DEF Views
<1>7. Sound(Confirmed(Announced(Detail(r))))
  BY <1>3, <1>4, BuiltSound DEF Views
<1>8. Has(Confirmed(Announced(Detail(r))).steps, "confirm")
  BY <1>3, <1>4 DEF Built
<1>9. QED
  BY <1>1, <1>2, <1>5, <1>6, <1>7, <1>8 DEF plain

LEMMA BodyShape ==
  ASSUME NEW r, Known(r), NEW c \in {WithBody(r), MayHaveBody(r)}
  PROVE  /\ Built(c, r, <<"body", "client", "send", "render">>, "detail", TRUE)
         /\ Sound(c) /\ Sound(Confirmed(c)) /\ Has(Confirmed(c).steps, "confirm")
<1> DEFINE plain == <<"body", "client", "send", "render">>
<1>0. Ordered(plain) /\ ~Has(plain, "more")
  BY PlainOrders
<1>1. /\ WithBody(r) = RequiresBody(Announced(Command(r, plain, "detail")))
      /\ MayHaveBody(r) = AllowsBody(Announced(Command(r, plain, "detail")))
  BY DEF WithBody, MayHaveBody
<1> HIDE DEF plain
<1>2. Built(Announced(Command(r, plain, "detail")), r, plain, "detail", TRUE)
  BY CommandBuilt, AnnouncedBuilt
<1>3. Built(c, r, plain, "detail", TRUE)
  BY <1>1, <1>2, RequiresBodyBuilt, AllowsBodyBuilt
<1>4. Built(Confirmed(c), r, <<"confirm">> \o plain, "detail", TRUE)
  BY <1>3, ConfirmedBuilt
<1>5. /\ Ordered(<<"confirm">> \o plain) /\ ~Has(<<"confirm">> \o plain, "more")
      /\ Has(<<"confirm">> \o plain, "confirm")
  BY <1>0, CheckFirst DEF Checks
<1>6. Sound(c)
  BY <1>0, <1>3, BuiltSound DEF Views
<1>7. Sound(Confirmed(c)) /\ Has(Confirmed(c).steps, "confirm")
  BY <1>4, <1>5, BuiltSound DEF Views, Built
<1>8. QED
  BY <1>3, <1>6, <1>7 DEF plain

LEMMA RemovalShape ==
  ASSUME NEW r, Known(r)
  PROVE  /\ Built(Removal(r), r, <<"confirm">> \o <<"client", "send", "render">>, "delete", FALSE)
         /\ Sound(Removal(r)) /\ Has(Removal(r).steps, "confirm")
<1> DEFINE plain == <<"client", "send", "render">>
<1>0. Ordered(plain) /\ ~Has(plain, "more")
  BY PlainOrders
<1>1. Removal(r) = Confirmed(Command(r, plain, "delete"))
  BY DEF Removal
<1> HIDE DEF plain
<1>2. Built(Removal(r), r, <<"confirm">> \o plain, "delete", FALSE)
  BY <1>1, CommandBuilt, ConfirmedBuilt
<1>3. /\ Ordered(<<"confirm">> \o plain) /\ ~Has(<<"confirm">> \o plain, "more")
      /\ Has(<<"confirm">> \o plain, "confirm")
  BY <1>0, CheckFirst DEF Checks
<1>4. Sound(Removal(r)) /\ Has(Removal(r).steps, "confirm")
  BY <1>2, <1>3, BuiltSound DEF Views, Built
<1>5. QED
  BY <1>2, <1>4 DEF plain

LEMMA TableShape ==
  ASSUME NEW r, Known(r), r.kind = "read"
  PROVE  /\ Built(Table(r), r, <<"client", "send", "render">>, "table", FALSE)
         /\ Sound(Table(r))
<1>1. Built(Table(r), r, <<"client", "send", "render">>, "table", FALSE)
  BY CommandBuilt DEF Table
<1>2. QED
  BY <1>1, PlainOrders, BuiltSound DEF Views

\* A document has --csv refused first.
LEMMA DocumentShape ==
  ASSUME NEW r, Known(r)
  PROVE  /\ Built(Document(r), r, <<"csv", "client", "send", "render">>, "json", FALSE)
         /\ Sound(Document(r))
         /\ Built(DocumentOf(r), r, <<"csv", "client", "body", "send", "render">>, "json", FALSE)
         /\ Sound(DocumentOf(r))
         /\ Sound(Commerce(r))
<1> DEFINE short == <<"csv", "client", "send", "render">>
           long == <<"csv", "client", "body", "send", "render">>
<1>1. /\ Ordered(short) /\ Has(short, "csv") /\ ~Has(short, "more")
      /\ Ordered(long) /\ Has(long, "csv") /\ ~Has(long, "more")
  <2>1. /\ short = <<"csv">> \o <<"client", "send", "render">>
        /\ long = <<"csv">> \o <<"client", "body", "send", "render">>
    OBVIOUS
  <2> HIDE DEF short, long
  <2>2. QED
    BY <2>1, CSVFirst
<1>2. /\ Document(r) = Command(r, short, "json")
      /\ DocumentOf(r) = RequiresBody(Command(r, long, "json"))
      /\ Commerce(r) = RequiresBody(Command(r, long, "notice"))
  BY DEF Document, DocumentOf, Commerce
<1> HIDE DEF short, long
<1>3. Built(Document(r), r, short, "json", FALSE)
  BY <1>2, CommandBuilt
<1>4. Built(DocumentOf(r), r, long, "json", FALSE)
  BY <1>2, CommandBuilt, RequiresBodyBuilt
<1>5. Built(Commerce(r), r, long, "notice", FALSE)
  BY <1>2, CommandBuilt, RequiresBodyBuilt
<1>6. Sound(Document(r)) /\ Sound(DocumentOf(r)) /\ Sound(Commerce(r))
  BY <1>1, <1>3, <1>4, <1>5, BuiltSound DEF Views
<1>7. QED
  BY <1>3, <1>4, <1>6 DEF short, long

LEMMA ListingShape ==
  ASSUME NEW p, NEW options, NEW cursor \in options \cup {""}
  PROVE  /\ Built(Listing(p, options, cursor), Get(p), <<"client", "send", "render", "hint">>, "table", FALSE)
         /\ Sound(Listing(p, options, cursor))
         /\ \A key \in options : Sound(Keyed(Listing(p, options, cursor), key))
<1> DEFINE steps == <<"client", "send", "render", "hint">>
           c == Flags(Command(Get(p), steps, "table"), options, SUBSET options)
           l == Listing(p, options, cursor)
<1>1. l = [c EXCEPT !.cursor = cursor]
  BY DEF Listing
<1>2. Ordered(steps) /\ ~Has(steps, "more")
  BY PlainOrders
<1> HIDE DEF l, steps
<1>3. Built(c, Get(p), steps, "table", FALSE)
  <2>1. Built(Command(Get(p), steps, "table"), Get(p), steps, "table", FALSE)
    BY CommandBuilt
  <2>2. Command(Get(p), steps, "table").cursor = ""
    BY DEF Command
  <2>3. QED
    BY <2>1, <2>2, FlagsBuilt
<1>4. c.options = options /\ c.accepts = SUBSET options
  BY DEF Flags, Command
<1> HIDE DEF c
<1>5. Built(l, Get(p), steps, "table", FALSE) /\ l.options = options /\ l.accepts = SUBSET options
  BY <1>1, <1>3, <1>4 DEF Built, Fields
<1>6. ASSUME NEW key \in options PROVE Built(Keyed(l, key), Get(p), steps, "table", FALSE)
  <2>1. {o \in l.accepts : key \in o} # {}
    <3>1. {key} \in {o \in l.accepts : key \in o}
      BY <1>5
    <3>2. QED
      BY <3>1
  <2>2. l.cursor \in l.options \cup {""}
    BY <1>5 DEF Built
  <2>3. QED
    BY <1>5, <2>1, <2>2, FlagsBuilt DEF Keyed
<1>7. Sound(l) /\ \A key \in options : Sound(Keyed(l, key))
  BY <1>2, <1>5, <1>6, RequestsKnown, BuiltSound DEF Views
<1>8. QED
  BY <1>5, <1>7 DEF l, steps

\* Flags that are required, or that leave the request as it is, change nothing
\* in how a command without a list goes.
LEMMA RequiresShape ==
  ASSUME NEW r, Known(r), r.kind = "read", NEW c \in {Detail(r), Table(r), Document(r)},
         NEW options, NEW accepts, accepts # {}
  PROVE  /\ Sound(Flags(c, options, accepts)) /\ Sound(Requires(c, options))
<1>1. c.cursor = ""
  <2>1. \A steps, view : Command(r, steps, view).cursor = ""
    BY DEF Command
  <2>2. QED
    BY <2>1 DEF Detail, Table, Document
<1>2. ASSUME NEW steps, NEW view \in Views, Built(c, r, steps, view, FALSE), Ordered(steps),
             ~Has(steps, "more"), view = "json" => Has(steps, "csv"), NEW some, some # {}
      PROVE  Sound(Flags(c, options, some))
  <2>1. Built(Flags(c, options, some), r, steps, view, FALSE)
    BY <1>1, <1>2, FlagsBuilt
  <2>2. QED
    BY <1>2, <2>1, BuiltSound
<1>3. \A some : some # {} => Sound(Flags(c, options, some))
  <2>1. CASE c = Detail(r)
    BY <1>2, <2>1, DetailShape, PlainOrders DEF Views
  <2>2. CASE c = Table(r)
    BY <1>2, <2>2, TableShape, PlainOrders DEF Views
  <2>3. CASE c = Document(r)
    <3>1. <<"csv", "client", "send", "render">> = <<"csv">> \o <<"client", "send", "render">>
      OBVIOUS
    <3>2. QED
      BY <1>2, <2>3, <3>1, DocumentShape, CSVFirst DEF Views
  <2>4. QED
    BY <2>1, <2>2, <2>3
<1>4. QED
  BY <1>3 DEF Requires

----------------------------------------------------------------------------
(* The table, command by command.                                          *)

DetailReads ==
  { AccountPaymentMethodsDefault, AccountPaymentMethodsCascading, ContactGet, ContactSnapshot,
    OrderGet, OrderJobStatus, OrderLineItemGet, SubscriptionGet, SubscriptionVersions,
    InvoiceGet, CreditMemoGet, DebitMemoGet, BillRunGet, PaymentGet, UsageGet, MeterStatus,
    RampGet, CommitmentGet, FulfillmentGet, FulfillmentItemGet, OmnichannelGet, RatePlanGet,
    DataQueryGet, ProductGet, ChargeGet }

LEMMA DetailReadsSound == \A c \in DetailReads : Sound(c)
<1>1. \A p : Sound(Detail(Get(p))) /\ (p \in ReadPosts => Sound(Detail(Search(p))))
  BY RequestsKnown, DetailShape
<1>2. <<"commerce", "products", "<1>">> \in ReadPosts /\ <<"commerce", "charges", "query">> \in ReadPosts
  BY DEF ReadPosts, FixedReads
<1>3. QED
  BY <1>1, <1>2 DEF DetailReads, AccountPaymentMethodsDefault, AccountPaymentMethodsCascading,
     ContactGet, ContactSnapshot, OrderGet, OrderJobStatus, OrderLineItemGet, SubscriptionGet,
     SubscriptionVersions, InvoiceGet, CreditMemoGet, DebitMemoGet, BillRunGet, PaymentGet, UsageGet,
     MeterStatus, RampGet, CommitmentGet, FulfillmentGet, FulfillmentItemGet, OmnichannelGet,
     RatePlanGet, DataQueryGet, ProductGet, ChargeGet

TableReads == { AccountGet, AccountSummary, AccountPaymentMethods, InvoiceItems, InvoiceFiles }
DocumentReads ==
  { InvoiceUsageRateDetail, CommitmentBalance, CommitmentSchedules, PlanGet, OrderPreview,
    SubscriptionPreview, SubscriptionPreviewChange, ProductListLegacy }
FlaggedReads ==
  { SubscriptionMetrics, MeterAudit, RampList, CommitmentPeriods, PlanPurchaseOptions }

LEMMA OtherReadsSound == \A c \in TableReads \cup DocumentReads \cup FlaggedReads : Sound(c)
<1>1. \A c \in TableReads : Sound(c)
  <2>1. \A p : Sound(Table(Get(p)))
    BY RequestsKnown, TableShape
  <2>2. QED
    BY <2>1 DEF TableReads, AccountGet, AccountSummary, AccountPaymentMethods, InvoiceItems, InvoiceFiles
<1>2. \A c \in DocumentReads : Sound(c)
  <2>1. \A p : Sound(Document(Get(p))) /\ (p \in ReadPosts => /\ Sound(Document(Search(p)))
                                                          /\ Sound(DocumentOf(Search(p))))
    BY RequestsKnown, DocumentShape
  <2>2. /\ <<"commerce", "plans", "query">> \in ReadPosts /\ <<"v1", "orders", "preview">> \in ReadPosts
        /\ <<"v1", "subscriptions", "preview">> \in ReadPosts
        /\ <<"v1", "subscriptions", "<1>", "preview">> \in ReadPosts
        /\ <<"commerce", "legacy", "products", "list">> \in ReadPosts
    BY DEF ReadPosts, FixedReads
  <2>3. QED
    BY <2>1, <2>2 DEF DocumentReads, InvoiceUsageRateDetail, CommitmentBalance, CommitmentSchedules,
       PlanGet, OrderPreview, SubscriptionPreview, SubscriptionPreviewChange, ProductListLegacy
<1>3. \A c \in FlaggedReads : Sound(c)
  <2>1. \A p, options : /\ Sound(Requires(Table(Get(p)), options))
                        /\ Sound(Requires(Detail(Get(p)), options))
                        /\ Sound(Requires(Document(Get(p)), options))
                        /\ p \in ReadPosts => Sound(Requires(Document(Search(p)), options))
                        /\ \A accepts : accepts # {} => Sound(Flags(Document(Get(p)), options, accepts))
    <3>1. {{}} # {}
      OBVIOUS
    <3>2. QED
      BY <3>1, RequestsKnown, RequiresShape
  <2>2. <<"commerce", "purchase-options", "list">> \in ReadPosts
    BY DEF ReadPosts, FixedReads
  <2>3. Sound(CommitmentPeriods)
    <3> DEFINE options == {"commitment", "account-number", "start-date", "end-date"}
               accepted == {o \in SUBSET options : \/ "commitment" \in o /\ "account-number" \notin o
                                                   \/ o = options \ {"commitment"}}
    <3>1. {"commitment"} \in accepted
      OBVIOUS
    <3>2. CommitmentPeriods = Flags(Document(Get(<<"v1", "commitments", "periods">>)), options, accepted)
      BY DEF CommitmentPeriods
    <3> HIDE DEF options, accepted
    <3>3. QED
      BY <2>1, <3>1, <3>2
  <2>4. QED
    BY <2>1, <2>2, <2>3 DEF FlaggedReads, SubscriptionMetrics, MeterAudit, RampList, PlanPurchaseOptions
<1>4. QED
  BY <1>1, <1>2, <1>3

LEMMA PathsListed ==
  /\ \A p \in ShortPosts \cup MiddlePosts \cup LongPosts : p \in WritePosts
  /\ \A p \in FixedReads : p \in ReadPosts
  BY DEF WritePosts, ReadPosts

BodyWrites ==
  { AccountCreate, AccountUpdate, AccountSetCascading, ContactCreate, ContactUpdate, ContactTransfer,
    OrderCreate, OrderCreateAsync, OrderPreviewAsync, OrderUpdate, OrderUpdateCustomFields,
    OrderUpdateTriggerDates, OrderActionUpdate, OrderLineItemUpdate, OrderLineItemBulkUpdate,
    SubscriptionCreate, SubscriptionUpdate, SubscriptionUpdateCustomFields, SubscriptionRenew, Signup,
    InvoiceEmail, BillRunCreate, PaymentCreate, PaymentApply, PaymentUnapply, PaymentTransfer,
    UsageCreate, UsageUpdate, FulfillmentCreate, FulfillmentUpdate, FulfillmentItemCreate,
    FulfillmentItemUpdate, PrepaidRollover, OmnichannelCreate }

LEMMA BodyWritesSound == \A c \in BodyWrites : Sound(c)
<1>1. \A p : /\ Sound(WithBody(Put(p))) /\ Sound(MayHaveBody(Put(p)))
             /\ p \in WritePosts => Sound(WithBody(Post(p)))
             /\ p \in ReadPosts => Sound(WithBody(Search(p)))
  BY RequestsKnown, BodyShape
<1>2. /\ <<"v1", "accounts">> \in WritePosts /\ <<"v1", "contacts">> \in WritePosts
      /\ <<"v1", "orders">> \in WritePosts /\ <<"v1", "subscriptions">> \in WritePosts
      /\ <<"v1", "sign-up">> \in WritePosts /\ <<"v1", "bill-runs">> \in WritePosts
      /\ <<"v1", "payments">> \in WritePosts /\ <<"v1", "fulfillments">> \in WritePosts
      /\ <<"v1", "fulfillment-items">> \in WritePosts
      /\ <<"v1", "omni-channel-subscriptions">> \in WritePosts
  BY PathsListed DEF ShortPosts
<1>3. /\ <<"v1", "object", "usage">> \in WritePosts /\ <<"v1", "async", "orders">> \in WritePosts
      /\ <<"v1", "order-line-items", "bulk">> \in WritePosts /\ <<"v1", "ppdd", "rollover">> \in WritePosts
      /\ <<"v1", "invoices", "<1>", "emails">> \in WritePosts
  BY PathsListed DEF MiddlePosts, LongPosts
<1>4. <<"v1", "async", "orders", "preview">> \in ReadPosts
  BY PathsListed DEF FixedReads
<1>5. QED
  BY <1>1, <1>2, <1>3, <1>4 DEF BodyWrites, AccountCreate, AccountUpdate, AccountSetCascading, ContactCreate,
     ContactUpdate, ContactTransfer, OrderCreate, OrderCreateAsync, OrderPreviewAsync, OrderUpdate,
     OrderUpdateCustomFields, OrderUpdateTriggerDates, OrderActionUpdate, OrderLineItemUpdate,
     OrderLineItemBulkUpdate, SubscriptionCreate, SubscriptionUpdate, SubscriptionUpdateCustomFields,
     SubscriptionRenew, Signup, InvoiceEmail, BillRunCreate, PaymentCreate, PaymentApply, PaymentUnapply,
     PaymentTransfer, UsageCreate, UsageUpdate, FulfillmentCreate, FulfillmentUpdate,
     FulfillmentItemCreate, FulfillmentItemUpdate, PrepaidRollover, OmnichannelCreate

OtherWrites ==
  { OrderActivate, MeterRun, MeterDebug, ProductCreate, ProductUpdate, PlanCreate, PlanUpdate,
    ChargeCreate, ChargeUpdate, ChargeUpdateTiers }

LEMMA OtherWritesSound == \A c \in OtherWrites : Sound(c)
<1>1. \A p : /\ Sound(Announced(Detail(Put(p)))) /\ Sound(Commerce(Put(p)))
             /\ p \in WritePosts => Sound(Announced(Detail(Post(p)))) /\ Sound(Commerce(Post(p)))
  BY RequestsKnown, DetailShape, DocumentShape
<1>2. /\ <<"commerce", "products">> \in WritePosts /\ <<"commerce", "plans">> \in WritePosts
      /\ <<"commerce", "charges">> \in WritePosts
      /\ <<"meters", "run", "<1>", "<2>">> \in WritePosts
      /\ <<"meters", "debug", "<1>", "<2>">> \in WritePosts
  BY PathsListed DEF ShortPosts, LongPosts
<1>3. QED
  BY <1>1, <1>2 DEF OtherWrites, OrderActivate, MeterRun, MeterDebug, ProductCreate, ProductUpdate,
     PlanCreate, PlanUpdate, ChargeCreate, ChargeUpdate, ChargeUpdateTiers

\* The destructive commands, but for the one that takes a policy.
Confirming ==
  { AccountDelete, ContactDelete, OrderDelete, SubscriptionDelete, BillRunDelete, UsageDelete,
    FulfillmentDelete, FulfillmentItemDelete, OmnichannelDelete, DataQueryCancel,
    ContactScrub, OrderCancel, OrderDeleteAsync, InvoicePost, InvoiceReverse, BillRunPost,
    BillRunCancel, PaymentCancel, OrderRevert, InvoiceWriteoff, PaymentRefund, PrepaidDeplete,
    PrepaidReverseRollover }

LEMMA ConfirmingSound == \A c \in Confirming : Sound(c) /\ Has(c.steps, "confirm")
<1> DEFINE Asks(c) == Sound(c) /\ Has(c.steps, "confirm")
<1>1. \A p : /\ Asks(Removal(Put(p))) /\ (p \in WriteDeletes => Asks(Removal(Delete(p))))
             /\ Asks(Confirmed(Announced(Detail(Put(p)))))
             /\ p \in WriteDeletes => Asks(Confirmed(Announced(Detail(Delete(p)))))
             /\ p \in WritePosts => Asks(Confirmed(WithBody(Post(p))))
             /\ Asks(Confirmed(MayHaveBody(Put(p))))
  BY RequestsKnown, RemovalShape, DetailShape, BodyShape
<1>2. Asks(DataQueryCancel)
  BY QueriesKnown, RemovalShape DEF DataQueryCancel
<1> HIDE DEF Asks
<1>3. /\ <<"v1", "accounts", "<1>">> \in WriteDeletes /\ <<"v1", "contacts", "<1>">> \in WriteDeletes
      /\ <<"v1", "orders", "<1>">> \in WriteDeletes /\ <<"v1", "bill-runs", "<1>">> \in WriteDeletes
      /\ <<"v1", "fulfillments", "<1>">> \in WriteDeletes
      /\ <<"v1", "fulfillment-items", "<1>">> \in WriteDeletes
      /\ <<"v1", "omni-channel-subscriptions", "<1>">> \in WriteDeletes
      /\ <<"v1", "object", "usage", "<1>">> \in WriteDeletes
      /\ <<"v1", "async", "orders", "<1>">> \in WriteDeletes
  BY DEF WriteDeletes
<1>4. /\ <<"v1", "orders", "<1>", "revert">> \in WritePosts
      /\ <<"v1", "payments", "<1>", "refunds">> \in WritePosts
      /\ <<"v1", "prepaid-balance-funds", "deplete">> \in WritePosts
      /\ <<"v1", "ppdd", "reverse-rollover">> \in WritePosts
  BY PathsListed DEF MiddlePosts, LongPosts
<1>5. \A c \in Confirming : Asks(c)
  BY <1>1, <1>2, <1>3, <1>4 DEF Confirming, AccountDelete, ContactDelete, OrderDelete, SubscriptionDelete,
     BillRunDelete, UsageDelete, FulfillmentDelete, FulfillmentItemDelete, OmnichannelDelete,
     ContactScrub, OrderCancel, OrderDeleteAsync, InvoicePost, InvoiceReverse, BillRunPost, BillRunCancel,
     PaymentCancel, OrderRevert, InvoiceWriteoff, PaymentRefund, PrepaidDeplete, PrepaidReverseRollover
<1>6. QED
  BY <1>5 DEF Asks

Lists ==
  { AccountList, SubscriptionList, InvoiceList, CreditMemoList, DebitMemoList, PaymentList,
    CommitmentList, DataQueryList }

LEMMA ListsSound == \A c \in Lists : Sound(c)
<1>1. \A p, options, cursor : cursor \in options \cup {""} =>
        /\ Sound(Listing(p, options, cursor))
        /\ \A key \in options : Sound(Keyed(Listing(p, options, cursor), key))
  BY ListingShape
<1>2. QED
  BY <1>1 DEF Lists, AccountList, SubscriptionList, InvoiceList, MemoFlags, CreditMemoList, DebitMemoList,
     PaymentList, CommitmentList, DataQueryList

(* The commands of a shape of their own.                                   *)

\* A ZOQL query goes on with queryMore.
LEMMA FollowingShape ==
  ASSUME NEW options, NEW accepts, accepts # {}
  PROVE  LET r == Search(<<"v1", "action", "query">>)
             c == Following(Flags(Table(r), options, accepts), <<"v1", "action", "queryMore">>)
         IN  Built(c, r, <<"client", "send", "more", "render">>, "table", FALSE) /\ Sound(c)
<1> DEFINE r == Search(<<"v1", "action", "query">>)
           steps == <<"client", "send", "more", "render">>
           more == <<"v1", "action", "queryMore">>
           flags == Flags(Table(r), options, accepts)
           c == Following(flags, more)
<1>1. Known(r) /\ r.kind = "read"
  <2>1. <<"v1", "action", "query">> \in ReadPosts
    BY PathsListed DEF FixedReads
  <2>2. QED
    BY <2>1, RequestsKnown
<1> HIDE DEF r
<1>2. Built(flags, r, <<"client", "send", "render">>, "table", FALSE)
  <2>1. Table(r).cursor = ""
    BY DEF Table, Command
  <2>2. QED
    BY <1>1, <2>1, TableShape, FlagsBuilt
<1>3. Ordered(steps)
  BY PlainOrders
<1>4. c = [flags EXCEPT !.steps = steps, !.more = more]
  BY DEF Following
<1> HIDE DEF steps, flags, more, c
<1>5. Built(c, r, steps, "table", FALSE) /\ c.more = more
  BY <1>2, <1>4 DEF Built, Fields
<1>6. Sound(c)
  BY <1>1, <1>3, <1>5 DEF Sound, Built, Views, ReadsOnly, more
<1>7. QED
  BY <1>5, <1>6 DEF r, steps, flags, more, c

LEMMA QueriesSound == Sound(ContactList) /\ Sound(Query)
<1>1. Sound(ContactList)
  BY FollowingShape DEF ContactList, Requires
<1>2. Sound(Query)
  BY FollowingShape DEF Query
<1>3. QED
  BY <1>1, <1>2

\* A command whose flags select one of several reads.
LEMMA RoutesShape ==
  ASSUME NEW c, NEW r, NEW steps, NEW view \in Views, NEW message,
         Built(c, r, steps, view, message), Ordered(steps), ~Has(steps, "more"),
         view = "json" => Has(steps, "csv"),
         NEW options, c.cursor \in options \cup {""},
         NEW route, \A o \in DOMAIN route : Known(route[o]) /\ route[o].kind = "read",
         NEW bools
  PROVE  Sound(Routes(c, options, route)) /\ Sound([Routes(c, options, route) EXCEPT !.bools = bools])
<1>1. DOMAIN Routes(c, options, route) = Fields
  BY DEF Routes, Built, Fields
<1>2. Sound(Routes(c, options, route))
  BY DEF Routes, Built, Fields, Sound, ReadsOnly
<1>3. QED
  BY <1>1, <1>2 DEF Sound, Fields, ReadsOnly

LEMMA OrderListSound == Sound(OrderList)
<1> DEFINE options == OrderScopes \cup {"pending", "status", "page", "page-size"}
           all == Listing(<<"v1", "orders">>, options, "page")
           accepted == {o \in SUBSET all.options : /\ Cardinality(o \cap OrderScopes) <= 1
                                                   /\ "pending" \in o => "subscription" \in o}
           path(o) ==
             CASE "pending" \in o -> <<"v1", "orders", "subscription", "<subscription>", "pending">>
               [] o \cap {"subscription", "pending"} = {"subscription"} ->
                    <<"v1", "orders", "subscription", "<subscription>">>
               [] "subscription-owner" \in o ->
                    <<"v1", "orders", "subscriptionOwner", "<subscription-owner>">>
               [] "invoice-owner" \in o -> <<"v1", "orders", "invoiceOwner", "<invoice-owner>">>
               [] OTHER -> <<"v1", "orders">>
           route == [o \in accepted |-> Get(path(o))]
<1>1. OrderList = [Routes(all, all.options, route) EXCEPT !.bools = {"pending"}]
  BY DEF OrderList
<1>2. \A o \in DOMAIN route : Known(route[o]) /\ route[o].kind = "read"
  <2> HIDE DEF path, accepted
  <2>1. QED
    BY RequestsKnown
<1>3. Built(all, Get(<<"v1", "orders">>), <<"client", "send", "render", "hint">>, "table", FALSE)
  BY ListingShape
<1>4. all.cursor \in all.options \cup {""}
  BY <1>3 DEF Built
<1> HIDE DEF all, route
<1>5. QED
  BY <1>1, <1>2, <1>3, <1>4, PlainOrders, RoutesShape DEF Views

LEMMA DocumentRoutes ==
  ASSUME NEW p, NEW options, NEW route, \A o \in DOMAIN route : Known(route[o]) /\ route[o].kind = "read"
  PROVE  Sound(Routes(Document(Get(p)), options, route))
<1>1. Built(Document(Get(p)), Get(p), <<"csv", "client", "send", "render">>, "json", FALSE)
  BY RequestsKnown, DocumentShape
<1>2. Document(Get(p)).cursor = ""
  BY DEF Document, Command
<1>3. <<"csv", "client", "send", "render">> = <<"csv">> \o <<"client", "send", "render">>
  OBVIOUS
<1>4. QED
  BY <1>1, <1>2, <1>3, CSVFirst, RoutesShape DEF Views

LEMMA ChangelogSound == Sound(SubscriptionChangelog)
<1> DEFINE path(o) ==
             CASE "order" \in o   -> <<"v1", "subscription-change-logs", "orders", "<order>">>
               [] "version" \in o -> <<"v1", "subscription-change-logs", "<number>", "versions", "<version>">>
               [] OTHER           -> <<"v1", "subscription-change-logs", "<number>">>
           accepted == {{"order"}, {"number"}, {"number", "version"}}
           route == [o \in accepted |-> Get(path(o))]
<1>1. SubscriptionChangelog =
        Routes(Document(Get(<<"v1", "subscription-change-logs">>)), {"order", "number", "version"}, route)
  BY DEF SubscriptionChangelog
<1>2. \A o \in DOMAIN route : Known(route[o]) /\ route[o].kind = "read"
  <2> HIDE DEF path, accepted
  <2>1. QED
    BY RequestsKnown
<1> HIDE DEF route
<1>3. QED
  BY <1>1, <1>2, DocumentRoutes

LEMMA RampMetricsSound == Sound(RampMetrics)
<1> DEFINE path(o) ==
             CASE "number" \in o -> <<"v1", "ramps", "<number>", "ramp-metrics">>
               [] "order" \in o  -> <<"v1", "orders", "<order>", "ramp-metrics">>
               [] OTHER          -> <<"v1", "subscriptions", "<subscription>", "ramp-metrics">>
           accepted == {{"number"}, {"order"}, {"subscription"}}
           route == [o \in accepted |-> Get(path(o))]
<1>1. RampMetrics =
        Routes(Document(Get(<<"v1", "ramps">>)), {"number", "order", "subscription"}, route)
  BY DEF RampMetrics
<1>2. \A o \in DOMAIN route : Known(route[o]) /\ route[o].kind = "read"
  <2> HIDE DEF path, accepted
  <2>1. QED
    BY RequestsKnown
<1> HIDE DEF route
<1>3. QED
  BY <1>1, <1>2, DocumentRoutes

\* Cancel, suspend and resume take a body or a policy.
LEMMA ByPolicySound ==
  ASSUME NEW p, NEW needs
  PROVE  LET c == ByPolicy(Put(p), needs) IN Sound(c) /\ Sound(Confirmed(c)) /\ Has(Confirmed(c).steps, "confirm")
<1> DEFINE policies == {"policy"} \cup DOMAIN needs
           options == {"body"} \cup policies \cup UNION {needs[q] : q \in DOMAIN needs}
           inputs == {o \in SUBSET options : Cardinality(o \cap policies) <= 1}
           accepted == {o \in inputs : \/ "body" \in o
                                      \/ \E q \in o \cap policies : q \in DOMAIN needs => needs[q] \subseteq o}
           plain == <<"body", "client", "send", "render">>
           flags == Flags(WithBody(Put(p)), options, accepted)
           c == [flags EXCEPT !.inputs = inputs, !.bodies = JsonValues \cup {"empty"}]
<1>1. ByPolicy(Put(p), needs) = c
  BY DEF ByPolicy
<1>2. {} \in inputs /\ {"body"} \in inputs /\ inputs \subseteq SUBSET options
  <2>1. Cardinality({} \cap policies) = 0
    BY FS_EmptySet
  <2>2. Cardinality({"body"} \cap policies) <= 1
    <3>1. {"body"} \cap policies = {} \/ {"body"} \cap policies = {"body"}
      OBVIOUS
    <3>2. Cardinality({}) = 0 /\ Cardinality({"body"}) = 1
      BY FS_EmptySet, FS_Singleton
    <3>3. QED
      BY <3>1, <3>2
  <2>3. QED
    BY <2>1, <2>2
<1>3. accepted # {}
  <2>1. {"body"} \in accepted
    BY <1>2
  <2>2. QED
    BY <2>1
<1> HIDE DEF policies, inputs, accepted
<1>4. Built(WithBody(Put(p)), Put(p), plain, "detail", TRUE) /\ Known(Put(p))
  BY RequestsKnown, BodyShape
<1>5. WithBody(Put(p)).cursor = ""
  BY DEF WithBody, RequiresBody, Announced, Flags, Command
<1>6. Ordered(plain) /\ ~Has(plain, "more")
  BY PlainOrders
<1> HIDE DEF options, plain
<1>7. Built(flags, Put(p), plain, "detail", TRUE) /\ flags.options = options
  <2>1. Built(flags, Put(p), plain, "detail", TRUE)
    BY <1>3, <1>4, <1>5, FlagsBuilt
  <2>2. flags.options = options
    BY <1>4 DEF Flags, Built, Fields
  <2>3. QED
    BY <2>1, <2>2
<1> HIDE DEF flags
<1>8. Built(c, Put(p), plain, "detail", TRUE)
  BY <1>2, <1>7 DEF Built, Fields
<1> HIDE DEF c
<1>9. Built(Confirmed(c), Put(p), <<"confirm">> \o plain, "detail", TRUE)
  BY <1>8, ConfirmedBuilt
<1>10. /\ Ordered(<<"confirm">> \o plain) /\ ~Has(<<"confirm">> \o plain, "more")
       /\ Has(<<"confirm">> \o plain, "confirm")
  BY <1>6, CheckFirst DEF Checks
<1>11. Sound(c)
  BY <1>4, <1>6, <1>8, BuiltSound DEF Views
<1>12. Sound(Confirmed(c)) /\ Has(Confirmed(c).steps, "confirm")
  BY <1>4, <1>9, <1>10, BuiltSound DEF Views, Built
<1>13. QED
  BY <1>1, <1>11, <1>12

LEMMA PoliciesSound ==
  /\ Sound(SubscriptionSuspend) /\ Sound(SubscriptionResume)
  /\ Sound(SubscriptionCancel) /\ Has(SubscriptionCancel.steps, "confirm")
  BY ByPolicySound DEF SubscriptionSuspend, SubscriptionResume, SubscriptionCancel

\* A file is read before anything else.
LEMMA FileFirst ==
  ASSUME NEW r, Known(r), NEW options, NEW accepts, accepts # {}
  PROVE  LET c == [Flags(Announced(Detail(r)), options, accepts) EXCEPT !.steps = <<"file">> \o @]
         IN  Built(c, r, <<"file">> \o <<"client", "send", "render">>, "detail", TRUE) /\ Sound(c)
<1> DEFINE plain == <<"client", "send", "render">>
           flags == Flags(Announced(Detail(r)), options, accepts)
           c == [flags EXCEPT !.steps = <<"file">> \o @]
<1>1. Ordered(plain) /\ ~Has(plain, "more")
  BY PlainOrders
<1>2. Announced(Detail(r)).cursor = ""
  BY DEF Announced, Detail, Command
<1>3. Built(Announced(Detail(r)), r, plain, "detail", TRUE)
  BY DetailShape
<1> HIDE DEF plain
<1>4. Built(flags, r, plain, "detail", TRUE)
  BY <1>2, <1>3, FlagsBuilt
<1> HIDE DEF flags
<1>5. Built(c, r, <<"file">> \o plain, "detail", TRUE)
  BY <1>4 DEF Built, Fields
<1> HIDE DEF c
<1>6. Ordered(<<"file">> \o plain) /\ ~Has(<<"file">> \o plain, "more")
  BY <1>1, CheckFirst DEF Checks
<1>7. Sound(c)
  BY <1>5, <1>6, BuiltSound DEF Views
<1>8. QED
  BY <1>5, <1>7 DEF plain, flags, c

LEMMA UploadsSound ==
  /\ Sound(UsageUpload) /\ Sound(DataQuerySubmit)
  /\ \E o \in DataQuerySubmit.accepts : DataQuerySubmit.route[o] = Request("POST", Jobs, "query")
<1>1. Sound(UsageUpload)
  <2>1. <<"v1", "usage">> \in WritePosts
    BY PathsListed DEF ShortPosts
  <2>2. Known(Post(<<"v1", "usage">>))
    BY <2>1, RequestsKnown
  <2>3. QED
    BY <2>2, FileFirst DEF UsageUpload, Requires
<1>2. /\ Sound(DataQuerySubmit)
      /\ Built(DataQuerySubmit, Request("POST", Jobs, "query"),
               <<"file">> \o <<"client", "send", "render">>, "detail", TRUE)
  BY QueriesKnown, FileFirst DEF DataQuerySubmit
<1>3. QED
  BY <1>1, <1>2 DEF Built

\* A body that is merged with the run type; one that is decoded after the
\* client is there.
LEMMA BodiesOfTheirOwnSound ==
  /\ Sound(MeterSummary) /\ Sound(PlanList)
  /\ \E o \in MeterSummary.accepts : MeterSummary.route[o] = Search(<<"meters", "<1>", "summary">>)
  /\ \E o \in PlanList.accepts : PlanList.route[o] = Search(<<"commerce", "plans", "list">>)
<1>1. /\ Sound(MeterSummary)
      /\ \E o \in MeterSummary.accepts : MeterSummary.route[o] = Search(<<"meters", "<1>", "summary">>)
  <2> DEFINE r == Search(<<"meters", "<1>", "summary">>)
             b == MayHaveBody(r)
             accepts == {o \in SUBSET {"run-type", "body"} : "run-type" \in o}
             flags == Flags(b, {"run-type", "body"}, accepts)
             plain == <<"body", "client", "send", "render">>
  <2>1. MeterSummary = [flags EXCEPT !.bodies = {"object", "empty"}, !.message = FALSE]
    BY DEF MeterSummary
  <2>2. Known(r) /\ r.kind = "read"
    <3>1. <<"meters", "<1>", "summary">> \in ReadPosts
      BY DEF ReadPosts
    <3>2. QED
      BY <3>1, RequestsKnown
  <2> HIDE DEF r
  <2>3. Built(b, r, plain, "detail", TRUE)
    BY <2>2, BodyShape
  <2>4. Ordered(plain) /\ ~Has(plain, "more")
    BY PlainOrders
  <2>5. b.cursor = ""
    BY DEF MayHaveBody, AllowsBody, Announced, Flags, Command
  <2> HIDE DEF plain, b
  <2>6. accepts # {}
    <3>1. {"run-type"} \in accepts
      OBVIOUS
    <3>2. QED
      BY <3>1
  <2> HIDE DEF accepts
  <2>7. Built(flags, r, plain, "detail", TRUE)
    BY <2>3, <2>5, <2>6, FlagsBuilt
  <2> HIDE DEF flags
  <2>8. Built(MeterSummary, r, plain, "detail", FALSE)
    BY <2>1, <2>7 DEF Built, Fields
  <2>9. Sound(MeterSummary)
    BY <2>2, <2>4, <2>8, BuiltSound DEF Views
  <2>10. QED
    BY <2>8, <2>9 DEF Built, r
<1>2. /\ Sound(PlanList)
      /\ \E o \in PlanList.accepts : PlanList.route[o] = Search(<<"commerce", "plans", "list">>)
  <2> DEFINE r == Search(<<"commerce", "plans", "list">>)
             b == RequiresBody(Table(r))
             others == <<"client", "body", "send", "render">>
  <2>1. PlanList = [b EXCEPT !.steps = others]
    BY DEF PlanList
  <2>2. Known(r) /\ r.kind = "read"
    <3>1. <<"commerce", "plans", "list">> \in ReadPosts
      BY PathsListed DEF FixedReads
    <3>2. QED
      BY <3>1, RequestsKnown
  <2> HIDE DEF r
  <2>3. Ordered(others) /\ ~Has(others, "more")
    BY PlainOrders
  <2>4. Built(b, r, <<"client", "send", "render">>, "table", FALSE)
    BY <2>2, TableShape, RequiresBodyBuilt
  <2> HIDE DEF b, others
  <2>5. Built(PlanList, r, others, "table", FALSE)
    BY <2>1, <2>4, StepsBuilt
  <2>6. Sound(PlanList)
    BY <2>2, <2>3, <2>5, BuiltSound DEF Views
  <2>7. QED
    BY <2>5, <2>6 DEF Built, r
<1>3. QED
  BY <1>1, <1>2

LEMMA ApiSound == Sound(Api) /\ Api.view = "raw"
<1> DEFINE steps == <<"csv", "client", "body", "send", "render">>
           b == AllowsBody(Command(Get(<<>>), steps, "raw"))
<1>1. Api = [b EXCEPT !.bodies = JsonValues \cup {"empty"}]
  BY DEF Api
<1>2. Ordered(steps) /\ ~Has(steps, "more")
  <2>1. steps = <<"csv">> \o <<"client", "body", "send", "render">>
    OBVIOUS
  <2> HIDE DEF steps
  <2>2. QED
    BY <2>1, CSVFirst
<1> HIDE DEF steps
<1>3. Built(b, Get(<<>>), steps, "raw", FALSE)
  BY CommandBuilt, AllowsBodyBuilt
<1> HIDE DEF b
<1>4. Built(Api, Get(<<>>), steps, "raw", FALSE)
  BY <1>1, <1>3, BodiesBuilt
<1>5. QED
  BY <1>2, <1>4, RequestsKnown, BuiltSound DEF Views, Built

(* The table as a whole.                                                   *)

LEMMA EveryCommandSound == \A n \in DOMAIN commands : Sound(commands[n])
<1>1. \A n \in {"AccountPaymentMethodsDefault", "AccountPaymentMethodsCascading", "ContactGet",
                "ContactSnapshot", "OrderGet", "OrderJobStatus", "OrderLineItemGet",
                "SubscriptionGet", "SubscriptionVersions", "InvoiceGet", "CreditMemoGet",
                "DebitMemoGet", "BillRunGet", "PaymentGet", "UsageGet", "MeterStatus", "RampGet",
                "CommitmentGet", "FulfillmentGet", "FulfillmentItemGet", "OmnichannelGet",
                "RatePlanGet", "DataQueryGet", "ProductGet", "ChargeGet"} :
       commands[n] \in DetailReads
  BY DEF commands, DetailReads
<1>2. \A n \in {"AccountGet", "AccountSummary", "AccountPaymentMethods", "InvoiceItems",
                "InvoiceFiles"} :
       commands[n] \in TableReads
  BY DEF commands, TableReads
<1>3. \A n \in {"InvoiceUsageRateDetail", "CommitmentBalance", "CommitmentSchedules", "PlanGet",
                "OrderPreview", "SubscriptionPreview", "SubscriptionPreviewChange",
                "ProductListLegacy"} :
       commands[n] \in DocumentReads
  BY DEF commands, DocumentReads
<1>4. \A n \in {"SubscriptionMetrics", "MeterAudit", "RampList", "CommitmentPeriods",
                "PlanPurchaseOptions"} :
       commands[n] \in FlaggedReads
  BY DEF commands, FlaggedReads
<1>5. \A n \in {"AccountCreate", "AccountUpdate", "AccountSetCascading", "ContactCreate",
                "ContactUpdate", "ContactTransfer", "OrderCreate", "OrderCreateAsync",
                "OrderPreviewAsync", "OrderUpdate", "OrderUpdateCustomFields",
                "OrderUpdateTriggerDates", "OrderActionUpdate", "OrderLineItemUpdate",
                "OrderLineItemBulkUpdate", "SubscriptionCreate", "SubscriptionUpdate",
                "SubscriptionUpdateCustomFields", "SubscriptionRenew", "Signup", "InvoiceEmail",
                "BillRunCreate", "PaymentCreate", "PaymentApply", "PaymentUnapply",
                "PaymentTransfer", "UsageCreate", "UsageUpdate", "FulfillmentCreate",
                "FulfillmentUpdate", "FulfillmentItemCreate", "FulfillmentItemUpdate",
                "PrepaidRollover", "OmnichannelCreate"} :
       commands[n] \in BodyWrites
  BY DEF commands, BodyWrites
<1>6. \A n \in {"OrderActivate", "MeterRun", "MeterDebug", "ProductCreate", "ProductUpdate",
                "PlanCreate", "PlanUpdate", "ChargeCreate", "ChargeUpdate", "ChargeUpdateTiers"} :
       commands[n] \in OtherWrites
  BY DEF commands, OtherWrites
<1>7. \A n \in {"AccountDelete", "ContactDelete", "OrderDelete", "SubscriptionDelete",
                "BillRunDelete", "UsageDelete", "FulfillmentDelete", "FulfillmentItemDelete",
                "OmnichannelDelete", "DataQueryCancel", "ContactScrub", "OrderCancel",
                "OrderDeleteAsync", "InvoicePost", "InvoiceReverse", "BillRunPost",
                "BillRunCancel", "PaymentCancel", "OrderRevert", "InvoiceWriteoff",
                "PaymentRefund", "PrepaidDeplete", "PrepaidReverseRollover"} :
       commands[n] \in Confirming
  BY DEF commands, Confirming
<1>8. \A n \in {"AccountList", "SubscriptionList", "InvoiceList", "CreditMemoList",
                "DebitMemoList", "PaymentList", "CommitmentList", "DataQueryList"} :
       commands[n] \in Lists
  BY DEF commands, Lists
<1>9. \A n \in {"ContactList", "OrderList", "SubscriptionChangelog", "SubscriptionCancel",
               "SubscriptionSuspend", "SubscriptionResume", "UsageUpload", "MeterSummary",
               "RampMetrics", "PlanList", "Query", "DataQuerySubmit", "Api"} :
       Sound(commands[n])
  BY QueriesSound, OrderListSound, ChangelogSound, RampMetricsSound, PoliciesSound, UploadsSound,
     BodiesOfTheirOwnSound, ApiSound DEF commands
<1>10. QED
  BY <1>1, <1>2, <1>3, <1>4, <1>5, <1>6, <1>7, <1>8, <1>9, DetailReadsSound, OtherReadsSound, BodyWritesSound,
     OtherWritesSound, ConfirmingSound, ListsSound DEF commands

LEMMA DestructiveAsk == \A n \in Destructive : Has(commands[n].steps, "confirm")
<1>1. \A n \in Destructive \ {"SubscriptionCancel"} : commands[n] \in Confirming
  BY DEF commands, Destructive, Confirming
<1>2. commands.SubscriptionCancel = SubscriptionCancel
  BY DEF commands
<1>3. QED
  BY <1>1, <1>2, ConfirmingSound, PoliciesSound DEF Destructive

----------------------------------------------------------------------------
(* What a request of the user's own is for.                                *)

\* The requests of the table, one by one.
LEMMA RoutesAre ==
  ASSUME NEW r
  PROVE  r \in routes <=>
           \/ \E n \in DOMAIN commands \ {"Api"} : \E o \in commands[n].accepts : r = commands[n].route[o]
           \/ \E n \in {"ContactList", "Query"} : r = Search(commands[n].more)
<1> DEFINE made(n) == {commands[n].route[o] : o \in commands[n].accepts}
           first == UNION {made(n) : n \in DOMAIN commands \ {"Api"}}
           more == {Search(commands[n].more) : n \in {"ContactList", "Query"}}
<1>1. routes = first \cup more
  BY DEF routes
<1>2. \A n : r \in made(n) <=> \E o \in commands[n].accepts : r = commands[n].route[o]
  OBVIOUS
<1> HIDE DEF made
<1>3. r \in first <=> \E n \in DOMAIN commands \ {"Api"} : r \in made(n)
  OBVIOUS
<1>4. r \in more <=> \E n \in {"ContactList", "Query"} : r = Search(commands[n].more)
  OBVIOUS
<1> HIDE DEF first, more
<1>5. r \in routes <=> r \in first \/ r \in more
  BY <1>1
<1>6. r \in first <=> \E n \in DOMAIN commands \ {"Api"} : \E o \in commands[n].accepts : r = commands[n].route[o]
  BY <1>2, <1>3
<1>7. QED
  BY <1>4, <1>5, <1>6

LEMMA RoutesKnown == \A r \in routes : Known(r)
<1>1. \A n \in DOMAIN commands : \A o \in commands[n].accepts : Known(commands[n].route[o])
  BY EveryCommandSound DEF Sound
<1>2. /\ commands.ContactList.more = <<"v1", "action", "queryMore">>
      /\ commands.Query.more = <<"v1", "action", "queryMore">>
  <2>1. /\ ContactList.more = <<"v1", "action", "queryMore">>
        /\ Query.more = <<"v1", "action", "queryMore">>
    BY DEF ContactList, Query, Following, Requires, Flags, Table, Command
  <2>2. QED
    BY <2>1 DEF commands
<1>3. Known(Search(<<"v1", "action", "queryMore">>))
  <2>1. <<"v1", "action", "queryMore">> \in ReadPosts
    BY PathsListed DEF FixedReads
  <2>2. QED
    BY <2>1, RequestsKnown
<1>4. QED
  BY <1>1, <1>2, <1>3, RoutesAre

LEMMA OfCommand ==
  ASSUME NEW n \in DOMAIN commands \ {"Api"}, NEW r,
         \E o \in commands[n].accepts : commands[n].route[o] = r
  PROVE  r \in routes
  BY RoutesAre

\* Every read on the lists of the gate, and every Data Query job, is a request
\* of some command.
LEMMA ReadsHaveRoutes == \A t \in ReadPosts : Search(t) \in routes
<1>0. \A n, c, r, steps, view, message :
        n \in DOMAIN commands \ {"Api"} /\ commands[n] = c /\ Built(c, r, steps, view, message) => r \in routes
  <2>1. \A c, r, steps, view, message :
          Built(c, r, steps, view, message) => \E o \in c.accepts : c.route[o] = r
    BY DEF Built
  <2>2. QED
    BY <2>1, OfCommand
<1>1. \A p : p \in ReadPosts => Known(Search(p)) /\ Search(p).kind = "read"
  BY RequestsKnown
<1>2. Search(<<"v1", "action", "query">>) \in routes
  <2>1. commands.Query = Query /\ "Query" \in DOMAIN commands \ {"Api"}
    BY DEF commands
  <2>2. Built(Query, Search(<<"v1", "action", "query">>), <<"client", "send", "more", "render">>, "table", FALSE)
    BY FollowingShape DEF Query
  <2>3. QED
    BY <1>0, <2>1, <2>2
<1>3. Search(<<"v1", "action", "queryMore">>) \in routes
  <2>1. commands.Query.more = <<"v1", "action", "queryMore">>
    <3>1. Query.more = <<"v1", "action", "queryMore">>
      BY DEF Query, Following, Flags, Table, Command
    <3>2. QED
      BY <3>1 DEF commands
  <2>2. QED
    BY <2>1, RoutesAre
<1>4. /\ Search(<<"v1", "orders", "preview">>) \in routes
      /\ Search(<<"v1", "subscriptions", "preview">>) \in routes
      /\ Search(<<"v1", "subscriptions", "<1>", "preview">>) \in routes
      /\ Search(<<"commerce", "legacy", "products", "list">>) \in routes
      /\ Search(<<"commerce", "plans", "query">>) \in routes
  <2>1. \A t \in ReadPosts, n \in DOMAIN commands \ {"Api"} :
          commands[n] \in {Document(Search(t)), DocumentOf(Search(t))} => Search(t) \in routes
    BY <1>0, <1>1, DocumentShape
  <2>2. /\ <<"v1", "orders", "preview">> \in ReadPosts /\ <<"v1", "subscriptions", "preview">> \in ReadPosts
        /\ <<"v1", "subscriptions", "<1>", "preview">> \in ReadPosts
        /\ <<"commerce", "legacy", "products", "list">> \in ReadPosts
        /\ <<"commerce", "plans", "query">> \in ReadPosts
    BY DEF ReadPosts, FixedReads
  <2>3. /\ commands.OrderPreview = OrderPreview /\ commands.SubscriptionPreview = SubscriptionPreview
        /\ commands.SubscriptionPreviewChange = SubscriptionPreviewChange
        /\ commands.ProductListLegacy = ProductListLegacy /\ commands.PlanGet = PlanGet
        /\ {"OrderPreview", "SubscriptionPreview", "SubscriptionPreviewChange", "ProductListLegacy",
            "PlanGet"} \subseteq DOMAIN commands \ {"Api"}
    BY DEF commands
  <2>4. QED
    BY <2>1, <2>2, <2>3 DEF OrderPreview, SubscriptionPreview, SubscriptionPreviewChange, ProductListLegacy, PlanGet
<1>5. Search(<<"commerce", "charges", "query">>) \in routes /\ Search(<<"commerce", "products", "<1>">>) \in routes
  <2>1. \A t \in ReadPosts, n \in DOMAIN commands \ {"Api"} :
          commands[n] = Detail(Search(t)) => Search(t) \in routes
    BY <1>0, <1>1, DetailShape
  <2>2. <<"commerce", "charges", "query">> \in ReadPosts /\ <<"commerce", "products", "<1>">> \in ReadPosts
    BY DEF ReadPosts, FixedReads
  <2>3. /\ commands.ChargeGet = ChargeGet /\ commands.ProductGet = ProductGet
        /\ {"ChargeGet", "ProductGet"} \subseteq DOMAIN commands \ {"Api"}
    BY DEF commands
  <2>4. QED
    BY <2>1, <2>2, <2>3 DEF ChargeGet, ProductGet
<1>6. Search(<<"v1", "async", "orders", "preview">>) \in routes
  <2>1. <<"v1", "async", "orders", "preview">> \in ReadPosts
    BY DEF ReadPosts, FixedReads
  <2>2. commands.OrderPreviewAsync = OrderPreviewAsync /\ "OrderPreviewAsync" \in DOMAIN commands \ {"Api"}
    BY DEF commands
  <2>3. QED
    BY <1>0, <1>1, <2>1, <2>2, BodyShape DEF OrderPreviewAsync
<1>7. Search(<<"meters", "<1>", "summary">>) \in routes /\ Search(<<"commerce", "plans", "list">>) \in routes
  <2>1. /\ commands.MeterSummary = MeterSummary /\ commands.PlanList = PlanList
        /\ {"MeterSummary", "PlanList"} \subseteq DOMAIN commands \ {"Api"}
    BY DEF commands
  <2>2. QED
    BY <2>1, BodiesOfTheirOwnSound, OfCommand
<1>8. Search(<<"commerce", "purchase-options", "list">>) \in routes
  <2> DEFINE r == Search(<<"commerce", "purchase-options", "list">>)
             c == Flags(Document(r), {"plan"}, {{"plan"}})
  <2>1. commands.PlanPurchaseOptions = c /\ "PlanPurchaseOptions" \in DOMAIN commands \ {"Api"}
    <3>1. PlanPurchaseOptions = c
      BY DEF PlanPurchaseOptions, Requires
    <3>2. QED
      BY <3>1 DEF commands
  <2>2. Known(r)
    <3>1. <<"commerce", "purchase-options", "list">> \in ReadPosts
      BY DEF ReadPosts, FixedReads
    <3>2. QED
      BY <1>1, <3>1
  <2> HIDE DEF r
  <2>3. Document(r).cursor = ""
    BY DEF Document, Command
  <2>4. Built(c, r, <<"csv", "client", "send", "render">>, "json", FALSE)
    BY <2>2, <2>3, DocumentShape, FlagsBuilt
  <2>5. QED
    BY <1>0, <2>1, <2>4 DEF r
<1>9. QED
  BY <1>2, <1>3, <1>4, <1>5, <1>6, <1>7, <1>8 DEF ReadPosts, FixedReads

LEMMA JobsHaveRoutes ==
  Request("POST", Jobs, "query") \in routes /\ Request("DELETE", Job, "query") \in routes
<1>1. /\ commands.DataQuerySubmit = DataQuerySubmit /\ commands.DataQueryCancel = DataQueryCancel
      /\ {"DataQuerySubmit", "DataQueryCancel"} \subseteq DOMAIN commands \ {"Api"}
  BY DEF commands
<1>2. \E o \in DataQueryCancel.accepts : DataQueryCancel.route[o] = Request("DELETE", Job, "query")
  <2>1. Built(DataQueryCancel, Request("DELETE", Job, "query"),
              <<"confirm">> \o <<"client", "send", "render">>, "delete", FALSE)
    BY QueriesKnown, RemovalShape DEF DataQueryCancel
  <2>2. QED
    BY <2>1 DEF Built
<1>3. QED
  BY <1>1, <1>2, UploadsSound, OfCommand

\* A path the gate lets through in read-only mode is that of a read.
LEMMA AllowedIsRead ==
  ASSUME NEW p, isReadOnlyAllowed("POST", p)
  PROVE  \E t \in ReadPosts : IsOf(p, Search(t))
<1> DEFINE q == extractPath(p)
<1>1. DOMAIN q = DOMAIN p
  BY DEF extractPath
<1>2. \A t : Search(t).path = t
  BY DEF Search, Request
<1>3. \A t : /\ DOMAIN p = DOMAIN t
             /\ \A i \in DOMAIN p : t[i] \in Placeholders \/ q[i] = ToLower(t[i])
             => IsOf(p, Search(t))
  BY <1>2 DEF IsOf, extractPath
<1>4. CASE q \in readOnlyPOSTAllowList
  <2>1. CASE q = <<"v1", "action", "querymore">>
    <3> DEFINE t == <<"v1", "action", "queryMore">>
    <3>1. t \in ReadPosts
      BY PathsListed DEF FixedReads
    <3>2. DOMAIN t = DOMAIN q /\ \A i \in DOMAIN q : q[i] = ToLower(t[i])
      BY <2>1 DEF ToLower
    <3> HIDE DEF t, q
    <3>3. QED
      BY <1>1, <1>3, <3>1, <3>2
  <2>2. CASE q # <<"v1", "action", "querymore">>
    <3>1. q \in ReadPosts
      BY <1>4, <2>2, PathsListed DEF readOnlyPOSTAllowList, FixedReads
    <3>2. \A i \in DOMAIN q : ToLower(q[i]) = q[i]
      BY <1>4, <2>2 DEF readOnlyPOSTAllowList, ToLower
    <3> HIDE DEF q
    <3>3. QED
      BY <1>1, <1>3, <3>1, <3>2
  <2>3. QED
    BY <2>1, <2>2
<1>5. CASE \E e \in readOnlyPOSTPatterns : Matches(q, e)
  <2>0. PICK e \in readOnlyPOSTPatterns : Matches(q, e)
    BY <1>5
  <2> HIDE DEF q
  <2>1. DOMAIN q = DOMAIN e /\ \A i \in DOMAIN e : e[i] # "*" => q[i] = e[i]
    BY <2>0 DEF Matches, ANY
  <2>2. PICK t \in ReadPosts :
          /\ DOMAIN t = DOMAIN e
          /\ \A i \in DOMAIN e : t[i] \in Placeholders \/ (e[i] # "*" /\ ToLower(t[i]) = e[i])
    <3>1. CASE e = <<"v1", "subscriptions", ANY, "preview">>
      <4> DEFINE t == <<"v1", "subscriptions", "<1>", "preview">>
      <4>1. t \in ReadPosts /\ DOMAIN t = DOMAIN e
        BY <3>1 DEF ReadPosts, ANY
      <4>2. \A i \in DOMAIN e : t[i] \in Placeholders \/ (e[i] # "*" /\ ToLower(t[i]) = e[i])
        BY <3>1 DEF Placeholders, ToLower, ANY
      <4> HIDE DEF t
      <4>3. QED
        BY <4>1, <4>2
    <3>2. CASE e = <<"meters", ANY, "summary">>
      <4> DEFINE t == <<"meters", "<1>", "summary">>
      <4>1. t \in ReadPosts /\ DOMAIN t = DOMAIN e
        BY <3>2 DEF ReadPosts, ANY
      <4>2. \A i \in DOMAIN e : t[i] \in Placeholders \/ (e[i] # "*" /\ ToLower(t[i]) = e[i])
        BY <3>2 DEF Placeholders, ToLower, ANY
      <4> HIDE DEF t
      <4>3. QED
        BY <4>1, <4>2
    <3>3. CASE e = <<"commerce", "products", ANY>>
      <4> DEFINE t == <<"commerce", "products", "<1>">>
      <4>1. t \in ReadPosts /\ DOMAIN t = DOMAIN e
        BY <3>3 DEF ReadPosts, ANY
      <4>2. \A i \in DOMAIN e : t[i] \in Placeholders \/ (e[i] # "*" /\ ToLower(t[i]) = e[i])
        BY <3>3 DEF Placeholders, ToLower, ANY
      <4> HIDE DEF t
      <4>3. QED
        BY <4>1, <4>2
    <3>4. QED
      BY <3>1, <3>2, <3>3 DEF readOnlyPOSTPatterns
  <2>3. QED
    BY <1>1, <1>3, <2>1, <2>2
<1>6. QED
  BY <1>4, <1>5 DEF isReadOnlyAllowed

LEMMA JobWritesAreJobs ==
  ASSUME NEW m, NEW p, isDataQueryWrite(m, p)
  PROVE  \E r \in {Request("POST", Jobs, "query"), Request("DELETE", Job, "query")} : r.method = m /\ IsOf(p, r)
<1>1. DOMAIN p = DOMAIN extractPath(p)
  BY DEF extractPath
<1>2. CASE m = "POST" /\ extractPath(p) = <<"query", "jobs">>
  <2> DEFINE r == Request("POST", Jobs, "query")
  <2>1. r.method = m /\ r.path = <<"query", "jobs">>
    BY <1>2 DEF Request, Jobs
  <2>2. extractPath(r.path) = <<"query", "jobs">>
    BY <2>1 DEF extractPath, ToLower
  <2> HIDE DEF r
  <2>3. IsOf(p, r)
    BY <1>1, <1>2, <2>1, <2>2 DEF IsOf
  <2>4. QED
    BY <2>1, <2>3 DEF r
<1>3. CASE m = "DELETE" /\ Matches(extractPath(p), dataQueryJobPattern)
  <2> DEFINE r == Request("DELETE", Job, "query")
  <2>1. r.method = m /\ r.path = <<"query", "jobs", "<1>">>
    BY <1>3 DEF Request, Job
  <2>2. DOMAIN p = {1, 2, 3} /\ extractPath(p)[1] = "query" /\ extractPath(p)[2] = "jobs"
    <3>1. /\ DOMAIN dataQueryJobPattern = {1, 2, 3}
          /\ dataQueryJobPattern[1] = "query" /\ dataQueryJobPattern[2] = "jobs"
      BY DEF dataQueryJobPattern
    <3>2. QED
      BY <1>1, <1>3, <3>1 DEF Matches, ANY
  <2>3. /\ DOMAIN r.path = {1, 2, 3} /\ r.path[3] \in Placeholders
        /\ extractPath(r.path)[1] = "query" /\ extractPath(r.path)[2] = "jobs"
    <3>1. /\ DOMAIN r.path = {1, 2, 3} /\ r.path[1] = "query" /\ r.path[2] = "jobs" /\ r.path[3] = "<1>"
      BY <2>1
    <3>2. QED
      BY <3>1 DEF extractPath, ToLower, Placeholders
  <2> HIDE DEF r
  <2>4. IsOf(p, r)
    BY <2>2, <2>3 DEF IsOf
  <2>5. QED
    BY <2>1, <2>4 DEF r
<1>4. QED
  BY <1>2, <1>3 DEF isDataQueryWrite

\* What read-only mode lets out has no empty segment.
AllNamed(path) == \A i \in DOMAIN path : path[i] # ""

LEMMA NamedTuples ==
  /\ \A a, b : a # "" /\ b # "" => AllNamed(<<a, b>>)
  /\ \A a, b, c : a # "" /\ b # "" /\ c # "" => AllNamed(<<a, b, c>>)
  /\ \A a, b, c, d : a # "" /\ b # "" /\ c # "" /\ d # "" => AllNamed(<<a, b, c, d>>)
<1>1. ASSUME NEW a, NEW b, a # "", b # "" PROVE AllNamed(<<a, b>>)
  <2> DEFINE t == <<a, b>>
  <2>1. DOMAIN t = {1, 2} /\ t[1] = a /\ t[2] = b
    OBVIOUS
  <2> HIDE DEF t
  <2>2. AllNamed(t)
    BY <1>1, <2>1 DEF AllNamed
  <2>3. QED
    BY <2>2 DEF t
<1>2. ASSUME NEW a, NEW b, NEW c, a # "", b # "", c # "" PROVE AllNamed(<<a, b, c>>)
  <2> DEFINE t == <<a, b, c>>
  <2>1. DOMAIN t = {1, 2, 3} /\ t[1] = a /\ t[2] = b /\ t[3] = c
    OBVIOUS
  <2> HIDE DEF t
  <2>2. AllNamed(t)
    BY <1>2, <2>1 DEF AllNamed
  <2>3. QED
    BY <2>2 DEF t
<1>3. ASSUME NEW a, NEW b, NEW c, NEW d, a # "", b # "", c # "", d # "" PROVE AllNamed(<<a, b, c, d>>)
  <2> DEFINE t == <<a, b, c, d>>
  <2>1. DOMAIN t = {1, 2, 3, 4} /\ t[1] = a /\ t[2] = b /\ t[3] = c /\ t[4] = d
    OBVIOUS
  <2> HIDE DEF t
  <2>2. AllNamed(t)
    BY <1>3, <2>1 DEF AllNamed
  <2>3. QED
    BY <2>2 DEF t
<1>4. QED
  BY <1>1, <1>2, <1>3

LEMMA ListsNamed ==
  /\ \A q \in readOnlyPOSTAllowList \cup {<<"query", "jobs">>} : AllNamed(q)
  /\ \A e \in readOnlyPOSTPatterns \cup {dataQueryJobPattern} : AllNamed(e)
<1>1. \A q \in readOnlyPOSTAllowList : AllNamed(q)
  BY NamedTuples DEF readOnlyPOSTAllowList
<1>2. \A e \in readOnlyPOSTPatterns : AllNamed(e)
  BY NamedTuples DEF readOnlyPOSTPatterns, ANY
<1>3. AllNamed(<<"query", "jobs">>) /\ AllNamed(dataQueryJobPattern)
  BY NamedTuples DEF dataQueryJobPattern, ANY
<1>4. QED
  BY <1>1, <1>2, <1>3

LEMMA NoneEmpty ==
  ASSUME NEW m, NEW p, m \notin {"GET", "HEAD", "OPTIONS"},
         isReadOnlyAllowed(m, p) \/ isDataQueryWrite(m, p)
  PROVE  ~Blank(p)
<1> DEFINE q == extractPath(p)
<1>1. DOMAIN q = DOMAIN p /\ \A i \in DOMAIN p : p[i] = "" => q[i] = ""
  BY DEF extractPath, ToLower
<1> HIDE DEF q
<1>2. CASE q \in readOnlyPOSTAllowList \cup {<<"query", "jobs">>}
  BY <1>1, <1>2, ListsNamed DEF AllNamed, Blank
<1>3. CASE \E e \in readOnlyPOSTPatterns \cup {dataQueryJobPattern} : Matches(q, e)
  BY <1>1, <1>3, ListsNamed DEF AllNamed, Matches, Blank
<1>4. QED
  BY <1>2, <1>3 DEF isReadOnlyAllowed, isDataQueryWrite, q

Kinds == {"read", "query", "write"}

\* What is left of a request in read-only mode is what its name says.
LEMMA KindOfAllowed ==
  ASSUME NEW m, NEW p
  PROVE  /\ KindOf(m, p) \in Kinds
         /\ isReadOnlyAllowed(m, p) => KindOf(m, p) = "read"
         /\ isDataQueryWrite(m, p) => KindOf(m, p) \in {"read", "query"}
<1> DEFINE kinds == {route.kind : route \in {r \in routes : r.method = m /\ IsOf(p, r)}}
<1>1. KindOf(m, p) = IF m \in {"GET", "HEAD", "OPTIONS"} THEN "read"
                     ELSE IF kinds = {} \/ "write" \in kinds \/ Blank(p) THEN "write"
                     ELSE CHOOSE k \in kinds : TRUE
  BY DEF KindOf
<1>2. \A k \in kinds : \E r \in routes : r.kind = k /\ r.method = m /\ IsOf(p, r)
  OBVIOUS
<1>3. \A r \in routes : r.method = m /\ IsOf(p, r) => r.kind \in kinds
  OBVIOUS
<1> HIDE DEF kinds
<1>4. kinds \subseteq Kinds
  BY <1>2, RoutesKnown DEF Kinds, Known
<1>5. kinds # {} => (CHOOSE k \in kinds : TRUE) \in kinds
  OBVIOUS
<1>6. KindOf(m, p) \in Kinds
  BY <1>1, <1>4, <1>5 DEF Kinds
<1>7. isReadOnlyAllowed(m, p) => KindOf(m, p) = "read"
  <2>1. CASE m \in {"GET", "HEAD", "OPTIONS"}
    BY <1>1, <2>1
  <2>2. CASE isReadOnlyAllowed(m, p) /\ m \notin {"GET", "HEAD", "OPTIONS"}
    <3>1. m = "POST"
      BY <2>2 DEF isReadOnlyAllowed
    <3>2. kinds \subseteq {"read"}
      BY <1>2, <1>4, <2>2, RoutesKnown, WritesBlocked, QueriesBlocked DEF Kinds
    <3>3. kinds # {}
      <4>1. PICK t \in ReadPosts : IsOf(p, Search(t))
        BY <2>2, <3>1, AllowedIsRead
      <4>2. Search(t).method = m
        BY <3>1 DEF Search, Request
      <4>3. QED
        BY <1>3, <4>1, <4>2, ReadsHaveRoutes
    <3>4. ~Blank(p)
      BY <2>2, NoneEmpty
    <3>5. QED
      BY <1>1, <1>5, <2>2, <3>2, <3>3, <3>4
  <2>3. QED
    BY <2>1, <2>2
<1>8. isDataQueryWrite(m, p) => KindOf(m, p) \in {"read", "query"}
  <2> SUFFICES ASSUME isDataQueryWrite(m, p) PROVE KindOf(m, p) \in {"read", "query"}
    OBVIOUS
  <2>1. "write" \notin kinds
    BY <1>2, RoutesKnown, WritesBlocked
  <2>2. kinds # {}
    BY <1>3, JobWritesAreJobs, JobsHaveRoutes
  <2>3. m \in {"GET", "HEAD", "OPTIONS"} \/ ~Blank(p)
    BY NoneEmpty
  <2>4. QED
    BY <1>1, <1>4, <1>5, <2>1, <2>2, <2>3 DEF Kinds
<1>9. QED
  BY <1>6, <1>7, <1>8

\* Filling in the placeholders makes a path of the request.
LEMMA FilledIsOf ==
  ASSUME NEW route, Known(route), NEW r \in Filled(route)
  PROVE  r.method = route.method /\ r.kind = route.kind /\ IsOf(r.path, route)
<1>1. PICK args \in Args(route.path, Keys) : r = [route EXCEPT !.path = Fill(@, args)]
  BY DEF Filled, FilledFrom
<1>2. DOMAIN route = {"method", "path", "kind"}
  <2>1. route = [method |-> route.method, path |-> route.path, kind |-> route.kind]
    BY DEF Known, Request
  <2>2. QED
    BY <2>1
<1>3. r.method = route.method /\ r.kind = route.kind /\ r.path = Fill(route.path, args)
  BY <1>1, <1>2
<1>4. DOMAIN args \subseteq Placeholders
  BY <1>1 DEF Args
<1>5. DOMAIN r.path = DOMAIN route.path
  BY <1>3 DEF Fill
<1>6. \A i \in DOMAIN r.path : route.path[i] \notin Placeholders => r.path[i] = route.path[i]
  BY <1>3, <1>4 DEF Fill
<1>7. QED
  BY <1>3, <1>5, <1>6 DEF IsOf, extractPath

LEMMA CmdSound == ASSUME name \in Names PROVE Sound(Cmd)
  BY EveryCommandSound, NamesAssumption DEF Cmd

\* The requests a command may send, and the gate.
LEMMA RequestFacts ==
  ASSUME name \in Names, typed.options \in Cmd.accepts, NEW r \in Requests
  PROVE  /\ r.kind \in Kinds
         /\ ~Misread(r) /\ isReadOnlyAllowed(r.method, r.path) => r.kind = "read"
         /\ ~Misread(r) /\ isDataQueryWrite(r.method, r.path) => r.kind \in {"read", "query"}
         /\ r.method \in {"GET", "HEAD", "OPTIONS"} => r.kind = "read" \/ ~Misread(r)
         /\ Cmd.view # "raw" /\ r.kind = "read" /\ ~Blank(r.path) => isReadOnlyAllowed(r.method, r.path)
         /\ Cmd.view # "raw" /\ ReadsOnly(Cmd) => r.kind = "read"
<1>1. CASE Cmd.view = "raw"
  <2>1. PICK m \in RawMethods, p \in rawPaths : r = RawRequest(m, p)
    BY <1>1 DEF Requests, rawRequests
  <2>2. r.method = m /\ r.path = p /\ r.kind = KindOf(m, OnTheWire(p))
    BY <2>1 DEF RawRequest, Request
  <2>3. r.kind \in Kinds /\ (m \in {"GET", "HEAD", "OPTIONS"} => r.kind = "read")
    BY <2>2, KindOfAllowed DEF isReadOnlyAllowed
  <2>4. ~Misread(r) => r.kind = KindOf(m, p)
    BY <1>1, <2>2 DEF Misread, OnTheWire
  <2>5. QED
    BY <1>1, <2>2, <2>3, <2>4, KindOfAllowed
<1>2. CASE Cmd.view # "raw"
  <2> DEFINE route == Cmd.route[typed.options]
  <2>1. r \in Filled(route)
    BY <1>2 DEF Requests
  <2>2. Known(route)
    BY CmdSound DEF Sound
  <2>3. ReadsOnly(Cmd) => route.kind = "read"
    BY DEF ReadsOnly
  <2> HIDE DEF route
  <2>4. r.method = route.method /\ r.kind = route.kind /\ IsOf(r.path, route)
    BY <2>1, <2>2, FilledIsOf
  <2>5. r.kind \in Kinds
    BY <2>2, <2>4 DEF Known, Kinds
  <2>6. r.kind = "write" => ~isReadOnlyAllowed(r.method, r.path) /\ ~isDataQueryWrite(r.method, r.path)
    BY <2>2, <2>4, WritesBlocked
  <2>7. r.kind = "query" => ~isReadOnlyAllowed(r.method, r.path)
    BY <2>2, <2>4, QueriesBlocked
  <2>8. r.kind = "read" /\ ~Blank(r.path) => isReadOnlyAllowed(r.method, r.path)
    BY <2>2, <2>4, ReadsAllowed
  <2>9. ~Misread(r)
    BY <1>2 DEF Misread
  <2>10. QED
    BY <2>3, <2>4, <2>5, <2>6, <2>7, <2>8, <2>9 DEF Kinds
<1>3. QED
  BY <1>1, <1>2

----------------------------------------------------------------------------
(* The run of a command.                                                   *)

\* The steps to come: the global flags, the checks, the request, and what is
\* done with the answer, in that order.
Before == Checks \cup {"apply", "usage"}
Queue(steps) ==
  /\ steps \in Seq(Steps)
  /\ \A i, j \in 1 .. Len(steps) : i < j =>
       /\ steps[j] # "apply"
       /\ steps[j] = "usage" => steps[i] = "apply"
       /\ steps[i] \notin Before => steps[j] \in Ends

InOrder ==
  /\ Queue(todo)
  /\ \A step \in Steps : Has(todo, step) => step \in {"apply", "usage"} \/ Has(Cmd.steps, step)

\* After the request come only steps that look at the answer.
SentLast ==
  /\ result = "running" /\ sent # {} => \A step \in Steps : Has(todo, step) => step \in Ends
  /\ sent = {} => ~applied

OptionsAccepted == ~Has(todo, "usage") => typed.options \in Cmd.accepts

ModeAsFor ==
  /\ mode.asked = "closed" => mode.readOnly /\ ~mode.allowDataQuery
  /\ mode.asked = "queries" => mode.readOnly

ToConfirm ==
  result = "running" /\ name \in Destructive /\ ~typed.confirm => Has(todo, "confirm")

NoCSV ==
  result = "running" /\ Cmd.view = "json" =>
    Has(todo, "csv") \/ (typed.format # "csv" /\ ~Has(todo, "apply"))

ReadersApplyNothing == ReadsOnly(Cmd) /\ Cmd.view # "raw" => ~applied

IInv ==
  /\ TypeOK /\ InOrder /\ SentLast /\ OptionsAccepted /\ ModeAsFor /\ ToConfirm /\ NoCSV
  /\ ReadersApplyNothing /\ ReadOnlyHolds /\ ReadsStayOpen /\ ConfirmedFirst
  /\ RefusedSendsNothing /\ AppliedIsReported

\* Taking the first step off a queue.
LEMMA QueueTail ==
  ASSUME NEW steps, Queue(steps), steps # <<>>
  PROVE  /\ Queue(Tail(steps))
         /\ \A step : Has(steps, step) <=> (step = Head(steps) \/ Has(Tail(steps), step))
         /\ ~Has(Tail(steps), "apply")
         /\ Head(steps) # "apply" => ~Has(Tail(steps), "usage")
         /\ Head(steps) \notin Before => \A step : Has(Tail(steps), step) => step \in Ends
<1> DEFINE rest == Tail(steps)
<1>1. /\ rest \in Seq(Steps) /\ Len(steps) \in Nat /\ Len(steps) > 0 /\ Len(rest) = Len(steps) - 1
      /\ Head(steps) = steps[1]
      /\ \A i \in 1 .. Len(rest) : i + 1 \in 1 .. Len(steps) /\ rest[i] = steps[i + 1]
      /\ \A i \in 1 .. Len(steps) : i # 1 => i - 1 \in 1 .. Len(rest) /\ rest[i - 1] = steps[i]
  BY DEF Queue
<1> HIDE DEF rest
<1>2. Queue(rest)
  <2>1. ASSUME NEW i \in 1 .. Len(rest), NEW j \in 1 .. Len(rest), i < j
        PROVE  /\ rest[j] # "apply"
               /\ rest[j] = "usage" => rest[i] = "apply"
               /\ rest[i] \notin Before => rest[j] \in Ends
    <3>1. i + 1 < j + 1
      BY <2>1
    <3>2. QED
      BY <1>1, <2>1, <3>1 DEF Queue
  <2>2. QED
    BY <1>1, <2>1 DEF Queue
<1>3. ASSUME NEW step PROVE Has(steps, step) <=> (step = Head(steps) \/ Has(rest, step))
  <2>1. ASSUME NEW i \in 1 .. Len(steps), steps[i] = step PROVE step = Head(steps) \/ Has(rest, step)
    BY <1>1, <2>1 DEF Has
  <2>2. step = Head(steps) => Has(steps, step)
    <3>1. 1 \in 1 .. Len(steps)
      BY <1>1
    <3>2. QED
      BY <1>1, <3>1 DEF Has
  <2>3. ASSUME NEW i \in 1 .. Len(rest), rest[i] = step PROVE Has(steps, step)
    BY <1>1, <2>3 DEF Has
  <2>4. QED
    BY <2>1, <2>2, <2>3 DEF Has
<1>4. ASSUME NEW i \in 1 .. Len(rest)
      PROVE  /\ rest[i] # "apply"
             /\ rest[i] = "usage" => Head(steps) = "apply"
             /\ Head(steps) \notin Before => rest[i] \in Ends
  <2>1. 1 \in 1 .. Len(steps) /\ i + 1 \in 1 .. Len(steps) /\ 1 < i + 1
    BY <1>1
  <2>2. QED
    BY <1>1, <2>1 DEF Queue
<1>5. QED
  BY <1>2, <1>3, <1>4 DEF Has, rest

\* The steps every command begins with.
LEMMA StepsQueue ==
  ASSUME NEW steps, Ordered(steps)
  PROVE  /\ Queue(<<"apply", "usage">> \o steps)
         /\ \A step : Has(<<"apply", "usage">> \o steps, step)
                        <=> (step \in {"apply", "usage"} \/ Has(steps, step))
<1> DEFINE all == <<"apply", "usage">> \o steps
<1>1. /\ all \in Seq(Steps) /\ Len(steps) \in Nat /\ Len(all) = Len(steps) + 2
      /\ \A i \in 1 .. Len(all) : all[i] = IF i = 1 THEN "apply" ELSE IF i = 2 THEN "usage" ELSE steps[i - 2]
  BY DEF Ordered, Steps
<1> HIDE DEF all
<1>2. \A i \in 1 .. Len(all) : i \in {1, 2} \/ i - 2 \in 1 .. Len(steps)
  BY <1>1
<1>3. \A i \in 1 .. Len(steps) : i + 2 \in 1 .. Len(all) /\ all[i + 2] = steps[i]
  BY <1>1
<1>4. 1 \in 1 .. Len(all) /\ all[1] = "apply" /\ 2 \in 1 .. Len(all) /\ all[2] = "usage"
  BY <1>1
<1>5. \A i \in 1 .. Len(steps) : steps[i] \notin {"apply", "usage"}
  BY DEF Ordered, Checks, Ends
<1>6. ASSUME NEW i \in 1 .. Len(all), NEW j \in 1 .. Len(all), i < j
      PROVE  /\ all[j] # "apply"
             /\ all[j] = "usage" => all[i] = "apply"
             /\ all[i] \notin Before => all[j] \in Ends
  <2>1. CASE j \in {1, 2}
    <3>1. j = 2 /\ i = 1
      BY <1>6, <2>1
    <3>2. QED
      BY <1>4, <3>1 DEF Before
  <2>2. CASE j \notin {1, 2}
    <3>1. j - 2 \in 1 .. Len(steps) /\ all[j] = steps[j - 2]
      BY <1>1, <1>2, <2>2
    <3>2. ASSUME all[i] \notin Before PROVE all[j] \in Ends
      <4>1. i \notin {1, 2}
        BY <1>4, <3>2 DEF Before
      <4>2. i - 2 \in 1 .. Len(steps) /\ all[i] = steps[i - 2] /\ i - 2 < j - 2
        BY <1>1, <1>2, <1>6, <4>1
      <4>3. QED
        BY <3>1, <3>2, <4>2 DEF Ordered, Before
    <3>3. QED
      BY <1>5, <3>1, <3>2
  <2>3. QED
    BY <2>1, <2>2
<1>7. ASSUME NEW step PROVE Has(all, step) <=> (step \in {"apply", "usage"} \/ Has(steps, step))
  <2>1. ASSUME NEW i \in 1 .. Len(all), all[i] = step
        PROVE  step \in {"apply", "usage"} \/ Has(steps, step)
    BY <1>1, <1>2, <2>1 DEF Has
  <2>2. step \in {"apply", "usage"} => Has(all, step)
    BY <1>4 DEF Has
  <2>3. Has(steps, step) => Has(all, step)
    BY <1>3 DEF Has
  <2>4. QED
    BY <2>1, <2>2, <2>3 DEF Has
<1>8. QED
  BY <1>1, <1>6, <1>7 DEF Queue, all

\* A step of a command either ends it, with the queue as it was, or takes
\* the next step off the queue.
Turns == Advance \/ (UNCHANGED todo /\ result' \in Results \ {"running", "ok"})

LEMMA Turn ==
  ASSUME InOrder, NEW step \in Steps, At(step), Turns
  PROVE  /\ Queue(todo') /\ result' \in Results
         /\ Has(todo, step)
         /\ \A other : Has(todo', other) => Has(todo, other)
         /\ \A other : other # step /\ Has(todo, other) => Has(todo', other)
         /\ result' \in {"running", "ok"} => todo' = Tail(todo) /\ ~Has(todo', "apply")
         /\ step # "apply" => ~Has(todo, "apply")
         /\ step \notin {"apply", "usage"} => ~Has(todo, "usage")
         /\ step \notin Before /\ result' = "running" => \A other : Has(todo', other) => other \in Ends
<1>1. Queue(todo) /\ todo # <<>> /\ Head(todo) = step
  BY DEF InOrder, At
<1>2. /\ Queue(Tail(todo))
      /\ \A other : Has(todo, other) <=> (other = step \/ Has(Tail(todo), other))
      /\ ~Has(Tail(todo), "apply")
      /\ step # "apply" => ~Has(Tail(todo), "usage")
      /\ step \notin Before => \A other : Has(Tail(todo), other) => other \in Ends
  BY <1>1, QueueTail
<1>3. CASE Advance
  <2>1. todo' = Tail(todo) /\ result' \in {"ok", "running"}
    BY <1>3 DEF Advance
  <2>2. result' \in Results
    BY <2>1 DEF Results
  <2>3. QED
    BY <1>2, <2>1, <2>2
<1>4. CASE UNCHANGED todo /\ result' \in Results \ {"running", "ok"}
  BY <1>1, <1>2, <1>4
<1>5. QED
  BY <1>3, <1>4 DEF Turns

\* The same command, on with the queue of its steps.
LEMMA InOrderKept ==
  ASSUME InOrder, NEW step \in Steps, At(step), Turns, UNCHANGED name
  PROVE  InOrder'
<1>1. Queue(todo') /\ \A other : Has(todo', other) => Has(todo, other)
  BY Turn
<1>2. Cmd' = Cmd
  BY DEF Cmd
<1>3. QED
  BY <1>1, <1>2 DEF InOrder

\* Before the request nothing has been sent.
LEMMA Unsent ==
  ASSUME InOrder, SentLast, NEW step \in Steps \ Ends, At(step)
  PROVE  sent = {} /\ ~applied
<1>1. Has(todo, step)
  BY QueueTail DEF InOrder, At
<1>2. QED
  BY <1>1 DEF SentLast, At

LEMMA NothingSent ==
  ASSUME sent' = {}, ~applied', result' # "blocked"
  PROVE  /\ SentLast' /\ ReadersApplyNothing' /\ ReadOnlyHolds' /\ ReadsStayOpen'
         /\ ConfirmedFirst' /\ RefusedSendsNothing' /\ AppliedIsReported'
  BY DEF SentLast, ReadersApplyNothing, ReadOnlyHolds, ReadsStayOpen, ConfirmedFirst,
         RefusedSendsNothing, AppliedIsReported

\* One of the checks: it reads a flag, or a file, and goes on or gives up.
LEMMA CheckKeeps ==
  ASSUME IInv, NEW step \in Checks, At(step), Turns, result' # "blocked",
         UNCHANGED <<name, mode, sent, applied, answer, printed>>,
         typed' \in [options : Cmd.inputs, format : Formats, confirm : BOOLEAN, body : Contents],
         typed'.options = typed.options, typed'.format = typed.format,
         step # "confirm" => typed'.confirm = typed.confirm,
         step = "confirm" /\ result' = "running" => typed'.confirm,
         step = "csv" /\ result' = "running" => typed.format # "csv"
  PROVE  IInv'
<1>1. step \in Steps \ Ends /\ step \notin {"apply", "usage"}
  BY DEF Steps, Ends, Checks
<1>2. InOrder'
  BY <1>1, InOrderKept DEF IInv
<1>3. /\ Queue(todo') /\ result' \in Results
      /\ \A other : Has(todo', other) => Has(todo, other)
      /\ \A other : other # step /\ Has(todo, other) => Has(todo', other)
      /\ result' \in {"running", "ok"} => ~Has(todo', "apply")
      /\ ~Has(todo, "usage")
  BY <1>1, Turn DEF IInv
<1>4. Cmd' = Cmd /\ result = "running"
  BY DEF Cmd, At
<1>5. TypeOK'
  BY <1>3, <1>4 DEF IInv, TypeOK, Queue
<1>6. SentLast' /\ ReadersApplyNothing' /\ ReadOnlyHolds' /\ ReadsStayOpen'
      /\ ConfirmedFirst' /\ RefusedSendsNothing' /\ AppliedIsReported'
  <2>1. sent = {} /\ ~applied
    BY <1>1, Unsent DEF IInv
  <2>2. QED
    BY <2>1, NothingSent
<1>7. OptionsAccepted'
  BY <1>3, <1>4 DEF IInv, OptionsAccepted
<1>8. ModeAsFor'
  BY DEF IInv, ModeAsFor
<1>9. ToConfirm'
  BY <1>3, <1>4 DEF IInv, ToConfirm
<1>10. NoCSV'
  BY <1>3, <1>4 DEF IInv, NoCSV
<1>11. QED
  BY <1>2, <1>5, <1>6, <1>7, <1>8, <1>9, <1>10 DEF IInv

LEMMA RequireConfirmKeeps == IInv /\ RequireConfirm => IInv'
<1> SUFFICES ASSUME IInv, RequireConfirm PROVE IInv'
  OBVIOUS
<1>1. PICK confirm \in BOOLEAN : /\ typed' = [typed EXCEPT !.confirm = confirm]
                                 /\ AdvanceOr(confirm, "unconfirmed")
  BY DEF RequireConfirm
<1>2. Turns /\ result' # "blocked" /\ (result' = "running" => confirm)
  BY <1>1 DEF AdvanceOr, Advance, Fail, Turns, Results, Refusals
<1>3. /\ typed' \in [options : Cmd.inputs, format : Formats, confirm : BOOLEAN, body : Contents]
      /\ typed'.options = typed.options /\ typed'.format = typed.format /\ typed'.confirm = confirm
  BY <1>1 DEF IInv, TypeOK
<1>4. "confirm" \in Checks /\ At("confirm")
      /\ UNCHANGED <<name, mode, sent, applied, answer, printed>>
  BY DEF RequireConfirm, Checks
<1>5. QED
  BY <1>2, <1>3, <1>4, CheckKeeps

LEMMA RejectBareCSVKeeps == IInv /\ RejectBareCSV => IInv'
<1> SUFFICES ASSUME IInv, RejectBareCSV PROVE IInv'
  OBVIOUS
<1>1. Turns /\ result' # "blocked" /\ (result' = "running" => typed.format # "csv")
  BY DEF RejectBareCSV, AdvanceOr, Advance, Fail, Turns, Results, Refusals
<1>2. "csv" \in Checks /\ At("csv") /\ UNCHANGED <<name, typed, mode, sent, applied, answer, printed>>
  BY DEF RejectBareCSV, Checks
<1>3. QED
  BY <1>1, <1>2, CheckKeeps DEF IInv, TypeOK

LEMMA HttpClientKeeps == IInv /\ HttpClient => IInv'
<1> SUFFICES ASSUME IInv, HttpClient PROVE IInv'
  OBVIOUS
<1>1. Turns /\ result' # "blocked"
  BY DEF HttpClient, AdvanceOr, Advance, Fail, Turns, Results, Refusals
<1>2. "client" \in Checks /\ At("client")
      /\ UNCHANGED <<name, typed, mode, sent, applied, answer, printed>>
  BY DEF HttpClient, Checks
<1>3. QED
  BY <1>1, <1>2, CheckKeeps DEF IInv, TypeOK

LEMMA ResolveBodyKeeps == IInv /\ ResolveBody => IInv'
<1> SUFFICES ASSUME IInv, ResolveBody PROVE IInv'
  OBVIOUS
<1>1. PICK b \in Contents : typed' = typed \/ typed' = [typed EXCEPT !.body = b]
  BY DEF ResolveBody, Contents
<1>2. Turns /\ result' # "blocked"
  BY DEF ResolveBody, AdvanceOr, Advance, Fail, Turns, Results, Refusals
<1>3. /\ typed' \in [options : Cmd.inputs, format : Formats, confirm : BOOLEAN, body : Contents]
      /\ typed'.options = typed.options /\ typed'.format = typed.format
      /\ typed'.confirm = typed.confirm
  BY <1>1 DEF IInv, TypeOK
<1>4. "body" \in Checks /\ At("body") /\ UNCHANGED <<name, mode, sent, applied, answer, printed>>
  BY DEF ResolveBody, Checks
<1>5. QED
  BY <1>2, <1>3, <1>4, CheckKeeps

LEMMA ReadFileKeeps == IInv /\ ReadFile => IInv'
<1> SUFFICES ASSUME IInv, ReadFile PROVE IInv'
  OBVIOUS
<1>1. Turns /\ result' # "blocked"
  BY DEF ReadFile, AdvanceOr, Advance, Fail, Turns, Results, Refusals
<1>2. "file" \in Checks /\ At("file")
      /\ UNCHANGED <<name, typed, mode, sent, applied, answer, printed>>
  BY DEF ReadFile, Checks
<1>3. QED
  BY <1>1, <1>2, CheckKeeps DEF IInv, TypeOK

\* Every action keeps the inductive invariant, and the first state has it.
LEMMA InitHolds == Init => IInv
<1> SUFFICES ASSUME Init PROVE IInv
  OBVIOUS
<1>1. Sound(Cmd) /\ name \in Names
  BY CmdSound DEF Init
<1>2. todo = <<"apply", "usage">> \o Cmd.steps
  BY DEF Init, Cmd
<1>3. /\ Queue(todo)
      /\ \A step : Has(todo, step) <=> (step \in {"apply", "usage"} \/ Has(Cmd.steps, step))
  BY <1>1, <1>2, StepsQueue DEF Sound
<1>4. sent = {} /\ applied = FALSE /\ result = "running" /\ printed = {}
      /\ answer = [body |-> "empty", next |-> "none"]
      /\ mode = [readOnly |-> FALSE, allowDataQuery |-> FALSE, asked |-> "open"]
      /\ typed = [options |-> {}, format |-> "plain", confirm |-> FALSE, body |-> "empty"]
  BY DEF Init
<1>5. TypeOK
  BY <1>1, <1>3, <1>4
     DEF TypeOK, Queue, Sound, Formats, Contents, Bodies, Nexts, Results
<1>6. InOrder
  BY <1>3 DEF InOrder
<1>7. /\ SentLast /\ ReadersApplyNothing /\ ReadOnlyHolds /\ ReadsStayOpen
      /\ ConfirmedFirst /\ RefusedSendsNothing /\ AppliedIsReported
  BY <1>4 DEF SentLast, ReadersApplyNothing, ReadOnlyHolds, ReadsStayOpen, ConfirmedFirst,
              RefusedSendsNothing, AppliedIsReported
<1>8. OptionsAccepted
  BY <1>3 DEF OptionsAccepted
<1>9. ModeAsFor
  BY <1>4 DEF ModeAsFor
<1>10. ToConfirm
  BY <1>3, DestructiveAsk DEF ToConfirm, Cmd
<1>11. NoCSV
  BY <1>1, <1>3 DEF NoCSV, Sound
<1>12. QED
  BY <1>5, <1>6, <1>7, <1>8, <1>9, <1>10, <1>11 DEF IInv

\* What the settings resolve to is what they ask for.
LEMMA AskedFor ==
  ASSUME NEW s \in Settings
  PROVE  /\ Asked(s) \in {"open", "closed", "queries"}
         /\ Resolved(s.roFlag, EnvReadOnly(s.roVar)) \in BOOLEAN
         /\ Resolved(s.dqFlag, EnvReadOnlyAllowDataQuery(s.dqVar)) \in BOOLEAN
         /\ Asked(s) # "open" => Resolved(s.roFlag, EnvReadOnly(s.roVar))
         /\ Asked(s) = "closed" => ~Resolved(s.dqFlag, EnvReadOnlyAllowDataQuery(s.dqVar))
  BY DEF Settings, FlagValues, Asked, Resolved, EnvReadOnly, EnvReadOnlyAllowDataQuery

LEMMA ApplyKeeps == IInv /\ Apply => IInv'
<1> SUFFICES ASSUME IInv, Apply PROVE IInv'
  OBVIOUS
<1>1. PICK s \in Settings, f \in Typed, piped \in BOOLEAN :
        /\ mode' = [readOnly |-> Resolved(s.roFlag, EnvReadOnly(s.roVar)),
                    allowDataQuery |-> Resolved(s.dqFlag, EnvReadOnlyAllowDataQuery(s.dqVar)),
                    asked |-> Asked(s)]
        /\ IF f = "json and template"
           THEN Fail("usage") /\ UNCHANGED typed
           ELSE /\ Advance
                /\ typed' = [typed EXCEPT !.format = IF f = "plain" /\ piped THEN "json" ELSE f]
  BY DEF Apply
<1>2. "apply" \in Steps \ Ends /\ At("apply") /\ UNCHANGED <<name, sent, applied, answer, printed>>
  BY DEF Apply, Steps, Ends
<1>3. Turns /\ result' # "blocked"
  BY <1>1 DEF Advance, Fail, Turns, Results, Refusals
<1>4. InOrder'
  BY <1>2, <1>3, InOrderKept DEF IInv
<1>5. /\ Queue(todo') /\ result' \in Results
      /\ Has(todo, "apply")
      /\ \A other : Has(todo', other) => Has(todo, other)
      /\ \A other : other # "apply" /\ Has(todo, other) => Has(todo', other)
      /\ result' \in {"running", "ok"} => ~Has(todo', "apply")
  BY <1>2, <1>3, Turn DEF IInv
<1>6. Cmd' = Cmd /\ result = "running"
  BY <1>2 DEF Cmd, At
<1>7. mode' \in [readOnly : BOOLEAN, allowDataQuery : BOOLEAN, asked : {"open", "closed", "queries"}]
      /\ ModeAsFor'
  BY <1>1, AskedFor DEF ModeAsFor
<1>8. /\ typed' \in [options : Cmd.inputs, format : Formats, confirm : BOOLEAN, body : Contents]
      /\ typed'.options = typed.options /\ typed'.confirm = typed.confirm
  <2>1. f = "json and template" \/ f \in Formats
    BY TypedAssumption
  <2>2. "json" \in Formats
    BY DEF Formats
  <2>3. QED
    BY <1>1, <2>1, <2>2 DEF IInv, TypeOK
<1>9. TypeOK'
  BY <1>2, <1>5, <1>6, <1>7, <1>8 DEF IInv, TypeOK, Queue
<1>10. SentLast' /\ ReadersApplyNothing' /\ ReadOnlyHolds' /\ ReadsStayOpen'
       /\ ConfirmedFirst' /\ RefusedSendsNothing' /\ AppliedIsReported'
  <2>1. sent = {} /\ ~applied
    BY <1>2, Unsent DEF IInv
  <2>2. QED
    BY <1>2, <1>3, <2>1, NothingSent
<1>11. OptionsAccepted'
  BY <1>5, <1>6, <1>8 DEF IInv, OptionsAccepted
<1>12. ToConfirm'
  BY <1>2, <1>5, <1>6, <1>8 DEF IInv, ToConfirm
<1>13. NoCSV'
  BY <1>5, <1>6 DEF IInv, NoCSV
<1>14. QED
  BY <1>4, <1>7, <1>9, <1>10, <1>11, <1>12, <1>13 DEF IInv

LEMMA CheckUsageKeeps == IInv /\ CheckUsage => IInv'
<1> SUFFICES ASSUME IInv, CheckUsage PROVE IInv'
  OBVIOUS
<1>1. PICK o \in Cmd.inputs : /\ typed' = [typed EXCEPT !.options = o]
                              /\ AdvanceOr(o \in Cmd.accepts, "usage")
  BY DEF CheckUsage
<1>2. /\ "usage" \in Steps \ Ends /\ At("usage")
      /\ UNCHANGED <<name, mode, sent, applied, answer, printed>>
  BY DEF CheckUsage, Steps, Ends
<1>3. Turns /\ result' # "blocked" /\ (o \in Cmd.accepts \/ UNCHANGED todo)
  BY <1>1 DEF AdvanceOr, Advance, Fail, Turns, Results, Refusals
<1>4. InOrder'
  BY <1>2, <1>3, InOrderKept DEF IInv
<1>5. /\ Queue(todo') /\ result' \in Results
      /\ Has(todo, "usage") /\ ~Has(todo, "apply")
      /\ \A other : Has(todo', other) => Has(todo, other)
      /\ \A other : other # "usage" /\ Has(todo, other) => Has(todo', other)
  BY <1>2, <1>3, Turn DEF IInv
<1>6. Cmd' = Cmd /\ result = "running"
  BY <1>2 DEF Cmd, At
<1>7. /\ typed' \in [options : Cmd.inputs, format : Formats, confirm : BOOLEAN, body : Contents]
      /\ typed'.options = o /\ typed'.confirm = typed.confirm /\ typed'.format = typed.format
  BY <1>1 DEF IInv, TypeOK
<1>8. TypeOK'
  BY <1>2, <1>5, <1>6, <1>7 DEF IInv, TypeOK, Queue
<1>9. SentLast' /\ ReadersApplyNothing' /\ ReadOnlyHolds' /\ ReadsStayOpen'
       /\ ConfirmedFirst' /\ RefusedSendsNothing' /\ AppliedIsReported'
  <2>1. sent = {} /\ ~applied
    BY <1>2, Unsent DEF IInv
  <2>2. QED
    BY <1>2, <1>3, <2>1, NothingSent
<1>10. OptionsAccepted'
  BY <1>3, <1>5, <1>6, <1>7 DEF OptionsAccepted
<1>11. ModeAsFor'
  BY <1>2 DEF IInv, ModeAsFor
<1>12. ToConfirm'
  BY <1>2, <1>5, <1>6, <1>7 DEF IInv, ToConfirm
<1>13. NoCSV'
  BY <1>5, <1>6, <1>7 DEF IInv, NoCSV
<1>14. QED
  BY <1>4, <1>8, <1>9, <1>10, <1>11, <1>12, <1>13 DEF IInv

\* The request, and every step after it, leave the flags as they were read.
LEMMA FlagsKept ==
  ASSUME IInv, NEW step \in Steps \ Before, At(step), Turns, UNCHANGED <<name, typed, mode>>
  PROVE  /\ InOrder' /\ OptionsAccepted' /\ ModeAsFor' /\ ToConfirm' /\ NoCSV'
         /\ todo' \in Seq(Steps) /\ result' \in Results
         /\ result' = "running" => \A other \in Steps : Has(todo', other) => other \in Ends
<1>1. step \notin Checks \cup {"apply", "usage"}
  BY DEF Before
<1>2. /\ Queue(todo') /\ result' \in Results
      /\ \A other : Has(todo', other) => Has(todo, other)
      /\ \A other : other # step /\ Has(todo, other) => Has(todo', other)
      /\ ~Has(todo, "usage") /\ ~Has(todo, "apply")
      /\ result' = "running" => \A other : Has(todo', other) => other \in Ends
  BY <1>1, Turn DEF IInv
<1>3. Cmd' = Cmd /\ result = "running" /\ step \notin {"confirm", "csv"}
  BY <1>1 DEF Cmd, At, Checks
<1>4. InOrder'
  BY InOrderKept DEF IInv
<1>5. OptionsAccepted'
  BY <1>2, <1>3 DEF IInv, OptionsAccepted
<1>6. ModeAsFor'
  BY DEF IInv, ModeAsFor
<1>7. ToConfirm'
  BY <1>2, <1>3 DEF IInv, ToConfirm
<1>8. NoCSV'
  BY <1>2, <1>3 DEF IInv, NoCSV
<1>9. QED
  BY <1>2, <1>4, <1>5, <1>6, <1>7, <1>8 DEF Queue

LEMMA SendKeeps == IInv /\ Send => IInv'
<1> SUFFICES ASSUME IInv, Send PROVE IInv'
  OBVIOUS
<1>1. PICK r \in Requests : Do(r)
  BY DEF Send
<1>2. "send" \in Steps \ Before /\ "send" \notin Ends /\ At("send") /\ UNCHANGED <<name, typed, mode, printed>>
  BY DEF Send, Steps, Before, Checks, Ends
<1>3. sent = {} /\ ~applied
  BY <1>2, Unsent DEF IInv
<1>4. result = "running" /\ ~Has(todo, "usage") /\ ~Has(todo, "confirm")
  <2>1. Queue(todo) /\ todo # <<>> /\ Head(todo) = "send"
    BY <1>2 DEF IInv, InOrder, At
  <2>2. "confirm" \notin Ends /\ "usage" \notin Ends /\ "send" \notin {"confirm", "usage"}
    BY DEF Ends
  <2>3. QED
    BY <1>2, <2>1, <2>2, QueueTail DEF At
<1>5. /\ r.kind \in Kinds
      /\ ~Misread(r) /\ isReadOnlyAllowed(r.method, r.path) => r.kind = "read"
      /\ ~Misread(r) /\ isDataQueryWrite(r.method, r.path) => r.kind \in {"read", "query"}
      /\ r.method \in {"GET", "HEAD", "OPTIONS"} => r.kind = "read" \/ ~Misread(r)
      /\ Cmd.view # "raw" /\ r.kind = "read" /\ ~Blank(r.path) => isReadOnlyAllowed(r.method, r.path)
      /\ Cmd.view # "raw" /\ ReadsOnly(Cmd) => r.kind = "read"
  BY <1>4, RequestFacts DEF IInv, TypeOK, OptionsAccepted
<1>6. Cmd' = Cmd /\ Requests' = Requests
  BY <1>2 DEF Cmd, Requests
<1>7. typed.confirm \/ name \notin Destructive
  BY <1>4 DEF IInv, ToConfirm
<1>8. Pages \subseteq Nexts
  BY DEF Pages, Nexts
<1>9. CASE Blocks(mode.readOnly, mode.allowDataQuery, r.method, r.path)
  <2>1. Fail("blocked") /\ UNCHANGED <<sent, applied, answer>>
    BY <1>1, <1>9 DEF Do
  <2>2. Turns
    BY <2>1 DEF Fail, Turns, Results
  <2>3. /\ InOrder' /\ OptionsAccepted' /\ ModeAsFor' /\ ToConfirm' /\ NoCSV'
        /\ todo' \in Seq(Steps) /\ result' \in Results
    BY <1>2, <2>2, FlagsKept
  <2>4. TypeOK'
    BY <1>2, <1>6, <2>1, <2>3 DEF IInv, TypeOK
  <2>5. SentLast' /\ ReadersApplyNothing' /\ ReadOnlyHolds' /\ ConfirmedFirst'
        /\ RefusedSendsNothing' /\ AppliedIsReported'
    BY <1>3, <2>1 DEF SentLast, ReadersApplyNothing, ReadOnlyHolds, ConfirmedFirst,
                      RefusedSendsNothing, AppliedIsReported
  <2>6. ReadsStayOpen'
    <3>1. ~isReadOnlyAllowed(r.method, r.path)
      BY <1>9 DEF Blocks
    <3>2. Cmd.view = "raw" \/ r.kind # "read" \/ Blank(r.path)
      BY <1>5, <3>1
    <3>3. QED
      BY <1>1, <1>6, <3>2 DEF ReadsStayOpen, Blank
  <2>7. QED
    BY <2>3, <2>4, <2>5, <2>6 DEF IInv
<1>10. CASE ~Blocks(mode.readOnly, mode.allowDataQuery, r.method, r.path)
  <2>1. /\ sent' = {r}
        /\ Advance \/ (UNCHANGED todo /\ result' \in {"refused", "lost"})
        /\ applied' \in {FALSE, r.kind # "read"}
        /\ answer' = answer \/ answer' \in [body : Bodies, next : Pages]
    BY <1>1, <1>3, <1>10 DEF Do, Fail, Advance, IInv, TypeOK
  <2>2. Turns /\ result' \in {"refused", "lost", "running", "ok"}
    BY <2>1 DEF Advance, Turns, Results
  <2>3. /\ InOrder' /\ OptionsAccepted' /\ ModeAsFor' /\ ToConfirm' /\ NoCSV'
        /\ todo' \in Seq(Steps) /\ result' \in Results
        /\ result' = "running" => \A other \in Steps : Has(todo', other) => other \in Ends
    BY <1>2, <2>2, FlagsKept
  <2>4. TypeOK'
    <3>1. answer' \in [body : Bodies, next : Nexts]
      BY <1>8, <2>1 DEF IInv, TypeOK
    <3>2. applied' \in BOOLEAN /\ \A q \in sent' : q.kind \in {"read", "query", "write"}
      BY <1>5, <2>1 DEF Kinds
    <3>3. QED
      BY <1>2, <1>6, <2>3, <3>1, <3>2 DEF IInv, TypeOK
  <2>5. SentLast'
    BY <2>1, <2>3 DEF SentLast
  <2>6. ReadersApplyNothing'
    <3>1. (ReadsOnly(Cmd))' <=> ReadsOnly(Cmd)
      BY <1>6 DEF ReadsOnly
    <3>2. QED
      BY <1>5, <1>6, <2>1, <3>1 DEF ReadersApplyNothing
  <2>7. ReadOnlyHolds'
    <3>1. mode.readOnly => isReadOnlyAllowed(r.method, r.path)
                           \/ (mode.allowDataQuery /\ isDataQueryWrite(r.method, r.path))
      BY <1>10 DEF Blocks
    <3>2. /\ isReadOnlyAllowed(r.method, r.path) =>
               r.kind = "read" \/ (Misread(r) /\ r.method = "POST")
          /\ isDataQueryWrite(r.method, r.path) =>
               r.kind \in {"read", "query"} \/ (Misread(r) /\ r.method \in {"POST", "DELETE"})
      BY <1>5 DEF isReadOnlyAllowed, isDataQueryWrite
    <3>3. (Misread(r))' <=> Misread(r)
      BY <1>6 DEF Misread
    <3>4. mode.asked = "closed" => r.kind = "read" \/ (Misread(r) /\ r.method = "POST")
      BY <3>1, <3>2 DEF IInv, ModeAsFor
    <3>5. mode.asked = "queries" =>
            r.kind \in {"read", "query"} \/ (Misread(r) /\ r.method \in {"POST", "DELETE"})
      BY <3>1, <3>2 DEF IInv, ModeAsFor
    <3>6. QED
      BY <1>2, <2>1, <3>3, <3>4, <3>5 DEF ReadOnlyHolds
  <2>8. ConfirmedFirst'
    BY <1>2, <1>7 DEF ConfirmedFirst
  <2>9. ReadsStayOpen' /\ RefusedSendsNothing' /\ AppliedIsReported'
    BY <2>2 DEF ReadsStayOpen, RefusedSendsNothing, AppliedIsReported, Refusals
  <2>10. QED
    BY <2>3, <2>4, <2>5, <2>6, <2>7, <2>8, <2>9 DEF IInv
<1>11. QED
  BY <1>9, <1>10

\* What is left of a command that has sent its request.
LEMMA EndFacts ==
  ASSUME IInv, NEW step \in Ends, At(step)
  PROVE  /\ step \in Steps \ Before /\ result = "running" /\ Has(todo, step)
         /\ typed.format # "csv" \/ Cmd.view # "json"
         /\ typed.options \in Cmd.accepts
         /\ Has(Cmd.steps, step)
         /\ name \in Destructive => typed.confirm
<1>1. step \in Steps \ Before /\ step \notin {"apply", "usage"}
  BY DEF Steps, Before, Checks, Ends
<1>2. Queue(todo) /\ todo # <<>> /\ Head(todo) = step /\ result = "running"
  BY DEF IInv, InOrder, At
<1>3. Has(todo, step) /\ \A other : Has(todo, other) => other \in Ends
  BY <1>1, <1>2, QueueTail
<1>4. ~Has(todo, "csv") /\ ~Has(todo, "usage") /\ ~Has(todo, "confirm")
  BY <1>3 DEF Ends
<1>5. QED
  BY <1>1, <1>2, <1>3, <1>4 DEF IInv, InOrder, NoCSV, OptionsAccepted, ToConfirm

\* The classes of error a runner may end with.  An answer with an object, or
\* with no body, is shown in every format, unless an expression of the user's
\* fails: but for --csv on the commands that refuse it first, and an empty
\* answer to a read.
LEMMA ShownClass ==
  ASSUME Cmd.view \in Views, NEW format, NEW body, NEW class \in Shown(format, body)
  PROVE  /\ class \in {"ok", "unreadable", "csv", "format"}
         /\ class = "csv" => Cmd.view = "json" /\ format = "csv"
         /\ class # "ok" /\ body \in {"object", "empty"} =>
              \/ class = "format" /\ format \in Expressions
              \/ Cmd.view = "json" /\ format = "csv"
              \/ Cmd.view = "table"
              \/ Cmd.view = "detail" /\ ~Cmd.message
<1> DEFINE Told(classes, answered) ==
      \A c \in classes : /\ c \in {"ok", "unreadable", "format"}
                         /\ c # "ok" /\ answered \in {"object", "empty"} =>
                              c = "format" /\ format \in Expressions
<1>1. \A b : Told(RenderJSON(format, b), b)
  BY DEF RenderJSON, Expressions, IllFormed
<1>2. Told(RenderSuccess(format), "object") /\ \A c \in RenderSuccess(format) : c # "unreadable"
  BY DEF RenderSuccess, RenderJSON, Expressions, IllFormed
<1>3. Told(Render(format, body), body) /\ Told(PrintJSON(body), body)
  BY <1>1 DEF Render, PrintJSON
<1>4. CASE Cmd.view = "detail"
  BY <1>2, <1>3, <1>4 DEF Shown, RunDetail
<1>5. CASE Cmd.view = "delete"
  BY <1>2, <1>3, <1>5 DEF Shown, RenderDeleteResult
<1>6. CASE Cmd.view = "json"
  BY <1>1, <1>3, <1>6 DEF Shown, RenderJSONOnly
<1>7. CASE Cmd.view = "notice"
  BY <1>1, <1>3, <1>7 DEF Shown, RenderJSONWithMessage
<1>8. CASE Cmd.view = "table"
  BY <1>3, <1>8 DEF Shown, RenderTable
<1>9. CASE Cmd.view = "raw"
  BY <1>1, <1>9 DEF Shown, runAPI
<1>10. QED
  BY <1>4, <1>5, <1>6, <1>7, <1>8, <1>9 DEF Views

LEMMA ShowAnswerKeeps == IInv /\ ShowAnswer => IInv'
<1> SUFFICES ASSUME IInv, ShowAnswer PROVE IInv'
  OBVIOUS
<1>0. PICK class \in Shown(typed.format, answer.body) : AdvanceOr(class = "ok", class)
  BY DEF ShowAnswer
<1>1. /\ At("render") /\ AdvanceOr(class = "ok", class) /\ "render" \in Ends
      /\ UNCHANGED <<name, typed, mode, sent, applied, answer, printed>>
  BY <1>0 DEF ShowAnswer, Ends
<1>2. /\ "render" \in Steps \ Before /\ result = "running"
      /\ typed.format # "csv" \/ Cmd.view # "json"
  BY <1>1, EndFacts
<1>3. Sound(Cmd) /\ Cmd' = Cmd
  BY <1>1, CmdSound DEF IInv, TypeOK, Cmd
<1>4. /\ class \in {"ok", "unreadable", "format"}
      /\ class # "ok" /\ answer.body \in {"object", "empty"} =>
           \/ class = "format" /\ typed.format \in Expressions
           \/ Cmd.view # "raw" /\ ReadsOnly(Cmd)
  <2>1. /\ Cmd.view \in Views
        /\ Cmd.view = "table" \/ (Cmd.view = "detail" /\ ~Cmd.message) => ReadsOnly(Cmd)
    BY <1>3 DEF Sound
  <2>2. /\ class \in {"ok", "unreadable", "csv", "format"}
        /\ class = "csv" => Cmd.view = "json" /\ typed.format = "csv"
        /\ class # "ok" /\ answer.body \in {"object", "empty"} =>
             \/ class = "format" /\ typed.format \in Expressions
             \/ Cmd.view = "json" /\ typed.format = "csv"
             \/ Cmd.view = "table"
             \/ Cmd.view = "detail" /\ ~Cmd.message
    BY <1>0, <2>1, ShownClass
  <2>3. QED
    BY <1>2, <2>1, <2>2
<1>5. Turns /\ (result' \in {"running", "ok"} \/ (result' = class /\ class # "ok"))
  BY <1>1, <1>4 DEF AdvanceOr, Advance, Fail, Turns, Results
<1>6. /\ InOrder' /\ OptionsAccepted' /\ ModeAsFor' /\ ToConfirm' /\ NoCSV'
      /\ todo' \in Seq(Steps) /\ result' \in Results
      /\ result' = "running" => \A other \in Steps : Has(todo', other) => other \in Ends
  BY <1>1, <1>2, <1>5, FlagsKept
<1>7. TypeOK'
  BY <1>1, <1>3, <1>6 DEF IInv, TypeOK
<1>8. SentLast' /\ ReadersApplyNothing' /\ ReadOnlyHolds' /\ ConfirmedFirst'
  <2>1. (ReadsOnly(Cmd))' <=> ReadsOnly(Cmd)
    BY <1>3 DEF ReadsOnly
  <2>2. QED
    BY <1>1, <1>3, <1>6, <2>1 DEF IInv, SentLast, ReadersApplyNothing, ReadOnlyHolds, Misread, ConfirmedFirst
<1>9. ReadsStayOpen' /\ RefusedSendsNothing'
  BY <1>4, <1>5 DEF ReadsStayOpen, RefusedSendsNothing, Refusals
<1>10. AppliedIsReported'
  <2>1. class # "ok" /\ applied =>
          \/ class = "format" /\ typed.format \in Expressions
          \/ answer.body \notin {"object", "empty"}
    BY <1>4 DEF IInv, ReadersApplyNothing
  <2>2. QED
    BY <1>1, <1>5, <2>1 DEF AppliedIsReported
<1>11. QED
  BY <1>6, <1>7, <1>8, <1>9, <1>10 DEF IInv

LEMMA printHintKeeps == IInv /\ printHint => IInv'
<1> SUFFICES ASSUME IInv, printHint PROVE IInv'
  OBVIOUS
<1>1. /\ At("hint") /\ "hint" \in Ends
      /\ UNCHANGED <<name, typed, mode, sent, applied, answer>>
  BY DEF printHint, Ends
<1>2. /\ "hint" \in Steps \ Before /\ result = "running"
      /\ typed.options \in Cmd.accepts
  BY <1>1, EndFacts
<1>3. Sound(Cmd) /\ Cmd' = Cmd
  BY <1>1, CmdSound DEF IInv, TypeOK, Cmd
<1>4. Turns /\ result' \in {"running", "ok", "panic"}
      /\ (printed' = printed \/ (Cmd.cursor # "" /\ printed' = typed.options \cup {Cmd.cursor}))
  BY DEF printHint, Advance, Fail, Turns, Results
<1>5. /\ InOrder' /\ OptionsAccepted' /\ ModeAsFor' /\ ToConfirm' /\ NoCSV'
      /\ todo' \in Seq(Steps) /\ result' \in Results
      /\ result' = "running" => \A other \in Steps : Has(todo', other) => other \in Ends
  BY <1>1, <1>2, <1>4, FlagsKept
<1>6. TypeOK'
  <2>1. typed.options \subseteq Cmd.options /\ Cmd.cursor \in Cmd.options \cup {""}
    BY <1>3 DEF IInv, TypeOK, Sound
  <2>2. printed' \subseteq Cmd.options
    BY <1>4, <2>1 DEF IInv, TypeOK
  <2>3. QED
    BY <1>1, <1>3, <1>5, <2>2 DEF IInv, TypeOK
<1>7. SentLast' /\ ReadersApplyNothing' /\ ReadOnlyHolds' /\ ConfirmedFirst'
  <2>1. (ReadsOnly(Cmd))' <=> ReadsOnly(Cmd)
    BY <1>3 DEF ReadsOnly
  <2>2. QED
    BY <1>1, <1>3, <1>5, <2>1 DEF IInv, SentLast, ReadersApplyNothing, ReadOnlyHolds, Misread, ConfirmedFirst
<1>8. ReadsStayOpen' /\ RefusedSendsNothing' /\ AppliedIsReported'
  BY <1>4 DEF ReadsStayOpen, RefusedSendsNothing, AppliedIsReported, Refusals
<1>9. QED
  BY <1>5, <1>6, <1>7, <1>8 DEF IInv

LEMMA FollowQueryMoreKeeps == IInv /\ FollowQueryMore => IInv'
<1> SUFFICES ASSUME IInv, FollowQueryMore PROVE IInv'
  OBVIOUS
<1> DEFINE r == Search(Cmd.more)
<1>1. /\ At("more") /\ "more" \in Ends
      /\ UNCHANGED <<name, typed, mode, printed>>
  BY DEF FollowQueryMore, Ends
<1>2. /\ "more" \in Steps \ Before /\ result = "running" /\ Has(Cmd.steps, "more")
      /\ name \in Destructive => typed.confirm
  BY <1>1, EndFacts
<1>3. Sound(Cmd) /\ Cmd' = Cmd
  BY <1>1, CmdSound DEF IInv, TypeOK, Cmd
<1>4. Cmd.view = "table" /\ Cmd.more = <<"v1", "action", "queryMore">> /\ ReadsOnly(Cmd)
  BY <1>2, <1>3 DEF Sound
<1>5. ~applied
  BY <1>4 DEF IInv, ReadersApplyNothing
<1>6. r.kind = "read" /\ ~Blocks(mode.readOnly, mode.allowDataQuery, r.method, r.path)
  <2>1. r.method = "POST" /\ r.path = <<"v1", "action", "queryMore">> /\ r.kind = "read"
    BY <1>4 DEF Search, Request
  <2>2. isReadOnlyAllowed(r.method, r.path)
    BY <2>1, FixedReadsListed DEF FixedReads, isReadOnlyAllowed
  <2>3. QED
    BY <2>1, <2>2 DEF Blocks
<1> HIDE DEF r
<1>7. /\ sent' \in {sent, sent \cup {r}}
      /\ ~applied' /\ applied' = applied
      /\ answer' = answer \/ answer' \in [body : Bodies, next : Pages]
      /\ \/ Turns /\ result' \in {"unreadable", "refused", "lost", "running", "ok"}
         \/ UNCHANGED <<todo, result>>
  BY <1>5, <1>6 DEF FollowQueryMore, Fail, Advance, Turns, Results, r
<1>8. /\ InOrder' /\ OptionsAccepted' /\ ModeAsFor' /\ ToConfirm' /\ NoCSV'
      /\ todo' \in Seq(Steps) /\ result' \in Results
      /\ result' = "running" => \A other \in Steps : Has(todo', other) => other \in Ends
  <2>1. CASE Turns
    BY <1>1, <1>2, <2>1, FlagsKept
  <2>2. CASE UNCHANGED <<todo, result>>
    <3>1. Queue(todo) /\ todo # <<>> /\ Head(todo) = "more"
      BY <1>1 DEF IInv, InOrder, At
    <3>2. \A other : Has(todo, other) => other \in Ends
      BY <1>1, <1>2, <3>1, QueueTail
    <3>3. InOrder' /\ OptionsAccepted' /\ ModeAsFor' /\ ToConfirm' /\ NoCSV'
      BY <1>1, <1>3, <2>2 DEF IInv, InOrder, OptionsAccepted, ModeAsFor, ToConfirm, NoCSV
    <3>4. QED
      BY <2>2, <3>2, <3>3 DEF IInv, TypeOK
  <2>3. QED
    BY <1>7, <2>1, <2>2
<1>9. TypeOK'
  <2>1. Pages \subseteq Nexts
    BY DEF Pages, Nexts
  <2>2. answer' \in [body : Bodies, next : Nexts]
    BY <1>7, <2>1 DEF IInv, TypeOK
  <2>3. \A q \in sent' : q.kind \in {"read", "query", "write"}
    BY <1>6, <1>7 DEF IInv, TypeOK
  <2>4. name' \in Names /\ applied' \in BOOLEAN /\ printed' \subseteq Cmd'.options
        /\ mode' \in [readOnly : BOOLEAN, allowDataQuery : BOOLEAN,
                      asked : {"open", "closed", "queries"}]
    BY <1>1, <1>3, <1>7 DEF IInv, TypeOK
  <2>5. typed' \in [options : Cmd'.inputs, format : Formats, confirm : BOOLEAN, body : Contents]
    BY <1>1, <1>3 DEF IInv, TypeOK
  <2>6. QED
    BY <1>8, <2>2, <2>3, <2>4, <2>5 DEF TypeOK
<1>10. SentLast' /\ ReadersApplyNothing' /\ ReadOnlyHolds' /\ ConfirmedFirst'
  <2>1. ReadOnlyHolds'
    BY <1>1, <1>3, <1>6, <1>7 DEF IInv, ReadOnlyHolds, Misread
  <2>2. QED
    BY <1>1, <1>2, <1>6, <1>7, <1>8, <2>1 DEF IInv, SentLast, ReadersApplyNothing, ConfirmedFirst
<1>11. ReadsStayOpen' /\ RefusedSendsNothing' /\ AppliedIsReported'
  BY <1>2, <1>7 DEF ReadsStayOpen, RefusedSendsNothing, AppliedIsReported, Refusals
<1>12. QED
  BY <1>8, <1>9, <1>10, <1>11 DEF IInv

LEMMA NextHolds == IInv /\ [Next]_vars => IInv'
<1> SUFFICES ASSUME IInv, [Next]_vars PROVE IInv'
  OBVIOUS
<1>1. CASE Apply
  BY <1>1, ApplyKeeps
<1>2. CASE CheckUsage
  BY <1>2, CheckUsageKeeps
<1>3. CASE RequireConfirm
  BY <1>3, RequireConfirmKeeps
<1>4. CASE RejectBareCSV
  BY <1>4, RejectBareCSVKeeps
<1>5. CASE HttpClient
  BY <1>5, HttpClientKeeps
<1>6. CASE ResolveBody
  BY <1>6, ResolveBodyKeeps
<1>7. CASE ReadFile
  BY <1>7, ReadFileKeeps
<1>8. CASE Send
  BY <1>8, SendKeeps
<1>9. CASE FollowQueryMore
  BY <1>9, FollowQueryMoreKeeps
<1>10. CASE ShowAnswer
  BY <1>10, ShowAnswerKeeps
<1>11. CASE printHint
  BY <1>11, printHintKeeps
<1>12. CASE Ended \/ UNCHANGED vars
  <2>1. UNCHANGED vars
    BY <1>12 DEF Ended
  <2>2. TypeOK' /\ InOrder' /\ SentLast' /\ OptionsAccepted' /\ ModeAsFor'
    BY <2>1 DEF IInv, vars, Cmd, TypeOK, InOrder, SentLast, OptionsAccepted, ModeAsFor
  <2>3. ToConfirm' /\ NoCSV' /\ ReadersApplyNothing'
    BY <2>1 DEF IInv, vars, Cmd, ToConfirm, NoCSV, ReadersApplyNothing, ReadsOnly
  <2>4. ReadOnlyHolds' /\ ConfirmedFirst' /\ RefusedSendsNothing' /\ AppliedIsReported'
    BY <2>1 DEF IInv, vars, Cmd, Misread, ReadOnlyHolds, ConfirmedFirst, RefusedSendsNothing, AppliedIsReported
  <2>5. ReadsStayOpen'
    BY <2>1 DEF IInv, vars, ReadsStayOpen, Requests, Cmd
  <2>6. QED
    BY <2>2, <2>3, <2>4, <2>5 DEF IInv
<1>13. QED
  BY <1>1, <1>2, <1>3, <1>4, <1>5, <1>6, <1>7, <1>8, <1>9, <1>10, <1>11, <1>12 DEF Next

----------------------------------------------------------------------------
(* The theorems.                                                           *)

\* Every run of every command keeps the inductive invariant.
THEOREM Invariant == Spec => []IInv
<1>1. Init => IInv
  BY InitHolds
<1>2. IInv /\ [Next]_vars => IInv'
  BY NextHolds
<1>3. QED
  BY <1>1, <1>2, PTL DEF Spec

\* The variables stay in their types; a run ends with a class of error the
\* program has a name for, and the hint names only flags of the command.
THEOREM Typing == Spec => []TypeOK
<1>1. IInv => TypeOK
  BY DEF IInv
<1>2. QED
  BY <1>1, Invariant, PTL

\* Read-only mode, for any command with any arguments, and for zr api with
\* any method on the path of a command, or below it: whatever a flag or a
\* variable said short of a clear no, only reads leave the process, and Data
\* Query jobs only where a clear word let them.  The one exception is a path
\* of zr api with a '#' in it, of which the gate sees more than is sent: a POST
\* on it may be another request than the read it looks like.
THEOREM ReadOnlyIsReadOnly == Spec => []ReadOnlyHolds
<1>1. IInv => ReadOnlyHolds
  BY DEF IInv
<1>2. QED
  BY <1>1, Invariant, PTL

\* The gate stops none of the program's own reads, whatever an argument is
\* called, as long as it is not empty.
THEOREM NoReadIsStopped == Spec => []ReadsStayOpen
<1>1. IInv => ReadsStayOpen
  BY DEF IInv
<1>2. QED
  BY <1>1, Invariant, PTL

\* No destructive command reaches the tenant without --confirm.
THEOREM AskedBeforeHarm == Spec => []ConfirmedFirst
<1>1. IInv => ConfirmedFirst
  BY DEF IInv
<1>2. QED
  BY <1>1, Invariant, PTL

\* A command that refuses its flags, its body, a bare --csv or its
\* configuration has sent nothing.
THEOREM RefusalsAreEarly == Spec => []RefusedSendsNothing
<1>1. IInv => RefusedSendsNothing
  BY DEF IInv
<1>2. QED
  BY <1>1, Invariant, PTL

\* A write the tenant carried out and answered in form is reported as done,
\* in every output format; only a --jq or --template of the user's own can
\* still fail.
THEOREM WritesAreReported == Spec => []AppliedIsReported
<1>1. IInv => AppliedIsReported
  BY DEF IInv
<1>2. QED
  BY <1>1, Invariant, PTL

----------------------------------------------------------------------------
(* One gate.  ApiClient takes the decisions of RequestPolicy, on classes   *)
(* of requests; here they are taken on methods and paths.  A request of a  *)
(* command, in the words of RequestPolicy:                                 *)

Policy == INSTANCE RequestPolicy
ListedPost(path) == isReadOnlyAllowed("POST", path)
AsSent(r, readOnly, allow) ==
  [method |-> r.method, listed |-> r.method = "POST" /\ ListedPost(r.path),
   dataQuery |-> isDataQueryWrite(r.method, r.path), readOnly |-> readOnly, allowDQ |-> allow]

\* The client that ApiClient models blocks exactly the requests of a command
\* that the gate on paths blocks.
THEOREM SameGate ==
  ASSUME NEW r, NEW readOnly \in BOOLEAN, NEW allow \in BOOLEAN
  PROVE  Policy!ReadOnlyBlocks(AsSent(r, readOnly, allow))
           <=> Blocks(readOnly, allow, r.method, r.path)
<1> DEFINE q == AsSent(r, readOnly, allow)
<1>1. /\ q.method = r.method /\ q.listed = (r.method = "POST" /\ ListedPost(r.path))
      /\ q.dataQuery = isDataQueryWrite(r.method, r.path)
      /\ q.readOnly = readOnly /\ q.allowDQ = allow
  BY DEF AsSent
<1> HIDE DEF q
<1>2. Policy!isReadOnlyAllowed(q) <=> isReadOnlyAllowed(r.method, r.path)
  BY <1>1 DEF Policy!isReadOnlyAllowed, Policy!SafeMethods, ListedPost, isReadOnlyAllowed
<1>3. Policy!isDataQueryWrite(q) <=> isDataQueryWrite(r.method, r.path)
  BY <1>1 DEF Policy!isDataQueryWrite, isDataQueryWrite
<1>4. QED
  BY <1>1, <1>2, <1>3 DEF Policy!ReadOnlyBlocks, Blocks, q

\* zr api: a request counts as a read only where the gate would let it out.
LEMMA ReadKindAllowed ==
  ASSUME NEW m, NEW p, KindOf(m, p) = "read", ~Blank(p)
  PROVE  isReadOnlyAllowed(m, p)
<1> DEFINE kinds == {route.kind : route \in {r \in routes : r.method = m /\ IsOf(p, r)}}
<1>1. KindOf(m, p) = IF m \in {"GET", "HEAD", "OPTIONS"} THEN "read"
                     ELSE IF kinds = {} \/ "write" \in kinds \/ Blank(p) THEN "write"
                     ELSE CHOOSE k \in kinds : TRUE
  BY DEF KindOf
<1>2. \A k \in kinds : \E r \in routes : r.kind = k /\ r.method = m /\ IsOf(p, r)
  OBVIOUS
<1> HIDE DEF kinds
<1>3. CASE m \in {"GET", "HEAD", "OPTIONS"}
  BY <1>3 DEF isReadOnlyAllowed
<1>4. CASE m \notin {"GET", "HEAD", "OPTIONS"}
  <2>1. kinds # {} /\ (CHOOSE k \in kinds : TRUE) = "read"
    BY <1>1, <1>4
  <2>2. "read" \in kinds
    BY <2>1
  <2>3. PICK r \in routes : r.kind = "read" /\ r.method = m /\ IsOf(p, r)
    BY <1>2, <2>2
  <2>4. QED
    BY <2>3, RoutesKnown, ReadsAllowed
<1>5. QED
  BY <1>3, <1>4

\* What the gate thinks of a request, and what it is for.
Plain(path) == ~Blank(path) /\ ~Fragment(path)
WellKnown(r) == Plain(r.path) => (isReadOnlyAllowed(r.method, r.path) <=> r.kind = "read")

LEMMA RequestWellKnown ==
  ASSUME name \in Names, typed.options \in Cmd.accepts, NEW r \in Requests
  PROVE  WellKnown(r)
<1>1. CASE Cmd.view = "raw"
  <2>1. PICK m \in RawMethods, p \in rawPaths : r = RawRequest(m, p)
    BY <1>1 DEF Requests, rawRequests
  <2>2. r.method = m /\ r.path = p /\ (Plain(p) => r.kind = KindOf(m, p))
    BY <2>1 DEF RawRequest, Request, Plain, OnTheWire
  <2>3. QED
    BY <2>2, KindOfAllowed, ReadKindAllowed DEF WellKnown, Plain
<1>2. CASE Cmd.view # "raw"
  BY <1>2, RequestFacts DEF WellKnown, Plain, Misread
<1>3. QED
  BY <1>1, <1>2

LEMMA WellKnownStep ==
  ASSUME IInv, \A r \in sent : WellKnown(r), [Next]_vars
  PROVE  \A r \in sent' : WellKnown(r)
<1>1. CASE Send
  <2>1. PICK r \in Requests : Do(r)
    BY <1>1 DEF Send
  <2>2. ~Has(todo, "usage")
    <3>1. Queue(todo) /\ todo # <<>> /\ Head(todo) = "send" /\ "usage" \notin Ends /\ "send" \notin Before
      BY <1>1 DEF Send, At, IInv, InOrder, Ends, Before, Checks
    <3>2. QED
      BY <3>1, QueueTail
  <2>3. WellKnown(r)
    BY <2>2, RequestWellKnown DEF IInv, TypeOK, OptionsAccepted
  <2>4. sent' \subseteq sent \cup {r}
    BY <2>1 DEF Do
  <2>5. QED
    BY <2>3, <2>4
<1>2. CASE FollowQueryMore
  <2> DEFINE r == Search(Cmd.more)
  <2>1. Has(Cmd.steps, "more")
    BY <1>2, EndFacts DEF FollowQueryMore, Ends
  <2>2. r.method = "POST" /\ r.path = <<"v1", "action", "queryMore">> /\ r.kind = "read"
    BY <2>1, CmdSound DEF IInv, TypeOK, Sound, Search, Request
  <2>3. WellKnown(r)
    BY <2>2, FixedReadsListed DEF FixedReads, isReadOnlyAllowed, WellKnown
  <2> HIDE DEF r
  <2>4. sent' \subseteq sent \cup {r}
    BY <1>2 DEF FollowQueryMore, r
  <2>5. QED
    BY <2>3, <2>4
<1>3. CASE ~Send /\ ~FollowQueryMore
  <2>1. sent' = sent
    BY <1>3 DEF Next, vars, Apply, CheckUsage, RequireConfirm, RejectBareCSV, HttpClient,
                ResolveBody, ReadFile, ShowAnswer, printHint, Ended
  <2>2. QED
    BY <2>1
<1>4. QED
  BY <1>1, <1>2, <1>3

\* What ApiClient counts as a write (Mutates), and guards against a second
\* application, is what the commands send to change something, or to start
\* or cancel a Data Query job: for every request that leaves the process,
\* unless an argument was empty, or a path given to zr api holds a '#'.
THEOREM SameWrites ==
  Spec => [](\A r \in sent : Plain(r.path) =>
               (Policy!Mutates(AsSent(r, mode.readOnly, mode.allowDataQuery)) <=> r.kind # "read"))
<1>1. Init => \A r \in sent : WellKnown(r)
  BY DEF Init
<1>2. IInv /\ (\A r \in sent : WellKnown(r)) /\ [Next]_vars => (\A r \in sent : WellKnown(r))'
  BY WellKnownStep DEF WellKnown
<1>3. ASSUME NEW r, WellKnown(r), Plain(r.path), NEW a, NEW b
      PROVE  Policy!Mutates(AsSent(r, a, b)) <=> r.kind # "read"
  <2>1. /\ AsSent(r, a, b).method = r.method
        /\ AsSent(r, a, b).listed = (r.method = "POST" /\ ListedPost(r.path))
    BY DEF AsSent
  <2>2. QED
    BY <1>3, <2>1 DEF Policy!Mutates, Policy!SafeMethods, WellKnown, ListedPost, isReadOnlyAllowed
<1>4. (\A r \in sent : WellKnown(r)) =>
        \A r \in sent : Plain(r.path) =>
          (Policy!Mutates(AsSent(r, mode.readOnly, mode.allowDataQuery)) <=> r.kind # "read")
  BY <1>3
<1>5. QED
  BY <1>1, <1>2, <1>4, Invariant, PTL DEF Spec
===============================================================================
