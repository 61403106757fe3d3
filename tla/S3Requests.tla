------------------------------- MODULE S3Requests -------------------------------
(***************************************************************************)
(* What the S3 proxy (src/s3/server.go, src/s3/entry.go) decides about a   *)
(* request: whether it is forwarded, bypasses the cache or may be cached,  *)
(* under which key, which entries a mutation removes, which headers a      *)
(* fetch takes along, and how a hit answers conditions and ranges.         *)
(*                                                                         *)
(* The requests of a session come one after the other (S3Object has them   *)
(* concurrent, on one key).  A content is a set of pairs of an object and  *)
(* its version; it stands for the bytes, for their ETag and for their      *)
(* Last-Modified, which has a resolution of one second.                    *)
(***************************************************************************)
EXTENDS Integers, Sequences

CONSTANTS
  Objects,
  Names,       \* path as the client spells it -> the object it names, or "bucket"
  Cacheable,   \* scope (tenant, subject and credentials) -> security.cacheable
  Untagged,    \* pairs of object and version the upstream serves without an ETag
  Undated,     \* and without a Last-Modified
  PerSecond,   \* changes of an object in one second
  BodySize,    \* bytes of a body
  Sent,        \* requests of the clients: method, scope, path, params, range, conds
  MaxSent      \* bound of the model: requests of a session

VARIABLES
  version,   \* of each object, the version of its latest change
  deleted,   \* objects that do not exist
  entries,   \* the cache
  response,  \* to the latest request
  log,       \* history: the successful mutations
  sent       \* number of requests made

s3Vars == <<version, deleted, entries, response, log, sent>>

\* A range is a list of pairs first-last, None where a number is left out.
None == -1
NoRange == [unit |-> "none", list |-> <<>>]

\* Every path names an object or the bucket, a range is a list of pairs of numbers.
Bounds == Nat \cup {None}
ASSUME RequestsAssumption ==
  /\ BodySize \in Nat /\ MaxSent \in Nat /\ PerSecond \in Nat \ {0}
  /\ \A r \in Sent :
       /\ Names[r.path] \in Objects \cup {"bucket"}
       /\ r.range.list \in Seq(Bounds \X Bounds)

\* Condition headers: If-Match "match", If-None-Match "none-match", If-Modified-Since
\* "since", If-Range "range".
Cond(kind, content) == [kind |-> kind, content |-> content]

-----------------------------------------------------------------------------
(* The upstream *)

Content(r) ==
  IF r.params = "version" THEN {<<Names[r.path], 1>>}
  ELSE IF Names[r.path] = "bucket" THEN {<<o, version[o]>> : o \in Objects \ deleted}
  ELSE {<<o, version[o]>> : o \in {Names[r.path]} \ deleted}
\* The ETag and the Last-Modified of a content, {} where the upstream sends none.
Tag(content) == IF content \cap Untagged # {} THEN {} ELSE content
Date(content) == IF content \cap Undated # {} THEN {} ELSE content
\* The second of a version, and the order of dates.
Second(v) == v \div PerSecond
NotLater(c, d) == \A p \in c, q \in d : Second(p[2]) <= Second(q[2])

\* how: what the proxy did; at: length of the log when the content was fetched.
Answer(how, r, status, content, tag, bytes, at) ==
  [how |-> how, to |-> r, status |-> status, content |-> content, tag |-> tag,
   bytes |-> bytes, at |-> at]
NoBytes == <<None, None>>
Whole == <<0, BodySize - 1>>

SmallerOf(a, b) == IF a < b THEN a ELSE b
\* A list of ranges the upstream does not understand is as good as none (RFC 9110, 14.2);
\* of several it may send the whole.
Understood(range) ==
  /\ range.unit = "bytes" /\ Len(range.list) = 1
  /\ LET p == range.list[1]
     IN  IF p[1] = None THEN p[2] # None ELSE p[2] = None \/ p[1] <= p[2]
UpstreamRange(p) ==
  IF p[1] = None THEN <<BodySize - SmallerOf(p[2], BodySize), BodySize - 1>>
  ELSE <<p[1], IF p[2] = None THEN BodySize - 1 ELSE SmallerOf(p[2], BodySize - 1)>>

Holds(conds, kind, content) == \A c \in conds : c.kind = kind => c.content = content
Sends(conds, kind) == \E c \in conds : c.kind = kind
\* If-Modified-Since: the content is not later than the date asked about.
NotSince(conds, content) ==
  Date(content) # {} /\ \E c \in conds : c.kind = "since" /\ NotLater(content, c.content)
UpstreamAnswer(how, r, conds) ==
  LET c == Content(r)
      Ok(status, bytes) == Answer(how, r, status, c, Tag(c), bytes, Len(log))
  IN  IF c = {} THEN Ok(404, NoBytes)
      ELSE IF ~Holds(conds, "match", c) THEN Ok(412, NoBytes)
      ELSE IF Tag(c) # {} /\ Cond("none-match", c) \in conds THEN Ok(304, NoBytes)
      ELSE IF ~Sends(conds, "none-match") /\ NotSince(conds, c) THEN Ok(304, NoBytes)
      ELSE IF r.method = "HEAD" THEN Ok(200, NoBytes)
      ELSE IF ~Understood(r.range) \/ ~Holds(conds, "range", c) THEN Ok(200, Whole)
      ELSE LET b == UpstreamRange(r.range.list[1])
           IN  IF b[1] > b[2] THEN Ok(416, NoBytes) ELSE Ok(206, b)

-----------------------------------------------------------------------------
(* Routing and keys *)

IsMutation(r) == r.method \in {"PUT", "POST", "DELETE"}

\* cachePolicy with PathStyle: no path of a bucket, no listing, no sub-resource.
CachePolicy(r) == Names[r.path] # "bucket" /\ r.params \notin {"list", "upload"}

\* cacheKey: the path as it is escaped; parameters x-amz- and x-goog- are left out.
cacheKey(r) ==
  [scope |-> r.scope, path |-> r.path,
   params |-> IF r.params = "signed" THEN "none" ELSE r.params]

\* Mutation: only the entry of the same parameters.
InvalidateTargetKey(r) == {e \in entries : e.key # cacheKey(r)}
\* invalidateTarget: what is left of the cache without the variants of the target.
InvalidateTarget(r) ==
  {e \in entries : e.key.scope # r.scope \/ e.key.path # r.path}

-----------------------------------------------------------------------------
(* Entries *)

\* content of the body, or of the headers if there is no body (full is FALSE).
NoKey == [scope |-> "none", path |-> "none", params |-> "none"]
NoEntry == [key |-> NoKey, content |-> {}, tag |-> {}, date |-> {}, full |-> FALSE,
            fresh |-> FALSE, at |-> 0]
Entry(key) ==
  IF \E e \in entries : e.key = key THEN CHOOSE e \in entries : e.key = key ELSE NoEntry
Without(key) == {e \in entries : e.key # key}

\* entryUsable.
Usable(r, e) == e # NoEntry /\ (r.method = "HEAD" \/ e.full)
\* canRevalidate: there is something to ask the upstream with.
CanRevalidate(r, e) == Usable(r, e) /\ (e.tag # {} \/ e.date # {})

\* Mutation: a suffix longer than the body is not cut.
ParseRangeLong(range) ==
  LET p == range.list[1]
      last == IF p[2] = None THEN BodySize - 1 ELSE SmallerOf(p[2], BodySize - 1)
  IN  IF BodySize = 0 \/ range.unit # "bytes" \/ Len(range.list) # 1 THEN NoBytes
      ELSE IF p[1] = None
      THEN IF p[2] <= 0 THEN NoBytes ELSE <<BodySize - p[2], BodySize - 1>>
      ELSE IF p[1] >= BodySize \/ (p[2] # None /\ p[2] < p[1]) THEN NoBytes
      ELSE <<p[1], last>>
\* parseRange.
ParseRange(range) ==
  LET p == range.list[1]
      last == IF p[2] = None THEN BodySize - 1 ELSE SmallerOf(p[2], BodySize - 1)
  IN  IF BodySize = 0 \/ range.unit # "bytes" \/ Len(range.list) # 1 THEN NoBytes
      ELSE IF p[1] = None
      THEN IF p[2] <= 0 THEN NoBytes ELSE <<BodySize - SmallerOf(p[2], BodySize), BodySize - 1>>
      ELSE IF p[1] >= BodySize \/ (p[2] # None /\ p[2] < p[1]) THEN NoBytes
      ELSE <<p[1], last>>

\* serveEntry: of the conditions only If-None-Match counts; HEAD comes before Range.
ServeEntry(how, r, e) ==
  LET Ok(status, bytes) == Answer(how, r, status, e.content, e.tag, bytes, e.at)
  IN  IF e.tag # {} /\ Cond("none-match", e.tag) \in r.conds THEN Ok(304, NoBytes)
      ELSE IF r.method = "HEAD" THEN Ok(200, NoBytes)
      ELSE IF r.range = NoRange THEN Ok(200, Whole)
      ELSE IF ParseRange(r.range) = NoBytes THEN Ok(416, NoBytes)
      ELSE Ok(206, ParseRange(r.range))

-----------------------------------------------------------------------------
(* Handlers *)

S3Init ==
  /\ version = [o \in Objects |-> 1] /\ deleted = {} /\ entries = {}
  /\ response = Answer("none", "none", 0, {}, {}, NoBytes, 0)
  /\ log = <<>> /\ sent = 0

Count == sent < MaxSent /\ sent' = sent + 1

\* What a successful mutation does to the upstream.
Change(o) == version' = [version EXCEPT ![o] = @ + 1] /\ deleted' = deleted \ {o}
Delete(o) == deleted' = deleted \cup {o} /\ UNCHANGED version
Effect(r) ==
  IF Names[r.path] = "bucket"
  THEN r.method = "POST" /\ r.params = "delete" /\ \E o \in Objects : Delete(o)
  ELSE IF r.method = "DELETE" THEN Delete(Names[r.path]) ELSE Change(Names[r.path])

\* forwardMutation.
Mutate ==
  \E r \in Sent :
    /\ IsMutation(r) /\ Count /\ Effect(r)
    /\ entries' = IF Cacheable[r.scope] THEN InvalidateTarget(r) ELSE entries
    /\ log' = Append(log, r)
    /\ response' = Answer("forward", r, 200, {}, {}, NoBytes, 0)

MutateRefused ==
  \E r \in Sent :
    /\ IsMutation(r) /\ Count
    /\ response' = Answer("forward", r, 403, {}, {}, NoBytes, 0)
    /\ UNCHANGED <<version, deleted, entries, log>>

\* forward.
Forward ==
  \E r \in Sent :
    /\ r.method \notin {"GET", "HEAD"} /\ ~IsMutation(r) /\ Count
    /\ response' = Answer("forward", r, 200, {}, {}, NoBytes, 0)
    /\ UNCHANGED <<version, deleted, entries, log>>

Reading(r) == r.method \in {"GET", "HEAD"} /\ Count /\ UNCHANGED <<version, deleted, log>>
MayCache(r) == Cacheable[r.scope] /\ CachePolicy(r)

Bypass ==
  \E r \in Sent :
    /\ Reading(r) /\ ~MayCache(r)
    /\ response' = UpstreamAnswer("bypass", r, r.conds)
    /\ UNCHANGED entries

\* serveCacheable, with the entry fresh.
Hit ==
  \E r \in Sent : LET e == Entry(cacheKey(r)) IN
    /\ Reading(r) /\ MayCache(r) /\ Usable(r, e) /\ e.fresh
    /\ response' = ServeEntry("hit", r, e)
    /\ UNCHANGED entries

\* The condition of an entry's own.
Own(e) == IF e.tag # {} THEN Cond("none-match", e.tag) ELSE Cond("since", e.date)
\* Mutation: it is added to the client's own of the same kind.
CondsKept(r, e) == r.conds \cup {Own(e)}
\* fetchAndMaybeStore: the conditions that go to the upstream with an entry to check.
CondsSet(r, e) == {c \in r.conds : c.kind # Own(e).kind} \cup {Own(e)}

\* 304: the entry is fresh again, with the headers of the answer.
Refresh(r, e, a) ==
  LET fresh == [e EXCEPT !.fresh = TRUE, !.tag = IF a.tag # {} THEN a.tag ELSE @,
                         !.date = IF Date(a.content) # {} THEN Date(a.content) ELSE @]
  IN  /\ entries' = Without(e.key) \cup {fresh}
      /\ response' = ServeEntry("revalidated", r, fresh)

\* shouldStore also looks at Cache-Control and Set-Cookie, streamAndStore at the size.
Store(r, key, a) ==
  \/ /\ a.status = 200 /\ r.range = NoRange
     /\ entries' = Without(key) \cup
          {[key |-> key, content |-> a.content, tag |-> a.tag, date |-> Date(a.content),
            full |-> r.method = "GET", fresh |-> TRUE, at |-> Len(log)]}
  \/ entries' = IF a.status = 404 THEN Without(key) ELSE entries

\* A 304 with nothing to revalidate is for the client's own condition: Store leaves the
\* cache alone, and the client gets it.
Fetch ==
  \E r \in Sent :
    LET e == Entry(cacheKey(r))
        a == UpstreamAnswer("miss", r, IF CanRevalidate(r, e) THEN CondsSet(r, e) ELSE r.conds)
    IN  /\ Reading(r) /\ MayCache(r) /\ ~(Usable(r, e) /\ e.fresh)
        /\ IF a.status = 304 /\ CanRevalidate(r, e) THEN Refresh(r, e, a)
           ELSE Store(r, cacheKey(r), a) /\ response' = a

\* FreshUntil passes.
Expire ==
  /\ \E e \in entries : e.fresh /\ entries' = (entries \ {e}) \cup {[e EXCEPT !.fresh = FALSE]}
  /\ UNCHANGED <<version, deleted, response, log, sent>>

Done == sent = MaxSent /\ UNCHANGED s3Vars

S3Next ==
  Mutate \/ MutateRefused \/ Forward \/ Bypass \/ Hit \/ Fetch \/ Expire \/ Done

S3Spec == S3Init /\ [][S3Next]_s3Vars

-----------------------------------------------------------------------------
(* Properties *)

\* A mutation whose target is, to the proxy, the object of the request r.
SameTarget(m, r) == Cacheable[m.scope] /\ m.scope = r.scope /\ m.path = r.path

\* A fresh entry that is out of date was changed only behind the proxy's back: by
\* another scope or one that is not cached, by a deletion of many objects at once, or
\* under another spelling of the path; whatever the parameters of either request.
StaleOnlyBehindItsBack ==
  response.how = "hit" /\ response.to.params # "version" =>
    \A i \in (response.at + 1)..Len(log) : ~SameTarget(log[i], response.to)

\* A hit with the current content and its ETag answers as the upstream would, unless
\* the request has a condition serveEntry does not know, or a range that is not
\* understood: the upstream ignores the range, the proxy refuses it (416).
HitsAnswerLikeUpstream ==
  LET r == response.to
      direct == UpstreamAnswer("hit", r, r.conds)
  IN  response.how = "hit" /\ response.content = Content(r) /\ response.tag = response.content =>
        \/ <<response.status, response.bytes>> = <<direct.status, direct.bytes>>
        \/ \E c \in r.conds : c.kind \in {"match", "since", "range"}
        \/ response.status = 416 /\ r.range # NoRange /\ ~Understood(r.range)

\* An entry is taken for current only if it is, unless it was stored without an ETag: its
\* Last-Modified does not tell a change in the same second, and with a client's
\* If-None-Match the upstream's 304 meant the client's copy, whose ETag, which is not its
\* own, was merged into the entry.
RevalidatedIsCurrent ==
  response.how = "revalidated" =>
    \/ response.content = Content(response.to)
    \/ /\ Tag(response.content) = {}
       /\ response.tag # {} \/ NotLater(Content(response.to), response.content)

-----------------------------------------------------------------------------
(* The inductive invariant *)

Contents == SUBSET (Objects \X Nat)
Keys == {cacheKey(r) : r \in Sent}
S3TypeOK ==
  /\ version \in [Objects -> Nat] /\ deleted \subseteq Objects
  /\ entries \subseteq
       [key : Keys, content : Contents, tag : Contents, date : Contents, full : BOOLEAN,
        fresh : BOOLEAN, at : Nat]
  /\ log \in Seq(Sent) /\ sent \in 0..MaxSent

\* Nothing empty is stored, and nothing from the future.
StoredInv == \A e \in entries : e.content # {} /\ e.at <= Len(log)

\* What the proxy can see of an entry's target has not changed since it was fetched,
\* whether the entry is fresh or not: a mutation removes all variants.
UntouchedInv ==
  \A e \in entries : \A i \in (e.at + 1)..Len(log) : ~SameTarget(log[i], e.key)

\* An entry has the ETag of its content, or has none of its own and was given another.
TagInv ==
  \A e \in entries :
    \/ e.tag = Tag(e.content)
    \/ Tag(e.content) = {} /\ e.tag # {} /\ Tag(e.tag) = e.tag

\* Without an ETag, it has at most a date that is not later than its content's.
DateInv == \A e \in entries : e.tag = {} => NotLater(e.date, e.content)

S3IInv == S3TypeOK /\ StoredInv /\ UntouchedInv /\ TagInv /\ DateInv
=============================================================================
