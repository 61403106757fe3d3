----------------------------- MODULE NpmRoutesProofs -----------------------------
(***************************************************************************)
(* Proofs about NpmRoutes: that keys keep URLs apart, and where rewritten  *)
(* links lead, for any hosts, segments of paths and configurations.        *)
(***************************************************************************)
EXTENDS NpmRoutes, Integers, SequenceTheorems, TLAPS

-----------------------------------------------------------------------------
(* Sequences and records *)

\* Sequences with the same elements are the same.
LEMMA SameElements ==
  ASSUME NEW S, NEW p \in Seq(S), NEW q \in Seq(S), Len(p) = Len(q),
         \A i \in 1..Len(p) : p[i] = q[i]
  PROVE  p = q
OBVIOUS

\* The elements of a part of a sequence.
LEMMA SubSeqElements ==
  ASSUME NEW S, NEW p \in Seq(S), NEW m \in 1..(Len(p) + 1), NEW n \in 0..Len(p), m <= n + 1
  PROVE  /\ SubSeq(p, m, n) \in Seq(S) /\ Len(SubSeq(p, m, n)) = n - m + 1
         /\ \A i \in 1..(n - m + 1) : SubSeq(p, m, n)[i] = p[m + i - 1]
<1>1. \A i \in m..n : p[i] \in S  OBVIOUS
<1>2. QED  BY <1>1, SubSeqProperties

\* The elements of two sequences one after the other.
LEMMA ConcatElements ==
  ASSUME NEW S, NEW p \in Seq(S), NEW q \in Seq(S)
  PROVE  /\ p \o q \in Seq(S) /\ Len(p \o q) = Len(p) + Len(q)
         /\ \A i \in 1..Len(p) : (p \o q)[i] = p[i]
         /\ \A i \in 1..Len(q) : (p \o q)[Len(p) + i] = q[i]
OBVIOUS

\* A sequence without the part between m and i.
LEMMA CutElements ==
  ASSUME NEW S, NEW p \in Seq(S), NEW m \in {1, 2}, NEW i \in 1..(m + 1),
         m <= Len(p), i < Len(p)
  PROVE  LET name == SubSeq(p, 1, m) \o SubSeq(p, i + 1, Len(p))
         IN  /\ Len(name) = m + Len(p) - i
             /\ \A j \in 1..m : name[j] = p[j]
             /\ \A j \in 1..(Len(p) - i) : name[m + j] = p[i + j]
<1> DEFINE x == SubSeq(p, 1, m)
           y == SubSeq(p, i + 1, Len(p))
<1>1. Len(p) \in Nat  OBVIOUS
<1>2. m \in 0..Len(p) /\ 1 \in 1..(Len(p) + 1) /\ 1 <= m + 1 /\ m - 1 + 1 = m
  BY <1>1
<1>3. i + 1 \in 1..(Len(p) + 1) /\ Len(p) \in 0..Len(p) /\ i + 1 <= Len(p) + 1
  BY <1>1
<1>4. x \in Seq(S) /\ Len(x) = m /\ \A j \in 1..m : x[j] = p[j]
  BY <1>1, <1>2, SubSeqElements
<1>5. y \in Seq(S) /\ Len(y) = Len(p) - i /\ \A j \in 1..(Len(p) - i) : y[j] = p[i + j]
  BY <1>1, <1>3, SubSeqElements
<1> HIDE DEF x, y
<1>6. /\ Len(x \o y) = Len(x) + Len(y)
      /\ \A j \in 1..Len(x) : (x \o y)[j] = x[j]
      /\ \A j \in 1..Len(y) : (x \o y)[Len(x) + j] = y[j]
  <2>1. x \in Seq(S) /\ y \in Seq(S)  BY <1>4, <1>5
  <2>2. QED  BY <2>1, ConcatElements
<1>7. /\ Len(x \o y) = m + Len(p) - i
      /\ \A j \in 1..m : (x \o y)[j] = p[j]
      /\ \A j \in 1..(Len(p) - i) : (x \o y)[m + j] = p[i + j]
  BY <1>1, <1>4, <1>5, <1>6
<1>8. QED  BY <1>7 DEF x, y

\* Keys with different parts are different.
LEMMA KeyInjective ==
  ASSUME NEW a, NEW h, NEW n, NEW q, NEW b, NEW g, NEW m, NEW z,
         Key(a, h, n, q) = Key(b, g, m, z)
  PROVE  a = b /\ h = g /\ n = m /\ q = z
BY DEF Key

-----------------------------------------------------------------------------
(* Keys *)

\* The length of a package name.
PackageLength(path) == IF Scoped(path) THEN 2 ELSE 1

\* The first "-" of a path that is not nested: at most one segment behind the package.
LEMMA FirstDash ==
  ASSUME NEW p \in Seq(Segments), Dashes(p) # {}, ~Nested(p)
  PROVE  /\ Len(p) >= 2
         /\ Package(p) = SubSeq(p, 1, PackageLength(p))
         /\ \E i \in 1..(PackageLength(p) + 1) :
              /\ i < Len(p) /\ p[i] = "-" /\ \A j \in 1..(i - 1) : p[j] # "-"
              /\ FileName(p) = SubSeq(p, i + 1, Len(p))
<1> DEFINE m == PackageLength(p)
           First(i) == i \in Dashes(p) /\ \A j \in Dashes(p) : i <= j
<1> USE DEF PackageLength
<1>1. \A i : i \in Dashes(p) <=> i \in 1..(Len(p) - 1) /\ p[i] = "-"  BY DEF Dashes
<1>2. Len(p) >= 2 /\ p # <<>>  BY <1>1
<1>3. Package(p) = SubSeq(p, 1, m)  BY <1>2 DEF Package
<1>4. Len(Package(p)) = m  BY <1>2, <1>3, SubSeqElements
<1>5. PICK k \in Dashes(p) : k <= m + 1  BY <1>1, <1>4 DEF Nested
<1>6. \E i \in 1..(m + 1) : First(i)
  <2>1. k \in 1..3  BY <1>1, <1>5
  <2>2. CASE 1 \in Dashes(p)  BY <1>1, <2>2
  <2>3. CASE 1 \notin Dashes(p) /\ 2 \in Dashes(p)  BY <1>1, <1>5, <2>1, <2>3
  <2>4. CASE 1 \notin Dashes(p) /\ 2 \notin Dashes(p)  BY <1>1, <1>5, <2>1, <2>4
  <2>5. QED  BY <2>2, <2>3, <2>4
<1>7. PICK i \in 1..(m + 1) : First(i)  BY <1>6
<1>8. \A j : First(j) => j = i  BY <1>1, <1>7
<1>9. i = CHOOSE j \in Dashes(p) : \A l \in Dashes(p) : j <= l
  BY <1>7, <1>8
<1>10. FileName(p) = SubSeq(p, i + 1, Len(p))  BY <1>9 DEF FileName
<1>11. i < Len(p) /\ p[i] = "-" /\ \A j \in 1..(i - 1) : p[j] # "-"  BY <1>1, <1>7
<1>12. QED  BY <1>2, <1>3, <1>7, <1>10, <1>11

\* Of two paths that are not nested, with the same package and file name one after the
\* other, the first has its "-" where the second has it.
LEMMA TarballPath ==
  ASSUME NEW p \in Seq(Segments), Dashes(p) # {}, ~Nested(p),
         NEW q \in Seq(Segments), Dashes(q) # {}, ~Nested(q),
         Package(p) \o FileName(p) = Package(q) \o FileName(q)
  PROVE  p = q
<1> DEFINE m == PackageLength(p)
           n == PackageLength(q)
           name == Package(p) \o FileName(p)
<1>0. m \in {1, 2} /\ n \in {1, 2}  BY DEF PackageLength
<1>1. PICK i \in 1..(m + 1) :
        /\ i < Len(p) /\ p[i] = "-" /\ \A j \in 1..(i - 1) : p[j] # "-"
        /\ FileName(p) = SubSeq(p, i + 1, Len(p))
  BY FirstDash
<1>2. PICK k \in 1..(n + 1) :
        /\ k < Len(q) /\ q[k] = "-" /\ \A j \in 1..(k - 1) : q[j] # "-"
        /\ FileName(q) = SubSeq(q, k + 1, Len(q))
  BY FirstDash
<1>3. Len(p) >= 2 /\ Package(p) = SubSeq(p, 1, m) /\ Len(q) >= 2 /\ Package(q) = SubSeq(q, 1, n)
  BY FirstDash
<1>4. name = SubSeq(p, 1, m) \o SubSeq(p, i + 1, Len(p))  BY <1>1, <1>3
<1>5. name = SubSeq(q, 1, n) \o SubSeq(q, k + 1, Len(q))  BY <1>2, <1>3
<1> HIDE DEF name, m, n
<1>6. /\ Len(name) = m + Len(p) - i
      /\ \A j \in 1..m : name[j] = p[j]
      /\ \A j \in 1..(Len(p) - i) : name[m + j] = p[i + j]
  <2>1. m <= Len(p) /\ i < Len(p)  BY <1>0, <1>1, <1>3
  <2>2. QED  BY <2>1, <1>0, <1>1, <1>4, CutElements
<1>7. /\ Len(name) = n + Len(q) - k
      /\ \A j \in 1..n : name[j] = q[j]
      /\ \A j \in 1..(Len(q) - k) : name[n + j] = q[k + j]
  <2>1. n <= Len(q) /\ k < Len(q)  BY <1>0, <1>2, <1>3
  <2>2. QED  BY <2>1, <1>0, <1>2, <1>5, CutElements
<1>8. m = n
  <2>1. 1 \in 1..m /\ 1 \in 1..n  BY <1>0
  <2>2. p[1] = q[1]  BY <2>1, <1>6, <1>7
  <2>3. QED  BY <2>2 DEF Scoped, PackageLength, m, n
<1>9. m \in {1, 2}  BY <1>0
<1>10. \A j \in 1..m : p[j] = q[j]  BY <1>6, <1>7, <1>8
<1>11. i = k
  <2>1. i \in 1..(m + 1) /\ k \in 1..(m + 1)  BY <1>1, <1>2, <1>8
  <2>2. ~(i < k)
    <3> SUFFICES ASSUME i < k PROVE FALSE
      OBVIOUS
    <3>1. i \in 1..m /\ i \in 1..(k - 1)  BY <2>1, <1>9
    <3>2. QED  BY <3>1, <1>1, <1>2, <1>10
  <2>3. ~(k < i)
    <3> SUFFICES ASSUME k < i PROVE FALSE
      OBVIOUS
    <3>1. k \in 1..m /\ k \in 1..(i - 1)  BY <2>1, <1>9
    <3>2. QED  BY <3>1, <1>1, <1>2, <1>10
  <2>4. QED  BY <2>1, <2>2, <2>3
<1>12. Len(p) = Len(q)  BY <1>6, <1>7, <1>8, <1>9, <1>11
<1>13. \A j \in 1..(Len(p) - i) : p[i + j] = q[i + j]
  BY <1>6, <1>7, <1>8, <1>11, <1>12
<1>14. \A j \in 1..Len(p) : p[j] = q[j]
  <2> SUFFICES ASSUME NEW j \in 1..Len(p) PROVE p[j] = q[j]
    OBVIOUS
  <2>1. CASE j <= m  BY <2>1, <1>9, <1>10
  <2>2. CASE j = i  BY <2>2, <1>1, <1>2, <1>11
  <2>3. CASE j > i
    <3>1. j - i \in 1..(Len(p) - i) /\ i + (j - i) = j  BY <2>3
    <3>2. QED  BY <3>1, <1>13
  <2>4. QED  BY <2>1, <2>2, <2>3, <1>8, <1>9
<1>15. QED  BY <1>12, <1>14, SameElements

\* A key that is two URLs' is that of one path, but for nested tarballs.
LEMMA KeyedSeparate ==
  ASSUME NEW u \in URLs, NEW v \in URLs, NEW key, Keyed(key, u), Keyed(key, v)
  PROVE  u.path = v.path \/ SameTarball(u.path, v.path)
<1>1. u.path \in Seq(Segments) /\ v.path \in Seq(Segments)
  BY DEF URLs
<1>3. CASE key.kind = "meta"
  <2>1. key = Key("meta", u.host, u.path, u.query)
    BY <1>3 DEF Keyed, Key, TarballCacheKey
  <2>2. key = Key("meta", v.host, v.path, v.query)
    BY <1>3 DEF Keyed, Key, TarballCacheKey
  <2>3. QED  BY <2>1, <2>2, KeyInjective
<1>4. CASE key.kind = "url"
  <2>1. ~u.query /\ key = Key("url", u.host, <<u.scheme>> \o u.path, FALSE)
    BY <1>4 DEF Keyed, Key, TarballCacheKey
  <2>2. ~v.query /\ key = Key("url", v.host, <<v.scheme>> \o v.path, FALSE)
    BY <1>4 DEF Keyed, Key, TarballCacheKey
  <2>3. <<u.scheme>> \o u.path = <<v.scheme>> \o v.path
    BY <2>1, <2>2 DEF Key
  <2> DEFINE S == Segments \cup {u.scheme, v.scheme}
             a == <<u.scheme>>
             b == <<v.scheme>>
  <2>4. /\ u.path \in Seq(S) /\ v.path \in Seq(S) /\ a \in Seq(S) /\ b \in Seq(S)
        /\ Len(a) = 1 /\ Len(b) = 1
    BY <1>1
  <2> HIDE DEF S, a, b
  <2>5. /\ Len(a \o u.path) = 1 + Len(u.path) /\ Len(b \o v.path) = 1 + Len(v.path)
        /\ \A i \in 1..Len(u.path) : (a \o u.path)[1 + i] = u.path[i]
        /\ \A i \in 1..Len(v.path) : (b \o v.path)[1 + i] = v.path[i]
    BY <2>4, ConcatElements
  <2>6. a \o u.path = b \o v.path  BY <2>3 DEF a, b
  <2>7. Len(u.path) \in Nat /\ Len(v.path) \in Nat /\ Len(u.path) = Len(v.path)
    <3>1. Len(u.path) \in Nat /\ Len(v.path) \in Nat  BY <1>1
    <3>2. QED  BY <2>5, <2>6, <3>1
  <2>8. \A i \in 1..Len(u.path) : u.path[i] = v.path[i]
    BY <2>5, <2>6, <2>7
  <2>9. QED  BY <1>1, <2>7, <2>8, SameElements
<1>5. CASE key.kind = "path"
  <2>1. ~u.query /\ key = Key("path", u.host, u.path, FALSE)
    BY <1>5 DEF Keyed, Key, TarballCacheKey
  <2>2. ~v.query /\ key = Key("path", v.host, v.path, FALSE)
    BY <1>5 DEF Keyed, Key, TarballCacheKey
  <2>3. QED  BY <2>1, <2>2 DEF Key
<1>6. CASE key.kind = "tar"
  <2> DEFINE x == Package(u.path) \o FileName(u.path)
             y == Package(v.path) \o FileName(v.path)
  <2>1. ~u.query /\ Dashes(u.path) # {} /\ key = Key("tar", u.host, x, FALSE)
    BY <1>6 DEF Keyed, Key, TarballCacheKey
  <2>2. ~v.query /\ Dashes(v.path) # {} /\ key = Key("tar", v.host, y, FALSE)
    BY <1>6 DEF Keyed, Key, TarballCacheKey
  <2>3. x = y
    <3> HIDE DEF x, y
    <3>1. QED  BY <2>1, <2>2 DEF Key
  <2>4. ~Nested(u.path) /\ ~Nested(v.path) => u.path = v.path
    BY <2>1, <2>2, <2>3, <1>1, TarballPath
  <2>5. QED  BY <2>1, <2>2, <2>3, <2>4 DEF SameTarball
<1>7. QED  BY <1>3, <1>4, <1>5, <1>6 DEF Keyed, Key, TarballCacheKey

-----------------------------------------------------------------------------
(* What requests are resolved to *)

\* A well-formed request is resolved to a base and a path below it; but for the default
\* registry the base is the root of a host.
LEMMA ResolveFields ==
  ASSUME config \in Configs, NEW r, WellFormed(r)
  PROVE  LET t == Resolve(r)
         IN  /\ t.base \in URLs /\ t.path \in Seq(Segments) /\ t.query \in BOOLEAN
             /\ r.form = "proxied" \/ config.upstream.path = <<>> => t.base.path = <<>>
             /\ r.form = "proxied" => t.base.host = r.url.host
<1> DEFINE t == Resolve(r)
           path == r.url.path
<1>1. /\ r.url \in URLs /\ path \in Seq(Segments) /\ r.url.query \in BOOLEAN
      /\ r.url.scheme \in {"http", "https"} /\ r.url.host \in Segments
  BY DEF WellFormed, URLs
<1>3. CASE r.form = "proxied"
  <2>1. /\ t.base = URL(r.url.scheme, r.url.host, <<>>, FALSE)
        /\ t.path = path /\ t.query = r.url.query
    BY <1>3 DEF Resolve, Target
  <2>2. t.base \in URLs /\ t.base.path = <<>> /\ t.base.host = r.url.host
    <3> HIDE DEF t
    <3>1. QED  BY <2>1, <1>1 DEF URL, URLs
  <2>3. QED  BY <2>1, <2>2, <1>1
<1>4. CASE r.form # "proxied" /\ Len(path) > 1 /\ path[1] = "_upstream"
  <2>1. t = Upstream(path)  BY <1>4 DEF Resolve
  <2>2. /\ t.base = URL(SchemeOf(path[2]), path[2], <<>>, FALSE)
        /\ t.path = SubSeq(path, 3, Len(path)) /\ t.query = FALSE
    BY <2>1 DEF Upstream, Target
  <2>3. path[2] \in Segments  BY <1>1, <1>4
  <2>4. SchemeOf(path[2]) \in {"http", "https"}  BY DEF SchemeOf
  <2>5. t.base \in URLs /\ t.base.path = <<>>
    <3> HIDE DEF t
    <3>1. QED  BY <2>2, <2>3, <2>4 DEF URL, URLs
  <2>6. t.path \in Seq(Segments)
    <3>1. \A j \in 3..Len(path) : path[j] \in Segments  BY <1>1
    <3>2. Len(path) \in Int  BY <1>1
    <3>3. QED  BY <3>1, <3>2, <2>2, SubSeqProperties
  <2>7. QED  BY <2>2, <2>5, <2>6, <1>4
<1>5. CASE r.form # "proxied" /\ ~(Len(path) > 1 /\ path[1] = "_upstream")
  <2>1. t = Target(TRUE, config.upstream, path, FALSE)  BY <1>5 DEF Resolve
  <2>2. t.base = config.upstream /\ t.path = path /\ t.query = FALSE
    BY <2>1 DEF Target
  <2>3. QED  BY <2>2, <1>1, <1>5, RoutesAssumption
<1>6. QED  BY <1>3, <1>4, <1>5

\* What is fetched for a target is the path below the base.
LEMMA FetchedFields ==
  ASSUME NEW t, t.base \in URLs, t.path \in Seq(Segments), t.query \in BOOLEAN
  PROVE  LET u == Fetched(t)
         IN  /\ u \in URLs /\ u.scheme = t.base.scheme /\ u.host = t.base.host
             /\ u.path = t.base.path \o t.path /\ u.query = t.query
             /\ t.base.path = <<>> => u.path = t.path
<1>1. t.base.path \in Seq(Segments)  BY DEF URLs
<1>2. t.base.path \o t.path \in Seq(Segments)  BY <1>1, ConcatProperties
<1>3. t.base.path = <<>> => t.base.path \o t.path = t.path  BY ConcatEmptySeq
<1>4. QED  BY <1>1, <1>2, <1>3 DEF Fetched, URLs

\* A key has the host and the query of a URL.
HostAndQuery(key, url) == key.host = url.host /\ key.query = url.query

\* The key of a request has those of the URL that is fetched for it.
LEMMA RequestHostAndQuery ==
  ASSUME config \in Configs, NEW r, WellFormed(r)
  PROVE  HostAndQuery(CacheKey(r, Resolve(r)), Fetched(Resolve(r)))
<1> DEFINE t == Resolve(r)
<1>1. t.base \in URLs /\ t.path \in Seq(Segments) /\ t.query \in BOOLEAN
  BY ResolveFields
<1>2. Fetched(t).host = t.base.host /\ Fetched(t).query = t.query
  BY <1>1, FetchedFields
<1> HIDE DEF t
<1>3. CacheKey(r, t).host = t.base.host /\ CacheKey(r, t).query = t.query
  BY <1>1 DEF CacheKey, TarballCacheKey, Key, Tarball
<1>4. HostAndQuery(CacheKey(r, t), Fetched(t))  BY <1>2, <1>3 DEF HostAndQuery
<1>5. QED  BY <1>4 DEF t

\* The key of a request is one for the URL that is fetched for it.
LEMMA RequestKeyed ==
  ASSUME config \in Configs, config.upstream.path = <<>>,
         NEW r, WellFormed(r)
  PROVE  Keyed(CacheKey(r, Resolve(r)), Fetched(Resolve(r)))
<1> DEFINE t == Resolve(r)
           u == Fetched(t)
<1>1. /\ t.base \in URLs /\ t.path \in Seq(Segments) /\ t.query \in BOOLEAN
      /\ t.base.path = <<>>
  BY ResolveFields
<1>2. u.scheme = t.base.scheme /\ u.host = t.base.host /\ u.path = t.path /\ u.query = t.query
  BY <1>1, FetchedFields
<1> HIDE DEF t, u
<1>3. Keyed(CacheKey(r, t), u)
  BY <1>2 DEF Keyed, CacheKey, Tarball
<1>4. QED  BY <1>3 DEF t, u

-----------------------------------------------------------------------------
(* The steps *)

\* What is served for a request: what is stored under its key, or what is fetched for it.
Served(r) ==
  LET stored == {e \in cache : e[1] = CacheKey(r, Resolve(r))}
  IN  IF stored = {} THEN Fetched(Resolve(r)) ELSE (CHOOSE e \in stored : TRUE)[2]

\* It is a URL that has the key of the request.
LEMMA ServedKeyed ==
  ASSUME NpmIInv, NEW r, WellFormed(r)
  PROVE  /\ Served(r) \in URLs /\ HostAndQuery(CacheKey(r, Resolve(r)), Served(r))
         /\ config.upstream.path = <<>> => Keyed(CacheKey(r, Resolve(r)), Served(r))
<1> DEFINE k == CacheKey(r, Resolve(r))
           stored == {e \in cache : e[1] = k}
<1>1. CASE stored = {}
  <2>1. Served(r) = Fetched(Resolve(r))  BY <1>1 DEF Served
  <2>2. Fetched(Resolve(r)) \in URLs  BY ResolveFields, FetchedFields DEF NpmIInv
  <2>3. config.upstream.path = <<>> => Keyed(k, Fetched(Resolve(r)))
    BY RequestKeyed DEF NpmIInv
  <2>4. HostAndQuery(k, Fetched(Resolve(r)))  BY RequestHostAndQuery DEF NpmIInv
  <2>5. QED  BY <2>1, <2>2, <2>3, <2>4
<1>2. CASE stored # {}
  <2>1. PICK e \in stored : Served(r) = e[2]  BY <1>2 DEF Served
  <2>2. e \in cache /\ e[1] = k  BY <2>1
  <2>3. QED  BY <2>1, <2>2 DEF NpmIInv, CacheInv, HostAndQuery
<1>3. QED  BY <1>1, <1>2

\* What is stored keeps the invariant of the cache.
LEMMA HandleCache ==
  ASSUME NpmIInv, NEW r, WellFormed(r), Handle(r)
  PROVE  CacheInv'
<1>1. cache' \subseteq cache \cup {<<CacheKey(r, Resolve(r)), Served(r)>>} /\ config' = config
  BY DEF Handle, Served
<1>2. ASSUME NEW e \in cache'
      PROVE  /\ e = <<e[1], e[2]>> /\ e[2] \in URLs
             /\ e[1].host = e[2].host /\ e[1].query = e[2].query
             /\ config.upstream.path = <<>> => Keyed(e[1], e[2])
  <2>1. CASE e \in cache  BY <2>1 DEF NpmIInv, CacheInv
  <2>2. CASE e = <<CacheKey(r, Resolve(r)), Served(r)>>  BY <2>2, ServedKeyed DEF HostAndQuery
  <2>3. QED  BY <1>1, <2>1, <2>2
<1>3. QED  BY <1>1, <1>2 DEF CacheInv, Keyed, Key, TarballCacheKey

\* What comes after a prefix of two segments.
LEMMA AfterTwo ==
  ASSUME NEW S, NEW a \in S, NEW b \in S, NEW p \in Seq(S)
  PROVE  LET x == <<a, b>> \o p
         IN  /\ x \in Seq(S) /\ Len(x) = Len(p) + 2 /\ x[1] = a /\ x[2] = b
             /\ After(x, <<a, b>>) = p
<1> DEFINE w == <<a, b>>
           x == w \o p
<1>1. w \in Seq(S) /\ Len(w) = 2 /\ w[1] = a /\ w[2] = b  OBVIOUS
<1>2. After(x, w) = SubSeq(x, 3, Len(x))  BY <1>1 DEF After
<1> HIDE DEF w
<1>3. w \in Seq(S)  BY <1>1
<1>4. /\ x \in Seq(S) /\ Len(x) = Len(w) + Len(p)
      /\ \A i \in 1..Len(w) : x[i] = w[i]
      /\ \A i \in 1..Len(p) : x[Len(w) + i] = p[i]
  BY <1>3, ConcatElements
<1> HIDE DEF x
<1>5. Len(p) \in Nat  OBVIOUS
<1>6. Len(x) = Len(p) + 2 /\ x[1] = a /\ x[2] = b /\ \A i \in 1..Len(p) : x[2 + i] = p[i]
  BY <1>1, <1>4, <1>5
<1>7. /\ SubSeq(x, 3, Len(x)) \in Seq(S) /\ Len(SubSeq(x, 3, Len(x))) = Len(p)
      /\ \A i \in 1..Len(p) : SubSeq(x, 3, Len(x))[i] = p[i]
  <2>1. 3 \in 1..(Len(x) + 1) /\ Len(x) \in 0..Len(x) /\ 3 <= Len(x) + 1  BY <1>5, <1>6
  <2>2. /\ SubSeq(x, 3, Len(x)) \in Seq(S) /\ Len(SubSeq(x, 3, Len(x))) = Len(x) - 3 + 1
        /\ \A i \in 1..(Len(x) - 3 + 1) : SubSeq(x, 3, Len(x))[i] = x[3 + i - 1]
    BY <1>4, <2>1, SubSeqElements
  <2>3. QED  BY <2>2, <1>5, <1>6
<1>8. SubSeq(x, 3, Len(x)) = p  BY <1>7, SameElements
<1>9. QED  BY <1>2, <1>4, <1>6, <1>8 DEF x, w

\* What comes after no prefix.
LEMMA AfterNone ==
  ASSUME NEW S, NEW p \in Seq(S)
  PROVE  After(p, <<>>) = p
<1>1. After(p, <<>>) = SubSeq(p, 1, Len(p))  BY DEF After
<1>2. /\ SubSeq(p, 1, Len(p)) \in Seq(S) /\ Len(SubSeq(p, 1, Len(p))) = Len(p)
      /\ \A i \in 1..Len(p) : SubSeq(p, 1, Len(p))[i] = p[i]
  <2>1. Len(p) \in Nat  OBVIOUS
  <2>2. 1 \in 1..(Len(p) + 1) /\ Len(p) \in 0..Len(p) /\ 1 <= Len(p) + 1  BY <2>1
  <2>3. /\ SubSeq(p, 1, Len(p)) \in Seq(S) /\ Len(SubSeq(p, 1, Len(p))) = Len(p) - 1 + 1
        /\ \A i \in 1..(Len(p) - 1 + 1) : SubSeq(p, 1, Len(p))[i] = p[1 + i - 1]
    BY <2>2, SubSeqElements
  <2>4. QED  BY <2>1, <2>3
<1>3. QED  BY <1>1, <1>2, SameElements

\* What comes after a prefix is a path.
LEMMA AfterTyped ==
  ASSUME NEW S, NEW p \in Seq(S), NEW q \in Seq(S), StartsWith(p, q)
  PROVE  After(p, q) \in Seq(S)
<1>1. Len(p) \in Nat /\ Len(q) \in Nat /\ Len(q) <= Len(p)  BY DEF StartsWith
<1>2. Len(q) + 1 \in 1..(Len(p) + 1) /\ Len(p) \in 0..Len(p) /\ Len(q) + 1 <= Len(p) + 1
  BY <1>1
<1>3. QED  BY <1>2, SubSeqElements DEF After

\* The invariant of links, of one link.
Leads(l) ==
  /\ l.was \in URLs /\ WellFormed(l.now)
  /\ \/ l.now = Direct(UpstreamPath(l.was.host, After(l.now.url.path, <<"_upstream", l.was.host>>)),
                       l.was.query)
     \/ l.now = Proxied(URL("http", l.now.url.host, UpstreamPath(l.was.host, l.was.path),
                            l.was.query))

\* A link to the /_upstream/ path of a host at the proxy.
LEMMA DirectLeads ==
  ASSUME NEW u \in URLs, NEW p \in Seq(Segments), NEW l,
         l.was = u, l.now = Direct(UpstreamPath(u.host, p), u.query)
  PROVE  Leads(l)
<1> DEFINE path == UpstreamPath(u.host, p)
<1>1. u.host \in Segments /\ u.query \in BOOLEAN  BY DEF URLs
<1>2. "_upstream" \in Segments /\ "proxy" \in Segments  BY RoutesAssumption
<1>3. path \in Seq(Segments) /\ After(path, <<"_upstream", u.host>>) = p
  BY <1>1, <1>2, AfterTwo DEF UpstreamPath
<1> HIDE DEF path
<1>4. l.now.url.path = path /\ l.now.form = "direct"  BY DEF Direct, URL, path
<1>5. l.now.url \in URLs  BY <1>1, <1>2, <1>3 DEF Direct, URL, URLs, path
<1>6. l.now = Direct(UpstreamPath(l.was.host, After(l.now.url.path, <<"_upstream", l.was.host>>)),
                     l.was.query)
  BY <1>3, <1>4
<1>7. QED  BY <1>4, <1>5, <1>6 DEF Leads, WellFormed

\* A link to that path at the host a proxied request was for.
LEMMA ProxiedLeads ==
  ASSUME NEW u \in URLs, NEW h \in Segments, NEW l,
         l.was = u, l.now = Proxied(URL("http", h, UpstreamPath(u.host, u.path), u.query))
  PROVE  Leads(l)
<1> DEFINE path == UpstreamPath(u.host, u.path)
<1>1. u.host \in Segments /\ u.path \in Seq(Segments) /\ u.query \in BOOLEAN  BY DEF URLs
<1>2. "_upstream" \in Segments  BY RoutesAssumption
<1>3. path \in Seq(Segments)  BY <1>1, <1>2, AfterTwo DEF UpstreamPath
<1> HIDE DEF path
<1>4. l.now.url.host = h /\ l.now.form = "proxied"  BY DEF Proxied, URL
<1>5. l.now.url \in URLs  BY <1>1, <1>3 DEF Proxied, URL, URLs, path
<1>6. QED  BY <1>4, <1>5 DEF Leads, WellFormed

\* Links that are rewritten in metadata.
LEMMA RewrittenLeads ==
  ASSUME NpmIInv, NEW r, WellFormed(r), NEW url \in URLs,
         Rewritten(r, Resolve(r), LinkIn(url)) # NoLink
  PROVE  Leads(Rewritten(r, Resolve(r), LinkIn(url)))
<1> DEFINE t == Resolve(r)
           l == LinkIn(url)
           rest == After(l.path, t.base.path)
           link1 == Rewritten(r, t, l)
<1>1. l \in URLs
  <2>1. <<"-", "a.tgz">> \in Seq(Segments)  BY RoutesAssumption
  <2>2. url.path \in Seq(Segments)  BY DEF URLs
  <2>3. url.path \o <<"-", "a.tgz">> \in Seq(Segments)  BY <2>1, <2>2, ConcatElements
  <2>4. QED  BY <2>3 DEF LinkIn, URLs
<1>2. t.base \in URLs /\ (r.form = "proxied" => t.base.path = <<>>)
  BY ResolveFields DEF NpmIInv
<1>3. l.scheme = t.base.scheme /\ l.host = t.base.host /\ StartsWith(l.path, t.base.path)
  BY DEF Rewritten
<1>4. /\ link1.was = l
      /\ link1.now = IF r.form = "direct" THEN Direct(UpstreamPath(t.base.host, rest), l.query)
                     ELSE Proxied(URL("http", r.url.host, UpstreamPath(t.base.host, rest), l.query))
  <2> HIDE DEF l, t
  <2>1. QED  BY <1>3 DEF Rewritten
<1>5. l.path \in Seq(Segments) /\ t.base.path \in Seq(Segments)
  <2> HIDE DEF l, t
  <2>1. QED  BY <1>1, <1>2 DEF URLs
<1>6. rest \in Seq(Segments)  BY <1>3, <1>5, AfterTyped
<1>7. r.form \in {"direct", "proxied"} /\ r.url.host \in Segments  BY DEF WellFormed, URLs
<1> HIDE DEF link1, t, l
<1>8. CASE r.form = "direct"
  <2>1. link1.now = Direct(UpstreamPath(l.host, rest), l.query)  BY <1>3, <1>4, <1>8
  <2> HIDE DEF rest
  <2>2. QED  BY <2>1, <1>1, <1>4, <1>6, DirectLeads DEF link1, t, l
<1>9. CASE r.form = "proxied"
  <2>1. rest = l.path  BY <1>2, <1>5, <1>9, AfterNone
  <2>2. link1.now = Proxied(URL("http", r.url.host, UpstreamPath(l.host, l.path), l.query))
    BY <1>3, <1>4, <1>9, <2>1
  <2>3. QED  BY <2>2, <1>1, <1>4, <1>7, ProxiedLeads DEF link1, t, l
<1>10. QED  BY <1>7, <1>8, <1>9

\* A request leaves the client with a link that leads somewhere, or the one it had.
LEMMA HandleLink ==
  ASSUME NpmIInv, NEW r, WellFormed(r), Handle(r)
  PROVE  LinkInv'
<1>1. link' = link \/ link' = Rewritten(r, Resolve(r), LinkIn(Served(r)))
  BY DEF Handle, Served
<1>2. link' # NoLink => Leads(link')
  <2>1. CASE link' = link  BY <2>1 DEF NpmIInv, LinkInv, Leads
  <2>2. CASE link' = Rewritten(r, Resolve(r), LinkIn(Served(r)))
    BY <2>2, ServedKeyed, RewrittenLeads
  <2>3. QED  BY <1>1, <2>1, <2>2
<1>3. QED  BY <1>2 DEF LinkInv, Leads

\* A lockfile's link.
LEMMA LockStep ==
  ASSUME NpmIInv, Lock
  PROVE  NpmIInv'
<1>1. PICK u \in Locked : link' = RewrittenDirect(u)  BY DEF Lock
<1>2. u \in URLs  BY RoutesAssumption
<1>3. u.path \in Seq(Segments)  BY <1>2 DEF URLs
<1>4. RewrittenDirect(u) # NoLink => Leads(RewrittenDirect(u))
  <2> DEFINE l == [by |-> "lockfile", was |-> u,
                   now |-> Direct(UpstreamPath(u.host, u.path), u.query)]
  <2>1. RewrittenDirect(u) # NoLink => RewrittenDirect(u) = l  BY DEF RewrittenDirect
  <2>2. l.was = u /\ l.now = Direct(UpstreamPath(u.host, u.path), u.query)  OBVIOUS
  <2> HIDE DEF l
  <2>3. Leads(l)  BY <2>2, <1>2, <1>3, DirectLeads
  <2>4. QED  BY <2>1, <2>3
<1>5. LinkInv'  BY <1>1, <1>4 DEF LinkInv, Leads
<1>6. config' = config /\ cache' = cache  BY DEF Lock
<1>7. config' \in Configs /\ CacheInv'
  BY <1>6 DEF NpmIInv, CacheInv, Keyed, Key, TarballCacheKey
<1>8. QED  BY <1>5, <1>7 DEF NpmIInv

\* A request, asked for or followed, is well-formed.
LEMMA HandleStep ==
  ASSUME NpmIInv, Ask \/ Follow
  PROVE  \E r : WellFormed(r) /\ Handle(r)
BY RoutesAssumption DEF NpmIInv, LinkInv, Ask, Follow

\* Every step keeps the invariant.
LEMMA IInvStep ==
  ASSUME NpmIInv, [NpmNext]_npmVars
  PROVE  NpmIInv'
<1>1. CASE Ask \/ Follow
  <2>1. PICK r : WellFormed(r) /\ Handle(r)  BY <1>1, HandleStep
  <2>2. config' = config  BY <2>1 DEF Handle
  <2>3. QED  BY <2>1, <2>2, HandleCache, HandleLink DEF NpmIInv
<1>2. CASE Lock  BY <1>2, LockStep
<1>3. CASE UNCHANGED npmVars
  BY <1>3 DEF npmVars, NpmIInv, CacheInv, LinkInv, Keyed, Key, TarballCacheKey
<1>4. QED  BY <1>1, <1>2, <1>3 DEF NpmNext

\* The invariant of the npm proxy (tarballCacheKey, rewriteRegistryTarballURLs and
\* rewriteDirectTarballURLs of src/npm/npm.go): what is stored under a key has a request
\* with that key, and a link leads to the path of its host.
THEOREM InductiveInvariant == NpmSpec => []NpmIInv
<1>1. NpmInit => NpmIInv  BY DEF NpmInit, NpmIInv, CacheInv, LinkInv
<1>2. NpmIInv /\ [NpmNext]_npmVars => NpmIInv'  BY IInvStep
<1>3. QED  BY <1>1, <1>2, PTL DEF NpmSpec

\* A request is answered with a URL that has its key, as the one fetched for it has.
LEMMA HandleSeparate ==
  ASSUME NpmIInv, NEW r, WellFormed(r), Handle(r)
  PROVE  KeysSeparate'
<1> DEFINE u == Fetched(Resolve(r))
           v == Served(r)
           k == CacheKey(r, Resolve(r))
<1>1. config' = config  BY DEF Handle
<1>2. answer'.kind = "bytes" => answer'.target = u /\ answer'.got = v
  <2>1. \/ answer' = [kind |-> "forbidden", target |-> u, got |-> NoURL]
        \/ answer' = [kind |-> "not found", target |-> u, got |-> NoURL]
        \/ answer' = [kind |-> "bytes", target |-> u, got |-> v]
    BY DEF Handle, Served
  <2> HIDE DEF u, v
  <2>2. CASE answer' = [kind |-> "forbidden", target |-> u, got |-> NoURL]
    <3>1. answer'.kind = "forbidden"  BY <2>2
    <3>2. QED  BY <3>1
  <2>3. CASE answer' = [kind |-> "not found", target |-> u, got |-> NoURL]
    <3>1. answer'.kind = "not found"  BY <2>3
    <3>2. QED  BY <3>1
  <2>4. CASE answer' = [kind |-> "bytes", target |-> u, got |-> v]  BY <2>4
  <2>5. QED  BY <2>1, <2>2, <2>3, <2>4
<1>3. u \in URLs /\ v \in URLs  BY ServedKeyed, ResolveFields, FetchedFields DEF NpmIInv
<1>4. /\ HostAndQuery(k, u) /\ HostAndQuery(k, v)
      /\ config.upstream.path = <<>> => Keyed(k, u) /\ Keyed(k, v)
  BY ServedKeyed, RequestHostAndQuery, RequestKeyed DEF NpmIInv
<1> HIDE DEF u, v, k
<1>5. v.host = u.host /\ v.query = u.query  BY <1>4 DEF HostAndQuery
<1>6. config.upstream.path = <<>> => v.path = u.path \/ SameTarball(v.path, u.path)
  BY <1>3, <1>4, KeyedSeparate
<1>7. QED
  BY <1>1, <1>2, <1>5, <1>6 DEF KeysSeparate, SameTarball, Nested, Dashes, Package, Scoped, FileName

\* A client is sent a response of the host it asks for, with or without a query as it asks,
\* and of the path, or the package and the file, it asks for, unless the default registry
\* has a path (the cache keys of src/npm/npm.go: tarballCacheKey, metadataCacheKey).
THEOREM KeysSeparateAlways == NpmSpec => []KeysSeparate
<1>1. NpmInit => KeysSeparate  BY DEF NpmInit, KeysSeparate, NoAnswer
<1>2. NpmIInv /\ KeysSeparate /\ [NpmNext]_npmVars => KeysSeparate'
  <2> SUFFICES ASSUME NpmIInv, KeysSeparate, [NpmNext]_npmVars PROVE KeysSeparate'
    OBVIOUS
  <2>1. CASE Ask \/ Follow  BY <2>1, HandleStep, HandleSeparate
  <2>2. CASE UNCHANGED <<config, answer>>
    BY <2>2 DEF KeysSeparate, SameTarball, Nested, Dashes, Package, Scoped, FileName
  <2>3. QED  BY <2>1, <2>2 DEF NpmNext, Lock, npmVars
<1>3. QED  BY <1>1, <1>2, InductiveInvariant, PTL DEF NpmSpec

\* Where a link leads follows from its form.
LEMMA LinksLead == NpmIInv => LinksComeBack
<1> SUFFICES ASSUME NpmIInv, link # NoLink
             PROVE  Comes(link) <=>
                      /\ link.now.form = "direct"
                      /\ Allowed(link.was.host)
                      /\ link.was.scheme = SchemeOf(link.was.host)
                      /\ ~link.was.query
                      /\ After(link.now.url.path, <<"_upstream", link.was.host>>) = link.was.path
  BY DEF LinksComeBack
<1> DEFINE u == link.was
           r == link.now
           t == Resolve(r)
           rest == After(r.url.path, <<"_upstream", u.host>>)
<1>1. Leads(link)  BY DEF NpmIInv, LinkInv, Leads
<1>2. /\ u \in URLs /\ u.host \in Segments /\ u.path \in Seq(Segments)
      /\ u.query \in BOOLEAN /\ r.url.path \in Seq(Segments) /\ WellFormed(r)
  BY <1>1 DEF Leads, WellFormed, URLs
<1>3. "_upstream" \in Segments  BY RoutesAssumption
<1>4. t.base \in URLs /\ t.path \in Seq(Segments) /\ t.query \in BOOLEAN
  BY <1>2, ResolveFields DEF NpmIInv
<1>5. /\ Fetched(t) \in URLs /\ Fetched(t).scheme = t.base.scheme /\ Fetched(t).host = t.base.host
      /\ Fetched(t).query = t.query
      /\ (t.base.path = <<>> => Fetched(t).path = t.path)
  BY <1>4, FetchedFields
<1>6. CASE r = Direct(UpstreamPath(u.host, rest), u.query)
  <2> DEFINE path == UpstreamPath(u.host, rest)
  <2>1. r.form = "direct" /\ r.url.path = path  BY <1>6 DEF Direct, URL
  <2>2. Len(path) > 1 /\ path[1] = "_upstream" /\ path[2] = u.host
        /\ rest = SubSeq(path, 3, Len(path)) /\ rest \in Seq(Segments)
    <3>1. rest = SubSeq(path, 3, Len(path))
      <4>1. Len(<<"_upstream", u.host>>) = 2  OBVIOUS
      <4>2. QED  BY <2>1, <4>1 DEF After
    <3>2. SubSeq(path, 3, Len(path)) \in Seq(Segments)
      <4>1. path \in Seq(Segments)  BY <1>2, <2>1
      <4> HIDE DEF path
      <4>2. Len(path) \in Int /\ \A j \in 3..Len(path) : path[j] \in Segments  BY <4>1
      <4>3. QED  BY <4>2, SubSeqProperties
    <3>3. rest \in Seq(Segments)  BY <3>1, <3>2
    <3> HIDE DEF rest
    <3>4. /\ Len(path) = Len(rest) + 2 /\ path[1] = "_upstream" /\ path[2] = u.host
      BY <3>3, <1>2, <1>3, AfterTwo DEF UpstreamPath
    <3>5. Len(rest) \in Nat  BY <3>3
    <3>6. QED  BY <3>1, <3>3, <3>4, <3>5
  <2>3. t = Target(Allowed(u.host), URL(SchemeOf(u.host), u.host, <<>>, FALSE), rest, FALSE)
    BY <2>1, <2>2 DEF Resolve, Upstream
  <2>4. /\ t.ok = Allowed(u.host) /\ t.base.scheme = SchemeOf(u.host) /\ t.base.host = u.host
        /\ t.base.path = <<>> /\ t.path = rest /\ t.query = FALSE
    BY <2>3 DEF Target, URL
  <2>5. Fetched(t) = u <=> SchemeOf(u.host) = u.scheme /\ rest = u.path /\ ~u.query
    <3> HIDE DEF t, u, rest
    <3>1. QED  BY <2>4, <1>2, <1>5 DEF URLs
  <2>6. QED  BY <2>1, <2>4, <2>5 DEF Comes
<1>7. CASE r = Proxied(URL("http", r.url.host, UpstreamPath(u.host, u.path), u.query))
  <2>1. r.form = "proxied" /\ r.url.path = UpstreamPath(u.host, u.path)
    BY <1>7 DEF Proxied, URL
  <2>2. Len(r.url.path) = Len(u.path) + 2
    BY <2>1, <1>2, <1>3, AfterTwo DEF UpstreamPath
  <2>3. t.base.path = <<>> /\ t.path = r.url.path
    BY <2>1 DEF Resolve, Target, URL
  <2>4. Fetched(t).path # u.path
    <3>1. Len(u.path) \in Nat  BY <1>2
    <3>2. QED  BY <3>1, <2>2, <2>3, <1>5
  <2>5. ~Comes(link)  BY <2>4 DEF Comes
  <2>6. QED  BY <2>1, <2>5
<1>8. QED  BY <1>1, <1>6, <1>7 DEF Leads

\* Exactly these rewritten links lead back to the tarball they stood for
\* (resolveRegistryRequest and the rewriting functions of src/npm/npm.go).
THEOREM LinksComeBackAlways == NpmSpec => []LinksComeBack
<1>1. NpmIInv => LinksComeBack  BY LinksLead
<1>2. QED  BY <1>1, InductiveInvariant, PTL
=============================================================================
