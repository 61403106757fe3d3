-------------------------------- MODULE NpmRoutes --------------------------------
(***************************************************************************)
(* Which upstream URL the npm proxy (src/npm) fetches for a request, under *)
(* which key it caches what it fetched, and where the links lead that it   *)
(* rewrites: a client asks for metadata or brings a lockfile, is given     *)
(* links rewritten to the proxy, and follows them.                         *)
(*                                                                         *)
(* A response is identified by the URL it was fetched from.  Paths are     *)
(* sequences of segments.  The cache below is a function from keys to what *)
(* is stored; nothing expires here.                                        *)
(***************************************************************************)
EXTENDS Naturals, Sequences

CONSTANTS
  Segments,    \* segments of paths; a host can be one, after /_upstream/
  Hosts,       \* host parts of URLs, with or without a port
  Hostname,    \* the host part without its port
  Numeric,     \* hosts whose name is localhost or an IP address
  Configs,     \* records: UpstreamURL, and AllowedUpstreamRegistryPatterns as the
               \* host parts the patterns match
  Defaults,    \* hosts DefaultAllowedUpstreamRegistryPatterns match
  Asked,       \* requests a client makes by itself
  Locked,      \* URLs of tarballs in a lockfile
  MaxRequests  \* bound of the model: requests of a session

VARIABLES
  config,   \* Config of the server
  cache,    \* what is stored, as pairs <<key, URL it was fetched from>>
  link,     \* the link the client has: whose rewriting, the URL it was, the request
            \* it has become
  answer,   \* of the latest request: its target, how it ended, whose bytes it got
  requests  \* number of requests made

npmVars == <<config, cache, link, answer, requests>>

-----------------------------------------------------------------------------
(* URLs and requests *)

URL(scheme, host, path, query) ==
  [scheme |-> scheme, host |-> host, path |-> path, query |-> query]
NoURL == URL("none", "none", <<>>, FALSE)

\* A request for a path of the proxy, or, as a forward proxy, for a URL.
Direct(path, query) == [form |-> "direct", url |-> URL("http", "proxy", path, query)]
Proxied(url) == [form |-> "proxied", url |-> url]

URLs ==
  [scheme : {"http", "https"}, host : Segments, path : Seq(Segments), query : BOOLEAN]
WellFormed(r) == r.form \in {"direct", "proxied"} /\ r.url \in URLs

\* Requests and links are for URLs.
ASSUME RoutesAssumption ==
  /\ Hosts \cup {"proxy", "_upstream", "-", "a.tgz"} \subseteq Segments
  /\ \A c \in Configs : c.upstream \in URLs
  /\ \A r \in Asked : WellFormed(r)
  /\ Locked \subseteq URLs

IsTarball(segments) ==
  segments # <<>> /\ segments[Len(segments)] \in {"a.tgz", "b.tgz"}
StartsWith(path, prefix) ==
  Len(path) >= Len(prefix) /\ SubSeq(path, 1, Len(prefix)) = prefix
After(path, prefix) == SubSeq(path, Len(prefix) + 1, Len(path))

\* allowlist.allowed.
Allowed(host) == host \in config.allowed

\* upstreamRegistryBaseURL: plain HTTP for localhost and addresses.
SchemeOf(host) == IF Hostname[host] \in Numeric THEN "http" ELSE "https"

-----------------------------------------------------------------------------
(* resolveRegistryRequest, handleForwardProxy *)

\* What a request is resolved to: whether it is allowed, the base of the upstream and
\* its host, and the path below the base.
Target(ok, base, path, query) ==
  [ok |-> ok, base |-> base, path |-> path, query |-> query]

\* A path /_upstream/<host>/...; of a direct request only the path is used, its query
\* is lost.
Upstream(path) ==
  Target(Allowed(path[2]), URL(SchemeOf(path[2]), path[2], <<>>, FALSE),
         SubSeq(path, 3, Len(path)), FALSE)
\* Mutation: every path is one of the default registry.
ResolveDefault(r) ==
  IF r.form = "proxied"
  THEN Target(Allowed(Hostname[r.url.host]), URL(r.url.scheme, r.url.host, <<>>, FALSE),
              r.url.path, r.url.query)
  ELSE Target(TRUE, config.upstream, r.url.path, FALSE)
Resolve(r) ==
  IF r.form = "proxied"
  THEN Target(Allowed(Hostname[r.url.host]), URL(r.url.scheme, r.url.host, <<>>, FALSE),
              r.url.path, r.url.query)
  ELSE IF Len(r.url.path) > 1 /\ r.url.path[1] = "_upstream" THEN Upstream(r.url.path)
  ELSE Target(TRUE, config.upstream, r.url.path, FALSE)

\* isTarballRequest; a query at the end of a URL hides the extension.
Tarball(t) == IsTarball(t.path) /\ ~t.query

\* The URL that is fetched.
Fetched(t) == [t.base EXCEPT !.path = @ \o t.path, !.query = t.query]

-----------------------------------------------------------------------------
(* Cache keys *)

Key(kind, host, name, query) == [kind |-> kind, host |-> host, name |-> name, query |-> query]

\* extractPackageName.
Scoped(path) == path[1] \in {"@s", "@t"}
Package(path) ==
  IF path = <<>> \/ (Scoped(path) /\ Len(path) = 1) THEN <<>>
  ELSE SubSeq(path, 1, IF Scoped(path) THEN 2 ELSE 1)

\* strings.Cut at the first "/-/".
Dashes(path) == {i \in 1..(Len(path) - 1) : path[i] = "-"}
FileName(path) ==
  LET first == CHOOSE i \in Dashes(path) : \A j \in Dashes(path) : i <= j
  IN  SubSeq(path, first + 1, Len(path))

\* Mutation: the file name alone.
TarballCacheKeyFile(host, path) ==
  IF Dashes(path) = {} THEN Key("path", host, path, FALSE)
  ELSE Key("tar", host, FileName(path), FALSE)
\* tarballCacheKey: of the path before the file only the package name.
TarballCacheKey(host, path) ==
  IF Dashes(path) = {} THEN Key("path", host, path, FALSE)
  ELSE Key("tar", host, Package(path) \o FileName(path), FALSE)

\* Of a tarball asked for by URL, the URL.
CacheKey(r, t) ==
  IF ~Tarball(t) THEN Key("meta", t.base.host, t.path, t.query)
  ELSE IF r.form = "proxied" THEN Key("url", t.base.host, <<t.base.scheme>> \o t.path, FALSE)
  ELSE TarballCacheKey(t.base.host, t.path)

-----------------------------------------------------------------------------
(* Rewriting of links *)

NoLink == [by |-> "none", was |-> NoURL, now |-> Direct(<<>>, FALSE)]
UpstreamPath(host, path) == <<"_upstream", host>> \o path

\* The tarball a registry's metadata links to: below the package, at the registry.
LinkIn(metadata) == [metadata EXCEPT !.path = @ \o <<"-", "a.tgz">>, !.query = FALSE]

\* rewriteRegistryTarballURLs: the base of the upstream is replaced by the /_upstream/
\* path of its host at r.Host.  That is the proxy for a direct request; for a proxied
\* one it is the host of the URL, to which the client is sent by way of the proxy.
Rewritten(r, t, l) ==
  IF l.scheme = t.base.scheme /\ l.host = t.base.host /\ StartsWith(l.path, t.base.path)
  THEN LET path == UpstreamPath(t.base.host, After(l.path, t.base.path))
       IN  [by |-> "metadata", was |-> l,
            now |-> IF r.form = "direct" THEN Direct(path, l.query)
                    ELSE Proxied(URL("http", r.url.host, path, l.query))]
  ELSE NoLink

\* rewriteDirectTarballURLs on a lockfile, for hosts whose name the default patterns
\* match, whatever those of the server are.
RewrittenDirect(l) ==
  IF l.scheme = "https" /\ Hostname[l.host] \in Defaults /\ IsTarball(l.path)
  THEN [by |-> "lockfile", was |-> l, now |-> Direct(UpstreamPath(l.host, l.path), l.query)]
  ELSE NoLink

-----------------------------------------------------------------------------
(* A session *)

NoAnswer == [kind |-> "none", target |-> NoURL, got |-> NoURL]

NpmInit ==
  /\ config \in Configs
  /\ cache = {} /\ link = NoLink /\ answer = NoAnswer /\ requests = 0

\* handleRequest: metadata and tarballs, through GetOrFetch.
Handle(r) ==
  LET t == Resolve(r)
      k == CacheKey(r, t)
      stored == {e \in cache : e[1] = k}
      url == IF stored = {} THEN Fetched(t) ELSE (CHOOSE e \in stored : TRUE)[2]
      Reply(kind, got) == [kind |-> kind, target |-> Fetched(t), got |-> got]
  IN  /\ requests < MaxRequests /\ requests' = requests + 1
      /\ IF ~t.ok
         THEN answer' = Reply("forbidden", NoURL) /\ UNCHANGED <<cache, link>>
         ELSE IF ~Tarball(t) /\ Package(t.path) = <<>>
         THEN answer' = Reply("not found", NoURL) /\ UNCHANGED <<cache, link>>
         ELSE /\ answer' = Reply("bytes", url)
              /\ cache' = cache \cup {<<k, url>>}
              /\ link' = IF Tarball(t) THEN link ELSE Rewritten(r, t, LinkIn(url))
      /\ UNCHANGED config

Ask == \E r \in Asked : Handle(r)

Lock ==
  /\ \E l \in Locked : link' = RewrittenDirect(l)
  /\ UNCHANGED <<config, cache, answer, requests>>

Follow == link # NoLink /\ Handle(link.now)

NpmNext == Ask \/ Lock \/ Follow \/ (requests = MaxRequests /\ UNCHANGED npmVars)

NpmSpec == NpmInit /\ [][NpmNext]_npmVars

-----------------------------------------------------------------------------
(* Properties *)

\* A tarball whose path before "/-/" is more than a package name, as at registries
\* that keep several repositories under one host.
Nested(path) ==
  Dashes(path) # {} /\ \A i \in Dashes(path) : i > Len(Package(path)) + 1

\* Two paths tarballCacheKey takes for one: what is between the package name and "/-/" is
\* not part of the key.
SameTarball(p, q) ==
  /\ Nested(p) \/ Nested(q)
  /\ Dashes(p) # {} /\ Dashes(q) # {}
  /\ Package(p) \o FileName(p) = Package(q) \o FileName(q)

\* Although others have filled the cache under the same key, a client is sent a response of
\* the host its own request is for, with or without a query as asked, and, unless the URL
\* of the default registry has a path, of the path asked for: but of tarballs one of which
\* is nested, only the package and the file name are those asked for.  What a key never
\* keeps apart are a response fetched over HTTP and one over HTTPS (only the key of a
\* tarball asked for by URL has the scheme) and, if the default registry has a path, what
\* is below it and what is at the root of its host.
KeysSeparate ==
  answer.kind = "bytes" =>
    /\ answer.got.host = answer.target.host /\ answer.got.query = answer.target.query
    /\ \/ config.upstream.path # <<>>
       \/ answer.got.path = answer.target.path
       \/ SameTarball(answer.got.path, answer.target.path)

Comes(l) == LET t == Resolve(l.now) IN t.ok /\ Fetched(t) = l.was

\* Exactly these rewritten links lead back to the tarball they stood for: those of a
\* host the patterns match as it is written, port included, with the scheme the proxy
\* will use for it, with no query, given to a client that asked the proxy itself, of a
\* registry whose URL has no path, which the rewriting would cut off.
LinksComeBack ==
  link # NoLink =>
    (Comes(link) <=>
       /\ link.now.form = "direct"
       /\ Allowed(link.was.host)
       /\ link.was.scheme = SchemeOf(link.was.host)
       /\ ~link.was.query
       /\ After(link.now.url.path, <<"_upstream", link.was.host>>) = link.was.path)

\* What the comment on DefaultAllowedUpstreamRegistryPatterns says: the default
\* upstream is always permitted in addition to the patterns.
DefaultUpstreamPermitted ==
  answer.kind = "forbidden" => answer.target.host # config.upstream.host

-----------------------------------------------------------------------------
(* The inductive invariant *)

\* The key is one a request for the URL is given, by a client of a default registry at
\* the root of its host.
Keyed(key, url) ==
  \/ key = Key("meta", url.host, url.path, url.query)
  \/ /\ ~url.query
     /\ key \in {Key("url", url.host, <<url.scheme>> \o url.path, FALSE),
                 TarballCacheKey(url.host, url.path)}
CacheInv ==
  \A e \in cache :
    /\ e = <<e[1], e[2]>> /\ e[2] \in URLs
    /\ e[1].host = e[2].host /\ e[1].query = e[2].query
    /\ config.upstream.path = <<>> => Keyed(e[1], e[2])

\* A link leads to the /_upstream/ path of the tarball's host: at the proxy, with a part of
\* the tarball's path, or at the host a proxied request was for, with all of it.
LinkInv ==
  link # NoLink =>
    /\ link.was \in URLs /\ WellFormed(link.now)
    /\ LET path == UpstreamPath(link.was.host,
                                After(link.now.url.path, <<"_upstream", link.was.host>>))
           all == UpstreamPath(link.was.host, link.was.path)
       IN  \/ link.now = Direct(path, link.was.query)
           \/ link.now = Proxied(URL("http", link.now.url.host, all, link.was.query))

NpmIInv == config \in Configs /\ CacheInv /\ LinkInv
=============================================================================
