# proxykit: specification and verification

proxykit is a set of caching proxies (git smart HTTP, S3, npm, apt) on top of one
disk cache. This directory holds TLA+ models of its core, the TLC configurations
that check them on small instances, and TLAPS proofs of what matters most.

## 1. Inventory

| component | source | state | operations | modelled |
|---|---|---|---|---|
| disk cache, index | `cache/cache.go` | `entries`, `totalSize`, the SQLite table, the files, the eviction loop | `New`/`recover`, `Get`, `Put`, `RegisterAfterStream`, `Remove`, `RemoveByPrefix`, `RemoveMatching`, `Clear`, `evictLRU`, `evictExpired`, `softEvictByAge`, `Stop` | `CacheIndex` |
| disk cache, coalescing | `cache/cache.go:248-318` | `calls` (sync.Map of flights), the wait groups | `GetOrFetch`, `doFetch` | `Coalescing`, `SingleFlight` |
| start and stop | `cache/cache.go:440-490`, `Start` and `Stop` of each server | the loop's context and channel, the table, the HTTP server, requests in flight | `StartEviction`, `Stop`, `evictionLoop`, `Start`, `Shutdown` | `Lifecycle` |
| npm proxy | `npm/*.go` | one cache, an allowlist | routing, keys, link rewriting, `handleMetadata`, `handleTarballURL` | `NpmRoutes`, `PackageProxy` |
| apt proxy | `apt/apt.go` | one cache | `handleProxy`, `fetchUpstream` | `PackageProxy` |
| S3 proxy, an object | `s3/server.go`, `s3/entry.go` | two records (metadata, body), `flights` | `serveCacheable`, `fetchAndMaybeStore`, `streamAndStore`, `forwardMutation`, `loadMetadata`, `serveEntry` | `S3Object` |
| S3 proxy, a request | `s3/server.go`, `s3/entry.go` | - | `ServeHTTP`, `cachePolicy`, `cacheKey`, `invalidateTarget`, conditions, `parseRange` | `S3Requests` |
| S3 configuration, signing | `s3/config.go`, `s3/signer.go` | - | parsing, signing | no |
| git handler | `git/handler.go`, `git/git.go` | refs cache, pack cache, `packFlights` | info/refs, ls-refs, upload-pack, receive-pack | `GitPacks` |
| git keys and fingerprint | `git/cache.go` | - | keys, fingerprint | `GitPacks` |
| git pkt-lines | `git/pktline.go` | - | the two parsers of upload-pack bodies | `UploadPack` |
| git detection, gitconfig | `git/detect.go`, `git/gitconfig.go` | - | string matching | no |
| glob, facade, test program | `internal/glob`, `proxykit.go`, `cmd`, `scripts` | - | - | no |

**How they interact.** Every proxy owns caches (`cache.Cache`) and calls them from one
goroutine per request. npm, apt and the refs cache of git use `GetOrFetch`; packs and S3
bodies are written by the proxy itself into `Dir()` and announced with
`RegisterAfterStream`. No proxy holds a lock over two calls into the cache, so
everything between two calls can be interleaved with other requests, with the eviction
loop, with invalidations (a git push, an S3 mutation), and with `Clear`. git and S3 have
flights of their own (a sync.Map and a channel) beside those of `GetOrFetch`. The owner of
a server, or the host that embeds a handler, starts and stops the loops.

**What is hard.**
 * *Cache*: files are created and renamed outside the mutex and registered inside it;
   `Put` releases the mutex between registration and inline eviction; paths are opened
   after the lookup's lock was released; three stores (index, table, directory) mirror
   each other, and the process may be killed between any two writes.
 * *Coalescing*: three places to look (index, flights, disk), none of them atomic
   with another; the wait group is done before the flight leaves the map; `Delete` is by key.
 * *Start and stop*: a loop finds its channel in a field which the next life replaces;
   requests outlive the table; a server may be started again.
 * *npm, apt*: one client's request is made for many: its context, its conditions and its
   encodings; keys and rewritten links must name what they stand for.
 * *S3*: an object is two records that are stored, evicted and removed separately;
   writes of others, mutations through the proxy and expiry meet fetches in flight. A hit
   has to answer conditions and ranges that the upstream would otherwise answer.
 * *git*: a pack is keyed by a fingerprint of cached refs which a push or an expiry may
   change between a client's two requests; whether a body asks for a full clone is told
   differently by the two protocols.

**What makes each part correct.** Cache: the byte count and the table follow the index;
no file leaks; the cache gets back within its limit; recovery restores what was there.
Coalescing: one fetch at a time, nobody is served anything older than its flight
fetched, nobody fails without a reason, everybody returns. Start and stop: no loop outlives
its cache, no channel is closed twice, `Stop` returns, what is stored has its row.
npm and apt: a client gets what its own request would fetch. S3: headers and bytes belong
together, versions never go back, a mutation's predecessors vanish from the cache,
every request is answered, a hit answers as the upstream would. git: a clone receives the
pack for the objects it asked for, and only full clones are served from the cache.

The hazards of the code, each at its line and with the property that would catch it, are
listed in `PROJECT.json`.

## 2. Plan

Done: `CacheIndex`, `SingleFlight` and `Coalescing`; `PackageProxy` on top of it; `S3Object`;
`GitPacks`; `Lifecycle`; the decisions about requests (`UploadPack`, `NpmRoutes`, `S3Requests`);
and the proofs about each of them. Left, in this order:

 1. The wants of a client in `GitPacks` (all of the refs or some; the pack key does not name
    them) and the arguments of ls-refs (likewise), with `IInv` of `GitPacks` carried over.
 2. Failing database statements and `os.Remove` in `CacheIndex`.
 3. `ParseSize` and the arithmetic of `max-age`.

`Coalescing`, `S3Object` and the pack cache of `GitPacks` use the cache of `CacheIndex` seen
from one key: an entry, a file, and removals by others at any moment. What this view takes
from `CacheIndex` is that a removal takes the file along with the entry, under the mutex, and
that a file precedes its entry; both are visible there (`RemoveLocked`, `Rename`,
`Register`). The refs cache of `GitPacks` is `GetOrFetch` at the level of `SingleFlight`, which it
is shown to implement for each of its two keys (`L1ImplementsSingleFlight`).
`Lifecycle` has the loop as a whole, `CacheIndex` what it does in a sweep.

## 3. Modules

### CacheIndex
State: `entries`, `total`, `rows` (the table), `db` (open or not), `files` (sizes at the
keys' paths), `strays` (temporary files of dead writers), per goroutine `pc` and `job`.
A key stands for its path, which is its SHA-256. `StreamKeys` are keys written under
`streams/xx/`, one level below what recovery scans.

| code | actions |
|---|---|
| `Put`, `RegisterAfterStream` | `Stage`, `Abandon`, `Rename`, `Register`, then `EvictBegin` .. `EvictEnd` |
| `Get`, `Remove`, `RemoveMatching` | one action each |
| `RemoveByPrefix`, `evictExpired`, `softEvictByAge`, `evictLRU` | begin, one step per entry removed, end, all with the mutex held |
| `Clear`, `Stop`, the ticker | `Clear`, `Stop`, `Tick` |
| a kill | `Crash` at any step, `CrashInRemove` between the file and the row, `CrashInClear` inside `RemoveAll` |
| `New`, `recover` | `Boot`, `BootRow`, `BootStale`, `BootScan`, `BootDone` |

A critical section is one step, but for the loops. `RemoveByPrefix` has two
relations, `HasPrefix` for the index and `Like` for the table, since the code uses
`strings.HasPrefix` for one and SQL `LIKE` for the other. `ghost`, `orphans` and `settled`
are history variables. `MCCacheIndex` has a key written by `Put` and one written as a stream.

### SingleFlight, Coalescing, PackageProxy
`SingleFlight` is what `GetOrFetch` promises: one leader at a time, one answer per call,
out of what was fetched. `Coalescing` has the steps of `GetOrFetch`: `Get`, `OpenHit`,
`RemoveStale`, `LoadOrStore`, `Wait`, `OpenShared` for followers; `Fetch`, `FetchFails`,
`PutRename`, `PutRegister`, `OpenOwn`, `Done`, `Delete` for leaders; `Evict` and `Publish`
are the world. A leader stands for its flight. Refinement: `leader <- calls`, `produced <-`
what leaders have fetched, `answer <-` what has been returned.

`PackageProxy` composes it with the handlers that call it: it EXTENDS `Coalescing`, each of its
actions is one of `Coalescing` with what it means for npm or apt, and `Goes` is a client
closing its connection. `author` is whose response the file holds and `from` whose response a
client was sent; `refused` are the flights that failed for a reason of the upstream or the disk.
What distinguishes the proxies is `Cancels`: apt fetches with the leader's context, npm does
not. The conditions and encodings of the leader's request, which apt sends along as well, are not
modelled (section 7).

### Lifecycle
One cache (two for git) within its server. State: for `StartEviction` and `Stop` the number
of the current life (`starts`, which stands for `Cache.cancel` and `Cache.stopped`), the
`loops` that exist with the context they watch and the channel they will close, the
contexts `cancelled`, the channels `closed`; the `table` (`Cache.db`); the generation of
`server`, the generations `serving` requests, and the requests in flight with the server that took
them. `Start` does not look whether a server is there: a second one overwrites `Server.server`, and the
first serves on, with nobody left to shut it down.

| code | actions |
|---|---|
| `Server.Start` of npm, apt and S3; `StartEviction` of git and of an embedded S3 server | `Start`; `Embed` |
| `Stop` of each service, and in it `Cache.Stop` and `http.Server.Shutdown` | `Stop` lays down the steps in the order of the code (`StopPlan`), then `Cancel`, `WaitLoop`, `CloseTable`, `Shut`, `Drain` |
| `evictionLoop` | `LoopBegin` (where `defer close(c.stopped)` reads the field), `LoopTick`, `LoopSwept`, `LoopExit` |
| `Put`, `RegisterAfterStream` of a request | `Store`: with a row if the table is open |
| the outside | `Accept`, `ParentCancel` |

`over` and `cut` are history: caches started twice without a `Stop`, and servers whose drain
timed out, which were started without a table, or which another `Start` replaced before a `Stop`.

### UploadPack
The body of a `git-upload-pack` request, packet by packet, of a line its first word. The
client writes along the grammar of git (`FollowsV1`, `FollowsV2`); `Parser` runs along, so that
`req` is at each state the result for the body written so far. `Dispatch` is what
`handleUploadPack` does with it. A bad packet may end the body anywhere, and what was
written so far may be all that is parsed of a compressed body.

### NpmRoutes
A session of a client with the npm proxy: requests to the proxy itself, to `/_upstream/<host>/`
and as to a forward proxy (`Resolve`), for metadata and tarballs (`CacheKey`), links in
metadata (`Rewritten`) and in a lockfile (`RewrittenDirect`), which the client then follows
(`Follow`). A response stands for the URL it was fetched from (`Fetched`), so that a wrong one
shows. Paths are sequences of segments; hosts carry their port as a name of their own.

### S3Requests
A session of requests to the S3 proxy, one after the other, over several objects, scopes and
spellings of a path: `Mutate`, `Forward`, `Bypass`, `Hit`, `Fetch` are the branches of `ServeHTTP`
and `serveCacheable`. The upstream answers conditions and ranges as HTTP has it
(`UpstreamAnswer`, external), with a `Last-Modified` in seconds (`Second`), the proxy as
`serveEntry` does. An entry may have an ETag, a `Last-Modified`, both or neither, and what it is
checked with (`Own`) replaces the client's condition of the same kind only (`CondsSet`). What is concurrent about
one key is in `S3Object`.

### MCRequests
`UploadPack`, `NpmRoutes` and `S3Requests` side by side: one of the services gets the
requests, so that the three state spaces add up and do not multiply. Their names are apart for that
reason (`Init`, `NpmInit`, `S3Init`; `cache` of npm, `entries` of S3).

### S3Object
One object in one scope. State: what the upstream serves (`object`, `last`, and the second each
version came in, `date`); the metadata record `meta` (version of its headers, does it promise a
body, until when fresh, the version its ETag is of and its `Last-Modified`), the body (`body` in the
index, `file` at the path); `flights` (a flight is `Closed` from its leader's last step but one); per
request `pc`, `site` (of the three lookups of `serveCacheable` the one it is in), `held`, `waits`,
`got`. `Tagged` and `Dated` are the versions that come with an ETag and a `Last-Modified`, `Conditional`
the requests with an `If-None-Match` of their own.

| code | actions |
|---|---|
| `loadMetadata` | `LoadMeta`, `Forget` (the record could not be read), `LoadBody` |
| `serveEntry`, `removeEntry` | `Serve`; `Drop`, `DropBody` |
| `serveCacheable` | `Join`, `Wait`, `Close`, `Delete` |
| `fetchAndMaybeStore` | `FetchFails`, `Revalidate`, `Refresh`, `Pass`, `FetchMissing`, `Fetch` |
| `streamAndStore` (and the HEAD branch) | `StoreBegin`, `RenameBody`, `RegisterBody`, `StoreMeta` |
| `forwardMutation` | `Mutate`, `MutateFails`, `Invalidate` |
| the rest of the world | `Elsewhere`, `EvictRecord`, `TimePasses` |

Each call into the cache is a step. Metadata is small and written with `Put`; its entry
and file are one thing here. Versions count the changes upstream. When a 304 comes is
`NotModified`: for an entry with an ETag only if that is the upstream's; for one with a
`Last-Modified` alone also if the client's own `If-None-Match`, which then goes along, lists the
upstream's version, or if the change was in the same second. `Pass` is a 304 with nothing to
revalidate, which is copied to the client. What a client is sent is the subject of `S3Requests`; sizes
are left out, so that an answer which breaks off because the file was replaced by a body of another
length is a `Serve` that fails.

### GitPacks
One repository in one scope. A clone is two or three requests of one client: info/refs,
in protocol v2 ls-refs, and upload-pack with the wants it took from what it was sent. State:
the upstream's `refs`; L1 (`refsCache`, one entry for each of the two keys, with the leader of
its flight); L2 (`packEntries`, `packFiles`, `packFlights`, `closed`), indexed by
fingerprint; per client `pc`, the L1 key it asks for, whom it waits for, what it has `seen`
and the fingerprint `fp` it was filed under. Capabilities (`Capabilities`) do not depend
on the refs; an advertisement and an ls-refs answer of the same refs have different fingerprints.
A leader of L1 opens what it has stored, with the followers' action `Read`, before it gives up its
flight. Refinement, for each key `k`: `leader <- leader[k]`, `produced <- produced[k]` (history: what
the fetches of `k` have brought), `answer <-` what each client's request for `k` got (`ListAnswer`),
with refs for their version and the capabilities as a number of their own.

| code | actions |
|---|---|
| `handleInfoRefs`, `handleV2LsRefs` | `Hit`, `Miss`, `Lead`, `Follow`, `Fetch`, `FetchFails`, `Store`, `Await`, `Read` |
| `handleUploadPack` | `Forward`, `Fingerprint`, `Lookup`, `Join`, `Wait`, `FetchPackFails`, `Close`, `Delete` |
| `servePackFromDisk`, `streamAndCache` | `Open`; `FetchPack`, `Rename`, `Register` |
| `handleReceivePack` | `Push`, `PushFails`, `InvalidateRefs`, `InvalidateLsRefs` |
| the rest of the world | `Elsewhere`, `Expire`, `Evict` |

The client is external: it follows the protocol of what it was sent and wants all refs
listed there. Requests that are not plain fresh clones are forwarded and take part as `Forward`.

## 4. Runs

| run | instance | shows |
|---|---|---|
| `cache_concurrent` | 2 keys, 2 callers and the loop, sizes 1 and 2, limit 2, clock 2 | `Accounting`, `NoUntrackedFiles`, `OverLimitIsPending` under every interleaving of writers, evictions, removals, `Clear` |
| `cache_restart` | 1 caller and the loop, 1 kill, clock 3 | `RowsFollowEntries`, `PutTempsCleaned`, `RecoveredTotal` across kill and recovery; `FilesMissingOnlyFromGap`; the liveness property `EventuallyWithinLimit` |
| `cache_like` | as the first | *violated*: `IndexComplete` |
| `package_proxy` | 3 requests to npm or apt, 2 versions, 1 removal, 2 clients that may go away, failing fetches | of `Coalescing`: `FlightOwned`, `NeverOlderThanFlight`, `FileNeverGoesBack`, `AnswersNeverGoBack`, `EveryCallReturns`, `ImplementsSingleFlight`; of the handlers: `LeaversHarmNobody`, `OwnHeaders` |
| `s3_object` | 2 GETs, a HEAD with an `If-None-Match`, a mutation, 2 versions, the first without an ETag, 1 eviction, clock 2, stale-if-error, failing requests | `BodyHasFile`, `Paired`, `MetaNeverGoesBack`, `BytesNeverGoBack`, `StaleOnlyFromOverlap`, and the liveness property `EveryRequestAnswered` |
| `git_packs` | a v1 and a v2 clone, a push, 1 expiry, 1 eviction, failing requests | `MismatchOnlyFromCrossing`, `StaleRefsOnlyFromOverlap`, `FollowersHit`, `BrokenOnlyByEviction`, `L1ImplementsSingleFlight` |
| `git_clones` | 3 clones, failing requests | the liveness property `EveryCloneAnswered` |
| `git_v2_fingerprint` | 2 v2 clones, a push, nothing fails | *violated*: `V2PackMatchesLsRefs` |
| `requests` | bodies of up to 8 packets; npm sessions of 3 requests, 21 different ones, 5 configurations, 4 hosts, 16 lockfile links; S3 sessions of 4 requests, 37 different ones, 3 scopes, objects with and without ETag and `Last-Modified`, 2 changes in a second, bodies of 3 bytes | `OnlyFullClonesCached`, `FullClonesCached`, `DecisionIsFinal`; `KeysSeparate`, `LinksComeBack`; `StaleOnlyBehindItsBack`, `HitsAnswerLikeUpstream`, `RevalidatedIsCurrent` |
| `upload_pack_v1` | the same | *violated*: `ShallowClonesForwarded` |
| `npm_default_upstream` | the same | *violated*: `DefaultUpstreamPermitted` |
| `lifecycle` | each kind of service, 2 starts, with or without a stop between, any number of stops, a request | `StopEndsLoops`, `PanicsOnlyStartedOver`, `TableOutlivesRequests`, and the liveness property `StopReturns` |

Many properties say *only from*: they name exactly the way in which something undesirable
can come about in this code (an overlap, a removal in a gap, a 304 that does not tell) and show
that there is no other. Section 5 lists those ways.

**Bounds.** Two keys are enough for one operation to disturb another's entry, and they
cover both levels of directories; two callers and the loop give every pair of conflicting
critical sections with a third goroutine between them. The limit of 2 is met by two small
files or one large file, and exceeded by the next. Clock 2 or 3 is what an entry
needs to be written, to expire and to be written again. One kill covers every point at which
the process can die and the run after it; what several of them leave behind is covered by the
theorems, which hold for any number. Three calls of `GetOrFetch` are a leader, a
follower, and a third that overtakes, and as clients a leader and a follower who go away and one who
stays. Two GETs and a HEAD of an object are a slow leader,
a second leader and a reader. Two versions and deletion (version 0) tell old from new, and the first without an
ETag lets a 304 be for the other. For
packs, a v1 and a v2 client fill all kinds of fingerprints, and three clones are a leader
that fails, a follower that fetches without a flight, and the next leader whose flight that
follower deletes. Eight packets hold a section of wants, one line of each kind, a round of haves
and both separators; the theorems about `UploadPack` hold for any number. Three npm requests
are one that fills a key, one that collides with it and one that follows a link. Four S3
requests are a read, a mutation, a read and one more, which every reason for an entry to be
stale or wrongly renewed fits in. Two starts are a life and the next, with or without a
`Stop` between. Symmetry is used among the callers of `cache_concurrent` and among the clients of
`git_v2_fingerprint`, runs without liveness.
The runs stop only where they should: a stuttering action says when all is done; `lifecycle` is
checked without deadlock detection, because a host may never call again.

**Fairness.** A goroutine that can run does (weak fairness per request or call), and the
upstream answers or the client's timeout ends the request. (The clients have
timeouts, of 5 minutes in npm, 10 in apt, 30 in S3. The git client has one for the headers only; that a stalled stream ends is an
assumption on its caller's context, which the comment at `git/git.go:241` makes too.) In `CacheIndex` a goroutine inside
the cache competes for the mutex; `sync.RWMutex` does not starve a waiter, hence strong fairness;
the ticker keeps firing. In `Lifecycle` a loop's way out of its `select` is strongly fair:
while sweeps take longer than the interval both cases are ready at each turn, and Go
chooses among ready cases at random. Nobody is obliged to call the cache, to call `Stop`, to end
a request, to mutate an object or to publish a version.

## 5. Disagreements between text and code

Shown by runs that expect a violation:

 * `RemoveByPrefix` says that it removes keys with the prefix. SQL `LIKE` takes `_` and `%`
   for wildcards and ignores the case of letters: rows of other entries go too.
 * A comment in `handleUploadPack` says that in v2 the fingerprint comes from ls-refs. It comes
   from the capability advertisement, which is found first and never changes with the refs, so
   that a clone after a push is served the pack from before it.
 * The comment on `handleUploadPack` says that shallow and partial clones are forwarded. The
   v1 parser looks for `shallow` and `deepen` behind the first flush only, where a v1 client
   does not write them, and for `filter` nowhere.
 * The comment on the default patterns says that the default upstream is always permitted. It is,
   for paths of the proxy itself, but not under `/_upstream/`, where the proxy's own rewriting of
   metadata sends the client, nor as a forward proxy, if the patterns do not match it.

Described exactly by properties that hold:

 * `Clear` says that it may at most orphan a temporary file. A writer that has renamed its
   file and not registered it yet ends up with an entry without a file
   (`FilesMissingOnlyFromGap`: this gap is the only way).
 * The README says that S3 mutations invalidate. A GET in flight across a mutation stores the old
   object after it, fresh for its whole TTL, and one that meant to revalidate an entry without an ETag
may renew the old metadata by a 304 for the new object (`StaleOnlyFromOverlap`); and entries of other scopes,
   spellings or of objects deleted in bulk are not touched (`StaleOnlyBehindItsBack`).
 * Tests expect S3 hits and revalidations to carry the body. A leader ignores the error of
   `serveEntry`, so that an eviction between its lookup and its open gives headers, status 200
   and no bytes; a registered body always has its file (`BodyHasFile`).
 * A hit refuses a range it does not understand (several, other units) with 416, where the
   upstream would send the whole, and does not know `If-Match`, `If-Modified-Since` and
   `If-Range` (`HitsAnswerLikeUpstream`). An entry without an ETag is revalidated, and given an
   ETag, by a 304 that was an answer to the client's own condition, and by one for a change in the
   second of its `Last-Modified` (`RevalidatedIsCurrent`, `StaleOnlyFromOverlap`).
 * A client of apt that leaves fails those who share its fetch, and its conditions and
   encodings end in the cache of all (`LeaversHarmNobody`; the second is not modelled).
 * A tarball's key forgets what stands between the package's name and the file, so that tarballs of
   nested repositories are taken for each other; no key but that of a tarball asked for by URL tells
   HTTP from HTTPS; and if the URL of the default registry has a path, what is below it has the
   keys of what is at the root of its host (`KeysSeparate`). A rewritten
   link loses the scheme, the path of the registry's URL and the query (`LinksComeBack`).
 * The comment on `StartEviction` calls it safe after a `Stop`. It is for the loop, but
   nothing opens the table again, and what is stored from then on is lost at the next restart
   (`TableOutlivesRequests`). A second `Start` without a `Stop` leaves the first server running,
   undrained by any `Stop` to come (the same property). The npm and apt servers also lose the rows of requests that are
   answered while they drain.

## 6. Theorems

All theorems hold for any sets of keys, goroutines, requests and clients, for any limits, and for
paths, bodies and sessions of any length. They rest on the named ASSUMEs of the modules, which TLC
evaluates on its instances: goroutines, the loop and "no call" are distinct, bounds are numbers,
LIKE accepts at least what the prefix does; that requests are for URLs (`RoutesAssumption`),
that every path names something and ranges are pairs of numbers (`RequestsAssumption`), and that
what has an ETag or a date is a version (`ValidatorsAssumption`). All
invariants and action properties that the passing runs check are proved, and both refinements. TLC
checked each inductive invariant on the instances of section 4 before it was proved.

The types of all variables (`TypeOK`) are part of the inductive invariants, proved for all
values of the constants (`TypeCorrect`), and no run of their own.

**CacheIndexProofs.** `RowsFollowEntries`, `NoUntrackedFiles`, `OverLimitIsPending` and
`PutTempsCleaned` are invariants, and `FilesMissingOnlyFromGap` an action property that follows
from the types and `RowsInv` (recovery tracks no key twice). The inductive invariant `IInv` adds what they need:
`MutexInv` (the mutex excludes, nobody runs while the process is down), without
which a loop's remaining work could be pulled away under it; `SweepInv` (what a loop has still to
visit is tracked, and the rows it deletes by `LIKE` are of keys it removes or overmatched);
`ClockInv` (no time stamp is in the future, for the last access in the rows);
and what recovery has achieved at each of its steps (`RowsInv`, `FilesInv`, `LimitInv`,
`TempsInv`). There is one lemma per conjunct and in it one step per action; `RemoveLocked`
has a lemma of its own in each, as all removals end in it.

`Accounting` and the action property `RecoveredTotal` come on top (`CountInv`). They are about sums
over sets, which by recursion no prover here could reason about; `SumOf` counts the bytes instead
(`Bytes`: a set of pairs of a key and a number up to its size), so that a sum is a cardinality and
the library's theorems on finite sets give what sums do: `SumDisjoint`, `SumOneMore`,
`SumOneLess`. There may be infinitely many keys, hence that the bytes are finitely many is part
of the invariant (`AccountInv`). `RecoverInv` follows the two passes of recovery: `BootRow` tracks an
entry with the size of its file, and what the scan adds for no entry are the files and the stream
directories that it has passed (`Counted`, `dirs \ todo`); at the end of the scan these and the tracked entries
are all there is to count (`RecoveredSum`).

**CoalescingProofs.** First of `Coalescing`: `FlightOwned`, `NeverOlderThanFlight`,
`FileNeverGoesBack`, `AnswersNeverGoBack`, and that it implements `SingleFlight`. The heart is `VersionInv`: the leader
about to rename has fetched the newest version of all, because `FlightOwned` admits one leader at a time
and the upstream does not go back; hence the file only moves forward, and whoever opens
it after a flight sees at least that flight's version. `AnswerInv` says the same of the answers already
given: neither the file nor the version about to be stored is older than any of them, so that a hit, which
opens its path at any time after the lookup, cannot go back behind them. `CallInv` says what
a call has at which step, which the refinement needs: an answer comes out of what was fetched.

Then of `PackageProxy`. `PNextNext`: each step of a handler is a step of `GetOrFetch` or leaves its
variables alone, so that a behaviour of the proxies is one of `Coalescing` (`ProxiesCoalesce`) and
inherits its theorems, which is why the run of the one checks the properties of the other.
`LeaversHarmNobody` and `OwnHeaders` follow from an invariant on top:
a flight that failed was refused or, in apt, given up by its leader (`FetchedInv`); the file has an
author who fetched that version, and the leader about to open it is that author (`AuthorInv`); and with nothing evicted no path goes stale and what
was stored is there (`KeptInv`).

**UploadPackProofs.** `OnlyFullClonesCached`, `FullClonesCached` and `DecisionIsFinal`, for bodies
of any length. The inductive invariant relates the parser to the body it has read:
`GrammarInv` is what a client's grammar gives of the body, `PositionInv` says that the parser is
in the section the body is in and has returned exactly when something in the body made it,
`ArgumentInv` that until then it knows every restricting argument (in v2), and `FreshInv`
what its verdict means. The properties speak of sets of packets written, so that no
induction over the body is needed; `WrittenGrows` is the lemma about them, `ParserFields` the one
about each field of the parser's result.

**S3ObjectProofs.** `BodyHasFile`, `Paired`, `BytesNeverGoBack`, `MetaNeverGoesBack` and
`StaleOnlyFromOverlap`. `LeadInv`: the flight in the map is that of the one request in its lead, and
nobody else stores. `LatestInv`: no version is ahead of the upstream's. `FillInv` is the heart, as in
`Coalescing`: what the leader has in hand is not older than what it finds, and the body it is about to
describe is its own. `PairInv` pairs metadata and body but for the leader's last step, also
for the metadata a leader has loaded and may renew. `OverlapInv` is `StaleOnlyFromOverlap` before the fact:
a response in hand that is older than an answered mutation is in that mutation's history `across`, or
it is a 304 that does not tell the entry's version from the upstream's (`Blind`: the entry has no ETag and the
client a condition, or the change came within the second, or the ETag was left by such a 304). That
such a reader need not be in `across` is the point: it may still be fetching when the mutation
invalidates.

**GitPacksProofs.** `MismatchOnlyFromCrossing`, `StaleRefsOnlyFromOverlap`, `FollowersHit` and
`BrokenOnlyByEviction`. `RequestInv` says what a request has at which step; a client keeps its wants
and its fingerprint once it has one. `FileInv`: the file of a fingerprint is the pack of a client filed
under it, so that a mismatch leads to a client that crossed. `FlightInv`: a flight is of its
fingerprint, and closed only when its client is done storing. `EntryInv`: until something is evicted what was
registered stays, with its file. `RefsInv` is `StaleRefsOnlyFromOverlap` key by key, as a push
removes the two keys of the refs cache one after the other, and for the answers being stored.

`L1ImplementsSingleFlight` is a refinement for each key. `ListInv` is what it needs: a flight is its
leader's, which asks for that key and has not been answered, and each entry, stored or in hand,
was brought by a fetch of its own key. `ListRefines` takes the steps of a client one by one, each a step of
`SingleFlight` or a stutter, for the key it asks for and for the other; the delicate one
is a v2 client which, sent the capabilities, is answered for the first key and turns to the second in
one step. Pushes, expiries and evictions stutter: they take entries, and no flights. The proof showed an error of the
model, where the flight had been over with `Put`; the code keeps it until its
leader has opened the file, and a request that comes in between joins it.

**LifecycleProofs.** `StopEndsLoops`, `PanicsOnlyStartedOver`, `TableOutlivesRequests`, for any number of
lives. `StopInv` says of the steps of `Stop` still to come that each stands behind those it relies on,
or what these are for has happened (`After`): a table is closed behind the end of its loop, the drain
comes behind the shutdown, and in the S3 server before the table is closed. `LoopInv`: a cache that was never
started over has at most one loop, of its current life, whose channel is open. `ServerInv`: a
server that is gone, or has no table to write to, has no request in flight that was not cut off; and one
that serves beside the current one was replaced, and is in `cut`.

**NpmRoutesProofs.** `KeysSeparate` and `LinksComeBack`. `CacheInv`: what is stored under a key is of the
key's host and has a query if the key does, and, unless the default registry has a path, has a request with
that key (`Keyed`); the lemma behind it, `TarballPath`, is that package and file
name determine a path which is not nested. `LinkInv` is the form of a rewritten link; where it leads
follows by resolving it. The proof showed that the exception for nested tarballs has to name the *stored*
URL as well: a nested tarball may come first, and its bytes are sent to whoever asks for the
plain tarball with the same key.

**S3RequestsProofs.** `StaleOnlyBehindItsBack`, `HitsAnswerLikeUpstream`, `RevalidatedIsCurrent`. No
action reads an answer, so the invariant is one of the entries alone: nothing that the proxy can see
has changed an entry's target since it was fetched (`UntouchedInv`), and an entry carries the ETag of its content
or one it was given for want of any (`TagInv`); until then its date is not later than its content
(`DateInv`), so that a 304 to that date is for a content of the same second. That ranges agree (`RangesAgree`, `RefusedRange`)
holds for bodies of any length; for the empty body `parseRange` refuses every range before it
looks at it.

**Model-checked only.** Liveness (`EventuallyWithinLimit`, `EveryCallReturns`,
`EveryRequestAnswered`, `EveryCloneAnswered`, `StopReturns`), which needs ENABLED and fairness.

## 7. Not modelled

Loss of power (nothing is fsynced; the model has kills of the process), failing SQL
statements and failing `os.Remove` (logged or ignored by the code), `ParseSize` and the arithmetic
of `max-age`, lengths of bodies, the wants of a clone and the arguments of ls-refs in the git
keys, authorization and redirects, the headers that apt sends along (a 304 to the leader's
condition, and a body in the leader's encoding, are stored under the URL alone, whatever the order of the
requests), apt's refusal of private addresses and its choice of a TTL,
formatting, logging, metrics and TLS; and the components marked so in the inventory. The bounds
of a model (`MaxClock`, `MaxCrashes`, `MaxVersion`, `MaxExpiries`, `MaxEvictions`, `MaxPackets`,
`MaxRequests`, `MaxSent`, `MaxStarts`, `Leavers`) are named in its CONSTANTS and cut off nothing but how often the
world moves.
