-------------------------------- MODULE S3Object --------------------------------
(***************************************************************************)
(* The S3 proxy (src/s3/server.go, src/s3/entry.go) for one cacheable      *)
(* object in one scope: reads and mutations of several clients, the two    *)
(* cache records of the object (metadata and body), the flights that       *)
(* serialise its fetches, revalidation and invalidation.                   *)
(*                                                                         *)
(* Every request is a goroutine.  A lookup, the opening of a file and each *)
(* call into the disk cache are steps of their own, since the proxy holds  *)
(* no lock over two of them.  The metadata record is small and written     *)
(* with Put; its file and its entry are one thing here.  The body is       *)
(* streamed: its file appears (rename) before its entry (registration).    *)
(* What a client is sent is the subject of S3Requests; here an answer is   *)
(* the step that gives it.                                                 *)
(***************************************************************************)
EXTENDS Integers

CONSTANTS
  Gets, Heads,      \* read requests, by method
  Writers,          \* PUT, POST and DELETE requests
  Conditional,      \* read requests with an If-None-Match of their own
  NoReq,            \* no flight in the sync.Map
  TTL,              \* ttlForResponse, in ticks
  StaleIfError,     \* Config.StaleIfError, in ticks, 0 is disabled
  UpstreamMayFail,  \* whether client.Do may return an error
  Tagged, Dated,    \* versions sent with an ETag, with a Last-Modified
  MaxVersion,       \* bound of the model: versions of the object
  MaxClock,         \* bound of the model: the last instant
  MaxEvictions      \* bound of the model: records evicted

Readers == Gets \cup Heads
Reqs == Readers \cup Writers
Versions == 1..MaxVersion

ASSUME RequestsAssumption ==
  /\ NoReq \notin Reqs /\ Conditional \subseteq Readers
  /\ Gets \cap Heads = {} /\ Readers \cap Writers = {}
ASSUME NumbersAssumption ==
  /\ TTL \in Nat /\ StaleIfError \in Nat /\ UpstreamMayFail \in BOOLEAN
  /\ MaxVersion \in Nat \ {0} /\ MaxClock \in Nat /\ MaxEvictions \in Nat
ASSUME ValidatorsAssumption == Tagged \subseteq Versions /\ Dated \subseteq Versions

VARIABLES
  object,     \* version the upstream serves, 0 for no such object
  last,       \* number of changes upstream, the version of the latest
  date,       \* the second each version came in, which Last-Modified says
  meta,       \* the metadata record, or NoMeta
  body,       \* is the body in the index of the disk cache
  file,       \* version in the file at its path, 0 for no file
  flights,    \* Server.flights[key]: the leader's request, or NoReq
  pc,         \* where each request stands
  site,       \* of serveCacheable's three lookups, the one it is in
  held,       \* the metadata it has loaded
  waits,      \* the flight it waits for
  got,        \* version in the upstream's 200 or 304, 0 for none
  clock,      \* time.Now
  evictions,  \* records evicted so far
  wrote,      \* history: per mutation answered with success, its version
  across      \* history: readers fetching or storing when it invalidated

upstream == <<object, last, date>>
disk == <<meta, body, file>>
request == <<site, held, waits, got>>
world == <<clock, evictions>>
history == <<wrote, across>>
vars == <<object, last, date, meta, body, file, flights, pc, site, held, waits,
          got, clock, evictions, wrote, across>>

\* Beside the version: HasBody, FreshUntil, the version its ETag is of and the second
\* of its Last-Modified; 0 is no such field.
NoMeta == [ver |-> 0, full |-> FALSE, until |-> 0, tag |-> 0, date |-> 0]
Metas == [ver: 0..MaxVersion, full: BOOLEAN, until: Nat, tag: 0..MaxVersion, date: Nat]

\* A leader is at one of these from client.Do to its last write to the cache.
Storing == {"refresh", "store", "rename", "register", "meta"}
PCs == {"load", "forget", "loadbody", "serve", "drop", "dropbody", "join", "wait", "fetch",
        "close", "delete", "mutate", "invalidate", "answered"} \cup Storing

TypeOK ==
  /\ object \in 0..MaxVersion /\ last \in Versions /\ date \in [Versions -> Nat]
  /\ meta \in Metas /\ body \in BOOLEAN /\ file \in 0..MaxVersion
  /\ flights \in Readers \cup {NoReq}
  /\ pc \in [Reqs -> PCs]
  /\ site \in [Reqs -> {"first", "again", "lead"}]
  /\ held \in [Reqs -> Metas] /\ waits \in [Reqs -> Readers \cup {NoReq}]
  /\ got \in [Reqs -> 0..MaxVersion]
  /\ clock \in Nat /\ evictions \in Nat
  /\ wrote \in [Writers -> 0..MaxVersion] /\ across \in [Writers -> SUBSET Readers]

Init ==
  /\ object = 1 /\ last = 1 /\ date = [v \in Versions |-> IF v = 1 THEN 1 ELSE 0]
  /\ meta = NoMeta /\ body = FALSE /\ file = 0
  /\ flights = NoReq
  /\ pc = [r \in Reqs |-> IF r \in Writers THEN "mutate" ELSE "load"]
  /\ site = [r \in Reqs |-> "first"] /\ held = [r \in Reqs |-> NoMeta]
  /\ waits = [r \in Reqs |-> NoReq] /\ got = [r \in Reqs |-> 0]
  /\ clock = 1 /\ evictions = 0
  /\ wrote = [w \in Writers |-> 0] /\ across = [w \in Writers |-> {}]

-----------------------------------------------------------------------------
(* Helpers *)

Step(r, from, to) == pc[r] = from /\ pc' = [pc EXCEPT ![r] = to]
\* The handler returns, and its local variables are gone.
Return(r, from) ==
  /\ Step(r, from, "answered")
  /\ site' = [site EXCEPT ![r] = "first"] /\ held' = [held EXCEPT ![r] = NoMeta]
  /\ got' = [got EXCEPT ![r] = 0]

\* entryUsable: a HEAD needs no body.
Usable(r, m) == m.ver # 0 /\ (r \in Heads \/ m.full)
Fresh(m) == clock < m.until
CanServeStale(m) == m.ver # 0 /\ StaleIfError > 0 /\ clock < m.until + StaleIfError

\* The validators of a response with version v.
TagOf(v) == IF v \in Tagged THEN v ELSE 0
DateOf(v) == IF v \in Dated THEN date[v] ELSE 0

\* canRevalidate: the entry has something to ask the upstream with.
CanRevalidate(r, m) == Usable(r, m) /\ (m.tag # 0 \/ m.date # 0)
\* clientNotModified: the If-None-Match of the client lists the ETag of the entry, or all.
ClientNotModified(r, m) == r \in Conditional /\ m.tag # 0

\* Where a request goes with the metadata m that loadMetadata returned.
Decide(r, m) ==
  IF Usable(r, m) /\ Fresh(m) THEN "serve"
  ELSE IF site[r] = "lead" THEN "fetch" ELSE "join"

\* disk.Remove(bodyKey): the file goes with the entry.
RemoveBody == body' = FALSE /\ file' = IF body THEN 0 ELSE file

-----------------------------------------------------------------------------
(* serveCacheable *)

\* loadMetadata, first half: the metadata record.  Its file may be gone between Get and
\* ReadFile, or be unreadable.
LoadMeta(r) ==
  /\ \/ /\ Step(r, "load", IF meta.full THEN "loadbody" ELSE Decide(r, meta))
        /\ held' = [held EXCEPT ![r] = meta]
     \/ Step(r, "load", "forget") /\ meta # NoMeta /\ UNCHANGED held
  /\ UNCHANGED <<upstream, disk, flights, site, waits, got, world, history>>

\* The record that could not be read is removed, be it new by now.
Forget(r) ==
  /\ Step(r, "forget", Decide(r, NoMeta))
  /\ meta' = NoMeta /\ held' = [held EXCEPT ![r] = NoMeta]
  /\ UNCHANGED <<upstream, body, file, flights, site, waits, got, world, history>>

\* Second half: metadata whose body is gone is removed, be it new by now.
LoadBody(r) ==
  /\ Step(r, "loadbody", Decide(r, IF body THEN held[r] ELSE NoMeta))
  /\ IF body THEN UNCHANGED <<held, meta>>
             ELSE held' = [held EXCEPT ![r] = NoMeta] /\ meta' = NoMeta
  /\ UNCHANGED <<upstream, body, file, flights, site, waits, got, world, history>>

\* serveEntry.  A 304 to the client and a HEAD need no file.  It fails if the file is
\* gone, or if the client goes away during the copy; a leader ignores the error, and with
\* the file gone its client gets the headers of a 200 and no bytes.
Serve(r) ==
  /\ \/ site[r] = "lead" /\ Step(r, "serve", "close") /\ UNCHANGED <<site, held, got>>
     \/ /\ site[r] # "lead" /\ Return(r, "serve")
        /\ r \in Heads \/ file # 0 \/ ClientNotModified(r, held[r])
     \/ /\ site[r] # "lead" /\ Step(r, "serve", "drop") /\ UNCHANGED <<site, held, got>>
        /\ r \in Gets
  /\ UNCHANGED <<upstream, disk, flights, waits, world, history>>

\* removeEntry, after a failed serveEntry or a 404: the metadata, then the body.
Drop(r) ==
  /\ Step(r, "drop", "dropbody")
  /\ meta' = NoMeta
  /\ UNCHANGED <<upstream, body, file, flights, request, world, history>>

DropBody(r) ==
  /\ Step(r, "dropbody", IF site[r] = "lead" THEN "close" ELSE "join")
  /\ RemoveBody
  /\ UNCHANGED <<upstream, meta, flights, request, world, history>>

\* Mutation: a request that finds a flight leads one of its own.
JoinAlways(r) ==
  /\ Step(r, "join", "load")
  /\ flights' = r /\ site' = [site EXCEPT ![r] = "lead"]
  /\ held' = [held EXCEPT ![r] = NoMeta]
  /\ UNCHANGED <<upstream, disk, waits, got, world, history>>

\* flights.LoadOrStore.  The metadata loaded before is out of scope.
Join(r) ==
  /\ held' = [held EXCEPT ![r] = NoMeta]
  /\ IF flights = NoReq
     THEN /\ Step(r, "join", "load")
          /\ flights' = r /\ site' = [site EXCEPT ![r] = "lead"]
          /\ UNCHANGED waits
     ELSE /\ Step(r, "join", "wait")
          /\ waits' = [waits EXCEPT ![r] = flights]
          /\ UNCHANGED <<flights, site>>
  /\ UNCHANGED <<upstream, disk, got, world, history>>

\* The done channel of the flight that r leads; a request leads no more than one.
Closed(r) == pc[r] \in {"delete", "answered"}

\* The channel of the flight is closed: look into the cache again.
Wait(r) ==
  /\ Step(r, "wait", "load") /\ Closed(waits[r])
  /\ site' = [site EXCEPT ![r] = "again"] /\ waits' = [waits EXCEPT ![r] = NoReq]
  /\ UNCHANGED <<upstream, disk, flights, held, got, world, history>>

-----------------------------------------------------------------------------
(* fetchAndMaybeStore *)

\* The upstream cannot be reached: a stale entry is served, or 502.
FetchFails(r) ==
  /\ UpstreamMayFail
  /\ IF CanServeStale(held[r]) /\ Usable(r, held[r])
     THEN Step(r, "fetch", "serve")
     ELSE Step(r, "fetch", "close")
  /\ UNCHANGED <<upstream, disk, flights, request, world, history>>

\* When the upstream answers 304 while canRevalidate.  The ETag of the entry replaces the
\* client's own If-None-Match.  Beside If-Modified-Since the client's own goes along and
\* is the one that counts: it may list any version.
NotModified(r) ==
  /\ object # 0 /\ CanRevalidate(r, held[r])
  /\ IF held[r].tag # 0
     THEN held[r].tag = object
     ELSE r \in Conditional \/ (object \in Dated /\ date[object] <= held[r].date)

Revalidate(r) ==
  /\ Step(r, "fetch", "refresh")
  /\ NotModified(r)
  /\ got' = [got EXCEPT ![r] = object]
  /\ UNCHANGED <<upstream, disk, flights, site, held, waits, world, history>>

\* The metadata renewed by a 304: mergeValidationHeaders.
Refreshed(r) ==
  LET tag == TagOf(got[r])
      second == DateOf(got[r])
  IN  [held[r] EXCEPT !.until = clock + TTL,
                      !.tag = IF tag # 0 THEN tag ELSE held[r].tag,
                      !.date = IF second # 0 THEN second ELSE held[r].date]

\* storeMetadata of it; an error is only logged.
Refresh(r) ==
  /\ Step(r, "refresh", "serve")
  /\ held' = [held EXCEPT ![r] = Refreshed(r)]
  /\ meta' \in {held'[r], meta}
  /\ UNCHANGED <<upstream, body, file, flights, site, waits, got, world, history>>

\* A 304 to the client's own condition, with nothing to revalidate: copied to the client.
Pass(r) ==
  /\ r \in Conditional /\ object # 0 /\ ~CanRevalidate(r, held[r])
  /\ Step(r, "fetch", "close")
  /\ UNCHANGED <<upstream, disk, flights, request, world, history>>

FetchMissing(r) ==
  /\ object = 0
  /\ Step(r, "fetch", "drop")
  /\ UNCHANGED <<upstream, disk, flights, request, world, history>>

\* A 200 (also when the object has no validator), copied to the client.  It is not
\* stored for a Range or a no-store, if it is too large, if the client goes away or
\* if the copy fails.
Fetch(r) ==
  /\ object # 0
  /\ \/ Step(r, "fetch", "store") /\ got' = [got EXCEPT ![r] = object]
     \/ Step(r, "fetch", "close") /\ UNCHANGED got
  /\ UNCHANGED <<upstream, disk, flights, site, held, waits, world, history>>

\* Mutation: the old body stays registered.
StoreBeginKeepsBody(r) ==
  /\ Step(r, "store", IF r \in Heads THEN "meta" ELSE "rename")
  /\ UNCHANGED <<upstream, disk, flights, request, world, history>>

\* The old body is removed first.
StoreBegin(r) ==
  /\ Step(r, "store", IF r \in Heads THEN "meta" ELSE "rename")
  /\ RemoveBody
  /\ UNCHANGED <<upstream, meta, flights, request, world, history>>

\* os.Rename of the streamed file; it may fail.
RenameBody(r) ==
  /\ \/ Step(r, "rename", "register") /\ file' = got[r]
     \/ Step(r, "rename", "close") /\ UNCHANGED file
  /\ UNCHANGED <<upstream, meta, body, flights, request, world, history>>

\* RegisterAfterStream.
RegisterBody(r) ==
  /\ Step(r, "register", "meta")
  /\ body' = TRUE
  /\ UNCHANGED <<upstream, meta, file, flights, request, world, history>>

\* metadataFromResponse.
MetaOf(r) ==
  [ver |-> got[r], full |-> r \in Gets, until |-> clock + TTL,
   tag |-> TagOf(got[r]), date |-> DateOf(got[r])]

\* Mutation: the body stays if its metadata could not be stored.
StoreMetaKeepsBody(r) ==
  /\ Step(r, "meta", "close")
  /\ \/ meta' = MetaOf(r)
     \/ UNCHANGED meta
  /\ UNCHANGED <<upstream, body, file, flights, request, world, history>>

\* storeMetadata; if it fails, a GET removes the body it has just stored.
StoreMeta(r) ==
  /\ Step(r, "meta", "close")
  /\ \/ /\ meta' = MetaOf(r)
        /\ UNCHANGED <<body, file>>
     \/ /\ UNCHANGED meta
        /\ IF r \in Gets THEN RemoveBody ELSE UNCHANGED <<body, file>>
  /\ UNCHANGED <<upstream, flights, request, world, history>>

\* Mutation: the flight stays in the map.
DeleteForgotten(r) ==
  /\ Return(r, "delete")
  /\ UNCHANGED <<upstream, disk, flights, waits, world, history>>

\* The deferred function: close(flight.done), then flights.Delete.
Close(r) ==
  /\ Step(r, "close", "delete")
  /\ UNCHANGED <<upstream, disk, flights, request, world, history>>

Delete(r) ==
  /\ Return(r, "delete")
  /\ flights' = NoReq
  /\ UNCHANGED <<upstream, disk, waits, world, history>>

-----------------------------------------------------------------------------
(* forwardMutation, and the rest of the world *)

Change(v) ==
  /\ last < MaxVersion /\ last' = last + 1 /\ object' = v
  /\ date' = [date EXCEPT ![last'] = clock]

\* The upstream applies the request.  Its answer may get lost: 502.
Mutate(w) ==
  /\ Change(last + 1) \/ Change(0)
  /\ Step(w, "mutate", "invalidate") \/ (UpstreamMayFail /\ Step(w, "mutate", "answered"))
  /\ got' = [got EXCEPT ![w] = IF pc'[w] = "answered" THEN 0 ELSE last']
  /\ UNCHANGED <<disk, flights, site, held, waits, world, history>>

\* Refused by the upstream, or never sent.
MutateFails(w) ==
  /\ Step(w, "mutate", "answered")
  /\ UNCHANGED <<upstream, disk, flights, request, world, history>>

\* Mutation: only the key of the body matches the prefix.
InvalidatesBody == RemoveBody /\ UNCHANGED meta

\* What RemoveMatching removes: both records, under the mutex of the cache.
Invalidates == meta' = NoMeta /\ RemoveBody

Invalidate(w) ==
  /\ Return(w, "invalidate")
  /\ Invalidates
  /\ wrote' = [wrote EXCEPT ![w] = got[w]]
  /\ across' = [across EXCEPT ![w] = {r \in Readers : pc[r] \in Storing}]
  /\ UNCHANGED <<upstream, flights, waits, world>>

\* Somebody writes to the upstream past the proxy, or in another scope.
Elsewhere ==
  /\ Change(last + 1) \/ Change(0)
  /\ UNCHANGED <<disk, flights, pc, request, world, history>>

EvictRecord ==
  /\ evictions < MaxEvictions /\ evictions' = evictions + 1
  /\ \/ meta # NoMeta /\ meta' = NoMeta /\ UNCHANGED <<body, file>>
     \/ body /\ RemoveBody /\ UNCHANGED meta
  /\ UNCHANGED <<upstream, flights, pc, request, clock, history>>

TimePasses ==
  /\ clock < MaxClock /\ clock' = clock + 1
  /\ UNCHANGED <<upstream, disk, flights, pc, request, evictions, history>>

-----------------------------------------------------------------------------

Look(r) == LoadMeta(r) \/ Forget(r) \/ LoadBody(r) \/ Serve(r) \/ Drop(r) \/ DropBody(r)
Enter(r) == Join(r) \/ Wait(r)
Respond(r) == FetchFails(r) \/ Revalidate(r) \/ Pass(r) \/ FetchMissing(r) \/ Fetch(r)
Store(r) == Refresh(r) \/ StoreBegin(r) \/ RenameBody(r) \/ RegisterBody(r) \/ StoreMeta(r)
Leave(r) == Close(r) \/ Delete(r)
Read(r) == Look(r) \/ Enter(r) \/ Respond(r) \/ Store(r) \/ Leave(r)
Write(w) == Mutate(w) \/ MutateFails(w) \/ Invalidate(w)

AllAnswered == (\A r \in Reqs : pc[r] = "answered") /\ UNCHANGED vars

Next ==
  \/ \E r \in Readers : Read(r)
  \/ \E w \in Writers : Write(w)
  \/ Elsewhere \/ EvictRecord \/ TimePasses \/ AllAnswered

Spec == Init /\ [][Next]_vars

\* Every goroutine that can run does; the upstream answers or the client times out.
FairSpec ==
  /\ Spec
  /\ \A r \in Readers : WF_vars(Read(r))
  /\ \A w \in Writers : WF_vars(Write(w))

-----------------------------------------------------------------------------
(* Properties *)

\* A registered body has its file, since the old body goes before the new file comes:
\* a leader sends a 200 without bytes only if the body it found was removed before it
\* opened the file.
BodyHasFile == body => file # 0

\* While no flight is under way, metadata that promises a body stands beside the
\* body of its own version, or beside none, which the next lookup repairs: no
\* order of failures, evictions and invalidations pairs two versions in the cache.
Paired ==
  flights = NoReq /\ meta.full /\ body => file = meta.ver

\* The file of the body is only replaced by that of a later version, so that a request
\* that has loaded metadata never opens older bytes than the metadata promises; newer
\* ones it may.
BytesNeverGoBack == [][file # 0 /\ file' # 0 => file' >= file]_vars

\* The metadata only goes from a version to a later one, unless it was removed in
\* between: a slow fetch never overwrites what a later one has stored.
MetaNeverGoesBack == [][meta.ver # 0 /\ meta'.ver # 0 => meta'.ver >= meta.ver]_vars

\* A 304 may be for a version later than the entry's: without an ETag the entry is
\* revalidated by the client's own If-None-Match or by a date of one second, and an ETag
\* that an earlier such 304 has left in it is of that 304's version.
Blind(r) ==
  \/ held[r].tag = 0 /\ r \in Conditional
  \/ held[r].tag = 0 /\ \E v \in (held[r].ver + 1)..last : date[v] <= held[r].date
  \/ held[r].tag \notin {0, held[r].ver}

\* Once a mutation has been answered with success, metadata older than it comes into
\* the cache only from a request that had its response from the upstream and was not
\* done storing it when the mutation invalidated, or from a 304 that says nothing of the
\* version held.
StaleOnlyFromOverlap ==
  [][\A w \in Writers :
       meta'.ver # 0 /\ meta'.ver < wrote'[w] =>
         \/ meta' = meta /\ wrote'[w] = wrote[w]
         \/ \E r \in across[w] : pc[r] \in {"refresh", "meta"} /\ pc'[r] # pc[r]
         \/ \E r \in Readers : pc[r] = "refresh" /\ pc'[r] # "refresh" /\ Blind(r)]_vars

\* Every request is answered, though waiters come back to the map and may find the
\* flight they have just waited for still in it.
EveryRequestAnswered == <>(\A r \in Reqs : pc[r] = "answered")

-----------------------------------------------------------------------------
(* The inductive invariant behind them (proved in S3ObjectProofs) *)

\* A reader is at one of these only while it leads the flight.
Leading == {"fetch", "close", "delete"} \cup Storing
\* A leader here has metadata in hand that it may write back.
Looked == {"loadbody", "fetch", "refresh"}
\* A leader here has a 200 in hand.
Filling == {"store", "rename", "register", "meta"}

\* The flight in the map is that of the one request in its lead.
LeadInv ==
  /\ \A r \in Readers :
       /\ site[r] = "lead" <=> flights = r
       /\ pc[r] \in Leading => site[r] = "lead"
       /\ pc[r] \in {"join", "wait", "answered"} => site[r] # "lead"
       /\ pc[r] \notin {"mutate", "invalidate"}
  /\ \A w \in Writers : pc[w] \in {"mutate", "invalidate", "answered"}

\* No version is ahead of the latest, and a response is the latest when it comes.
LatestInv ==
  /\ object \in {0, last}
  /\ meta.ver <= last /\ file <= last
  /\ \A r \in Reqs : got[r] <= last /\ held[r].ver <= last
  /\ \A w \in Writers : wrote[w] <= last

\* Nobody but the leader writes to the cache, others only remove: what it has in hand
\* is not older than what it finds, and its body is its own.
FillInv ==
  \A r \in Readers :
    /\ pc[r] \in Filling => got[r] # 0 /\ meta.ver <= got[r]
    /\ pc[r] \in {"store", "rename"} => file <= got[r]
    /\ pc[r] \in {"rename", "register"} => ~body /\ r \in Gets
    /\ pc[r] = "register" => file = got[r]
    /\ pc[r] = "meta" /\ body => r \in Gets /\ file = got[r]

\* Metadata that promises a body is that of the body, unless the leader is about to
\* replace it; so is the metadata the leader has loaded.
PairInv ==
  /\ meta.full /\ body => file = meta.ver \/ \E r \in Readers : pc[r] = "meta"
  /\ \A r \in Readers :
       site[r] = "lead" /\ pc[r] \in Looked =>
         /\ meta.ver \in {0, held[r].ver}
         /\ held[r].full /\ body => file = held[r].ver

\* What a leader is about to write is as new as every mutation answered, but for those
\* that have invalidated since its response came, or which a 304 could not tell.
OverlapInv ==
  \A r \in Readers, w \in Writers :
    /\ pc[r] \in Filling /\ got[r] < wrote[w] => r \in across[w]
    /\ pc[r] = "refresh" /\ held[r].ver < wrote[w] => r \in across[w] \/ Blind(r)

IInv == TypeOK /\ LeadInv /\ LatestInv /\ FillInv /\ BodyHasFile /\ PairInv /\ OverlapInv
=============================================================================
