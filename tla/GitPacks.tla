-------------------------------- MODULE GitPacks --------------------------------
(***************************************************************************)
(* The git proxy (src/git/handler.go) for one repository in one scope:     *)
(* fresh clones and pushes of several clients over the refs cache (L1,     *)
(* through GetOrFetch) and the pack cache (L2, keyed by the fingerprint of *)
(* an L1 entry, with flights of its own).                                  *)
(*                                                                         *)
(* A clone is two or three HTTP requests: info/refs, in protocol v2 then   *)
(* ls-refs, and at last upload-pack with the wants that its client took    *)
(* from what it was sent.  The proxy keeps nothing between them.           *)
(*                                                                         *)
(* GetOrFetch is taken at the level of SingleFlight, which it is shown to  *)
(* implement for each key: one leader, which gives up its flight with its  *)
(* answer, and followers that read the entry after it.  Packs are files    *)
(* that appear (rename) before their entry (RegisterAfterStream).          *)
(***************************************************************************)
EXTENDS Integers

CONSTANTS
  Clients,          \* fresh clones, each made once
  V2,               \* those of them that ask for protocol v2
  Pushers,          \* pushes
  NoClient,         \* no flight
  UpstreamMayFail,  \* whether a request to the upstream may fail
  MaxVersion,       \* bound of the model: versions of the repository's refs
  MaxExpiries,      \* bound of the model: L1 entries expired or evicted
  MaxEvictions      \* bound of the model: packs evicted

ASSUME ClientsAssumption ==
  V2 \subseteq Clients /\ NoClient \notin Clients /\ Clients \cap Pushers = {}
ASSUME BoundsAssumption ==
  /\ UpstreamMayFail \in BOOLEAN /\ MaxVersion \in Nat \ {0}
  /\ MaxExpiries \in Nat /\ MaxEvictions \in Nat

Versions == 1..MaxVersion

\* What an L1 entry holds.  The capabilities do not depend on the refs; a refs
\* advertisement and an ls-refs answer for the same refs are different bytes.
Content(kind, ver) == [kind |-> kind, ver |-> ver]
NoRefs == Content("none", 0)
Capabilities == Content("caps", 0)
Listings == {Content(kind, ver) : kind \in {"advert", "lsrefs"}, ver \in Versions}
\* The fingerprint of a cached L1 file, which is a hash of its bytes: the bytes.
Fingerprints == Listings \cup {Capabilities}

\* The two L1 keys, refsCacheKey and lsRefsCacheKey.
Keys == {"refs", "lsrefs"}

\* The entries of one key, told apart by a number: the refs by their version.
Number(x) == IF x = Capabilities THEN MaxVersion + 1 ELSE x.ver
Numbers == 1..(MaxVersion + 1)

VARIABLES
  refs,         \* version of the refs upstream
  refsCache,    \* L1: what the entry of a key holds, or NoRefs
  storedBy,     \* history: who stored it
  leader,       \* who leads GetOrFetch of a key, or NoClient
  ended,        \* L1 flights that are over, as <<client, key>>
  failed,       \* those of them whose fetch failed
  packEntries,  \* L2: fingerprints with an entry
  packFiles,    \* version of the pack at a fingerprint's path, 0 for no file
  packFlights,  \* Handler.packFlights: who made the flight, or NoClient
  closed,       \* clients whose flight's done channel is closed
  pc,           \* where each request stands
  key,          \* the L1 key a client asks for
  waits,        \* whose L1 or pack flight it waits for
  got,          \* the answer of the upstream a leader of L1 is storing
  seen,         \* version of the refs its client was sent, its wants
  fp,           \* the fingerprint of its upload-pack, or NoRefs
  answer,       \* how the clone or push ended, and the version of the pack
  expiries, evictions,
  pushed,       \* history: version of each push that succeeded
  across,       \* history: per push and key, who was storing when it removed
  kept,         \* history: clients whose pack was registered
  produced      \* history: per L1 key, what its fetches have brought so far

l1 == <<refsCache, storedBy, leader, ended, failed>>
l2 == <<packEntries, packFiles, packFlights, closed>>
client == <<key, waits, got, seen, fp>>
bounds == <<expiries, evictions>>
history == <<pushed, across, kept, produced>>
vars == <<refs, refsCache, storedBy, leader, ended, failed, packEntries, packFiles,
          packFlights, closed, pc, key, waits, got, seen, fp, answer, expiries,
          evictions, pushed, across, kept, produced>>

Answer(kind, ver) == [kind |-> kind, ver |-> ver]
Pending == Answer("none", 0)
Answers == [kind: {"none", "error", "direct", "miss", "cached", "broken", "done"},
            ver: 0..MaxVersion]

Init ==
  /\ refs = 1
  /\ refsCache = [k \in Keys |-> NoRefs] /\ storedBy = [k \in Keys |-> NoClient]
  /\ leader = [k \in Keys |-> NoClient] /\ ended = {} /\ failed = {}
  /\ packEntries = {} /\ packFiles = [f \in Fingerprints |-> 0]
  /\ packFlights = [f \in Fingerprints |-> NoClient] /\ closed = {}
  /\ pc = [c \in Clients \cup Pushers |-> IF c \in Clients THEN "ask" ELSE "push"]
  /\ key = [c \in Clients |-> "refs"] /\ waits = [c \in Clients |-> NoClient]
  /\ got = [c \in Clients |-> NoRefs] /\ seen = [c \in Clients |-> 0]
  /\ fp = [c \in Clients |-> NoRefs]
  /\ answer = [c \in Clients \cup Pushers |-> Pending]
  /\ expiries = 0 /\ evictions = 0
  /\ pushed = [p \in Pushers |-> 0] /\ across = [p \in Pushers |-> [k \in Keys |-> {}]]
  /\ kept = {} /\ produced = [k \in Keys |-> {}]

-----------------------------------------------------------------------------
(* Helpers *)

Step(c, from, to) == pc[c] = from /\ pc' = [pc EXCEPT ![c] = to]
Send(c, kind, ver) == answer' = [answer EXCEPT ![c] = Answer(kind, ver)]

\* A client has been sent content x: after the capabilities it asks for ls-refs,
\* after a list of refs it wants them.
Receive(c, from, x) ==
  IF x.kind = "caps"
  THEN /\ Step(c, from, "ask")
       /\ key' = [key EXCEPT ![c] = "lsrefs"]
       /\ UNCHANGED seen
  ELSE /\ Step(c, from, "want")
       /\ seen' = [seen EXCEPT ![c] = x.ver]
       /\ UNCHANGED key

-----------------------------------------------------------------------------
(* handleInfoRefs and handleV2LsRefs: GetOrFetch on L1 *)

Hit(c) ==
  /\ refsCache[key[c]] # NoRefs
  /\ Receive(c, "ask", refsCache[key[c]])
  /\ UNCHANGED <<refs, l1, l2, waits, got, fp, answer, bounds, history>>

Miss(c) ==
  /\ refsCache[key[c]] = NoRefs
  /\ Step(c, "ask", "miss")
  /\ UNCHANGED <<refs, l1, l2, client, answer, bounds, history>>

\* LoadOrStore; the cache is not looked at again.
Lead(c) ==
  /\ leader[key[c]] = NoClient
  /\ Step(c, "miss", "fetch")
  /\ leader' = [leader EXCEPT ![key[c]] = c]
  /\ UNCHANGED <<refs, refsCache, storedBy, ended, failed, l2, client, answer, bounds,
                 history>>

Follow(c) ==
  /\ leader[key[c]] # NoClient
  /\ Step(c, "miss", "await")
  /\ waits' = [waits EXCEPT ![c] = leader[key[c]]]
  /\ UNCHANGED <<refs, l1, l2, key, got, seen, fp, answer, bounds, history>>

\* The upstream answers: with its capabilities, or with its refs as they are now.
Fetch(c) ==
  /\ Step(c, "fetch", "store")
  /\ LET x == IF key[c] = "lsrefs" THEN Content("lsrefs", refs)
              ELSE IF c \in V2 THEN Capabilities ELSE Content("advert", refs)
     IN  /\ got' = [got EXCEPT ![c] = x]
         /\ produced' = [produced EXCEPT ![key[c]] = @ \cup {Number(x)}]
  /\ UNCHANGED <<refs, l1, l2, key, waits, seen, fp, answer, bounds, pushed, across, kept>>

\* The deferred function of the leader: wg.Done and calls.Delete.
EndFlight(c) ==
  /\ leader' = [leader EXCEPT ![key[c]] = NoClient]
  /\ ended' = ended \cup {<<c, key[c]>>}

\* No answer, not a 200, the leader's client gone, or Put failed: every follower
\* gets the error.
FetchFails(c) ==
  /\ UpstreamMayFail
  /\ Step(c, "fetch", "answered") \/ Step(c, "store", "answered")
  /\ EndFlight(c)
  /\ failed' = failed \cup {<<c, key[c]>>}
  /\ got' = [got EXCEPT ![c] = NoRefs]
  /\ Send(c, "error", 0)
  /\ UNCHANGED <<refs, refsCache, storedBy, l2, key, waits, seen, fp, bounds, history>>

\* Mutation: the flight is over as soon as the entry is stored.
StoreAndEnd(c) ==
  /\ Step(c, "store", "read")
  /\ refsCache' = [refsCache EXCEPT ![key[c]] = got[c]]
  /\ storedBy' = [storedBy EXCEPT ![key[c]] = c]
  /\ EndFlight(c)
  /\ got' = [got EXCEPT ![c] = NoRefs]
  /\ UNCHANGED <<refs, failed, l2, key, waits, seen, fp, answer, bounds, history>>

\* Put, inside the flight.
Store(c) ==
  /\ Step(c, "store", "read")
  /\ refsCache' = [refsCache EXCEPT ![key[c]] = got[c]]
  /\ storedBy' = [storedBy EXCEPT ![key[c]] = c]
  /\ got' = [got EXCEPT ![c] = NoRefs]
  /\ UNCHANGED <<refs, leader, ended, failed, l2, key, waits, seen, fp, answer, bounds,
                 history>>

Await(c) ==
  LET flight == <<waits[c], key[c]>>
  IN  /\ flight \in ended
      /\ IF flight \in failed
         THEN Step(c, "await", "answered") /\ Send(c, "error", 0)
         ELSE Step(c, "await", "read") /\ UNCHANGED answer
      /\ waits' = [waits EXCEPT ![c] = NoClient]
      /\ UNCHANGED <<refs, l1, l2, key, got, seen, fp, bounds, history>>

\* Leader and followers open the stored file; it may be gone by now.  The leader
\* does so before its flight is over, which is not failed by that.
Read(c) ==
  /\ IF leader[key[c]] = c THEN EndFlight(c) ELSE UNCHANGED <<leader, ended>>
  /\ IF refsCache[key[c]] = NoRefs
     THEN Step(c, "read", "answered") /\ Send(c, "error", 0) /\ UNCHANGED <<key, seen>>
     ELSE Receive(c, "read", refsCache[key[c]]) /\ UNCHANGED answer
  /\ UNCHANGED <<refs, refsCache, storedBy, failed, l2, waits, got, fp, bounds, history>>

-----------------------------------------------------------------------------
(* handleUploadPack of a fresh clone *)

\* The L1 entry whose file is the fingerprint: refs first, then ls-refs.
FingerprintSource ==
  IF refsCache["refs"] # NoRefs THEN refsCache["refs"] ELSE refsCache["lsrefs"]

Fingerprint(c) ==
  /\ FingerprintSource # NoRefs
  /\ Step(c, "want", "lookup")
  /\ fp' = [fp EXCEPT ![c] = FingerprintSource]
  /\ UNCHANGED <<refs, l1, l2, key, waits, got, seen, answer, bounds, history>>

\* forwardDirect: not a plain fresh clone after all, a host that is not cached, no L1
\* entry, or its file is gone when it is read.
Forward(c) ==
  /\ Step(c, "want", "answered")
  /\ Send(c, "direct", seen[c])
  /\ UNCHANGED <<refs, l1, l2, client, bounds, history>>

\* Mutation: computed anew from L1 wherever it is needed.
PackKeyNow(c) == IF FingerprintSource = NoRefs THEN fp[c] ELSE FingerprintSource

\* packCacheKey, computed once.
PackKey(c) == fp[c]

\* packsCache.Get.
Lookup(c) ==
  /\ Step(c, "lookup", IF PackKey(c) \in packEntries THEN "open" ELSE "join")
  /\ UNCHANGED <<refs, l1, l2, client, answer, bounds, history>>

\* packFlights.LoadOrStore.
Join(c) ==
  /\ pc[c] = "join"
  /\ IF packFlights[PackKey(c)] = NoClient
     THEN /\ Step(c, "join", "fetchpack")
          /\ packFlights' = [packFlights EXCEPT ![PackKey(c)] = c]
          /\ waits' = [waits EXCEPT ![c] = NoClient]
     ELSE /\ Step(c, "join", "wait")
          /\ waits' = [waits EXCEPT ![c] = packFlights[PackKey(c)]]
          /\ UNCHANGED packFlights
  /\ UNCHANGED <<refs, l1, packEntries, packFiles, closed, key, got, seen, fp, answer,
                 bounds, history>>

\* The flight is over: look again, and fetch without a flight of its own in the map
\* if the pack is not there.
Wait(c) ==
  /\ waits[c] \in closed
  /\ Step(c, "wait", IF PackKey(c) \in packEntries THEN "open" ELSE "fetchpack")
  /\ UNCHANGED <<refs, l1, l2, client, answer, bounds, history>>

\* servePackFromDisk: a 500 if the file is gone; the entry stays.
Open(c) ==
  /\ Step(c, "open", "answered")
  /\ IF packFiles[PackKey(c)] # 0 THEN Send(c, "cached", packFiles[PackKey(c)])
                             ELSE Send(c, "broken", 0)
  /\ UNCHANGED <<refs, l1, l2, client, bounds, history>>

FetchPackFails(c) ==
  /\ UpstreamMayFail
  /\ Step(c, "fetchpack", "close")
  /\ Send(c, "error", 0)
  /\ UNCHANGED <<refs, l1, l2, client, bounds, history>>

\* streamAndCache: the upstream sends what the client wants, to it and to a
\* temporary file, unless that cannot be made.  The file is dropped if the pack is
\* too large, if the client goes away or if the copy fails.
FetchPack(c) ==
  /\ Step(c, "fetchpack", "rename") \/ (UpstreamMayFail /\ Step(c, "fetchpack", "close"))
  /\ Send(c, "miss", seen[c])
  /\ UNCHANGED <<refs, l1, l2, client, bounds, history>>

\* Mutations: a failing os.Rename is ignored; the flight is closed too early.
RenameUnchecked(c) ==
  /\ Step(c, "rename", "register")
  /\ packFiles' \in {packFiles, [packFiles EXCEPT ![PackKey(c)] = seen[c]]}
  /\ UNCHANGED <<refs, l1, packEntries, packFlights, closed, client, answer, bounds, history>>
RenameAndClose(c) ==
  /\ Step(c, "rename", "register")
  /\ packFiles' = [packFiles EXCEPT ![PackKey(c)] = seen[c]]
  /\ closed' = closed \cup {c}
  /\ UNCHANGED <<refs, l1, packEntries, packFlights, client, answer, bounds, history>>

\* os.Rename; if it fails, that is the end as for a failed copy.
Rename(c) ==
  /\ Step(c, "rename", "register")
  /\ packFiles' = [packFiles EXCEPT ![PackKey(c)] = seen[c]]
  /\ UNCHANGED <<refs, l1, packEntries, packFlights, closed, client, answer, bounds, history>>

\* RegisterAfterStream.
Register(c) ==
  /\ Step(c, "register", "close")
  /\ packEntries' = packEntries \cup {PackKey(c)}
  /\ kept' = kept \cup {c}
  /\ UNCHANGED <<refs, l1, packFiles, packFlights, closed, client, answer, bounds, pushed,
                 across, produced>>

\* Mutation: the flight of a failed fetch is not closed.
CloseOnSuccess(c) ==
  /\ Step(c, "close", "delete")
  /\ closed' = IF answer[c].kind = "error" THEN closed ELSE closed \cup {c}
  /\ UNCHANGED <<refs, l1, packEntries, packFiles, packFlights, client, answer, bounds,
                 history>>

\* The deferred function, also of those who own no flight in the map: close(done) of
\* their own, then Delete of whatever flight the map holds for the key.
Close(c) ==
  /\ Step(c, "close", "delete")
  /\ closed' = closed \cup {c}
  /\ UNCHANGED <<refs, l1, packEntries, packFiles, packFlights, client, answer, bounds,
                 history>>

Delete(c) ==
  /\ Step(c, "delete", "answered")
  /\ packFlights' = [packFlights EXCEPT ![PackKey(c)] = NoClient]
  /\ UNCHANGED <<refs, l1, packEntries, packFiles, closed, client, answer, bounds, history>>

-----------------------------------------------------------------------------
(* handleReceivePack, and the rest of the world *)

Change == refs < MaxVersion /\ refs' = refs + 1

\* The upstream applies the push; its answer may get lost.
Push(p) ==
  /\ Change
  /\ pushed' = [pushed EXCEPT ![p] = refs']
  /\ \/ Step(p, "push", "invalidate refs") /\ UNCHANGED answer
     \/ UpstreamMayFail /\ Step(p, "push", "answered") /\ Send(p, "error", 0)
  /\ UNCHANGED <<l1, l2, client, bounds, across, kept, produced>>

\* Refused, or never sent.
PushFails(p) ==
  /\ Step(p, "push", "answered")
  /\ Send(p, "error", 0)
  /\ UNCHANGED <<refs, l1, l2, client, bounds, history>>

\* Mutation: ls-refs entries do not have the prefix.
RemovesRefs(k) == refsCache' = [refsCache EXCEPT !["refs"] = NoRefs]
\* RemoveByPrefix with the prefix of key k: the entries of all scopes.
Removes(k) == refsCache' = [refsCache EXCEPT ![k] = NoRefs]

Invalidate(p, k) ==
  /\ Removes(k)
  /\ across' = [across EXCEPT ![p][k] = {c \in Clients : pc[c] = "store" /\ key[c] = k}]
  /\ UNCHANGED <<refs, storedBy, leader, ended, failed, l2, client, bounds, pushed, kept,
                 produced>>

InvalidateRefs(p) ==
  Step(p, "invalidate refs", "invalidate lsrefs") /\ Invalidate(p, "refs") /\ UNCHANGED answer

InvalidateLsRefs(p) ==
  Step(p, "invalidate lsrefs", "answered") /\ Invalidate(p, "lsrefs") /\ Send(p, "done", 0)

\* Somebody pushes past the proxy.
Elsewhere ==
  /\ Change
  /\ UNCHANGED <<l1, l2, pc, client, answer, bounds, history>>

\* RefsTTL, or eviction.
Expire(k) ==
  /\ expiries < MaxExpiries /\ expiries' = expiries + 1
  /\ refsCache[k] # NoRefs /\ refsCache' = [refsCache EXCEPT ![k] = NoRefs]
  /\ UNCHANGED <<refs, storedBy, leader, ended, failed, l2, pc, client, answer, evictions,
                 history>>

\* A pack is evicted: the entry, and the file at its path, whosoever it is.
Evict(f) ==
  /\ evictions < MaxEvictions /\ evictions' = evictions + 1
  /\ f \in packEntries /\ packEntries' = packEntries \ {f}
  /\ packFiles' = [packFiles EXCEPT ![f] = 0]
  /\ UNCHANGED <<refs, l1, packFlights, closed, pc, client, answer, expiries, history>>

-----------------------------------------------------------------------------

List(c) == \/ Hit(c) \/ Miss(c) \/ Lead(c) \/ Follow(c) \/ Fetch(c) \/ FetchFails(c)
           \/ Store(c) \/ Await(c) \/ Read(c)
Look(c) == Fingerprint(c) \/ Forward(c) \/ Lookup(c) \/ Join(c) \/ Wait(c) \/ Open(c)
Stream(c) == FetchPackFails(c) \/ FetchPack(c) \/ Rename(c) \/ Register(c)
Clone(c) == List(c) \/ Look(c) \/ Stream(c) \/ Close(c) \/ Delete(c)
Receipt(p) == Push(p) \/ PushFails(p) \/ InvalidateRefs(p) \/ InvalidateLsRefs(p)

AllAnswered == (\A x \in Clients \cup Pushers : pc[x] = "answered") /\ UNCHANGED vars

Next ==
  \/ \E c \in Clients : Clone(c)
  \/ \E p \in Pushers : Receipt(p)
  \/ Elsewhere
  \/ \E k \in Keys : Expire(k)
  \/ \E f \in Fingerprints : Evict(f)
  \/ AllAnswered

Spec == Init /\ [][Next]_vars

\* Every goroutine that can run does, and every request to the upstream ends.
FairSpec == Spec /\ \A c \in Clients : WF_vars(Clone(c))

-----------------------------------------------------------------------------
(* Properties *)

PCs == {"ask", "miss", "fetch", "store", "await", "read", "want", "lookup", "join", "wait",
        "open", "fetchpack", "rename", "register", "close", "delete", "answered", "push",
        "invalidate refs", "invalidate lsrefs"}

TypeOK ==
  /\ refs \in Versions
  /\ refsCache \in [Keys -> Fingerprints \cup {NoRefs}]
  /\ storedBy \in [Keys -> Clients \cup {NoClient}]
  /\ leader \in [Keys -> Clients \cup {NoClient}]
  /\ ended \subseteq Clients \X Keys /\ failed \subseteq ended
  /\ packEntries \subseteq Fingerprints
  /\ packFiles \in [Fingerprints -> 0..MaxVersion]
  /\ packFlights \in [Fingerprints -> Clients \cup {NoClient}] /\ closed \subseteq Clients
  /\ pc \in [Clients \cup Pushers -> PCs]
  /\ key \in [Clients -> Keys] /\ waits \in [Clients -> Clients \cup {NoClient}]
  /\ got \in [Clients -> Fingerprints \cup {NoRefs}]
  /\ seen \in [Clients -> 0..MaxVersion] /\ fp \in [Clients -> Fingerprints \cup {NoRefs}]
  /\ answer \in [Clients \cup Pushers -> Answers]
  /\ expiries \in 0..MaxExpiries /\ evictions \in 0..MaxEvictions
  /\ pushed \in [Pushers -> 0..MaxVersion]
  /\ across \in [Pushers -> [Keys -> SUBSET Clients]] /\ kept \subseteq Clients
  /\ produced \in [Keys -> SUBSET Numbers]

\* The upload-pack of this client was filed under a fingerprint of other refs than
\* those it wants: the L1 entry was replaced between its requests, or it is the
\* capability advertisement.
Crossed(c) == fp[c] # NoRefs /\ fp[c].ver # seen[c]

\* A clone is served a pack for other refs than it wants only if it, or a clone filed
\* under the same fingerprint, has crossed: nothing between the fingerprint and the
\* registration, the wait for another's flight included, mixes up packs.
MismatchOnlyFromCrossing ==
  \A c \in Clients :
    answer[c].kind = "cached" /\ answer[c].ver # seen[c] =>
      \E d \in Clients : fp[d] = fp[c] /\ Crossed(d)

\* Once a push has been answered with success, L1 lists older refs only if they were
\* stored by a fetch that had its answer and was not done storing when the push
\* removed the entries.
StaleRefsOnlyFromOverlap ==
  \A p \in Pushers, k \in Keys :
    answer[p].kind = "done" /\ refsCache[k].ver \in 1..(pushed[p] - 1) =>
      storedBy[k] \in across[p][k]

\* A client that has waited for a flight fetches the pack itself only if that flight
\* did not store it, or it was evicted.
FollowersHit ==
  \A c \in Clients :
    pc[c] = "fetchpack" /\ waits[c] # NoClient /\ evictions = 0 => waits[c] \notin kept

\* A pack found in the cache can be opened unless something was evicted: no clone
\* meets an entry ahead of its file.
BrokenOnlyByEviction ==
  \A c \in Clients : answer[c].kind = "broken" => evictions > 0

\* What the request for key k of a client got from GetOrFetch: nothing yet, an error
\* (-1), or an entry.
Listing == {"ask", "miss", "fetch", "store", "await", "read"}
ListAnswer(k, c) ==
  IF k = "refs" /\ key[c] = "lsrefs" THEN Number(Capabilities)
  ELSE IF key[c] # k \/ pc[c] \in Listing THEN 0
  ELSE IF seen[c] # 0 THEN seen[c] ELSE -1

Refs == INSTANCE SingleFlight
          WITH Calls <- Clients, NoCall <- NoClient, Versions <- Numbers,
               leader <- leader["refs"], produced <- produced["refs"],
               answer <- [c \in Clients |-> ListAnswer("refs", c)]
LsRefs == INSTANCE SingleFlight
            WITH Calls <- Clients, NoCall <- NoClient, Versions <- Numbers,
                 leader <- leader["lsrefs"], produced <- produced["lsrefs"],
                 answer <- [c \in Clients |-> ListAnswer("lsrefs", c)]

\* Each of the two keys of L1 is a single flight of its own, whoever asks for one and
\* then for the other: one leader at a time, which is answered within its flight, and
\* nobody is sent what no fetch of that key has brought.
L1ImplementsSingleFlight == Refs!SSpec /\ LsRefs!SSpec

\* Every clone is answered, though followers own no flight and delete those of others.
EveryCloneAnswered == <>(\A c \in Clients : pc[c] = "answered")

\* The comment in handleUploadPack: in v2 the fingerprint comes from the ls-refs
\* response, which has the refs.  So a client that has asked for ls-refs and finds its
\* refs unchanged there is not served a pack of other refs.
V2PackMatchesLsRefs ==
  \A c \in Clients :
    answer[c].kind = "cached" /\ key[c] = "lsrefs" /\ seen[c] = refs => answer[c].ver = seen[c]

-----------------------------------------------------------------------------
(* The inductive invariant behind them (proved in GitPacksProofs) *)

\* An upload-pack with a fingerprint is at one of these until it is answered.
Filed == {"lookup", "join", "wait", "open", "fetchpack", "rename", "register", "close", "delete"}
Pushing == {"push", "invalidate refs", "invalidate lsrefs"}

\* What a request has when: the wants and the fingerprint stay once there is a fingerprint.
RequestInv ==
  /\ \A c \in Clients :
       /\ pc[c] \notin Pushing
       /\ fp[c] # NoRefs => pc[c] \in Filed \cup {"answered"}
       /\ pc[c] \in Filed => fp[c] # NoRefs
       /\ pc[c] \in Filed \cup {"want"} => seen[c] # 0
       /\ answer[c].kind \in {"cached", "broken"} => pc[c] = "answered"
  /\ \A p \in Pushers :
       /\ pc[p] \in Pushing \cup {"answered"}
       /\ answer[p].kind = "done" => pc[p] = "answered"

\* A file at the path of a fingerprint is the pack of a client filed under it.
FileInv ==
  \A f \in Fingerprints :
    packFiles[f] # 0 => \E d \in Clients : fp[d] = f /\ seen[d] = packFiles[f]

\* A flight is of its fingerprint, and its client is done storing when it is closed.
FlightInv ==
  /\ \A f \in Fingerprints : packFlights[f] # NoClient => fp[packFlights[f]] = f
  /\ \A c \in Clients :
       /\ c \in closed => pc[c] \in {"delete", "answered"}
       /\ c \in kept => fp[c] # NoRefs
       /\ pc[c] = "wait" => waits[c] # NoClient /\ fp[waits[c]] = fp[c]
       /\ pc[c] = "fetchpack" /\ waits[c] # NoClient => waits[c] \in closed

\* Until something is evicted, what was registered stays, with its file.
EntryInv ==
  evictions = 0 =>
    /\ \A f \in packEntries : packFiles[f] # 0
    /\ \A c \in Clients :
         /\ c \in kept => fp[c] \in packEntries
         /\ pc[c] = "register" => packFiles[fp[c]] # 0
         /\ pc[c] = "open" => fp[c] \in packEntries

\* Has push p removed the entries of key k?
Removed(p, k) ==
  answer[p].kind = "done" \/ (pc[p] = "invalidate lsrefs" /\ k = "refs")

\* StaleRefsOnlyFromOverlap key by key, and for the answers that are being stored.
RefsInv ==
  \A p \in Pushers :
    /\ pushed[p] <= refs
    /\ \A k \in Keys :
         Removed(p, k) =>
           /\ refsCache[k].ver \in 1..(pushed[p] - 1) => storedBy[k] \in across[p][k]
           /\ \A c \in Clients :
                pc[c] = "store" /\ key[c] = k /\ got[c].ver \in 1..(pushed[p] - 1)
                  => c \in across[p][k]

\* A flight of L1 is its leader's until that is answered, and an entry, stored or about
\* to be, was brought by a fetch of its own key.
Brought(k, x) == Number(x) \in produced[k] /\ (k = "lsrefs" => x # Capabilities)
ListInv ==
  /\ \A c \in Clients :
       /\ pc[c] \in {"fetch", "store"} => leader[key[c]] = c
       /\ got[c] # NoRefs => pc[c] = "store" /\ Brought(key[c], got[c])
       /\ pc[c] \in Listing => seen[c] = 0
  /\ \A k \in Keys :
       /\ leader[k] # NoClient =>
            key[leader[k]] = k /\ pc[leader[k]] \in {"fetch", "store", "read"}
       /\ refsCache[k] # NoRefs => Brought(k, refsCache[k])

IInv ==
  /\ TypeOK /\ RequestInv /\ FileInv /\ FlightInv /\ EntryInv /\ RefsInv /\ ListInv
  /\ MismatchOnlyFromCrossing /\ FollowersHit /\ BrokenOnlyByEviction
=============================================================================
