------------------------------- MODULE Coalescing -------------------------------
(***************************************************************************)
(* Cache.GetOrFetch (src/cache/cache.go:251) for one key: the fast path,   *)
(* the sync.Map of flights, the wait group of each flight and the store.   *)
(* Calls are invocations, each made once; a call that becomes the leader   *)
(* stands for its flight (the call struct it allocates).                   *)
(*                                                                         *)
(* The cache below is CacheIndex seen from this key: an entry, and the     *)
(* file at its path.  The two part where GetOrFetch is exposed to it: the  *)
(* file is there before the entry (rename, then register), and an eviction *)
(* or invalidation may take both at any moment.                            *)
(***************************************************************************)
EXTENDS Integers

CONSTANTS
  Calls,         \* invocations of GetOrFetch for the key
  NoCall,        \* no flight in the sync.Map
  FetchMayFail,  \* whether fetch may return an error or panic, and Put fail
  MaxVersion,    \* bound of the model: versions the upstream publishes
  MaxEvictions   \* bound of the model: removals of the entry by others

ASSUME CallsAssumption == NoCall \notin Calls
ASSUME BoundsAssumption ==
  FetchMayFail \in BOOLEAN /\ MaxVersion \in Nat \ {0} /\ MaxEvictions \in Nat

VARIABLES
  entry,      \* is the key in Cache.entries
  file,       \* version in the file at its path, 0 for no file
  calls,      \* Cache.calls[key]: the leader of the flight, or NoCall
  pc,         \* where each call stands
  joined,     \* the flight a follower waits for (existingCall)
  err,        \* call.err of each flight
  landed,     \* flights whose wait group is done
  fetched,    \* version each leader fetched, 0 for none
  result,     \* what a call returns: 0 not yet, a version, or -1 for an error
  upstream,   \* the version the upstream serves
  evictions   \* removals so far

cache == <<entry, file>>
flight == <<joined, err, landed, fetched>>
world == <<upstream, evictions>>
vars == <<entry, file, calls, pc, joined, err, landed, fetched, result, upstream,
          evictions>>

Versions == 1..MaxVersion
Failed == -1
\* A leader is at one of these from LoadOrStore to Delete.
Leading == {"fetch", "rename", "register", "open", "done", "delete"}
PCs == {"get", "hit", "stale", "miss", "wait", "shared", "returned"} \cup Leading

TypeOK ==
  /\ entry \in BOOLEAN
  /\ file \in 0..MaxVersion
  /\ calls \in Calls \cup {NoCall}
  /\ pc \in [Calls -> PCs]
  /\ joined \in [Calls -> Calls \cup {NoCall}]
  /\ err \in [Calls -> BOOLEAN] /\ landed \subseteq Calls
  /\ fetched \in [Calls -> 0..MaxVersion]
  /\ result \in [Calls -> (0..MaxVersion) \cup {Failed}]
  /\ upstream \in Versions /\ evictions \in 0..MaxEvictions

Init ==
  /\ entry = FALSE /\ file = 0 /\ calls = NoCall
  /\ pc = [c \in Calls |-> "get"] /\ joined = [c \in Calls |-> NoCall]
  /\ err = [c \in Calls |-> FALSE] /\ landed = {}
  /\ fetched = [c \in Calls |-> 0] /\ result = [c \in Calls |-> 0]
  /\ upstream = 1 /\ evictions = 0

Step(c, from, to) == pc[c] = from /\ pc' = [pc EXCEPT ![c] = to]
Return(c, v) == result' = [result EXCEPT ![c] = v]
\* os.Open of the path: the version it finds, or an error.
Opened == IF file = 0 THEN Failed ELSE file

\* c.Get under the mutex.
Get(c) ==
  /\ Step(c, "get", IF entry THEN "hit" ELSE "miss")
  /\ UNCHANGED <<cache, calls, flight, result, world>>

\* os.Open of the path Get returned, after the mutex was released.
OpenHit(c) ==
  /\ Step(c, "hit", IF file = 0 THEN "stale" ELSE "returned")
  /\ IF file = 0 THEN UNCHANGED result ELSE Return(c, file)
  /\ UNCHANGED <<cache, calls, flight, world>>

\* c.Remove: whatever entry and file are there by now.
RemoveStale(c) ==
  /\ Step(c, "stale", "miss")
  /\ entry' = FALSE
  /\ file' = IF entry THEN 0 ELSE file
  /\ UNCHANGED <<calls, flight, result, world>>

\* Mutation: a second leader starts beside the first.
LoadOrStoreAlways(c) ==
  /\ Step(c, "miss", "fetch")
  /\ calls' = c
  /\ UNCHANGED <<cache, flight, result, world>>
LoadOrStore(c) ==
  /\ IF calls = NoCall
     THEN Step(c, "miss", "fetch") /\ calls' = c /\ UNCHANGED joined
     ELSE /\ Step(c, "miss", "wait")
          /\ joined' = [joined EXCEPT ![c] = calls]
          /\ UNCHANGED calls
  /\ UNCHANGED <<cache, err, landed, fetched, result, world>>

\* wg.Wait returns; the flight's error is returned as it is.
Wait(c) ==
  /\ joined[c] \in landed
  /\ IF err[joined[c]]
     THEN Step(c, "wait", "returned") /\ Return(c, Failed)
     ELSE Step(c, "wait", "shared") /\ UNCHANGED result
  /\ UNCHANGED <<cache, calls, flight, world>>

OpenShared(c) ==
  /\ Step(c, "shared", "returned")
  /\ Return(c, Opened)
  /\ UNCHANGED <<cache, calls, flight, world>>

\* doFetch: the fetch function returns what the upstream serves.
Fetch(c) ==
  /\ Step(c, "fetch", "rename")
  /\ fetched' = [fetched EXCEPT ![c] = upstream]
  /\ UNCHANGED <<cache, calls, joined, err, landed, result, world>>

\* doFetch fails: the fetch function returns an error or panics (recovered), or
\* Put fails before its rename.
FetchFails(c) ==
  /\ FetchMayFail
  /\ Step(c, "fetch", "done") \/ Step(c, "rename", "done")
  /\ err' = [err EXCEPT ![c] = TRUE]
  /\ Return(c, Failed)
  /\ UNCHANGED <<cache, calls, joined, landed, fetched, world>>

PutRename(c) ==
  /\ Step(c, "rename", "register")
  /\ file' = fetched[c]
  /\ UNCHANGED <<entry, calls, flight, result, world>>

\* The entry is registered.  That the inline evictLRU of Put takes it away again
\* at once, as it does with a file larger than the limit, is an Evict.
PutRegister(c) ==
  /\ Step(c, "register", "open")
  /\ entry' = TRUE
  /\ UNCHANGED <<file, calls, flight, result, world>>

OpenOwn(c) ==
  /\ Step(c, "open", "done")
  /\ Return(c, Opened)
  /\ UNCHANGED <<cache, calls, flight, world>>

\* Mutations: the flight stays in the map; a flight that failed is never done.
DeleteForgotten(c) ==
  /\ Step(c, "delete", "returned")
  /\ UNCHANGED <<cache, calls, flight, result, world>>
DoneOnSuccess(c) ==
  /\ Step(c, "done", "delete")
  /\ landed' = IF err[c] THEN landed ELSE landed \cup {c}
  /\ UNCHANGED <<cache, calls, joined, err, fetched, result, world>>

\* The deferred function: wg.Done, then calls.Delete.
Done(c) ==
  /\ Step(c, "done", "delete")
  /\ landed' = landed \cup {c}
  /\ UNCHANGED <<cache, calls, joined, err, fetched, result, world>>

Delete(c) ==
  /\ Step(c, "delete", "returned")
  /\ calls' = NoCall
  /\ UNCHANGED <<cache, flight, result, world>>

\* The rest of the cache: eviction, expiry, invalidation; Clear also takes a file
\* that is not registered yet.
Evict ==
  /\ entry \/ file # 0
  /\ evictions < MaxEvictions
  /\ entry' = FALSE /\ file' = 0
  /\ evictions' = evictions + 1
  /\ UNCHANGED <<calls, pc, flight, result, upstream>>

\* The upstream publishes a new version.
Publish ==
  /\ upstream < MaxVersion
  /\ upstream' = upstream + 1
  /\ UNCHANGED <<cache, calls, pc, flight, result, evictions>>

Lead(c) ==
  \/ Fetch(c) \/ FetchFails(c) \/ PutRename(c) \/ PutRegister(c) \/ OpenOwn(c)
  \/ Done(c) \/ Delete(c)
Follow(c) == Wait(c) \/ OpenShared(c)
Look(c) == Get(c) \/ OpenHit(c) \/ RemoveStale(c) \/ LoadOrStore(c)

AllReturned == (\A c \in Calls : pc[c] = "returned") /\ UNCHANGED vars

Next ==
  \/ \E c \in Calls : Look(c) \/ Follow(c) \/ Lead(c)
  \/ Evict \/ Publish \/ AllReturned

Spec == Init /\ [][Next]_vars

\* Every goroutine that can run does, and every fetch ends.
FairSpec == Spec /\ \A c \in Calls : WF_vars(Look(c) \/ Follow(c) \/ Lead(c))

-----------------------------------------------------------------------------
(* Properties *)

\* The map holds a flight exactly while its leader is between LoadOrStore and
\* Delete: one fetch of the key at a time, nobody joins a flight whose call has
\* returned, and Delete never takes away the flight of another.
FlightOwned ==
  \A c \in Calls : pc[c] \in Leading <=> calls = c

\* Neither a leader nor a follower, which opens the path again by itself after the
\* wait, is served anything older than what its own flight fetched: the file may
\* have been evicted, fetched anew and replaced in between, but only by newer ones.
NeverOlderThanFlight ==
  \A c \in Calls :
    result[c] \notin {0, Failed} =>
      /\ result[c] >= fetched[c]
      /\ joined[c] # NoCall => result[c] >= fetched[joined[c]]

\* The file of a key is only ever replaced by a version fetched later: no slow
\* writer overwrites a newer file.
FileNeverGoesBack == [][file # 0 /\ file' # 0 => file' >= file]_vars

\* No call is answered with a version older than one a call has been answered with before:
\* not a hit that opens its path long after the lookup either, whatever was evicted and
\* fetched anew in between.
AnswersNeverGoBack ==
  [][\A c, d \in Calls :
       result'[c] # result[c] /\ result'[c] # Failed => result'[c] >= result[d]]_vars

\* Every call returns, whatever fails and whoever waits for whom.
EveryCallReturns == <>(\A c \in Calls : pc[c] = "returned")

Answers == [c \in Calls |-> IF pc[c] = "returned" THEN result[c] ELSE 0]
Produced == {fetched[c] : c \in Calls} \ {0}
SF == INSTANCE SingleFlight WITH leader <- calls, produced <- Produced, answer <- Answers

\* GetOrFetch implements SingleFlight.
ImplementsSingleFlight == SF!SSpec

-----------------------------------------------------------------------------
(* The inductive invariant behind them (proved in CoalescingProofs) *)

Early == {"get", "hit", "stale", "miss", "wait", "shared"}
\* A call here has joined no flight.
Alone == {"get", "hit", "stale", "miss"} \cup Leading
\* Has this leader put its version at the path?
Stored(f) == pc[f] \notin Early \cup {"fetch", "rename"} /\ ~err[f]

\* What a call has when: no version before its fetch, no result before its end.
CallInv ==
  \A c \in Calls :
    /\ pc[c] \in Early \cup {"fetch"} => fetched[c] = 0
    /\ pc[c] \in Early \cup {"fetch", "rename", "register", "open"} => result[c] = 0
    /\ pc[c] \in {"done", "delete", "returned"} => result[c] \in Produced \cup {Failed}
    /\ err[c] => pc[c] \in {"done", "delete", "returned"}
    /\ c \in landed => pc[c] \in {"delete", "returned"}
    /\ pc[c] \in {"shared", "returned"} /\ joined[c] # NoCall => joined[c] \in landed
    /\ pc[c] = "shared" => joined[c] # NoCall /\ ~err[joined[c]]
    /\ pc[c] = "wait" => joined[c] # NoCall
    /\ fetched[c] # 0 => joined[c] = NoCall
    /\ pc[c] \in Alone => joined[c] = NoCall

\* The leader about to store has the newest version of all; a file is at least as
\* new as every version stored before it.
VersionInv ==
  /\ file # 0 => file \in Produced
  /\ file <= upstream /\ \A c \in Calls : fetched[c] <= upstream
  /\ \A c \in Calls :
       pc[c] = "rename" => file <= fetched[c] /\ \A d \in Calls : fetched[d] <= fetched[c]
  /\ \A f \in Calls : Stored(f) /\ file # 0 => file >= fetched[f]

\* The file, and the version a leader is about to store, are at least as new as every
\* answer given so far.
AnswerInv ==
  \A d \in Calls :
    /\ result[d] <= upstream /\ (file # 0 => result[d] <= file)
    /\ \A c \in Calls : pc[c] = "rename" => result[d] <= fetched[c]

IInv == TypeOK /\ FlightOwned /\ CallInv /\ VersionInv /\ NeverOlderThanFlight /\ AnswerInv
=============================================================================
