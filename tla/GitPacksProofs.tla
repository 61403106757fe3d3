----------------------------- MODULE GitPacksProofs -----------------------------
(***************************************************************************)
(* Theorems about one repository in the git proxy, for any number of       *)
(* clients of both protocols and of pushers, versions, expiries and        *)
(* evictions.                                                              *)
(***************************************************************************)
EXTENDS GitPacks, TLAPS

Actors == Clients \cup Pushers

\* What a step of one request does to the program counters.
LEMMA StepPC ==
  ASSUME TypeOK, NEW x \in Actors, NEW from, NEW to \in PCs, Step(x, from, to)
  PROVE  /\ pc[x] = from /\ pc'[x] = to
         /\ \A y \in Actors \ {x} : pc'[y] = pc[y]
         /\ pc' \in [Actors -> PCs]
  BY DEF TypeOK, Step, Actors

\* ... and an answer.
LEMMA SendFrame ==
  ASSUME TypeOK, NEW x \in Actors, NEW kind, NEW ver \in 0..MaxVersion, Send(x, kind, ver),
         kind \in {"none", "error", "direct", "miss", "cached", "broken", "done"}
  PROVE  /\ answer'[x].kind = kind /\ answer'[x].ver = ver
         /\ \A y \in Actors \ {x} : answer'[y] = answer[y]
         /\ answer' \in [Actors -> Answers]
  BY DEF TypeOK, Send, Answer, Answers, Actors

LEMMA ContentType ==
  /\ \A v \in Versions : Content("lsrefs", v) \in Fingerprints /\ Content("advert", v) \in Fingerprints
  /\ Capabilities \in Fingerprints
  /\ NoRefs \notin Fingerprints /\ NoRefs.ver = 0
  /\ \A x \in Fingerprints : /\ x.ver \in 0..MaxVersion
                             /\ x.kind # "caps" => x.ver \in Versions
<1> USE BoundsAssumption DEF Fingerprints
<1>1. \A v \in Versions : Content("lsrefs", v) \in Listings /\ Content("advert", v) \in Listings
  BY DEF Listings
<1>2. \A x \in Listings : x.kind \in {"advert", "lsrefs"} /\ x.ver \in Versions
  BY DEF Listings, Content
<1>3. NoRefs.kind = "none" /\ NoRefs.ver = 0 /\ Capabilities.kind = "caps" /\ Capabilities.ver = 0
  BY DEF NoRefs, Capabilities, Content
<1>4. Versions \subseteq 0..MaxVersion /\ 0 \in 0..MaxVersion
  BY DEF Versions
<1>5. NoRefs \notin Fingerprints
  BY <1>2, <1>3
<1>6. QED
  BY <1>1, <1>2, <1>3, <1>4, <1>5

\* Entries are told apart by numbers up to one more than the bound on versions.
LEMMA NumberType ==
  /\ \A x \in Fingerprints : Number(x) \in Numbers
  /\ Number(Capabilities) = MaxVersion + 1
  /\ \A x \in Fingerprints : /\ x.kind = "caps" => x = Capabilities
                             /\ x.kind # "caps" => Number(x) = x.ver /\ x # Capabilities
<1>1. \A x \in Listings : x.kind # "caps" /\ x.ver \in Versions
  BY DEF Listings, Content
<1>2. Capabilities.kind = "caps" /\ Number(Capabilities) = MaxVersion + 1
  BY DEF Capabilities, Content, Number
<1>3. \A x \in Listings : x # Capabilities
  BY <1>1, <1>2
<1>4. \A x \in Listings : Number(x) = x.ver
  BY <1>3 DEF Number
<1>5. Versions \subseteq Numbers /\ MaxVersion + 1 \in Numbers
  BY BoundsAssumption DEF Versions, Numbers
<1>6. QED
  BY <1>1, <1>2, <1>3, <1>4, <1>5 DEF Fingerprints

LEMMA InitInv == Init => IInv
<1> SUFFICES ASSUME Init PROVE IInv
  OBVIOUS
<1> USE ClientsAssumption, BoundsAssumption DEF Init
<1>1. TypeOK
  <2>1. answer \in [Clients \cup Pushers -> Answers]
    BY DEF Pending, Answer, Answers
  <2>2. pc \in [Clients \cup Pushers -> PCs]
    BY DEF PCs
  <2>3. QED
    BY <2>1, <2>2 DEF TypeOK, Versions, Keys
<1>2. RequestInv
  BY DEF RequestInv, Pushing, Filed, Pending, Answer
<1>3. FileInv /\ FlightInv /\ EntryInv
  BY DEF FileInv, FlightInv, EntryInv
<1>7. ListInv
  BY DEF ListInv, Listing
<1>4. RefsInv
  BY DEF RefsInv, Removed, Pending, Answer
<1>5. MismatchOnlyFromCrossing /\ FollowersHit /\ BrokenOnlyByEviction
  BY DEF MismatchOnlyFromCrossing, FollowersHit, BrokenOnlyByEviction, Pending, Answer
<1>6. QED
  BY <1>1, <1>2, <1>3, <1>4, <1>5, <1>7 DEF IInv

-----------------------------------------------------------------------------
(* Types *)

\* What a client that is sent content x goes on with.
LEMMA ReceiveFrame ==
  ASSUME TypeOK, NEW c \in Clients, NEW from, NEW x \in Fingerprints, Receive(c, from, x)
  PROVE  /\ pc[c] = from /\ pc'[c] \in {"ask", "want"}
         /\ pc'[c] = "want" => seen'[c] # 0
         /\ \A d \in Actors \ {c} : pc'[d] = pc[d]
         /\ \A d \in Clients \ {c} : seen'[d] = seen[d] /\ key'[d] = key[d]
         /\ pc' \in [Actors -> PCs] /\ key' \in [Clients -> Keys]
         /\ seen' \in [Clients -> 0..MaxVersion]
<1>1. CASE x.kind = "caps"
  BY <1>1 DEF Receive, Step, TypeOK, PCs, Keys, Actors
<1>2. CASE x.kind # "caps"
  <2>1. x.ver \in Versions /\ x.ver # 0 /\ x.ver \in 0..MaxVersion
    BY <1>2, ContentType DEF Versions
  <2>2. Step(c, from, "want") /\ seen' = [seen EXCEPT ![c] = x.ver] /\ UNCHANGED key
    BY <1>2 DEF Receive
  <2>3. QED
    BY <2>1, <2>2 DEF Step, TypeOK, PCs, Actors
<1>3. QED
  BY <1>1, <1>2

LEMMA CloneType ==
  ASSUME TypeOK, RequestInv, NEW c \in Clients, Clone(c)
  PROVE  TypeOK'
<1> USE BoundsAssumption DEF l1, l2, client, bounds, history
<1>0. /\ c \in Clients \cup Pushers /\ key[c] \in Keys
      /\ pc[c] \in Filed => PackKey(c) \in Fingerprints
  BY DEF TypeOK, RequestInv, PackKey
<1>1. CASE Hit(c)
  BY <1>1, ReceiveFrame DEF Hit, TypeOK, Actors
<1>2. CASE Miss(c)
  BY <1>0, <1>2 DEF Miss, Step, TypeOK, PCs
<1>3. CASE Lead(c)
  BY <1>0, <1>3 DEF Lead, Step, TypeOK, PCs
<1>4. CASE Follow(c)
  BY <1>0, <1>4 DEF Follow, Step, TypeOK, PCs
<1>5. CASE Fetch(c)
  <2> DEFINE x == IF key[c] = "lsrefs" THEN Content("lsrefs", refs)
                  ELSE IF c \in V2 THEN Capabilities ELSE Content("advert", refs)
  <2>1. x \in Fingerprints
    BY ContentType DEF TypeOK
  <2>2. /\ got' = [got EXCEPT ![c] = x]
        /\ produced' = [produced EXCEPT ![key[c]] = @ \cup {Number(x)}]
    BY <1>5 DEF Fetch
  <2>3. Number(x) \in Numbers
    BY <2>1, NumberType
  <2> HIDE DEF x
  <2>4. /\ got' \in [Clients -> Fingerprints \cup {NoRefs}]
        /\ produced' \in [Keys -> SUBSET Numbers]
    BY <1>0, <2>1, <2>2, <2>3 DEF TypeOK
  <2>5. pc' \in [Clients \cup Pushers -> PCs]
    BY <1>0, <1>5 DEF Fetch, Step, TypeOK, PCs
  <2>6. QED
    BY <1>5, <2>4, <2>5 DEF Fetch, TypeOK
<1>6. CASE FetchFails(c)
  <2>1. /\ leader' \in [Keys -> Clients \cup {NoClient}]
        /\ ended' \subseteq Clients \X Keys /\ failed' \subseteq ended'
    BY <1>0, <1>6 DEF FetchFails, EndFlight, TypeOK
  <2>2. pc' \in [Clients \cup Pushers -> PCs] /\ got' \in [Clients -> Fingerprints \cup {NoRefs}]
    BY <1>0, <1>6 DEF FetchFails, Step, TypeOK, PCs
  <2>3. answer' \in [Clients \cup Pushers -> Answers]
    <3>1. Send(c, "error", 0) /\ 0 \in 0..MaxVersion
      BY <1>6 DEF FetchFails
    <3>2. QED
      BY <1>0, <3>1, SendFrame DEF Actors
  <2>4. QED
    BY <1>6, <2>1, <2>2, <2>3 DEF FetchFails, TypeOK
<1>7. CASE Store(c)
  <2>2. pc' \in [Clients \cup Pushers -> PCs] /\ got' \in [Clients -> Fingerprints \cup {NoRefs}]
    BY <1>0, <1>7 DEF Store, Step, TypeOK, PCs
  <2>3. /\ refsCache' \in [Keys -> Fingerprints \cup {NoRefs}]
        /\ storedBy' \in [Keys -> Clients \cup {NoClient}]
    BY <1>0, <1>7 DEF Store, TypeOK
  <2>4. QED
    BY <1>7, <2>2, <2>3 DEF Store, TypeOK
<1>8. CASE Await(c)
  <2>1. answer' \in [Clients \cup Pushers -> Answers]
    BY <1>0, <1>8, SendFrame DEF Await, TypeOK, Actors
  <2>2. pc' \in [Clients \cup Pushers -> PCs]
    <3>1. Step(c, "await", "answered") \/ Step(c, "await", "read")
      BY <1>8 DEF Await
    <3>2. QED
      BY <1>0, <3>1 DEF Step, TypeOK, PCs
  <2>3. QED
    BY <1>0, <1>8, <2>1, <2>2 DEF Await, TypeOK
<1>9. CASE Read(c)
  <2>0. /\ leader' \in [Keys -> Clients \cup {NoClient}]
        /\ ended' \subseteq Clients \X Keys /\ failed \subseteq ended'
    BY <1>0, <1>9 DEF Read, EndFlight, TypeOK
  <2>1. CASE refsCache[key[c]] = NoRefs
    <3>1. answer' \in [Clients \cup Pushers -> Answers]
      <4>1. Send(c, "error", 0)
        BY <1>9, <2>1 DEF Read
      <4>2. QED
        BY <1>0, <4>1, SendFrame DEF Actors
    <3>2. pc' \in [Clients \cup Pushers -> PCs]
      <4>1. Step(c, "read", "answered")
        BY <1>9, <2>1 DEF Read
      <4>2. QED
        BY <1>0, <4>1 DEF Step, TypeOK, PCs
    <3>3. QED
      BY <1>9, <2>0, <2>1, <3>1, <3>2 DEF Read, TypeOK
  <2>2. CASE refsCache[key[c]] # NoRefs
    <3>1. refsCache[key[c]] \in Fingerprints
      BY <1>0, <2>2 DEF TypeOK
    <3>2. Receive(c, "read", refsCache[key[c]])
      BY <1>9, <2>2 DEF Read
    <3>3. /\ pc' \in [Clients \cup Pushers -> PCs] /\ key' \in [Clients -> Keys]
          /\ seen' \in [Clients -> 0..MaxVersion]
      BY <3>1, <3>2, ReceiveFrame DEF Actors
    <3>4. QED
      BY <1>9, <2>0, <2>2, <3>3 DEF Read, TypeOK
  <2>3. QED
    BY <2>1, <2>2
<1>10. CASE Fingerprint(c)
  BY <1>0, <1>10 DEF Fingerprint, FingerprintSource, Step, TypeOK, PCs, Keys
<1>11. CASE Forward(c)
  BY <1>0, <1>11 DEF Forward, Step, Send, Answer, Answers, TypeOK, PCs
<1>12. CASE Lookup(c)
  BY <1>0, <1>12 DEF Lookup, Step, TypeOK, PCs
<1>13. CASE Join(c)
  <2>1. waits' \in [Clients -> Clients \cup {NoClient}]
    BY <1>0, <1>13 DEF Join, TypeOK, Filed
  <2>2. QED
    BY <1>0, <1>13, <2>1 DEF Join, Step, TypeOK, PCs
<1>14. CASE Wait(c)
  BY <1>0, <1>14 DEF Wait, Step, TypeOK, PCs
<1>15. CASE Open(c)
  <2>1. answer' \in [Clients \cup Pushers -> Answers]
    BY <1>0, <1>15, SendFrame DEF Open, Step, Filed, TypeOK, Actors
  <2>2. pc' \in [Clients \cup Pushers -> PCs]
    BY <1>0, <1>15 DEF Open, Step, TypeOK, PCs
  <2>3. QED
    BY <1>0, <1>15, <2>1, <2>2 DEF Open, TypeOK
<1>16. CASE FetchPackFails(c) \/ FetchPack(c)
  <2>1. answer' \in [Clients \cup Pushers -> Answers]
    BY <1>0, <1>16, SendFrame DEF FetchPackFails, FetchPack, TypeOK, Actors
  <2>2. pc' \in [Clients \cup Pushers -> PCs]
    BY <1>0, <1>16 DEF FetchPackFails, FetchPack, Step, TypeOK, PCs
  <2>3. QED
    BY <1>0, <1>16, <2>1, <2>2 DEF FetchPackFails, FetchPack, TypeOK
<1>17. CASE Rename(c)
  BY <1>0, <1>17 DEF Rename, Step, TypeOK, PCs
<1>18. CASE Register(c)
  BY <1>0, <1>18 DEF Register, Step, Filed, TypeOK, PCs
<1>19. CASE Close(c) \/ Delete(c)
  BY <1>0, <1>19 DEF Close, Delete, Step, TypeOK, PCs
<1>20. QED
  BY <1>1, <1>2, <1>3, <1>4, <1>5, <1>6, <1>7, <1>8, <1>9, <1>10, <1>11, <1>12, <1>13, <1>14,
     <1>15, <1>16, <1>17, <1>18, <1>19 DEF Clone, List, Look, Stream

LEMMA NextType == TypeOK /\ RequestInv /\ [Next]_vars => TypeOK'
<1> SUFFICES ASSUME TypeOK, RequestInv, [Next]_vars PROVE TypeOK'
  OBVIOUS
<1> USE BoundsAssumption DEF l1, l2, client, bounds, history
<1>1. ASSUME NEW c \in Clients, Clone(c) PROVE TypeOK'
  BY <1>1, CloneType
<1>2. ASSUME NEW p \in Pushers, Receipt(p) PROVE TypeOK'
  <2>0. p \in Clients \cup Pushers
    OBVIOUS
  <2>a. ASSUME NEW kind \in {"error", "done"}, UNCHANGED answer \/ Send(p, kind, 0)
        PROVE  answer' \in [Clients \cup Pushers -> Answers]
    BY <2>0, <2>a, SendFrame DEF TypeOK, Actors
  <2>1. CASE Push(p)
    <3>1. refs' \in Versions
      <4>1. Change
        BY <2>1 DEF Push
      <4>2. QED
        BY <4>1 DEF Change, Versions, TypeOK
    <3>2. pushed' \in [Pushers -> 0..MaxVersion]
      <4>1. pushed' = [pushed EXCEPT ![p] = refs']
        BY <2>1 DEF Push
      <4>2. QED
        BY <3>1, <4>1 DEF Versions, TypeOK
    <3>3. pc' \in [Clients \cup Pushers -> PCs]
      BY <2>0, <2>1 DEF Push, Step, TypeOK, PCs
    <3>4. answer' \in [Clients \cup Pushers -> Answers]
      BY <2>a, <2>1 DEF Push
    <3>5. QED
      BY <2>1, <3>1, <3>2, <3>3, <3>4 DEF Push, TypeOK
  <2>2. CASE PushFails(p)
    <3>1. pc' \in [Clients \cup Pushers -> PCs]
      BY <2>0, <2>2 DEF PushFails, Step, TypeOK, PCs
    <3>2. answer' \in [Clients \cup Pushers -> Answers]
      BY <2>a, <2>2 DEF PushFails
    <3>3. QED
      BY <2>2, <3>1, <3>2 DEF PushFails, TypeOK
  <2>3. ASSUME NEW k \in Keys, Invalidate(p, k)
        PROVE  /\ refsCache' \in [Keys -> Fingerprints \cup {NoRefs}]
               /\ across' \in [Pushers -> [Keys -> SUBSET Clients]]
    BY <2>3 DEF Invalidate, Removes, TypeOK
  <2>4. CASE InvalidateRefs(p)
    <3>1. pc' \in [Clients \cup Pushers -> PCs]
      BY <2>0, <2>4 DEF InvalidateRefs, Step, TypeOK, PCs
    <3>2. QED
      BY <2>3, <2>4, <3>1 DEF InvalidateRefs, Invalidate, Keys, TypeOK
  <2>5. CASE InvalidateLsRefs(p)
    <3>1. pc' \in [Clients \cup Pushers -> PCs]
      BY <2>0, <2>5 DEF InvalidateLsRefs, Step, TypeOK, PCs
    <3>2. answer' \in [Clients \cup Pushers -> Answers]
      BY <2>a, <2>5 DEF InvalidateLsRefs
    <3>3. QED
      BY <2>3, <2>5, <3>1, <3>2 DEF InvalidateLsRefs, Invalidate, Keys, TypeOK
  <2>6. QED
    BY <1>2, <2>1, <2>2, <2>4, <2>5 DEF Receipt
<1>3. CASE Elsewhere
  BY <1>3 DEF Elsewhere, Change, Versions, TypeOK
<1>4. ASSUME NEW k \in Keys, Expire(k) PROVE TypeOK'
  BY <1>4 DEF Expire, TypeOK
<1>5. ASSUME NEW f \in Fingerprints, Evict(f) PROVE TypeOK'
  BY <1>5 DEF Evict, TypeOK
<1>6. CASE AllAnswered \/ UNCHANGED vars
  BY <1>6 DEF AllAnswered, vars, TypeOK
<1>7. QED
  BY <1>1, <1>2, <1>3, <1>4, <1>5, <1>6 DEF Next

-----------------------------------------------------------------------------
(* Requests *)

\* A step of a client leaves all that is another's alone.
LEMMA CloneFrame ==
  ASSUME TypeOK, NEW c \in Clients, Clone(c)
  PROVE  /\ \A x \in Actors \ {c} : pc'[x] = pc[x] /\ answer'[x] = answer[x]
         /\ \A d \in Clients \ {c} : /\ key'[d] = key[d] /\ waits'[d] = waits[d]
                                     /\ got'[d] = got[d] /\ seen'[d] = seen[d] /\ fp'[d] = fp[d]
         /\ UNCHANGED <<refs, evictions, expiries, pushed, across>>
<1> USE DEF l1, l2, client, bounds, history, Step, Send, TypeOK, Actors
<1>1. CASE List(c)
  BY <1>1 DEF List, Hit, Receive, Miss, Lead, Follow, Fetch, FetchFails, Store, Await, Read
<1>2. CASE Look(c)
  BY <1>2 DEF Look, Fingerprint, Forward, Lookup, Join, Wait, Open
<1>3. CASE Stream(c) \/ Close(c) \/ Delete(c)
  BY <1>3 DEF Stream, FetchPackFails, FetchPack, Rename, Register, Close, Delete
<1>4. QED
  BY <1>1, <1>2, <1>3 DEF Clone

\* So do the steps of pushers and of the world.
OthersStep ==
  \/ \E p \in Pushers : Receipt(p)
  \/ Elsewhere \/ (\E k \in Keys : Expire(k)) \/ (\E f \in Fingerprints : Evict(f))
  \/ AllAnswered \/ UNCHANGED vars

LEMMA OthersFrame ==
  ASSUME TypeOK, OthersStep
  PROVE  /\ \A c \in Clients : pc'[c] = pc[c] /\ answer'[c] = answer[c]
         /\ UNCHANGED <<storedBy, leader, ended, failed, packFlights, closed, client, kept,
                        produced>>
<1> USE ClientsAssumption DEF l1, l2, client, bounds, history, Step, Send, TypeOK
<1>1. ASSUME NEW p \in Pushers, Receipt(p)
      PROVE  /\ \A c \in Clients : pc'[c] = pc[c] /\ answer'[c] = answer[c]
             /\ UNCHANGED <<storedBy, leader, ended, failed, packFlights, closed, client, kept,
                            produced>>
  <2>1. UNCHANGED <<storedBy, leader, ended, failed, packFlights, closed, client, kept, produced>>
    BY <1>1 DEF Receipt, Push, PushFails, InvalidateRefs, InvalidateLsRefs, Invalidate
  <2>2. /\ \E to : pc' = [pc EXCEPT ![p] = to]
        /\ UNCHANGED answer \/ \E a : answer' = [answer EXCEPT ![p] = a]
    BY <1>1 DEF Receipt, Push, PushFails, InvalidateRefs, InvalidateLsRefs, Invalidate
  <2>3. \A c \in Clients : c # p
    OBVIOUS
  <2>4. QED
    BY <2>1, <2>2, <2>3
<1>2. CASE ~\E p \in Pushers : Receipt(p)
  BY <1>2 DEF OthersStep, Elsewhere, Expire, Evict, AllAnswered, vars
<1>3. QED
  BY <1>1, <1>2

\* What List does: no fingerprint, and the wants come last.
LEMMA ListFrame ==
  ASSUME TypeOK, NEW c \in Clients, List(c)
  PROVE  /\ pc[c] \in {"ask", "miss", "fetch", "store", "await", "read"}
         /\ pc'[c] \in {"ask", "miss", "fetch", "store", "await", "read", "want", "answered"}
         /\ pc'[c] = "want" => seen'[c] # 0
         /\ answer'[c] = answer[c] \/ answer'[c].kind = "error"
         /\ UNCHANGED <<fp, packEntries, packFiles, packFlights, closed, kept>>
<1> USE DEF l1, l2, client, bounds, history
<1>0. c \in Actors /\ key[c] \in Keys
  BY DEF TypeOK, Actors
<1>1. ASSUME Send(c, "error", 0) PROVE answer'[c].kind = "error"
  BY <1>0, <1>1 DEF Send, Answer, TypeOK, Actors
<1>2. CASE Hit(c)
  <2>1. refsCache[key[c]] \in Fingerprints
    BY <1>0, <1>2 DEF Hit, TypeOK
  <2>2. QED
    BY <1>2, <2>1, ReceiveFrame DEF Hit
<1>3. CASE Read(c)
  <2>1. CASE refsCache[key[c]] = NoRefs
    <3>1. Step(c, "read", "answered") /\ Send(c, "error", 0)
      BY <1>3, <2>1 DEF Read
    <3>2. QED
      BY <1>0, <1>1, <1>3, <3>1 DEF Read, Step, TypeOK, Actors
  <2>2. CASE refsCache[key[c]] # NoRefs
    <3>1. refsCache[key[c]] \in Fingerprints
      BY <1>0, <2>2 DEF TypeOK
    <3>2. Receive(c, "read", refsCache[key[c]]) /\ UNCHANGED answer
      BY <1>3, <2>2 DEF Read
    <3>3. QED
      BY <1>3, <3>1, <3>2, ReceiveFrame DEF Read
  <2>3. QED
    BY <2>1, <2>2
<1>4. CASE Miss(c) \/ Lead(c) \/ Follow(c) \/ Fetch(c) \/ Store(c)
  BY <1>0, <1>4 DEF Miss, Lead, Follow, Fetch, Store, Step, TypeOK, Actors
<1>5. CASE FetchFails(c)
  BY <1>0, <1>1, <1>5 DEF FetchFails, Step, TypeOK, Actors
<1>6. CASE Await(c)
  <2>1. \/ Step(c, "await", "answered") /\ Send(c, "error", 0)
        \/ Step(c, "await", "read") /\ UNCHANGED answer
    BY <1>6 DEF Await
  <2>2. QED
    BY <1>0, <1>1, <1>6, <2>1 DEF Await, Step, TypeOK, Actors
<1>7. QED
  BY <1>2, <1>3, <1>4, <1>5, <1>6 DEF List

\* What the handling of upload-pack does to its own request.
LEMMA PackFrame ==
  ASSUME TypeOK, NEW c \in Clients, Look(c) \/ Stream(c) \/ Close(c) \/ Delete(c)
  PROVE  /\ pc[c] \in Filed \cup {"want"} /\ pc'[c] \in Filed \cup {"answered"}
         /\ pc[c] = "want" /\ pc'[c] \in Filed => fp'[c] # NoRefs
         /\ pc[c] # "want" => fp'[c] = fp[c]
         /\ pc[c] = "want" /\ pc'[c] = "answered" => fp'[c] = fp[c] /\ answer'[c].kind = "direct"
         /\ answer'[c] = answer[c] \/ answer'[c].kind \in {"direct", "error", "miss"}
              \/ pc'[c] = "answered"
         /\ UNCHANGED <<l1, seen, key, got, produced>>
<1> USE DEF l1, l2, client, bounds, history
<1>0. c \in Actors
  BY DEF Actors
<1>1. ASSUME NEW kind, NEW ver, Send(c, kind, ver) PROVE answer'[c].kind = kind
  BY <1>0, <1>1 DEF Send, Answer, TypeOK, Actors
<1>2. CASE Fingerprint(c)
  BY <1>0, <1>2 DEF Fingerprint, Step, Filed, TypeOK, Actors
<1>3. CASE Forward(c)
  BY <1>0, <1>1, <1>3 DEF Forward, Step, Filed, TypeOK, Actors
<1>4. CASE Lookup(c) \/ Wait(c) \/ Open(c)
  BY <1>0, <1>4 DEF Lookup, Wait, Open, Step, Filed, TypeOK, Actors
<1>5. CASE Join(c)
  <2>1. Step(c, "join", "fetchpack") \/ Step(c, "join", "wait")
    BY <1>5 DEF Join
  <2>2. QED
    BY <1>0, <1>5, <2>1 DEF Join, Step, Filed, TypeOK, Actors
<1>6. CASE FetchPackFails(c) \/ FetchPack(c)
  BY <1>0, <1>1, <1>6 DEF FetchPackFails, FetchPack, Step, Filed, TypeOK, Actors
<1>7. CASE Rename(c) \/ Register(c) \/ Close(c) \/ Delete(c)
  BY <1>0, <1>7 DEF Rename, Register, Close, Delete, Step, Filed, TypeOK, Actors
<1>8. QED
  BY <1>2, <1>3, <1>4, <1>5, <1>6, <1>7 DEF Look, Stream

LEMMA NextRequest == TypeOK /\ RequestInv /\ [Next]_vars => RequestInv'
<1> SUFFICES ASSUME TypeOK, RequestInv, [Next]_vars PROVE RequestInv'
  OBVIOUS
<1> USE ClientsAssumption
<1>1. ASSUME NEW c \in Clients, Clone(c) PROVE RequestInv'
  <2>1. \A d \in Clients \ {c} : /\ pc'[d] = pc[d] /\ fp'[d] = fp[d] /\ seen'[d] = seen[d]
                                /\ answer'[d] = answer[d]
    BY <1>1, CloneFrame DEF Actors
  <2>2. \A p \in Pushers : pc'[p] = pc[p] /\ answer'[p] = answer[p]
    BY <1>1, CloneFrame DEF Actors
  <2>3. ASSUME /\ pc'[c] \notin Pushing
               /\ fp'[c] # NoRefs => pc'[c] \in Filed \cup {"answered"}
               /\ pc'[c] \in Filed => fp'[c] # NoRefs
               /\ pc'[c] \in Filed \cup {"want"} => seen'[c] # 0
               /\ answer'[c].kind \in {"cached", "broken"} => pc'[c] = "answered"
        PROVE  RequestInv'
    BY <2>1, <2>2, <2>3 DEF RequestInv
  <2>4. CASE List(c)
    <3>1. pc'[c] \notin Pushing /\ pc'[c] \notin Filed /\ pc[c] \notin Filed \cup {"answered"}
      BY <2>4, ListFrame DEF Pushing, Filed
    <3>2. fp'[c] = NoRefs
      BY <2>4, <3>1, ListFrame DEF RequestInv
    <3>3. answer'[c].kind \notin {"cached", "broken"}
      BY <2>4, <3>1, ListFrame DEF RequestInv
    <3>4. QED
      BY <2>3, <2>4, <3>1, <3>2, <3>3, ListFrame
  <2>5. CASE Look(c) \/ Stream(c) \/ Close(c) \/ Delete(c)
    <3>1. pc'[c] \notin Pushing
      BY <2>5, PackFrame DEF Pushing, Filed
    <3>2. answer'[c].kind \in {"cached", "broken"} => pc'[c] = "answered"
      BY <2>5, PackFrame DEF RequestInv, Filed
    <3>3. QED
      BY <2>3, <2>5, <3>1, <3>2, PackFrame DEF RequestInv
  <2>6. QED
    BY <1>1, <2>4, <2>5 DEF Clone
<1>2. CASE OthersStep
  <2>1. \A c \in Clients : /\ pc'[c] = pc[c] /\ fp'[c] = fp[c] /\ seen'[c] = seen[c]
                          /\ answer'[c] = answer[c]
    BY <1>2, OthersFrame DEF client
  <2>2. ASSUME NEW p \in Pushers
        PROVE  /\ pc'[p] \in Pushing \cup {"answered"}
               /\ answer'[p].kind = "done" => pc'[p] = "answered"
    <3>1. ASSUME NEW q \in Pushers, Receipt(q)
          PROVE  /\ pc[q] # "answered" /\ pc'[q] \in Pushing \cup {"answered"}
                 /\ answer'[q] = answer[q] \/ pc'[q] = "answered"
                 /\ \A x \in Pushers \ {q} : pc'[x] = pc[x] /\ answer'[x] = answer[x]
      BY <3>1 DEF Receipt, Push, PushFails, InvalidateRefs, InvalidateLsRefs, Step, Send, Pushing,
         TypeOK
    <3>2. CASE UNCHANGED <<pc, answer>>
      BY <3>2 DEF RequestInv
    <3>3. QED
      BY <1>2, <3>1, <3>2 DEF OthersStep, Elsewhere, Expire, Evict, AllAnswered, vars, RequestInv
  <2>3. QED
    BY <2>1, <2>2 DEF RequestInv
<1>3. QED
  BY <1>1, <1>2 DEF Next, OthersStep

\* Once filed, a request keeps its fingerprint and its wants.
LEMMA FiledStays ==
  ASSUME TypeOK, RequestInv, [Next]_vars, NEW c \in Clients, fp[c] # NoRefs
  PROVE  fp'[c] = fp[c] /\ seen'[c] = seen[c]
<1>1. ASSUME NEW d \in Clients, Clone(d) PROVE fp'[c] = fp[c] /\ seen'[c] = seen[c]
  <2>1. CASE c # d
    BY <1>1, <2>1, CloneFrame
  <2>2. CASE c = d
    <3>1. pc[c] \in Filed \cup {"answered"}
      BY DEF RequestInv
    <3>2. ~List(d)
      BY <2>2, <3>1, ListFrame DEF Filed
    <3>3. pc[c] # "want"
      BY <3>1 DEF Filed
    <3>4. QED
      BY <1>1, <2>2, <3>2, <3>3, PackFrame DEF Clone
  <2>3. QED
    BY <2>1, <2>2
<1>2. CASE OthersStep
  BY <1>2, OthersFrame DEF client
<1>3. QED
  BY <1>1, <1>2 DEF Next, OthersStep

-----------------------------------------------------------------------------
(* Files, entries and flights of packs *)

\* Who changes the files and the entries of packs, and the evictions so far.
LEMMA PacksStep ==
  ASSUME TypeOK, RequestInv, [Next]_vars
  PROVE  \/ /\ UNCHANGED <<packEntries, packFiles, evictions>>
            /\ \A c \in Clients : ~Rename(c) /\ ~Register(c)
         \/ \E c \in Clients :
              /\ Rename(c) /\ pc[c] = "rename" /\ pc'[c] = "register" /\ fp[c] \in Fingerprints
              /\ packFiles' = [packFiles EXCEPT ![fp[c]] = seen[c]]
              /\ UNCHANGED <<packEntries, evictions, fp>>
         \/ \E c \in Clients :
              /\ Register(c) /\ pc[c] = "register" /\ pc'[c] = "close" /\ fp[c] \in Fingerprints
              /\ packEntries' = packEntries \cup {fp[c]} /\ kept' = kept \cup {c}
              /\ UNCHANGED <<packFiles, evictions, fp>>
         \/ \E f \in Fingerprints :
              evictions' > 0 /\ packFiles' = [packFiles EXCEPT ![f] = 0]
<1> USE DEF l1, l2, client, bounds, history
<1>1. ASSUME NEW c \in Clients, Rename(c)
      PROVE  /\ pc[c] = "rename" /\ pc'[c] = "register" /\ fp[c] \in Fingerprints
             /\ packFiles' = [packFiles EXCEPT ![fp[c]] = seen[c]]
             /\ UNCHANGED <<packEntries, evictions, fp>>
  BY <1>1 DEF Rename, Step, PackKey, TypeOK, RequestInv, Filed
<1>2. ASSUME NEW c \in Clients, Register(c)
      PROVE  /\ pc[c] = "register" /\ pc'[c] = "close" /\ fp[c] \in Fingerprints
             /\ packEntries' = packEntries \cup {fp[c]} /\ kept' = kept \cup {c}
             /\ UNCHANGED <<packFiles, evictions, fp>>
  BY <1>2 DEF Register, Step, PackKey, TypeOK, RequestInv, Filed
<1>3. ASSUME NEW f \in Fingerprints, Evict(f)
      PROVE  evictions' > 0 /\ packFiles' = [packFiles EXCEPT ![f] = 0]
  BY <1>3 DEF Evict, TypeOK
<1>4. ASSUME NEW c \in Clients, Clone(c), ~Rename(c), ~Register(c)
      PROVE  UNCHANGED <<packEntries, packFiles, evictions>>
  <2>1. UNCHANGED evictions
    BY <1>4, CloneFrame
  <2>2. UNCHANGED <<packEntries, packFiles>>
    BY <1>4, ListFrame DEF Clone, Look, Stream, Fingerprint, Forward, Lookup, Join, Wait, Open,
       FetchPackFails, FetchPack, Close, Delete
  <2>3. QED
    BY <2>1, <2>2
<1>5. ASSUME OthersStep, ~\E f \in Fingerprints : Evict(f)
      PROVE  UNCHANGED <<packEntries, packFiles, evictions>>
  BY <1>5 DEF OthersStep, Receipt, Push, PushFails, InvalidateRefs, InvalidateLsRefs,
     Invalidate, Elsewhere, Expire, AllAnswered, vars
<1>6. QED
  BY <1>1, <1>2, <1>3, <1>4, <1>5 DEF Next, OthersStep

LEMMA NextFile == TypeOK /\ RequestInv /\ FileInv /\ [Next]_vars => FileInv'
<1> SUFFICES ASSUME TypeOK, RequestInv, FileInv, [Next]_vars,
                    NEW f \in Fingerprints, packFiles'[f] # 0
             PROVE  \E d \in Clients : fp'[d] = f /\ seen'[d] = packFiles'[f]
  BY DEF FileInv
<1>1. CASE packFiles'[f] = packFiles[f]
  <2>1. PICK d \in Clients : fp[d] = f /\ seen[d] = packFiles[f]
    BY <1>1 DEF FileInv
  <2>2. QED
    BY <1>1, <2>1, FiledStays, ContentType
<1>2. CASE packFiles'[f] # packFiles[f]
  <2>1. PICK c \in Clients : fp[c] = f /\ packFiles'[f] = seen[c]
    BY <1>2, PacksStep DEF TypeOK
  <2>2. QED
    BY <2>1, FiledStays, ContentType
<1>3. QED
  BY <1>1, <1>2

LEMMA NextFlight == TypeOK /\ RequestInv /\ FlightInv /\ [Next]_vars => FlightInv'
<1> SUFFICES ASSUME TypeOK, RequestInv, FlightInv, [Next]_vars PROVE FlightInv'
  OBVIOUS
<1> USE ClientsAssumption DEF l1, l2, client, bounds, history
<1>0. \A d \in Clients : fp[d] # NoRefs => fp'[d] = fp[d]
  BY FiledStays
<1>1. ASSUME NEW c \in Clients, Clone(c) PROVE FlightInv'
  <2>0. \A d \in Clients \ {c} : pc'[d] = pc[d] /\ waits'[d] = waits[d]
    BY <1>1, CloneFrame DEF Actors
  <2>1. \A f \in Fingerprints : packFlights'[f] # NoClient => fp'[packFlights'[f]] = f
    <3>1. ASSUME NEW f \in Fingerprints, packFlights'[f] # NoClient
          PROVE  \/ packFlights'[f] = packFlights[f]
                 \/ packFlights'[f] = c /\ fp[c] = f
      <4>1. CASE List(c)
        BY <4>1, ListFrame
      <4>2. CASE Join(c)
        BY <3>1, <4>2 DEF Join, PackKey, TypeOK
      <4>3. CASE Delete(c)
        BY <3>1, <4>3 DEF Delete, PackKey, TypeOK
      <4>4. CASE ~Join(c) /\ ~Delete(c) /\ ~List(c)
        BY <1>1, <4>4 DEF Clone, Look, Stream, Fingerprint, Forward, Lookup, Wait, Open,
           FetchPackFails, FetchPack, Rename, Register, Close
      <4>5. QED
        BY <4>1, <4>2, <4>3, <4>4
    <3>2. ASSUME NEW f \in Fingerprints, packFlights'[f] # NoClient
          PROVE  fp'[packFlights'[f]] = f
      <4>1. packFlights'[f] \in Clients
        BY <3>1, <3>2 DEF TypeOK
      <4>2. fp[packFlights'[f]] = f
        BY <3>1, <3>2 DEF FlightInv
      <4>3. QED
        BY <1>0, <4>1, <4>2, ContentType
    <3>3. QED
      BY <3>2
  <2>2. closed' \subseteq closed \cup {c} /\ kept' \subseteq kept \cup {c} /\ closed \subseteq closed'
    BY <1>1, ListFrame DEF Clone, Look, Stream, Fingerprint, Forward, Lookup, Join, Wait, Open,
       FetchPackFails, FetchPack, Rename, Register, Close, Delete
  <2>3. ASSUME NEW d \in Clients \ {c}
        PROVE  /\ d \in closed' => pc'[d] \in {"delete", "answered"}
               /\ d \in kept' => fp'[d] # NoRefs
               /\ pc'[d] = "wait" => waits'[d] # NoClient /\ fp'[waits'[d]] = fp'[d]
               /\ pc'[d] = "fetchpack" /\ waits'[d] # NoClient => waits'[d] \in closed'
    <3>1. pc[d] \in Filed => fp[d] # NoRefs
      BY DEF RequestInv
    <3>2. pc'[d] = pc[d] /\ waits'[d] = waits[d] /\ waits[d] \in Clients \cup {NoClient}
      BY <2>0 DEF TypeOK
    <3>3. QED
      BY <1>0, <2>2, <3>1, <3>2 DEF FlightInv, Filed
  <2>4. c \in closed' => pc'[c] \in {"delete", "answered"}
    <3>1. CASE c \in closed
      <4>1. Delete(c)
        <5>1. pc[c] \in {"delete", "answered"}
          BY <3>1 DEF FlightInv
        <5>2. QED
          BY <1>1, <5>1, ListFrame DEF Clone, Look, Stream, Fingerprint, Forward, Lookup, Join, Wait,
             Open, FetchPackFails, FetchPack, Rename, Register, Close, Step
      <4>2. QED
        BY <4>1 DEF Delete, Step, TypeOK
    <3>2. CASE Close(c)
      BY <3>2 DEF Close, Step, TypeOK
    <3>3. CASE c \notin closed /\ ~Close(c)
      BY <1>1, <3>3, ListFrame DEF Clone, Look, Stream, Fingerprint, Forward, Lookup, Join, Wait,
         Open, FetchPackFails, FetchPack, Rename, Register, Delete
    <3>4. QED
      BY <3>1, <3>2, <3>3
  <2>5. c \in kept' => fp'[c] # NoRefs
    <3>1. CASE c \in kept
      BY <1>0, <3>1 DEF FlightInv
    <3>2. CASE Register(c)
      BY <1>0, <3>2 DEF Register, Step, RequestInv, Filed
    <3>3. CASE c \notin kept /\ ~Register(c)
      BY <1>1, <3>3, ListFrame DEF Clone, Look, Stream, Fingerprint, Forward, Lookup, Join, Wait,
         Open, FetchPackFails, FetchPack, Rename, Close, Delete
    <3>4. QED
      BY <3>1, <3>2, <3>3
  <2>6. CASE Join(c)
    <3>1. /\ fp[c] \in Fingerprints /\ fp'[c] = fp[c] /\ PackKey(c) = fp[c]
      BY <2>6, <1>0 DEF Join, RequestInv, Filed, TypeOK, PackKey
    <3>2. CASE packFlights[fp[c]] = NoClient
      <4>1. pc'[c] = "fetchpack" /\ waits'[c] = NoClient
        BY <2>6, <3>1, <3>2 DEF Join, Step, TypeOK
      <4>2. QED
        BY <2>1, <2>3, <2>4, <2>5, <4>1 DEF FlightInv
    <3>3. CASE packFlights[fp[c]] # NoClient
      <4>1. pc'[c] = "wait" /\ waits'[c] = packFlights[fp[c]] /\ waits'[c] \in Clients
        BY <2>6, <3>1, <3>3 DEF Join, Step, TypeOK
      <4>2. fp[waits'[c]] = fp[c] /\ fp'[waits'[c]] = fp[waits'[c]]
        BY <1>0, <3>1, <3>3, <4>1, ContentType DEF FlightInv
      <4>3. QED
        BY <2>1, <2>3, <2>4, <2>5, <3>1, <4>1, <4>2 DEF FlightInv
    <3>4. QED
      BY <3>2, <3>3
  <2>7. CASE Wait(c)
    <3>1. pc'[c] \in {"open", "fetchpack"} /\ waits'[c] = waits[c] /\ waits[c] \in closed'
      BY <2>2, <2>7 DEF Wait, Step, TypeOK
    <3>2. QED
      BY <2>1, <2>3, <2>4, <2>5, <3>1 DEF FlightInv
  <2>8. CASE ~Join(c) /\ ~Wait(c)
    <3>1. pc'[c] \notin {"wait", "fetchpack"}
      BY <1>1, <2>8, ListFrame DEF Clone, Look, Stream, Fingerprint, Forward, Lookup, Open,
         FetchPackFails, FetchPack, Rename, Register, Close, Delete, Step, TypeOK
    <3>2. QED
      BY <2>1, <2>3, <2>4, <2>5, <3>1 DEF FlightInv
  <2>9. QED
    BY <2>6, <2>7, <2>8
<1>2. CASE OthersStep
  BY <1>2, OthersFrame DEF FlightInv
<1>3. QED
  BY <1>1, <1>2 DEF Next, OthersStep

LEMMA NextEntry ==
  TypeOK /\ RequestInv /\ FlightInv /\ EntryInv /\ [Next]_vars => EntryInv'
<1> SUFFICES ASSUME TypeOK, RequestInv, FlightInv, EntryInv, [Next]_vars, evictions' = 0
             PROVE  /\ \A f \in packEntries' : packFiles'[f] # 0
                    /\ \A c \in Clients :
                         /\ c \in kept' => fp'[c] \in packEntries'
                         /\ pc'[c] = "register" => packFiles'[fp'[c]] # 0
                         /\ pc'[c] = "open" => fp'[c] \in packEntries'
  BY DEF EntryInv
<1> USE DEF l1, l2, client, bounds, history
<1>1. UNCHANGED evictions
  BY PacksStep
<1>2. /\ \A f \in packEntries : packFiles[f] # 0
      /\ \A c \in Clients : /\ c \in kept => fp[c] \in packEntries
                            /\ pc[c] = "register" => packFiles[fp[c]] # 0
                            /\ pc[c] = "open" => fp[c] \in packEntries
  BY <1>1 DEF EntryInv
<1>3. packEntries \subseteq packEntries' /\ \A f \in Fingerprints : packFiles[f] # 0 => packFiles'[f] # 0
  BY PacksStep DEF TypeOK, RequestInv, Filed
<1>4. \A f \in packEntries' : packFiles'[f] # 0
  <2>1. ASSUME NEW f \in packEntries' \ packEntries PROVE packFiles'[f] # 0
    BY <1>2, <2>1, PacksStep
  <2>2. QED
    BY <1>2, <1>3, <2>1 DEF TypeOK
<1>5. \A c \in Clients : fp[c] # NoRefs => fp'[c] = fp[c] /\ fp[c] \in Fingerprints
  BY FiledStays DEF TypeOK
<1>6. ASSUME NEW c \in Clients, c \in kept' PROVE fp'[c] \in packEntries'
  <2>1. CASE c \in kept
    BY <1>2, <1>3, <1>5, <2>1 DEF FlightInv
  <2>2. CASE c \notin kept
    <3>1. Register(c)
      BY <1>6, <2>2, ListFrame, OthersFrame DEF Next, OthersStep, Clone, Look, Stream, Fingerprint,
         Forward, Lookup, Join, Wait, Open, FetchPackFails, FetchPack, Rename, Register, Close,
         Delete
    <3>2. QED
      BY <3>1 DEF Register, PackKey
  <2>3. QED
    BY <2>1, <2>2
<1>7. ASSUME NEW c \in Clients, pc'[c] = "register" PROVE packFiles'[fp'[c]] # 0
  <2>1. CASE pc[c] = "register"
    BY <1>2, <1>3, <1>5, <2>1 DEF RequestInv, Filed
  <2>2. CASE pc[c] # "register"
    <3>1. ASSUME NEW d \in Clients, Clone(d) PROVE Rename(c)
      <4>1. c = d
        BY <1>7, <2>2, <3>1, CloneFrame DEF Actors
      <4>2. QED
        BY <1>7, <2>2, <3>1, <4>1, ListFrame DEF Clone, Look, Stream, Fingerprint, Forward, Lookup,
           Join, Wait, Open, FetchPackFails, FetchPack, Register, Close, Delete, Step, TypeOK
    <3>2. Rename(c)
      BY <1>7, <2>2, <3>1, OthersFrame DEF Next, OthersStep
    <3>3. fp'[c] = fp[c] /\ fp[c] \in Fingerprints /\ seen[c] # 0
      BY <1>5, <3>2 DEF Rename, Step, RequestInv, Filed
    <3>4. QED
      BY <3>2, <3>3 DEF Rename, PackKey, TypeOK
  <2>3. QED
    BY <2>1, <2>2
<1>8. ASSUME NEW c \in Clients, pc'[c] = "open" PROVE fp'[c] \in packEntries'
  <2>1. CASE pc[c] = "open"
    BY <1>2, <1>3, <1>5, <2>1 DEF RequestInv, Filed
  <2>2. CASE pc[c] # "open"
    <3>1. ASSUME NEW d \in Clients, Clone(d) PROVE Lookup(c) \/ Wait(c)
      <4>1. c = d
        BY <1>8, <2>2, <3>1, CloneFrame DEF Actors
      <4>2. QED
        BY <1>8, <2>2, <3>1, <4>1, ListFrame DEF Clone, Look, Stream, Fingerprint, Forward, Join,
           Open, FetchPackFails, FetchPack, Rename, Register, Close, Delete, Step, TypeOK
    <3>2. Lookup(c) \/ Wait(c)
      BY <1>8, <2>2, <3>1, OthersFrame DEF Next, OthersStep
    <3>3. fp[c] \in packEntries /\ fp'[c] = fp[c]
      BY <1>8, <3>2 DEF Lookup, Wait, Step, PackKey, TypeOK
    <3>4. QED
      BY <1>3, <3>3
  <2>3. QED
    BY <2>1, <2>2
<1>9. QED
  BY <1>4, <1>6, <1>7, <1>8

-----------------------------------------------------------------------------
(* Pushes *)

LEMMA NextRefs == TypeOK /\ RequestInv /\ RefsInv /\ [Next]_vars => RefsInv'
<1> SUFFICES ASSUME TypeOK, RequestInv, RefsInv, [Next]_vars PROVE RefsInv'
  OBVIOUS
<1> USE ClientsAssumption, ContentType DEF l1, l2, client, bounds, history
<1>1. ASSUME NEW c \in Clients, Clone(c) PROVE RefsInv'
  <2>0. /\ UNCHANGED <<refs, pushed, across>>
        /\ \A p \in Pushers, k \in Keys : Removed(p, k)' <=> Removed(p, k)
        /\ \A d \in Clients \ {c} : pc'[d] = pc[d] /\ key'[d] = key[d] /\ got'[d] = got[d]
    BY <1>1, CloneFrame DEF Removed, Actors
  <2>1. CASE UNCHANGED <<refsCache, storedBy>> /\ pc'[c] # "store"
    BY <2>0, <2>1 DEF RefsInv
  <2>2. CASE Fetch(c)
    <3>1. UNCHANGED <<refsCache, storedBy, key>> /\ got'[c].ver \in {0, refs}
      BY <2>2 DEF Fetch, TypeOK, Content, Capabilities
    <3>2. \A p \in Pushers : got'[c].ver \notin 1..(pushed[p] - 1)
      BY <3>1 DEF RefsInv, TypeOK, Versions
    <3>3. QED
      BY <2>0, <3>1, <3>2 DEF RefsInv
  <2>3. CASE Store(c)
    <3>1. /\ pc[c] = "store" /\ pc'[c] = "read" /\ UNCHANGED key
          /\ refsCache' = [refsCache EXCEPT ![key[c]] = got[c]]
          /\ storedBy' = [storedBy EXCEPT ![key[c]] = c]
      BY <2>3 DEF Store, Step, TypeOK
    <3>2. ASSUME NEW p \in Pushers, NEW k \in Keys, Removed(p, k),
                 refsCache'[k].ver \in 1..(pushed[p] - 1)
          PROVE  storedBy'[k] \in across[p][k]
      <4>1. CASE k = key[c]
        BY <3>1, <3>2, <4>1 DEF RefsInv, TypeOK
      <4>2. CASE k # key[c]
        BY <3>1, <3>2, <4>2 DEF RefsInv, TypeOK
      <4>3. QED
        BY <4>1, <4>2
    <3>3. QED
      BY <2>0, <3>1, <3>2 DEF RefsInv
  <2>4. CASE ~Fetch(c) /\ ~Store(c)
    <3>1. CASE List(c)
      <4>1. UNCHANGED <<refsCache, storedBy>>
        BY <2>4, <3>1 DEF List, Hit, Miss, Lead, Follow, FetchFails, Await, Read
      <4>2. \E to : to # "store" /\ pc' = [pc EXCEPT ![c] = to]
        BY <2>4, <3>1 DEF List, Hit, Miss, Lead, Follow, FetchFails, Await, Read, Receive, Step
      <4>3. QED
        BY <2>1, <4>1, <4>2 DEF TypeOK
    <3>2. CASE ~List(c)
      <4>1. UNCHANGED <<refsCache, storedBy>> /\ pc'[c] \in Filed \cup {"answered"}
        BY <1>1, <3>2, PackFrame DEF Clone
      <4>2. QED
        BY <2>1, <4>1 DEF Filed
    <3>3. QED
      BY <3>1, <3>2
  <2>5. QED
    BY <2>2, <2>3, <2>4
<1>2. ASSUME NEW p \in Pushers, Receipt(p) PROVE RefsInv'
  <2>0. /\ \A c \in Clients : pc'[c] = pc[c]
        /\ UNCHANGED <<storedBy, key, got>>
    BY <1>2, OthersFrame DEF OthersStep
  <2>1. \A q \in Pushers \ {p} : /\ pc'[q] = pc[q] /\ answer'[q] = answer[q]
                                 /\ pushed'[q] = pushed[q] /\ across'[q] = across[q]
    BY <1>2 DEF Receipt, Push, PushFails, InvalidateRefs, InvalidateLsRefs, Invalidate, Step, Send,
       TypeOK
  <2>2. \A q \in Pushers \ {p}, k \in Keys : Removed(q, k)' <=> Removed(q, k)
    BY <2>1 DEF Removed
  <2>3. CASE Push(p) \/ PushFails(p)
    <3>1. refs' \in {refs, refs + 1} /\ pushed'[p] \in {pushed[p], refs'} /\ UNCHANGED refsCache
      BY <2>3 DEF Push, PushFails, Change, TypeOK
    <3>2. /\ pc[p] = "push" /\ pc'[p] \in {"invalidate refs", "answered"}
          /\ UNCHANGED answer \/ Send(p, "error", 0)
      BY <2>3 DEF Push, PushFails, Step, TypeOK
    <3>3. answer'[p].kind # "done"
      <4>1. answer[p].kind # "done"
        BY <3>2 DEF RequestInv
      <4>2. Send(p, "error", 0) => answer'[p].kind = "error"
        BY DEF Send, Answer, TypeOK
      <4>3. QED
        BY <3>2, <4>1, <4>2
    <3>4. \A k \in Keys : ~Removed(p, k)'
      BY <3>2, <3>3 DEF Removed
    <3>5. ASSUME NEW q \in Pushers PROVE pushed'[q] <= refs'
      <4>1. pushed[q] <= refs /\ refs \in Nat /\ pushed[q] \in Nat
        BY DEF RefsInv, TypeOK, Versions
      <4>2. pushed'[q] \in {pushed[q], refs'}
        BY <2>1, <3>1
      <4>3. QED
        BY <3>1, <4>1, <4>2
    <3>6. QED
      BY <2>0, <2>1, <2>2, <3>1, <3>4, <3>5 DEF RefsInv
  <2>4. ASSUME NEW k \in Keys, Invalidate(p, k),
               \A x \in Keys \ {k} : Removed(p, x)' => Removed(p, x)
        PROVE  RefsInv'
    <3>1. /\ UNCHANGED <<refs, pushed>>
          /\ refsCache' = [refsCache EXCEPT ![k] = NoRefs]
          /\ across'[p][k] = {c \in Clients : pc[c] = "store" /\ key[c] = k}
          /\ \A x \in Keys \ {k} : across'[p][x] = across[p][x]
      BY <2>4 DEF Invalidate, Removes, TypeOK
    <3>2. \A x \in Keys : refsCache'[x] \in {refsCache[x], NoRefs}
      BY <3>1 DEF TypeOK
    <3>3. refsCache'[k].ver = 0
      BY <3>1 DEF TypeOK
    <3>4. ASSUME NEW q \in Pushers, NEW x \in Keys, Removed(q, x)'
          PROVE  /\ refsCache'[x].ver \in 1..(pushed'[q] - 1) => storedBy'[x] \in across'[q][x]
                 /\ \A c \in Clients :
                      pc'[c] = "store" /\ key'[c] = x /\ got'[c].ver \in 1..(pushed'[q] - 1)
                        => c \in across'[q][x]
      <4>1. CASE q = p /\ x = k
        BY <2>0, <3>1, <3>3, <4>1
      <4>2. CASE ~(q = p /\ x = k)
        <5>1. Removed(q, x) /\ across'[q][x] = across[q][x] /\ pushed'[q] = pushed[q]
          BY <2>1, <2>2, <2>4, <3>1, <3>4, <4>2
        <5>2. refsCache'[x].ver \in 1..(pushed'[q] - 1) => refsCache'[x] = refsCache[x]
          BY <3>2
        <5>3. QED
          BY <2>0, <5>1, <5>2 DEF RefsInv
      <4>3. QED
        BY <4>1, <4>2
    <3>5. QED
      BY <3>1, <3>4 DEF RefsInv
  <2>5. CASE InvalidateRefs(p)
    <3>1. Invalidate(p, "refs") /\ pc'[p] = "invalidate lsrefs" /\ UNCHANGED answer
      BY <2>5 DEF InvalidateRefs, Step, TypeOK
    <3>2. QED
      BY <2>4, <3>1 DEF Removed, Keys
  <2>6. CASE InvalidateLsRefs(p)
    <3>1. Invalidate(p, "lsrefs") /\ pc[p] = "invalidate lsrefs"
      BY <2>6 DEF InvalidateLsRefs, Step
    <3>2. QED
      BY <2>4, <3>1 DEF Removed, Keys
  <2>7. QED
    BY <1>2, <2>3, <2>5, <2>6 DEF Receipt
<1>3. CASE OthersStep /\ ~\E p \in Pushers : Receipt(p)
  <2>1. /\ UNCHANGED <<pc, answer, pushed, across, storedBy, key, got>>
        /\ refs' \in {refs, refs + 1}
        /\ \A k \in Keys : refsCache'[k] \in {refsCache[k], NoRefs}
    BY <1>3 DEF OthersStep, Elsewhere, Change, Expire, Evict, AllAnswered, vars, TypeOK
  <2>2. \A p \in Pushers, k \in Keys : Removed(p, k)' <=> Removed(p, k)
    BY <2>1 DEF Removed
  <2>3. \A p \in Pushers, k \in Keys :
          refsCache'[k].ver \in 1..(pushed[p] - 1) => refsCache'[k] = refsCache[k]
    BY <2>1
  <2>4. \A p \in Pushers : pushed[p] <= refs'
    BY <2>1 DEF RefsInv, TypeOK, Versions
  <2>5. QED
    BY <2>1, <2>2, <2>3, <2>4 DEF RefsInv
<1>4. QED
  BY <1>1, <1>2, <1>3 DEF Next, OthersStep

-----------------------------------------------------------------------------
(* What the clones are answered with *)

LEMMA NextAnswers ==
  /\ TypeOK /\ RequestInv /\ FileInv /\ FlightInv /\ EntryInv
  /\ MismatchOnlyFromCrossing /\ FollowersHit /\ BrokenOnlyByEviction
  /\ [Next]_vars
  => MismatchOnlyFromCrossing' /\ FollowersHit' /\ BrokenOnlyByEviction'
<1> SUFFICES ASSUME TypeOK, RequestInv, FileInv, FlightInv, EntryInv,
                    MismatchOnlyFromCrossing, FollowersHit, BrokenOnlyByEviction, [Next]_vars
             PROVE  MismatchOnlyFromCrossing' /\ FollowersHit' /\ BrokenOnlyByEviction'
  OBVIOUS
<1> USE ClientsAssumption DEF l1, l2, client, bounds, history
<1>0. /\ \A c \in Clients : fp[c] # NoRefs => fp'[c] = fp[c] /\ seen'[c] = seen[c]
      /\ evictions \in Nat /\ (evictions' = 0 => evictions = 0)
  BY FiledStays, PacksStep, BoundsAssumption DEF TypeOK
\* An answer from the cache is older, or is sent now.
<1>1. ASSUME NEW c \in Clients, answer'[c].kind \in {"cached", "broken"}
      PROVE  \/ pc[c] = "answered" /\ answer'[c] = answer[c]
             \/ Open(c)
  <2>1. CASE UNCHANGED answer
    BY <1>1, <2>1 DEF RequestInv
  <2>2. ASSUME NEW d \in Clients, Clone(d), d # c
        PROVE  pc[c] = "answered" /\ answer'[c] = answer[c]
    BY <1>1, <2>2, CloneFrame DEF Actors, RequestInv
  <2>3. CASE List(c)
    <3>1. pc[c] # "answered"
      BY <2>3, ListFrame
    <3>2. QED
      BY <1>1, <2>3, <3>1, ListFrame DEF RequestInv
  <2>4. CASE Clone(c) /\ ~List(c)
    <3>1. pc[c] # "answered"
      BY <2>4, PackFrame DEF Clone, Filed
    <3>2. answer[c].kind \notin {"cached", "broken"}
      BY <3>1 DEF RequestInv
    <3>3. answer'[c] # answer[c]
      BY <1>1, <3>2
    <3>4. Forward(c) \/ Open(c) \/ FetchPackFails(c) \/ FetchPack(c)
      BY <2>4, <3>3 DEF Clone, Look, Stream, Fingerprint, Lookup, Join, Wait, Rename, Register,
         Close, Delete
    <3>5. ASSUME NEW kind, NEW ver, Send(c, kind, ver) PROVE answer'[c].kind = kind
      BY <3>5 DEF Send, Answer, TypeOK
    <3>6. QED
      BY <1>1, <3>4, <3>5 DEF Forward, FetchPackFails, FetchPack
  <2>5. CASE OthersStep
    BY <1>1, <2>5, OthersFrame DEF RequestInv
  <2>6. QED
    BY <2>2, <2>3, <2>4, <2>5 DEF Next, OthersStep
<1>2. ASSUME NEW c \in Clients, Open(c)
      PROVE  /\ pc[c] = "open" /\ fp[c] \in Fingerprints /\ UNCHANGED <<fp, seen, evictions>>
             /\ \/ answer'[c].kind = "cached" /\ answer'[c].ver = packFiles[fp[c]] /\ packFiles[fp[c]] # 0
                \/ answer'[c].kind = "broken" /\ packFiles[fp[c]] = 0
  <2>1. pc[c] = "open" /\ fp[c] \in Fingerprints /\ UNCHANGED <<fp, seen, evictions>>
    BY <1>2 DEF Open, Step, RequestInv, Filed, TypeOK
  <2>2. QED
    BY <1>2, <2>1 DEF Open, PackKey, Send, Answer, TypeOK
<1>3. MismatchOnlyFromCrossing'
  <2> SUFFICES ASSUME NEW c \in Clients, answer'[c].kind = "cached", answer'[c].ver # seen'[c]
               PROVE  \E d \in Clients : fp'[d] = fp'[c] /\ Crossed(d)'
    BY DEF MismatchOnlyFromCrossing
  <2>1. CASE pc[c] = "answered" /\ answer'[c] = answer[c]
    <3>1. ~Clone(c)
      BY <2>1, ListFrame, PackFrame DEF Clone, Filed
    <3>2. fp'[c] = fp[c] /\ seen'[c] = seen[c]
      BY <3>1, CloneFrame, OthersFrame DEF Next, OthersStep
    <3>3. PICK d \in Clients : fp[d] = fp[c] /\ Crossed(d)
      BY <2>1, <3>2 DEF MismatchOnlyFromCrossing
    <3>4. QED
      BY <1>0, <3>2, <3>3 DEF Crossed
  <2>2. CASE Open(c)
    <3>1. PICK d \in Clients : fp[d] = fp[c] /\ seen[d] = packFiles[fp[c]]
      BY <1>2, <2>2 DEF FileInv
    <3>2. answer'[c].ver = seen[d] /\ seen[d] # seen[c] /\ fp[c] # NoRefs
      BY <1>2, <2>2, <3>1, ContentType
    <3>3. CASE fp[c].ver = seen[c]
      BY <1>2, <2>2, <3>1, <3>2, <3>3 DEF Crossed
    <3>4. CASE fp[c].ver # seen[c]
      BY <1>2, <2>2, <3>2, <3>4 DEF Crossed
    <3>5. QED
      BY <3>3, <3>4
  <2>3. QED
    BY <1>1, <2>1, <2>2
<1>4. FollowersHit'
  <2> SUFFICES ASSUME NEW c \in Clients, pc'[c] = "fetchpack", waits'[c] # NoClient, evictions' = 0
               PROVE  waits'[c] \notin kept'
    BY DEF FollowersHit
  <2>0. evictions = 0
    BY <1>0
  <2>1. CASE pc[c] = "fetchpack" /\ waits'[c] = waits[c]
    <3>1. waits[c] \notin kept /\ waits[c] \in closed
      BY <2>0, <2>1 DEF FollowersHit, FlightInv
    <3>2. waits[c] \in Clients /\ pc[waits[c]] # "register"
      BY <3>1 DEF FlightInv, TypeOK
    <3>3. \A d \in Clients : Clone(d) => kept' = kept \/ (pc[d] = "register" /\ kept' = kept \cup {d})
      BY ListFrame DEF Clone, Look, Stream, Fingerprint, Forward, Lookup, Join, Wait, Open,
         FetchPackFails, FetchPack, Rename, Register, Close, Delete, Step
    <3>4. QED
      BY <2>1, <3>1, <3>2, <3>3, OthersFrame DEF Next, OthersStep
  <2>2. CASE Wait(c)
    <3>1. /\ pc[c] = "wait" /\ fp[c] \notin packEntries /\ waits'[c] = waits[c] /\ kept' = kept
      BY <2>2 DEF Wait, Step, PackKey, TypeOK
    <3>2. waits[c] \in Clients /\ fp[waits[c]] = fp[c]
      BY <3>1 DEF FlightInv, TypeOK
    <3>3. QED
      BY <2>0, <3>1, <3>2 DEF EntryInv
  <2>3. CASE Join(c)
    BY <2>3 DEF Join, Step, TypeOK
  <2>4. CASE ~Join(c) /\ ~Wait(c) /\ Clone(c)
    BY <2>4, ListFrame DEF Clone, Look, Stream, Fingerprint, Forward, Lookup, Open,
       FetchPackFails, FetchPack, Rename, Register, Close, Delete, Step, TypeOK
  <2>5. CASE ~Clone(c)
    BY <2>1, <2>5, CloneFrame, OthersFrame DEF Next, OthersStep, Actors
  <2>6. QED
    BY <2>2, <2>3, <2>4, <2>5
<1>5. BrokenOnlyByEviction'
  <2> SUFFICES ASSUME NEW c \in Clients, answer'[c].kind = "broken" PROVE evictions' > 0
    BY DEF BrokenOnlyByEviction
  <2>0. evictions' \in Nat
    BY PacksStep, NextType DEF TypeOK
  <2>1. CASE pc[c] = "answered" /\ answer'[c] = answer[c]
    BY <1>0, <2>0, <2>1 DEF BrokenOnlyByEviction
  <2>2. CASE Open(c)
    <3>1. evictions = 0 => fp[c] \in packEntries /\ packFiles[fp[c]] # 0
      BY <1>2, <2>2 DEF EntryInv
    <3>2. QED
      BY <1>0, <1>2, <2>2, <3>1
  <2>3. QED
    BY <1>1, <2>1, <2>2
<1>6. QED
  BY <1>3, <1>4, <1>5

-----------------------------------------------------------------------------
(* The theorems *)

-----------------------------------------------------------------------------
(* The flights of L1 *)

\* Being sent an entry moves a client on to ls-refs, or gives it its wants.
LEMMA ReceiveEffect ==
  ASSUME TypeOK, NEW c \in Clients, NEW from, NEW x \in Fingerprints, Receive(c, from, x)
  PROVE  /\ x = Capabilities =>
              pc'[c] = "ask" /\ key' = [key EXCEPT ![c] = "lsrefs"] /\ seen' = seen
         /\ x # Capabilities =>
              pc'[c] = "want" /\ key' = key /\ seen' = [seen EXCEPT ![c] = Number(x)]
         /\ x # Capabilities => Number(x) # 0
<1>0. c \in Actors
  BY DEF Actors
<1>1. CASE x = Capabilities
  <2>1. x.kind = "caps"
    BY <1>1 DEF Capabilities, Content
  <2>2. QED
    BY <1>0, <1>1, <2>1 DEF Receive, Step, TypeOK, Actors
<1>2. CASE x # Capabilities
  <2>1. x.kind # "caps" /\ Number(x) = x.ver /\ x.ver \in Versions
    BY <1>2, NumberType, ContentType
  <2>2. x.ver # 0
    BY <2>1 DEF Versions
  <2>3. QED
    BY <1>0, <1>2, <2>1, <2>2 DEF Receive, Step, TypeOK, Actors
<1>3. QED
  BY <1>1, <1>2

\* What a step of one client must see to for the flights to stay in order.
LEMMA ListInvStep ==
  ASSUME TypeOK, ListInv, NEW c \in Clients,
         \A d \in Clients \ {c} : /\ pc'[d] = pc[d] /\ key'[d] = key[d]
                                 /\ got'[d] = got[d] /\ seen'[d] = seen[d],
         \A k \in Keys : produced[k] \subseteq produced'[k],
         \A k \in Keys : leader'[k] = leader[k] \/ {leader[k], leader'[k]} = {NoClient, c},
         \A k \in Keys : \/ refsCache'[k] \in {refsCache[k], NoRefs}
                         \/ /\ Number(refsCache'[k]) \in produced'[k]
                            /\ k = "lsrefs" => refsCache'[k] # Capabilities,
         pc'[c] \in {"fetch", "store"} => leader'[key'[c]] = c,
         got'[c] # NoRefs => /\ pc'[c] = "store" /\ Number(got'[c]) \in produced'[key'[c]]
                             /\ key'[c] = "lsrefs" => got'[c] # Capabilities,
         pc'[c] \in Listing => seen'[c] = 0,
         \A k \in Keys :
           leader'[k] = c => key'[c] = k /\ pc'[c] \in {"fetch", "store", "read"}
  PROVE  ListInv'
<1> USE ClientsAssumption
<1>1. ASSUME NEW d \in Clients \ {c}, pc'[d] \in {"fetch", "store"}
      PROVE  leader'[key'[d]] = d
  <2>1. leader[key[d]] = d /\ key[d] \in Keys
    BY <1>1 DEF ListInv, TypeOK
  <2>2. d \notin {NoClient, c}
    OBVIOUS
  <2>3. QED
    BY <1>1, <2>1, <2>2
<1>2. ASSUME NEW d \in Clients \ {c}, got'[d] # NoRefs
      PROVE  pc'[d] = "store" /\ Brought(key[d], got[d])'
  BY <1>2 DEF ListInv, Brought, TypeOK
<1>3. ASSUME NEW d \in Clients \ {c}, pc'[d] \in Listing PROVE seen'[d] = 0
  BY <1>3 DEF ListInv
<1>4. ASSUME NEW k \in Keys, leader'[k] # NoClient
      PROVE  key'[leader'[k]] = k /\ pc'[leader'[k]] \in {"fetch", "store", "read"}
  <2>1. CASE leader'[k] = c
    BY <2>1
  <2>2. CASE leader'[k] # c
    <3>1. leader'[k] = leader[k]
      BY <1>4, <2>2
    <3>2. leader[k] \in Clients \ {c}
      BY <1>4, <2>2, <3>1 DEF TypeOK
    <3>3. QED
      BY <1>4, <3>1, <3>2 DEF ListInv
  <2>3. QED
    BY <2>1, <2>2
<1>5. ASSUME NEW k \in Keys, refsCache'[k] # NoRefs PROVE Brought(k, refsCache[k])'
  BY <1>5 DEF ListInv, Brought
<1>6. got'[c] # NoRefs => pc'[c] = "store" /\ Brought(key[c], got[c])'
  BY DEF Brought
<1>7. \A d \in Clients :
        /\ (pc[d] \in {"fetch", "store"} => leader[key[d]] = d)'
        /\ (got[d] # NoRefs => pc[d] = "store" /\ Brought(key[d], got[d]))'
        /\ (pc[d] \in Listing => seen[d] = 0)'
  BY <1>1, <1>2, <1>3, <1>6
<1>8. QED
  BY <1>4, <1>5, <1>7 DEF ListInv

\* The steps of List one by one.
LEMMA ListKeepsInv ==
  ASSUME TypeOK, ListInv, NEW c \in Clients, List(c)
  PROVE  ListInv'
<1> USE ClientsAssumption DEF l1, l2, client, bounds, history
<1>0. /\ c \in Actors /\ key[c] \in Keys /\ c # NoClient
      /\ \A d \in Clients \ {c} : /\ pc'[d] = pc[d] /\ key'[d] = key[d]
                                  /\ got'[d] = got[d] /\ seen'[d] = seen[d]
  BY CloneFrame DEF Clone, TypeOK, Actors
<1>1. /\ pc[c] \in {"fetch", "store"} => leader[key[c]] = c
      /\ got[c] # NoRefs => pc[c] = "store" /\ Brought(key[c], got[c])
      /\ pc[c] \in Listing => seen[c] = 0
      /\ \A k \in Keys : leader[k] = c => key[c] = k /\ pc[c] \in {"fetch", "store", "read"}
  BY <1>0 DEF ListInv
<1>2. ASSUME NEW x \in Fingerprints, NEW from \in {"ask", "read"}, Receive(c, from, x),
             pc[c] = from, UNCHANGED <<refsCache, got, produced>>,
             \A k \in Keys : leader'[k] = IF leader[k] = c THEN NoClient ELSE leader[k]
      PROVE  ListInv'
  <2>1. got[c] = NoRefs /\ seen[c] = 0
    BY <1>1, <1>2 DEF Listing
  <2>2. (pc'[c] = "ask" /\ seen'[c] = 0) \/ pc'[c] = "want"
    BY <1>2, <2>1, ReceiveEffect
  <2>3. \A k \in Keys : leader'[k] # c
    BY <1>0, <1>2
  <2>4. QED
    BY <1>0, <1>2, <2>1, <2>2, <2>3, ListInvStep DEF Listing
<1>3. CASE Hit(c)
  <2>1. pc[c] = "ask" /\ refsCache[key[c]] \in Fingerprints
    BY <1>0, <1>3 DEF Hit, Receive, Step, TypeOK
  <2>2. Receive(c, "ask", refsCache[key[c]]) /\ UNCHANGED <<leader, refsCache, got, produced>>
    BY <1>3 DEF Hit
  <2>3. QED
    BY <1>1, <1>2, <2>1, <2>2
<1>4. CASE Miss(c) \/ Follow(c)
  <2>1. /\ pc[c] \in {"ask", "miss"} /\ pc'[c] \in {"miss", "await"}
        /\ UNCHANGED <<leader, refsCache, got, produced, key, seen>>
    BY <1>0, <1>4 DEF Miss, Follow, Step, TypeOK, Actors
  <2>2. QED
    BY <1>0, <1>1, <2>1, ListInvStep DEF Listing
<1>5. CASE Lead(c)
  <2>1. /\ pc[c] = "miss" /\ pc'[c] = "fetch" /\ leader[key[c]] = NoClient
        /\ leader' = [leader EXCEPT ![key[c]] = c]
        /\ UNCHANGED <<refsCache, got, produced, key, seen>>
    BY <1>0, <1>5 DEF Lead, Step, TypeOK, Actors
  <2>2. leader'[key[c]] = c /\ \A k \in Keys : k # key[c] => leader'[k] = leader[k]
    BY <1>0, <2>1 DEF TypeOK
  <2>3. QED
    BY <1>0, <1>1, <2>1, <2>2, ListInvStep DEF Listing
<1>6. CASE Fetch(c)
  <2> DEFINE x == IF key[c] = "lsrefs" THEN Content("lsrefs", refs)
                  ELSE IF c \in V2 THEN Capabilities ELSE Content("advert", refs)
  <2>1. /\ pc[c] = "fetch" /\ pc'[c] = "store"
        /\ got' = [got EXCEPT ![c] = x]
        /\ produced' = [produced EXCEPT ![key[c]] = @ \cup {Number(x)}]
        /\ UNCHANGED <<refsCache, leader, key, seen>>
    BY <1>0, <1>6 DEF Fetch, Step, TypeOK, Actors
  <2>2. key[c] = "lsrefs" => x # Capabilities
    BY DEF Content, Capabilities
  <2> HIDE DEF x
  <2>3. /\ got'[c] = x /\ Number(x) \in produced'[key[c]]
        /\ \A k \in Keys : produced[k] \subseteq produced'[k]
    BY <1>0, <2>1 DEF TypeOK
  <2>4. QED
    BY <1>0, <1>1, <2>1, <2>2, <2>3, ListInvStep DEF Listing
<1>7. ASSUME pc'[c] \notin {"fetch", "store"}, UNCHANGED <<refsCache, produced, key, seen>>,
             pc[c] \in Listing, got'[c] = NoRefs,
             leader' = [leader EXCEPT ![key[c]] = IF leader[key[c]] = c THEN NoClient
                                                  ELSE leader[key[c]]]
      PROVE  ListInv'
  <2>1. \A k \in Keys : leader'[k] = IF k = key[c] /\ leader[k] = c THEN NoClient ELSE leader[k]
    BY <1>0, <1>7 DEF TypeOK
  <2>2. \A k \in Keys : leader'[k] # c
    BY <1>0, <1>1, <2>1
  <2>3. QED
    BY <1>0, <1>1, <1>7, <2>1, <2>2, ListInvStep DEF Listing
<1>8. CASE FetchFails(c)
  <2>1. /\ pc[c] \in {"fetch", "store"} /\ pc'[c] = "answered" /\ got'[c] = NoRefs
        /\ leader' = [leader EXCEPT ![key[c]] = NoClient]
        /\ UNCHANGED <<refsCache, produced, key, seen>>
    BY <1>0, <1>8 DEF FetchFails, EndFlight, Step, TypeOK, Actors
  <2>2. leader[key[c]] = c
    BY <1>1, <2>1
  <2>3. QED
    BY <1>7, <2>1, <2>2 DEF Listing
<1>9. CASE Store(c)
  <2>1. /\ pc[c] = "store" /\ pc'[c] = "read" /\ got'[c] = NoRefs
        /\ refsCache' = [refsCache EXCEPT ![key[c]] = got[c]]
        /\ UNCHANGED <<leader, produced, key, seen>>
    BY <1>0, <1>9 DEF Store, Step, TypeOK, Actors
  <2>2. /\ refsCache'[key[c]] = got[c]
        /\ \A k \in Keys : k # key[c] => refsCache'[k] = refsCache[k]
    BY <1>0, <2>1 DEF TypeOK
  <2>3. QED
    BY <1>0, <1>1, <2>1, <2>2, ListInvStep DEF Listing, Brought
<1>10. CASE Await(c)
  <2>1. Step(c, "await", "answered") \/ Step(c, "await", "read")
    BY <1>10 DEF Await
  <2>2. /\ pc[c] = "await" /\ pc'[c] \in {"answered", "read"}
        /\ UNCHANGED <<leader, refsCache, got, produced, key, seen>>
    BY <1>0, <1>10, <2>1 DEF Await, Step, TypeOK, Actors
  <2>3. QED
    BY <1>0, <1>1, <2>2, ListInvStep DEF Listing
<1>11. CASE Read(c)
  <2>1. /\ UNCHANGED <<refsCache, got, produced>>
        /\ leader' = [leader EXCEPT ![key[c]] = IF leader[key[c]] = c THEN NoClient
                                                 ELSE leader[key[c]]]
    BY <1>0, <1>11 DEF Read, EndFlight, TypeOK
  <2>2. CASE refsCache[key[c]] = NoRefs
    <3>1. Step(c, "read", "answered") /\ UNCHANGED <<key, seen>>
      BY <1>11, <2>2 DEF Read
    <3>2. pc[c] = "read" /\ pc'[c] = "answered"
      BY <1>0, <3>1 DEF Step, TypeOK, Actors
    <3>3. got'[c] = NoRefs
      BY <1>1, <2>1, <3>2
    <3>4. QED
      BY <1>7, <2>1, <3>1, <3>2, <3>3 DEF Listing
  <2>3. CASE refsCache[key[c]] # NoRefs
    <3>1. Receive(c, "read", refsCache[key[c]]) /\ refsCache[key[c]] \in Fingerprints
      BY <1>0, <1>11, <2>3 DEF Read, TypeOK
    <3>2. pc[c] = "read"
      BY <3>1 DEF Receive, Step
    <3>3. \A k \in Keys : leader'[k] = IF leader[k] = c THEN NoClient ELSE leader[k]
      BY <1>0, <1>1, <2>1 DEF TypeOK
    <3>4. QED
      BY <1>2, <2>1, <3>1, <3>2, <3>3
  <2>4. QED
    BY <2>2, <2>3
<1>12. QED
  BY <1>3, <1>4, <1>5, <1>6, <1>8, <1>9, <1>10, <1>11 DEF List

\* Removals, expiries and evictions only take entries away.
LEMMA OthersRefs ==
  ASSUME TypeOK, OthersStep, NEW k \in Keys
  PROVE  refsCache'[k] \in {refsCache[k], NoRefs}
<1> USE DEF l1, l2, client, bounds, history
<1>1. ASSUME NEW p \in Pushers, NEW j \in Keys, Invalidate(p, j)
      PROVE  refsCache'[k] \in {refsCache[k], NoRefs}
  BY <1>1 DEF Invalidate, Removes, TypeOK
<1>2. ASSUME NEW p \in Pushers, Receipt(p) PROVE refsCache'[k] \in {refsCache[k], NoRefs}
  BY <1>1, <1>2 DEF Receipt, Push, PushFails, InvalidateRefs, InvalidateLsRefs, Keys
<1>3. ASSUME NEW j \in Keys, Expire(j) PROVE refsCache'[k] \in {refsCache[k], NoRefs}
  BY <1>3 DEF Expire, TypeOK
<1>4. QED
  BY <1>2, <1>3 DEF OthersStep, Elsewhere, Evict, AllAnswered, vars

\* Steps outside L1 leave its flights alone.
LEMMA NextList == TypeOK /\ RequestInv /\ ListInv /\ [Next]_vars => ListInv'
<1> SUFFICES ASSUME TypeOK, RequestInv, ListInv, [Next]_vars PROVE ListInv'
  OBVIOUS
<1>1. ASSUME NEW c \in Clients, List(c) PROVE ListInv'
  BY <1>1, ListKeepsInv
<1>2. ASSUME NEW c \in Clients, Look(c) \/ Stream(c) \/ Close(c) \/ Delete(c) PROVE ListInv'
  <2>1. \A d \in Clients \ {c} : /\ pc'[d] = pc[d] /\ key'[d] = key[d]
                                 /\ got'[d] = got[d] /\ seen'[d] = seen[d]
    BY <1>2, CloneFrame DEF Clone, Actors
  <2>2. /\ pc[c] \in Filed \cup {"want"} /\ pc'[c] \in Filed \cup {"answered"}
        /\ UNCHANGED <<refsCache, leader, produced, key, seen, got>>
    BY <1>2, PackFrame DEF l1
  <2>3. /\ pc[c] \notin {"fetch", "store", "read"} /\ pc'[c] \notin {"fetch", "store", "read"}
        /\ pc'[c] \notin Listing
    BY <2>2 DEF Filed, Listing
  <2>4. /\ got[c] = NoRefs
        /\ \A k \in Keys : leader[k] # c
    BY <2>3, ClientsAssumption DEF ListInv
  <2>5. QED
    BY <2>1, <2>2, <2>3, <2>4, ListInvStep
<1>3. CASE OthersStep
  <2>1. /\ \A c \in Clients : pc'[c] = pc[c]
        /\ UNCHANGED <<leader, key, got, seen, produced>>
    BY <1>3, OthersFrame DEF client
  <2>2. \A k \in Keys : refsCache'[k] \in {refsCache[k], NoRefs}
    BY <1>3, OthersRefs
  <2>3. \A k \in Keys : leader[k] \in Clients \cup {NoClient}
    BY DEF TypeOK
  <2>4. QED
    BY <2>1, <2>2, <2>3 DEF ListInv, Brought
<1>4. QED
  BY <1>1, <1>2, <1>3 DEF Next, Clone, OthersStep

LEMMA NextInv == IInv /\ [Next]_vars => IInv'
  BY NextType, NextRequest, NextFile, NextFlight, NextEntry, NextRefs, NextList, NextAnswers
  DEF IInv

\* Whatever order clones, pushes and evictions take, each entry of the two caches goes back
\* to one upload-pack request, and its file to one advertisement or push.
THEOREM InductiveInvariant == Spec => []IInv
  BY InitInv, NextInv, PTL DEF Spec

\* Every state has the types the module declares.
THEOREM TypeCorrect == Spec => []TypeOK
<1>1. IInv => TypeOK
  BY DEF IInv
<1>2. QED
  BY InductiveInvariant, <1>1, PTL

\* Nothing between the fingerprint and the answer mixes up packs: a clone gets the pack of
\* other refs only behind one whose fingerprint was of other refs than its wants.
THEOREM MismatchOnlyFromCrossingAlways == Spec => []MismatchOnlyFromCrossing
<1>1. IInv => MismatchOnlyFromCrossing
  BY DEF IInv
<1>2. QED
  BY InductiveInvariant, <1>1, PTL

\* After a push the caches list older refs only if a fetch was storing them when the push
\* removed the entries.
THEOREM StaleRefsOnlyFromOverlapAlways == Spec => []StaleRefsOnlyFromOverlap
<1>1. IInv => StaleRefsOnlyFromOverlap
  BY DEF IInv, RefsInv, Removed, StaleRefsOnlyFromOverlap
<1>2. QED
  BY InductiveInvariant, <1>1, PTL

\* A client that has waited for a flight that stored its pack does not fetch it again.
THEOREM FollowersHitAlways == Spec => []FollowersHit
<1>1. IInv => FollowersHit
  BY DEF IInv
<1>2. QED
  BY InductiveInvariant, <1>1, PTL

\* Without evictions no clone meets the entry of a pack ahead of its file.
THEOREM BrokenOnlyByEvictionAlways == Spec => []BrokenOnlyByEviction
<1>1. IInv => BrokenOnlyByEviction
  BY DEF IInv
<1>2. QED
  BY InductiveInvariant, <1>1, PTL

-----------------------------------------------------------------------------
(* L1 implements SingleFlight, key by key *)

\* The steps SingleFlight allows of one key.
Told(k) == [c \in Clients |-> ListAnswer(k, c)]
Stutters(k) == UNCHANGED <<leader[k], produced[k], Told(k)>>
Starts(k, c) ==
  /\ leader[k] = NoClient /\ Told(k)[c] = 0
  /\ leader'[k] = c
  /\ UNCHANGED <<produced[k], Told(k)>>
Produces(k, v) ==
  /\ leader[k] # NoClient
  /\ produced'[k] = produced[k] \cup {v}
  /\ UNCHANGED <<leader[k], Told(k)>>
Tells(k, c, v) ==
  /\ Told(k)[c] = 0
  /\ v \in produced[k] \cup {-1}
  /\ Told(k)' = [Told(k) EXCEPT ![c] = v]
  /\ leader'[k] = IF leader[k] = c THEN NoClient ELSE leader[k]
  /\ UNCHANGED produced[k]
KeyStep(k) ==
  \/ Stutters(k)
  \/ \E c \in Clients : Starts(k, c) \/ (\E v \in Numbers \cup {-1} : Tells(k, c, v))
  \/ \E v \in Numbers : Produces(k, v)

\* A client that stays with its request, or stays past it, is told nothing.
LEMMA ToldNothing ==
  ASSUME UNCHANGED <<key, seen>>, \A c \in Clients : pc'[c] \in Listing <=> pc[c] \in Listing,
         NEW k \in Keys
  PROVE  Told(k)' = Told(k)
  BY DEF Told, ListAnswer

\* A client that gets an error is told so by the key it asked for.
LEMMA ToldError ==
  ASSUME TypeOK, NEW c \in Clients, pc[c] \in Listing, pc'[c] = "answered", seen[c] = 0,
         \A d \in Clients \ {c} : pc'[d] = pc[d], UNCHANGED <<key, seen>>, NEW k \in Keys
  PROVE  /\ k = key[c] => Told(k)[c] = 0 /\ Told(k)' = [Told(k) EXCEPT ![c] = -1]
         /\ k # key[c] => Told(k)' = Told(k)
<1>1. \A d \in Clients \ {c} : ListAnswer(k, d)' = ListAnswer(k, d)
  BY DEF ListAnswer
<1>2. pc'[c] \notin Listing
  BY DEF Listing
<1>3. CASE k = key[c]
  <2>1. ListAnswer(k, c) = 0 /\ ListAnswer(k, c)' = -1
    BY <1>2, <1>3 DEF ListAnswer
  <2>2. QED
    BY <1>1, <1>3, <2>1 DEF Told
<1>4. CASE k # key[c]
  <2>1. ListAnswer(k, c)' = ListAnswer(k, c)
    BY <1>4 DEF ListAnswer
  <2>2. QED
    BY <1>1, <1>4, <2>1 DEF Told
<1>5. QED
  BY <1>3, <1>4

\* A client that gets an entry is told its number by the key it asked for; the
\* capabilities only ever come from the first key, and start it on the second.
LEMMA ToldEntry ==
  ASSUME TypeOK, NEW c \in Clients, NEW from \in Listing, NEW x \in Fingerprints,
         Receive(c, from, x), pc[c] = from, key[c] = "lsrefs" => x # Capabilities,
         \A d \in Clients \ {c} : pc'[d] = pc[d], NEW k \in Keys
  PROVE  /\ k = key[c] => Told(k)[c] = 0 /\ Told(k)' = [Told(k) EXCEPT ![c] = Number(x)]
         /\ k # key[c] => Told(k)' = Told(k)
<1>0. key[c] \in Keys /\ \A d \in Clients \ {c} : key'[d] = key[d] /\ seen'[d] = seen[d]
  BY ReceiveFrame DEF TypeOK
<1>1. \A d \in Clients \ {c} : ListAnswer(k, d)' = ListAnswer(k, d)
  BY <1>0 DEF ListAnswer
<1>2. CASE x = Capabilities
  <2>1. key[c] = "refs" /\ pc'[c] \in Listing /\ key'[c] = "lsrefs"
    BY <1>0, <1>2, ReceiveEffect DEF Keys, Listing, TypeOK
  <2>2. k = "refs" => ListAnswer(k, c) = 0 /\ ListAnswer(k, c)' = Number(x)
    BY <1>2, <2>1 DEF ListAnswer
  <2>3. k # "refs" => ListAnswer(k, c)' = ListAnswer(k, c)
    BY <2>1 DEF ListAnswer
  <2>4. QED
    BY <1>1, <2>1, <2>2, <2>3 DEF Told
<1>3. CASE x # Capabilities
  <2>1. /\ pc'[c] = "want" /\ key' = key /\ seen'[c] = Number(x) /\ Number(x) # 0
        /\ pc'[c] \notin Listing
    BY <1>3, ReceiveEffect DEF Listing, TypeOK
  <2>2. k = key[c] => ListAnswer(k, c) = 0 /\ ListAnswer(k, c)' = Number(x)
    BY <2>1 DEF ListAnswer
  <2>3. k # key[c] => ListAnswer(k, c)' = ListAnswer(k, c)
    BY <2>1 DEF ListAnswer
  <2>4. QED
    BY <1>1, <2>2, <2>3 DEF Told
<1>4. QED
  BY <1>2, <1>3

\* What a client has not been told of the key it is asking for.
LEMMA ToldYet ==
  ASSUME NEW c \in Clients, pc[c] \in Listing, NEW k \in Keys, k = key[c]
  PROVE  Told(k)[c] = 0
  BY DEF Told, ListAnswer

\* A step of the request for refs or ls-refs is one of the flight of its key, and none of
\* the other key's.
LEMMA ListRefines ==
  ASSUME TypeOK, ListInv, NEW c \in Clients, List(c), NEW k \in Keys
  PROVE  KeyStep(k)
<1> USE ClientsAssumption DEF l1, l2, client, bounds, history
<1>0. /\ c \in Actors /\ key[c] \in Keys /\ c # NoClient
      /\ \A d \in Clients \ {c} : pc'[d] = pc[d]
  BY CloneFrame DEF Clone, TypeOK, Actors
<1>1. /\ pc[c] \in {"fetch", "store"} => leader[key[c]] = c
      /\ pc[c] \in Listing => seen[c] = 0
      /\ leader[k] = c => key[c] = k /\ pc[c] \in {"fetch", "store", "read"}
  BY <1>0 DEF ListInv
<1>2. ASSUME NEW x \in Fingerprints, NEW from \in {"ask", "read"}, Receive(c, from, x),
             pc[c] = from, Brought(key[c], x), UNCHANGED produced,
             leader'[k] = IF leader[k] = c THEN NoClient ELSE leader[k]
      PROVE  KeyStep(k)
  <2>1. from \in Listing
    BY DEF Listing
  <2>2. /\ k = key[c] => Told(k)[c] = 0 /\ Told(k)' = [Told(k) EXCEPT ![c] = Number(x)]
        /\ k # key[c] => Told(k)' = Told(k)
    BY <1>0, <1>2, <2>1, ToldEntry DEF Brought
  <2>3. CASE k = key[c]
    <3>1. Tells(k, c, Number(x))
      BY <1>2, <2>2, <2>3 DEF Tells, Brought
    <3>2. Number(x) \in Numbers \cup {-1}
      BY NumberType
    <3>3. QED
      BY <3>1, <3>2 DEF KeyStep
  <2>4. CASE k # key[c]
    BY <1>1, <1>2, <2>2, <2>4 DEF KeyStep, Stutters
  <2>5. QED
    BY <2>3, <2>4
<1>3. ASSUME pc[c] \in Listing, pc'[c] = "answered", UNCHANGED <<key, seen, produced>>,
             leader'[k] = IF leader[k] = c THEN NoClient ELSE leader[k]
      PROVE  KeyStep(k)
  <2>1. /\ k = key[c] => Told(k)[c] = 0 /\ Told(k)' = [Told(k) EXCEPT ![c] = -1]
        /\ k # key[c] => Told(k)' = Told(k)
    BY <1>0, <1>1, <1>3, ToldError
  <2>2. CASE k = key[c]
    <3>1. Tells(k, c, -1)
      BY <1>3, <2>1, <2>2 DEF Tells
    <3>2. QED
      BY <3>1 DEF KeyStep
  <2>3. CASE k # key[c]
    BY <1>1, <1>3, <2>1, <2>3 DEF KeyStep, Stutters
  <2>4. QED
    BY <2>2, <2>3
<1>4. ASSUME pc[c] \in Listing, pc'[c] \in Listing, UNCHANGED <<key, seen>>
      PROVE  Told(k)' = Told(k)
  BY <1>0, <1>4, ToldNothing
<1>5. CASE Hit(c)
  <2>1. /\ Receive(c, "ask", refsCache[key[c]]) /\ UNCHANGED <<leader, produced>>
        /\ refsCache[key[c]] \in Fingerprints /\ Brought(key[c], refsCache[key[c]])
    BY <1>0, <1>5 DEF Hit, TypeOK, ListInv
  <2>2. pc[c] = "ask"
    BY <2>1 DEF Receive, Step
  <2>3. leader'[k] = IF leader[k] = c THEN NoClient ELSE leader[k]
    BY <1>1, <2>1, <2>2
  <2>4. QED
    BY <1>2, <2>1, <2>2, <2>3
<1>6. CASE Miss(c) \/ Follow(c) \/ Store(c)
  <2>1. /\ pc[c] \in {"ask", "miss", "store"} /\ pc'[c] \in {"miss", "await", "read"}
        /\ UNCHANGED <<leader, produced, key, seen>>
    BY <1>0, <1>6 DEF Miss, Follow, Store, Step, TypeOK, Actors
  <2>2. Told(k)' = Told(k)
    BY <1>4, <2>1 DEF Listing
  <2>3. QED
    BY <2>1, <2>2 DEF KeyStep, Stutters
<1>7. CASE Lead(c)
  <2>1. /\ pc[c] = "miss" /\ pc'[c] = "fetch" /\ leader[key[c]] = NoClient
        /\ leader' = [leader EXCEPT ![key[c]] = c]
        /\ UNCHANGED <<produced, key, seen>>
    BY <1>0, <1>7 DEF Lead, Step, TypeOK, Actors
  <2>2. Told(k)' = Told(k)
    BY <1>4, <2>1 DEF Listing
  <2>3. CASE k = key[c]
    <3>1. Told(k)[c] = 0
      BY <2>1, <2>3, ToldYet DEF Listing
    <3>2. leader'[k] = c
      BY <1>0, <2>1, <2>3 DEF TypeOK
    <3>3. Starts(k, c)
      BY <2>1, <2>2, <2>3, <3>1, <3>2 DEF Starts
    <3>4. QED
      BY <3>3 DEF KeyStep
  <2>4. CASE k # key[c]
    <3>1. leader'[k] = leader[k]
      BY <1>0, <2>1, <2>4 DEF TypeOK
    <3>2. QED
      BY <2>1, <2>2, <3>1 DEF KeyStep, Stutters
  <2>5. QED
    BY <2>3, <2>4
<1>8. CASE Fetch(c)
  <2> DEFINE x == IF key[c] = "lsrefs" THEN Content("lsrefs", refs)
                  ELSE IF c \in V2 THEN Capabilities ELSE Content("advert", refs)
  <2>1. /\ pc[c] = "fetch" /\ pc'[c] = "store"
        /\ produced' = [produced EXCEPT ![key[c]] = @ \cup {Number(x)}]
        /\ UNCHANGED <<leader, key, seen>>
    BY <1>0, <1>8 DEF Fetch, Step, TypeOK, Actors
  <2>2. x \in Fingerprints
    BY ContentType DEF TypeOK
  <2>3. Number(x) \in Numbers
    BY <2>2, NumberType
  <2> HIDE DEF x
  <2>4. Told(k)' = Told(k)
    BY <1>4, <2>1 DEF Listing
  <2>5. CASE k = key[c]
    <3>1. produced'[k] = produced[k] \cup {Number(x)}
      BY <1>0, <2>1, <2>5 DEF TypeOK
    <3>2. Produces(k, Number(x))
      BY <1>0, <1>1, <2>1, <2>4, <2>5, <3>1 DEF Produces
    <3>3. QED
      BY <2>3, <3>2 DEF KeyStep
  <2>6. CASE k # key[c]
    <3>1. produced'[k] = produced[k]
      BY <1>0, <2>1, <2>6 DEF TypeOK
    <3>2. QED
      BY <2>1, <2>4, <3>1 DEF KeyStep, Stutters
  <2>7. QED
    BY <2>5, <2>6
<1>9. CASE FetchFails(c)
  <2>1. /\ pc[c] \in {"fetch", "store"} /\ pc'[c] = "answered"
        /\ leader' = [leader EXCEPT ![key[c]] = NoClient]
        /\ UNCHANGED <<produced, key, seen>>
    BY <1>0, <1>9 DEF FetchFails, EndFlight, Step, TypeOK, Actors
  <2>2. leader'[k] = IF leader[k] = c THEN NoClient ELSE leader[k]
    BY <1>0, <1>1, <2>1 DEF TypeOK
  <2>3. QED
    BY <1>3, <2>1, <2>2 DEF Listing
<1>10. CASE Await(c)
  <2>1. UNCHANGED <<leader, key, seen, produced>>
    BY <1>10 DEF Await
  <2>2. Step(c, "await", "answered") \/ Step(c, "await", "read")
    BY <1>10 DEF Await
  <2>3. pc[c] = "await" /\ pc'[c] \in {"answered", "read"}
    BY <1>0, <2>2 DEF Step, TypeOK, Actors
  <2>4. CASE pc'[c] = "answered"
    BY <1>1, <1>3, <2>1, <2>3, <2>4 DEF Listing
  <2>5. CASE pc'[c] = "read"
    <3>1. Told(k)' = Told(k)
      BY <1>4, <2>1, <2>3, <2>5 DEF Listing
    <3>2. QED
      BY <2>1, <3>1 DEF KeyStep, Stutters
  <2>6. QED
    BY <2>3, <2>4, <2>5
<1>11. CASE Read(c)
  <2>1. /\ UNCHANGED <<refsCache, produced>>
        /\ leader' = [leader EXCEPT ![key[c]] = IF leader[key[c]] = c THEN NoClient
                                                 ELSE leader[key[c]]]
    BY <1>0, <1>11 DEF Read, EndFlight, TypeOK
  <2>2. leader'[k] = IF leader[k] = c THEN NoClient ELSE leader[k]
    BY <1>0, <1>1, <2>1 DEF TypeOK
  <2>3. CASE refsCache[key[c]] = NoRefs
    <3>1. Step(c, "read", "answered") /\ UNCHANGED <<key, seen>>
      BY <1>11, <2>3 DEF Read
    <3>2. pc[c] = "read" /\ pc'[c] = "answered"
      BY <1>0, <3>1 DEF Step, TypeOK, Actors
    <3>3. QED
      BY <1>3, <2>1, <2>2, <3>1, <3>2 DEF Listing
  <2>4. CASE refsCache[key[c]] # NoRefs
    <3>1. /\ Receive(c, "read", refsCache[key[c]]) /\ refsCache[key[c]] \in Fingerprints
          /\ Brought(key[c], refsCache[key[c]])
      BY <1>0, <1>11, <2>4 DEF Read, TypeOK, ListInv
    <3>2. pc[c] = "read"
      BY <3>1 DEF Receive, Step
    <3>3. QED
      BY <1>2, <2>1, <2>2, <3>1, <3>2
  <2>5. QED
    BY <2>3, <2>4
<1>12. QED
  BY <1>5, <1>6, <1>7, <1>8, <1>9, <1>10, <1>11 DEF List

\* Every step of the git proxy and of its world is a step, or none, of each flight.
LEMMA NextRefines ==
  ASSUME TypeOK, ListInv, [Next]_vars, NEW k \in Keys
  PROVE  KeyStep(k)
<1>1. ASSUME NEW c \in Clients, List(c) PROVE KeyStep(k)
  BY <1>1, ListRefines
<1>2. ASSUME NEW c \in Clients, Look(c) \/ Stream(c) \/ Close(c) \/ Delete(c) PROVE KeyStep(k)
  <2>1. \A d \in Clients \ {c} : pc'[d] = pc[d]
    BY <1>2, CloneFrame DEF Clone, Actors
  <2>2. /\ pc[c] \in Filed \cup {"want"} /\ pc'[c] \in Filed \cup {"answered"}
        /\ UNCHANGED <<leader, produced, key, seen>>
    BY <1>2, PackFrame DEF l1
  <2>3. pc[c] \notin Listing /\ pc'[c] \notin Listing
    BY <2>2 DEF Filed, Listing
  <2>4. Told(k)' = Told(k)
    BY <2>1, <2>2, <2>3, ToldNothing
  <2>5. QED
    BY <2>2, <2>4 DEF KeyStep, Stutters
<1>3. CASE OthersStep
  <2>1. /\ \A c \in Clients : pc'[c] = pc[c]
        /\ UNCHANGED <<leader, key, seen, produced>>
    BY <1>3, OthersFrame DEF client
  <2>2. Told(k)' = Told(k)
    BY <2>1, ToldNothing
  <2>3. QED
    BY <2>1, <2>2 DEF KeyStep, Stutters
<1>4. QED
  BY <1>1, <1>2, <1>3 DEF Next, Clone, OthersStep

\* Each key of L1 keeps the promise of GetOrFetch over the whole clone: one leader at a time,
\* answered within its flight, and nobody is sent what no fetch of that key has brought.
THEOREM L1ImplementsSingleFlightAlways == Spec => L1ImplementsSingleFlight
<1>1. Init => Refs!SInit /\ LsRefs!SInit
  BY DEF Init, Refs!SInit, LsRefs!SInit, Keys, ListAnswer, Listing
<1>2. KeyStep("refs") => [Refs!SNext]_(Refs!svars)
  BY DEF KeyStep, Stutters, Starts, Produces, Tells, Told,
     Refs!SNext, Refs!Start, Refs!Produce, Refs!Answer, Refs!svars
<1>3. KeyStep("lsrefs") => [LsRefs!SNext]_(LsRefs!svars)
  BY DEF KeyStep, Stutters, Starts, Produces, Tells, Told,
     LsRefs!SNext, LsRefs!Start, LsRefs!Produce, LsRefs!Answer, LsRefs!svars
<1>4. IInv /\ [Next]_vars => [Refs!SNext]_(Refs!svars) /\ [LsRefs!SNext]_(LsRefs!svars)
  BY <1>2, <1>3, NextRefines DEF IInv, Keys
<1>5. QED
  BY <1>1, <1>4, InductiveInvariant, PTL
  DEF Spec, L1ImplementsSingleFlight, Refs!SSpec, LsRefs!SSpec
=============================================================================
