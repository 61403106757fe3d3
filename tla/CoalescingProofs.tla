---------------------------- MODULE CoalescingProofs ----------------------------
(***************************************************************************)
(* Theorems about GetOrFetch for any number of calls, versions and         *)
(* removals, and that it implements SingleFlight; then about the npm and   *)
(* the apt proxy on top of it (PackageProxy), for any clients and          *)
(* departures.                                                             *)
(***************************************************************************)
EXTENDS PackageProxy, TLAPS

\* What moving one call along does to the program counters.
LEMMA StepPC ==
  ASSUME TypeOK, NEW c \in Calls, NEW old, NEW new \in PCs, Step(c, old, new)
  PROVE  /\ pc[c] = old /\ pc'[c] = new
         /\ \A d \in Calls \ {c} : pc'[d] = pc[d]
         /\ pc' \in [Calls -> PCs]
  BY DEF TypeOK, Step

LEMMA InitInv == Init => IInv
<1> SUFFICES ASSUME Init PROVE IInv
  OBVIOUS
<1> USE CallsAssumption, BoundsAssumption DEF Init
<1>1. TypeOK
  <2>1. entry \in BOOLEAN
    OBVIOUS
  <2>2. pc \in [Calls -> PCs] /\ file \in 0..MaxVersion /\ upstream \in Versions
    BY DEF PCs, Versions
  <2>3. err \in [Calls -> BOOLEAN] /\ landed \subseteq Calls
    OBVIOUS
  <2>4. QED
    BY <2>1, <2>2, <2>3 DEF TypeOK
<1>2. FlightOwned /\ NeverOlderThanFlight /\ AnswerInv
  BY DEF FlightOwned, Leading, NeverOlderThanFlight, AnswerInv
<1>3. CallInv
  BY DEF CallInv, Early, Alone
<1>4. VersionInv
  BY DEF VersionInv, Stored, Early
<1>5. QED
  BY <1>1, <1>2, <1>3, <1>4 DEF IInv

-----------------------------------------------------------------------------
(* Types and the ownership of flights *)

LEMMA NextType == TypeOK /\ [Next]_vars => TypeOK'
<1> SUFFICES ASSUME TypeOK, [Next]_vars PROVE TypeOK'
  OBVIOUS
<1> USE BoundsAssumption DEF cache, flight, world
<1>1. ASSUME NEW c \in Calls, Look(c) PROVE TypeOK'
  <2>1. CASE Get(c)
    BY <2>1 DEF Get, Step, TypeOK, PCs
  <2>2. CASE OpenHit(c)
    <3>1. pc' \in [Calls -> PCs]
      BY <2>2 DEF OpenHit, Step, TypeOK, PCs
    <3>2. result' \in [Calls -> (0..MaxVersion) \cup {Failed}]
      BY <2>2 DEF OpenHit, Return, TypeOK
    <3>3. QED
      BY <2>2, <3>1, <3>2 DEF OpenHit, TypeOK
  <2>3. CASE RemoveStale(c)
    <3>1. entry' \in BOOLEAN
      BY <2>3 DEF RemoveStale
    <3>2. pc' \in [Calls -> PCs] /\ file' \in 0..MaxVersion
      BY <2>3 DEF RemoveStale, Step, TypeOK, PCs
    <3>3. QED
      BY <2>3, <3>1, <3>2 DEF RemoveStale, TypeOK
  <2>4. CASE LoadOrStore(c)
    BY <2>4 DEF LoadOrStore, Step, TypeOK, PCs, Leading
  <2>5. QED
    BY <1>1, <2>1, <2>2, <2>3, <2>4 DEF Look
<1>2. ASSUME NEW c \in Calls, Follow(c) PROVE TypeOK'
  <2>1. CASE Wait(c)
    BY <2>1 DEF Wait, Step, Return, Failed, TypeOK, PCs
  <2>2. CASE OpenShared(c)
    BY <2>2 DEF OpenShared, Step, Return, Opened, Failed, TypeOK, PCs
  <2>3. QED
    BY <1>2, <2>1, <2>2 DEF Follow
<1>3. ASSUME NEW c \in Calls, Lead(c) PROVE TypeOK'
  <2>1. CASE Fetch(c)
    BY <2>1 DEF Fetch, Step, TypeOK, PCs, Leading, Versions
  <2>2. CASE FetchFails(c)
    BY <2>2 DEF FetchFails, Step, Return, Failed, TypeOK, PCs, Leading
  <2>3. CASE PutRename(c)
    BY <2>3 DEF PutRename, Step, TypeOK, PCs, Leading
  <2>4. CASE PutRegister(c)
    BY <2>4 DEF PutRegister, Step, TypeOK, PCs, Leading
  <2>5. CASE OpenOwn(c)
    BY <2>5 DEF OpenOwn, Step, Return, Opened, Failed, TypeOK, PCs, Leading
  <2>6. CASE Done(c)
    BY <2>6 DEF Done, Step, TypeOK, PCs, Leading
  <2>7. CASE Delete(c)
    BY <2>7 DEF Delete, Step, TypeOK, PCs
  <2>8. QED
    BY <1>3, <2>1, <2>2, <2>3, <2>4, <2>5, <2>6, <2>7 DEF Lead
<1>4. CASE Evict
  <2>1. entry' \in BOOLEAN
    BY <1>4 DEF Evict
  <2>2. file' \in 0..MaxVersion /\ evictions' \in 0..MaxEvictions
    BY <1>4 DEF Evict, TypeOK
  <2>3. QED
    BY <1>4, <2>1, <2>2 DEF Evict, TypeOK
<1>5. CASE Publish
  BY <1>5 DEF Publish, TypeOK, Versions
<1>6. CASE AllReturned \/ UNCHANGED vars
  BY <1>6 DEF AllReturned, vars, TypeOK
<1>7. QED
  BY <1>1, <1>2, <1>3, <1>4, <1>5, <1>6 DEF Next

\* LoadOrStore is the only way to lead, and a leader deletes its own flight.
LEMMA NextFlight == TypeOK /\ FlightOwned /\ [Next]_vars => FlightOwned'
<1> SUFFICES ASSUME TypeOK, FlightOwned, [Next]_vars PROVE FlightOwned'
  OBVIOUS
<1> USE DEF cache, flight, world
<1>1. ASSUME NEW c \in Calls, NEW old, NEW new, Step(c, old, new), UNCHANGED calls,
             old \in Leading <=> new \in Leading
      PROVE  FlightOwned'
  BY <1>1 DEF FlightOwned, Step, TypeOK
<1>2. ASSUME NEW c \in Calls, LoadOrStore(c) PROVE FlightOwned'
  BY <1>2, CallsAssumption DEF LoadOrStore, FlightOwned, Step, TypeOK, Leading
<1>3. ASSUME NEW c \in Calls, Delete(c) PROVE FlightOwned'
  BY <1>3, CallsAssumption DEF Delete, FlightOwned, Step, TypeOK, Leading
<1>4. ASSUME NEW c \in Calls, Look(c) PROVE FlightOwned'
  BY <1>1, <1>2, <1>4 DEF Look, Get, OpenHit, RemoveStale, Leading
<1>5. ASSUME NEW c \in Calls, Follow(c) PROVE FlightOwned'
  BY <1>1, <1>5 DEF Follow, Wait, OpenShared, Leading
<1>6. ASSUME NEW c \in Calls, Lead(c) PROVE FlightOwned'
  BY <1>1, <1>3, <1>6 DEF Lead, Fetch, FetchFails, PutRename, PutRegister, OpenOwn, Done,
     Leading
<1>7. CASE Evict \/ Publish \/ AllReturned \/ UNCHANGED vars
  BY <1>7 DEF Evict, Publish, AllReturned, vars, FlightOwned
<1>8. QED
  BY <1>4, <1>5, <1>6, <1>7 DEF Next

-----------------------------------------------------------------------------
(* What each call holds *)

\* A fetch only adds to what has been produced.
LEMMA ProducedGrows ==
  ASSUME TypeOK, CallInv, [Next]_vars
  PROVE  Produced \subseteq Produced'
<1> USE DEF cache, flight, world
<1>1. CASE UNCHANGED fetched
  BY <1>1 DEF Produced
<1>2. ASSUME NEW c \in Calls, Fetch(c) PROVE Produced \subseteq Produced'
  <2>1. fetched[c] = 0 /\ \A d \in Calls \ {c} : fetched'[d] = fetched[d]
    BY <1>2 DEF Fetch, Step, CallInv, TypeOK, Early
  <2>2. QED
    BY <2>1 DEF Produced
<1>3. QED
  BY <1>1, <1>2 DEF Next, Look, Follow, Lead, Get, OpenHit, RemoveStale, LoadOrStore, Wait,
     OpenShared, FetchFails, PutRename, PutRegister, OpenOwn, Done, Delete, Evict, Publish,
     AllReturned, vars

\* The fields of the calls that a step of c leaves alone, and what it must
\* establish for c itself.
LEMMA CallFrame ==
  ASSUME TypeOK, CallInv, NEW c \in Calls,
         Produced \subseteq Produced', landed \subseteq landed',
         \A d \in Calls \ {c} :
           /\ pc'[d] = pc[d] /\ joined'[d] = joined[d] /\ err'[d] = err[d]
           /\ fetched'[d] = fetched[d] /\ result'[d] = result[d]
           /\ d \in landed' => d \in landed,
         joined[c] # NoCall => joined'[c] = joined[c],
         c \in landed => err'[c] = err[c],
         /\ pc'[c] \in Early \cup {"fetch"} => fetched'[c] = 0
         /\ pc'[c] \in Early \cup {"fetch", "rename", "register", "open"} => result'[c] = 0
         /\ pc'[c] \in {"done", "delete", "returned"}
              => result'[c] \in Produced' \cup {Failed}
         /\ err'[c] => pc'[c] \in {"done", "delete", "returned"}
         /\ c \in landed' => pc'[c] \in {"delete", "returned"}
         /\ pc'[c] \in {"shared", "returned"} /\ joined'[c] # NoCall
              => joined'[c] \in landed'
         /\ pc'[c] = "shared" => joined'[c] # NoCall /\ ~err'[joined'[c]]
         /\ pc'[c] = "wait" => joined'[c] # NoCall
         /\ fetched'[c] # 0 => joined'[c] = NoCall
         /\ pc'[c] \in Alone => joined'[c] = NoCall
  PROVE  CallInv'
<1>1. ASSUME NEW d \in Calls \ {c} PROVE
         /\ pc'[d] \in Early \cup {"fetch"} => fetched'[d] = 0
         /\ pc'[d] \in Early \cup {"fetch", "rename", "register", "open"} => result'[d] = 0
         /\ pc'[d] \in {"done", "delete", "returned"}
              => result'[d] \in Produced' \cup {Failed}
         /\ err'[d] => pc'[d] \in {"done", "delete", "returned"}
         /\ d \in landed' => pc'[d] \in {"delete", "returned"}
         /\ pc'[d] \in {"shared", "returned"} /\ joined'[d] # NoCall
              => joined'[d] \in landed'
         /\ pc'[d] = "wait" => joined'[d] # NoCall
         /\ fetched'[d] # 0 => joined'[d] = NoCall
         /\ pc'[d] \in Alone => joined'[d] = NoCall
  BY <1>1 DEF CallInv
<1>2. ASSUME NEW d \in Calls \ {c}, pc'[d] = "shared"
      PROVE  joined'[d] # NoCall /\ ~err'[joined'[d]]
  <2>1. joined[d] # NoCall /\ ~err[joined[d]] /\ joined[d] \in landed
    BY <1>2 DEF CallInv
  <2>2. joined'[d] = joined[d] /\ joined[d] \in Calls
    BY <2>1 DEF TypeOK
  <2>3. err'[joined[d]] = err[joined[d]]
    BY <2>1, <2>2
  <2>4. QED
    BY <2>1, <2>2, <2>3
<1>3. QED
  BY <1>1, <1>2 DEF CallInv

LEMMA NextCall ==
  TypeOK /\ FlightOwned /\ CallInv /\ VersionInv /\ [Next]_vars => CallInv'
<1> SUFFICES ASSUME TypeOK, FlightOwned, CallInv, VersionInv, [Next]_vars PROVE CallInv'
  OBVIOUS
<1> USE DEF cache, flight, world
<1>a. Produced \subseteq Produced'
  BY ProducedGrows
<1>b. file # 0 => file \in Produced'
  BY <1>a DEF VersionInv
<1>1. ASSUME NEW c \in Calls, Look(c) PROVE CallInv'
  <2>1. CASE Get(c) \/ RemoveStale(c)
    BY <1>a, <2>1, CallFrame DEF Get, RemoveStale, Step, TypeOK, CallInv, Early, Leading, Alone
  <2>2. CASE OpenHit(c)
    BY <1>a, <1>b, <2>2, CallFrame DEF OpenHit, Step, Return, TypeOK, CallInv, Early, Leading, Alone
  <2>3. CASE LoadOrStore(c)
    <3>1. pc[c] = "miss" /\ pc'[c] \in {"fetch", "wait"}
      BY <2>3 DEF LoadOrStore, Step, TypeOK
    <3>2. UNCHANGED <<err, landed, fetched, result>>
      BY <2>3 DEF LoadOrStore
    <3>3. \A d \in Calls \ {c} : pc'[d] = pc[d] /\ joined'[d] = joined[d]
      BY <2>3 DEF LoadOrStore, Step, TypeOK
    <3>4. fetched[c] = 0 /\ result[c] = 0 /\ c \notin landed /\ ~err[c]
      BY <3>1 DEF CallInv, Early
    <3>5. joined[c] = NoCall
      BY <3>1 DEF CallInv, Alone
    <3>6. pc'[c] = "fetch" => joined'[c] = joined[c]
      BY <2>3, <3>1 DEF LoadOrStore, Step, TypeOK
    <3>7. pc'[c] = "wait" => joined'[c] = calls /\ calls # NoCall
      BY <2>3, <3>1 DEF LoadOrStore, Step, TypeOK
    <3>8. QED
      BY <1>a, <3>1, <3>2, <3>3, <3>4, <3>5, <3>6, <3>7, CallFrame DEF Early, Leading, Alone
  <2>4. QED
    BY <1>1, <2>1, <2>2, <2>3 DEF Look
<1>2. ASSUME NEW c \in Calls, Follow(c) PROVE CallInv'
  <2>1. CASE Wait(c)
    BY <1>a, <2>1, CallFrame DEF Wait, Step, Return, TypeOK, CallInv, Early, Leading, Alone
  <2>2. CASE OpenShared(c)
    BY <1>a, <1>b, <2>2, CallFrame DEF OpenShared, Opened, Step, Return, TypeOK, CallInv,
       Early, Leading, Alone
  <2>3. QED
    BY <1>2, <2>1, <2>2 DEF Follow
<1>3. ASSUME NEW c \in Calls, Lead(c) PROVE CallInv'
  <2>1. CASE Fetch(c)
    BY <1>a, <2>1, CallFrame DEF Fetch, Step, TypeOK, CallInv, Early, Leading, Alone
  <2>2. CASE FetchFails(c)
    BY <1>a, <2>2, CallFrame DEF FetchFails, Step, Return, TypeOK, CallInv, Early, Leading, Alone
  <2>3. CASE PutRename(c) \/ PutRegister(c)
    BY <1>a, <2>3, CallFrame DEF PutRename, PutRegister, Step, TypeOK, CallInv, Early, Leading, Alone
  <2>4. CASE OpenOwn(c)
    BY <1>a, <1>b, <2>4, CallFrame DEF OpenOwn, Opened, Step, Return, TypeOK, CallInv, Early,
       Leading, Alone
  <2>5. CASE Done(c)
    BY <1>a, <2>5, CallFrame DEF Done, Step, TypeOK, CallInv, Early, Leading, Alone
  <2>6. CASE Delete(c)
    BY <1>a, <2>6, CallFrame DEF Delete, Step, TypeOK, CallInv, Early, Leading, Alone
  <2>7. QED
    BY <1>3, <2>1, <2>2, <2>3, <2>4, <2>5, <2>6 DEF Lead
<1>4. CASE Evict \/ Publish \/ AllReturned \/ UNCHANGED vars
  BY <1>4 DEF Evict, Publish, AllReturned, vars, CallInv, Produced
<1>5. QED
  BY <1>1, <1>2, <1>3, <1>4 DEF Next

-----------------------------------------------------------------------------
(* Versions *)

\* A step that leaves what was fetched and published alone, and the file too
\* unless it removes it.
LEMMA VersionFrame ==
  ASSUME TypeOK, VersionInv, UNCHANGED <<fetched, upstream>>, file' \in {0, file},
         \A c \in Calls : pc'[c] = "rename" => pc[c] = "rename",
         \A c \in Calls : Stored(c)' => Stored(c) \/ fetched[c] = 0
  PROVE  VersionInv'
<1>1. Produced' = Produced
  BY DEF Produced
<1>2. file' # 0 => file' = file
  OBVIOUS
<1>3. file \in Nat /\ upstream \in Nat /\ \A c \in Calls : fetched[c] \in Nat
  BY BoundsAssumption DEF TypeOK, Versions
<1>4. file' <= upstream /\ \A c \in Calls : fetched[c] <= upstream
  BY <1>2, <1>3 DEF VersionInv
<1>5. ASSUME NEW c \in Calls, pc'[c] = "rename"
      PROVE  file' <= fetched[c] /\ \A d \in Calls : fetched[d] <= fetched[c]
  BY <1>2, <1>3, <1>5 DEF VersionInv
<1>6. ASSUME NEW f \in Calls, Stored(f)', file' # 0 PROVE file' >= fetched[f]
  BY <1>2, <1>3, <1>6 DEF VersionInv
<1>7. QED
  BY <1>1, <1>2, <1>4, <1>5, <1>6 DEF VersionInv

\* The leader fetches the newest version there is, and none is published to the
\* path before it stores that: no other call may fetch meanwhile.
LEMMA NextVersion ==
  TypeOK /\ FlightOwned /\ CallInv /\ VersionInv /\ [Next]_vars => VersionInv'
<1> SUFFICES ASSUME TypeOK, FlightOwned, CallInv, VersionInv, [Next]_vars
             PROVE  VersionInv'
  OBVIOUS
<1> USE DEF cache, flight, world
<1>t. /\ file \in Nat /\ upstream \in Nat
      /\ \A c \in Calls : fetched[c] \in Nat
  BY BoundsAssumption DEF TypeOK, Versions
<1>1. ASSUME NEW c \in Calls, Look(c) PROVE VersionInv'
  BY <1>1, VersionFrame DEF Look, Get, OpenHit, RemoveStale, LoadOrStore, Step, TypeOK,
     CallInv, Stored, Early
<1>2. ASSUME NEW c \in Calls, Follow(c) PROVE VersionInv'
  BY <1>2, VersionFrame DEF Follow, Wait, OpenShared, Step, TypeOK, CallInv, Stored, Early
<1>3. ASSUME NEW c \in Calls, Fetch(c) PROVE VersionInv'
  <2>1. pc[c] = "fetch" /\ pc' = [pc EXCEPT ![c] = "rename"] /\ fetched[c] = 0
    BY <1>3 DEF Fetch, Step, CallInv
  <2>2. fetched'[c] = upstream /\ \A d \in Calls \ {c} : fetched'[d] = fetched[d]
    BY <1>3 DEF Fetch, TypeOK
  <2>3. UNCHANGED <<file, upstream, err>>
    BY <1>3 DEF Fetch
  <2>4. \A d \in Calls : fetched'[d] <= upstream
    BY <1>t, <2>2 DEF VersionInv
  <2>5. file' # 0 => file' \in Produced'
    BY <2>3, ProducedGrows DEF VersionInv
  <2>6. ASSUME NEW d \in Calls, pc'[d] = "rename" PROVE d = c
    BY <2>1, <2>6 DEF FlightOwned, Leading, TypeOK
  <2>7. ASSUME NEW f \in Calls, Stored(f)', file' # 0 PROVE file' >= fetched'[f]
    <3>1. f # c
      BY <2>1, <2>7 DEF Stored, TypeOK
    <3>2. Stored(f)
      BY <2>1, <2>3, <2>7, <3>1 DEF Stored, TypeOK
    <3>3. QED
      BY <2>2, <2>3, <2>7, <3>1, <3>2 DEF VersionInv
  <2>8. file' <= fetched'[c]
    BY <2>2, <2>3 DEF VersionInv
  <2>9. QED
    BY <1>t, <2>2, <2>3, <2>4, <2>5, <2>6, <2>7, <2>8 DEF VersionInv
<1>4. ASSUME NEW c \in Calls, PutRename(c) PROVE VersionInv'
  <2>1. pc[c] = "rename" /\ pc' = [pc EXCEPT ![c] = "register"] /\ file' = fetched[c]
    BY <1>4 DEF PutRename, Step
  <2>2. UNCHANGED <<fetched, upstream, err>> /\ Produced' = Produced
    BY <1>4 DEF PutRename, Produced
  <2>3. \A d \in Calls : fetched[d] <= fetched[c] /\ fetched[d] <= upstream
    BY <2>1 DEF VersionInv
  <2>4. \A d \in Calls : pc'[d] # "rename"
    BY <2>1 DEF FlightOwned, Leading, TypeOK
  <2>5. file' # 0 => file' \in Produced'
    BY <2>1, <2>2 DEF Produced
  <2>6. QED
    BY <1>t, <2>1, <2>2, <2>3, <2>4, <2>5 DEF VersionInv
<1>5. ASSUME NEW c \in Calls, Lead(c), ~Fetch(c), ~PutRename(c) PROVE VersionInv'
  BY <1>5, VersionFrame DEF Lead, FetchFails, PutRegister, OpenOwn, Done, Delete, Step,
     TypeOK, Stored, Early
<1>6. CASE Evict \/ AllReturned \/ UNCHANGED vars
  BY <1>6, VersionFrame DEF Evict, AllReturned, vars, Stored
<1>7. CASE Publish
  BY <1>t, <1>7 DEF Publish, VersionInv, Stored, Produced
<1>8. QED
  BY <1>1, <1>2, <1>3, <1>4, <1>5, <1>6, <1>7 DEF Next, Lead

LEMMA NextAnswer ==
  TypeOK /\ CallInv /\ VersionInv /\ NeverOlderThanFlight /\ [Next]_vars
    => NeverOlderThanFlight'
<1> SUFFICES ASSUME TypeOK, CallInv, VersionInv, NeverOlderThanFlight, [Next]_vars
             PROVE  NeverOlderThanFlight'
  OBVIOUS
<1> USE DEF cache, flight, world
<1>t. /\ file \in Nat
      /\ \A c \in Calls : fetched[c] \in Nat /\ joined[c] \in Calls \cup {NoCall}
  BY BoundsAssumption DEF TypeOK
<1>1. ASSUME UNCHANGED <<joined, result, fetched>> PROVE NeverOlderThanFlight'
  BY <1>1 DEF NeverOlderThanFlight
\* The call c gets the answer v.
<1>2. ASSUME NEW c \in Calls, NEW v, Return(c, v), UNCHANGED <<joined, fetched>>,
             v \notin {0, Failed} =>
               /\ v >= fetched[c]
               /\ joined[c] # NoCall => v >= fetched[joined[c]]
      PROVE  NeverOlderThanFlight'
  BY <1>2 DEF NeverOlderThanFlight, Return, TypeOK
<1>3. ASSUME NEW c \in Calls, OpenHit(c) PROVE NeverOlderThanFlight'
  <2>1. fetched[c] = 0 /\ joined[c] = NoCall
    BY <1>3 DEF OpenHit, Step, CallInv, Early, Alone
  <2>2. QED
    BY <1>t, <1>1, <1>2, <1>3, <2>1 DEF OpenHit
<1>4. ASSUME NEW c \in Calls, LoadOrStore(c) PROVE NeverOlderThanFlight'
  <2>1. result[c] = 0 /\ UNCHANGED <<result, fetched>>
    BY <1>4 DEF LoadOrStore, Step, CallInv, Early
  <2>2. \A d \in Calls \ {c} : joined'[d] = joined[d]
    BY <1>4 DEF LoadOrStore, TypeOK
  <2>3. QED
    BY <2>1, <2>2 DEF NeverOlderThanFlight
<1>5. ASSUME NEW c \in Calls, Wait(c) PROVE NeverOlderThanFlight'
  BY <1>1, <1>2, <1>5 DEF Wait
<1>6. ASSUME NEW c \in Calls, OpenShared(c) PROVE NeverOlderThanFlight'
  <2>1. fetched[c] = 0 /\ joined[c] \in landed /\ joined[c] \in Calls /\ ~err[joined[c]]
    BY <1>6, <1>t DEF OpenShared, Step, CallInv, Early
  <2>2. Stored(joined[c])
    BY <2>1 DEF CallInv, Stored, Early
  <2>3. QED
    BY <1>t, <1>2, <1>6, <2>1, <2>2 DEF OpenShared, Opened, VersionInv
<1>7. ASSUME NEW c \in Calls, Fetch(c) PROVE NeverOlderThanFlight'
  <2>1. pc[c] = "fetch" /\ result[c] = 0 /\ UNCHANGED <<joined, result>>
    BY <1>7 DEF Fetch, Step, CallInv
  <2>2. \A d \in Calls \ {c} : fetched'[d] = fetched[d]
    BY <1>7 DEF Fetch, TypeOK
  <2>3. ASSUME NEW d \in Calls, result[d] # 0, joined[d] # NoCall PROVE joined[d] # c
    <3>1. pc[d] \notin Early \cup {"fetch", "rename", "register", "open"}
      BY <2>3 DEF CallInv
    <3>2. pc[d] = "returned"
      BY <2>3, <3>1 DEF CallInv, Early, Alone, Leading, TypeOK, PCs
    <3>3. joined[d] \in landed
      BY <2>3, <3>2 DEF CallInv
    <3>4. QED
      BY <2>1, <3>3 DEF CallInv
  <2>4. QED
    BY <1>t, <2>1, <2>2, <2>3 DEF NeverOlderThanFlight
<1>8. ASSUME NEW c \in Calls, OpenOwn(c) PROVE NeverOlderThanFlight'
  <2>1. joined[c] = NoCall /\ Stored(c)
    BY <1>8 DEF OpenOwn, Step, CallInv, Alone, Leading, Stored, Early
  <2>2. QED
    BY <1>t, <1>2, <1>8, <2>1 DEF OpenOwn, Opened, VersionInv
<1>9. ASSUME NEW c \in Calls, FetchFails(c) PROVE NeverOlderThanFlight'
  BY <1>2, <1>9 DEF FetchFails
<1>10. QED
  BY <1>1, <1>3, <1>4, <1>5, <1>6, <1>7, <1>8, <1>9 DEF Next, Look, Follow, Lead, Get,
     RemoveStale, PutRename, PutRegister, Done, Delete, Evict, Publish, AllReturned, vars

\* Who answers a call, and with what: only the three opens with a version.
LEMMA AnswerOfStep ==
  ASSUME TypeOK, [Next]_vars
  PROVE  \/ result' = result
         \/ \E c \in Calls, v \in {Failed, file} :
              /\ v # 0 /\ Return(c, v) /\ UNCHANGED <<file, fetched, upstream>>
              /\ \A d \in Calls : pc'[d] = "rename" => pc[d] = "rename"
<1> USE DEF cache, flight, world
<1>1. ASSUME NEW c \in Calls, OpenHit(c) \/ Wait(c) \/ OpenShared(c) \/ OpenOwn(c) \/ FetchFails(c)
      PROVE  \/ result' = result
             \/ \E v \in {Failed, file} :
                  /\ v # 0 /\ Return(c, v) /\ UNCHANGED <<file, fetched, upstream>>
                  /\ \A d \in Calls : pc'[d] = "rename" => pc[d] = "rename"
  BY <1>1 DEF OpenHit, Wait, OpenShared, OpenOwn, FetchFails, Opened, Failed, Step, TypeOK
<1>2. QED
  BY <1>1 DEF Next, Look, Follow, Lead, Get, RemoveStale, LoadOrStore, Fetch, PutRename,
     PutRegister, Done, Delete, Evict, Publish, AllReturned, vars

\* Answers are the file's version at the time, and the file and the version of the leader
\* about to store never fall behind them.
LEMMA NextAnswers ==
  TypeOK /\ FlightOwned /\ CallInv /\ VersionInv /\ AnswerInv /\ [Next]_vars => AnswerInv'
<1> SUFFICES ASSUME TypeOK, FlightOwned, CallInv, VersionInv, AnswerInv, [Next]_vars
             PROVE  AnswerInv'
  OBVIOUS
<1> USE DEF cache, flight, world
<1>t. /\ file \in Nat /\ upstream \in Nat /\ \A c \in Calls : fetched[c] \in Nat
      /\ \A c \in Calls : result[c] \in Int /\ Failed = -1
  BY BoundsAssumption DEF TypeOK, Versions, Failed
<1>1. ASSUME NEW c \in Calls, NEW v \in {Failed, file}, Return(c, v),
             UNCHANGED <<file, fetched, upstream>>,
             \A d \in Calls : pc'[d] = "rename" => pc[d] = "rename"
      PROVE  AnswerInv'
  <2>1. /\ v <= upstream /\ (file # 0 => v <= file)
        /\ \A d \in Calls : pc[d] = "rename" => v <= fetched[d]
    BY <1>t DEF VersionInv
  <2>2. result'[c] = v /\ \A d \in Calls \ {c} : result'[d] = result[d]
    BY <1>1 DEF Return, TypeOK
  <2>3. QED
    BY <1>1, <2>1, <2>2 DEF AnswerInv
<1>2. ASSUME NEW c \in Calls, Fetch(c) PROVE AnswerInv'
  <2>1. /\ pc[c] = "fetch" /\ \A d \in Calls \ {c} : pc'[d] = pc[d] /\ fetched'[d] = fetched[d]
        /\ fetched'[c] = upstream /\ UNCHANGED <<result, upstream, file>>
    BY <1>2 DEF Fetch, Step, TypeOK
  <2>2. QED
    BY <2>1 DEF AnswerInv
<1>3. ASSUME NEW c \in Calls, PutRename(c) PROVE AnswerInv'
  <2>1. /\ pc[c] = "rename" /\ \A d \in Calls : pc'[d] = "rename" => pc[d] = "rename"
        /\ file' = fetched[c] /\ UNCHANGED <<result, upstream, fetched>>
    BY <1>3 DEF PutRename, Step, TypeOK
  <2>2. QED
    BY <2>1 DEF AnswerInv
<1>4. CASE Publish
  BY <1>t, <1>4 DEF Publish, AnswerInv
<1>5. ASSUME UNCHANGED <<result, fetched, upstream>>, file' \in {0, file},
             \A d \in Calls : pc'[d] = "rename" => pc[d] = "rename"
      PROVE  AnswerInv'
  BY <1>5 DEF AnswerInv
<1>6. ASSUME result' = result, ~(\E c \in Calls : Fetch(c) \/ PutRename(c)), ~Publish
      PROVE  AnswerInv'
  BY <1>5, <1>6 DEF Next, Look, Follow, Lead, Get, OpenHit, RemoveStale, LoadOrStore, Wait,
     OpenShared, FetchFails, PutRegister, OpenOwn, Done, Delete, Evict, AllReturned, vars, Step, TypeOK
<1>7. QED
  BY <1>1, <1>2, <1>3, <1>4, <1>6, AnswerOfStep

-----------------------------------------------------------------------------
(* Theorems *)

LEMMA NextInv == IInv /\ [Next]_vars => IInv'
  BY NextType, NextFlight, NextCall, NextVersion, NextAnswer, NextAnswers DEF IInv

\* The inductive invariant holds in every behaviour of any number of calls.
THEOREM InductiveInvariant == Spec => []IInv
<1>1. QED
  BY InitInv, NextInv, PTL DEF Spec

\* LoadOrStore and the deferred Delete keep the sync.Map in step with the leaders:
\* there is never a second fetch beside the first.
THEOREM FlightOwnedAlways == Spec => []FlightOwned
<1>1. IInv => FlightOwned
  BY DEF IInv
<1>2. QED
  BY <1>1, InductiveInvariant, PTL

\* What os.Open finds after the wait is never older than what the flight fetched.
THEOREM NeverOlderThanFlightAlways == Spec => []NeverOlderThanFlight
<1>1. IInv => NeverOlderThanFlight
  BY DEF IInv
<1>2. QED
  BY <1>1, InductiveInvariant, PTL

\* The rename in Put never puts an older version in the place of a newer one.
THEOREM FileNeverGoesBackAlways == Spec => FileNeverGoesBack
<1> DEFINE Grows == file # 0 /\ file' # 0 => file' >= file
<1>1. IInv /\ [Next]_vars => [Grows]_vars
  <2> SUFFICES ASSUME IInv, Next PROVE Grows
    BY DEF vars
  <2> USE DEF cache, flight, world
  <2>t. file \in Nat
    BY BoundsAssumption DEF IInv, TypeOK
  <2>1. ASSUME NEW c \in Calls, PutRename(c) PROVE Grows
    BY <2>1 DEF PutRename, Step, IInv, VersionInv
  <2>2. CASE file' \in {0, file}
    BY <2>t, <2>2
  <2>3. QED
    BY <2>1, <2>2 DEF Next, Look, Follow, Lead, Get, OpenHit, RemoveStale, LoadOrStore,
       Wait, OpenShared, Fetch, FetchFails, PutRegister, OpenOwn, Done, Delete, Evict,
       Publish, AllReturned, vars
<1>2. QED
  BY <1>1, InductiveInvariant, PTL DEF Spec, FileNeverGoesBack

\* Whatever os.Open finds, for a hit, a leader or a follower of GetOrFetch, is no older than
\* what any call has been answered with before.
THEOREM AnswersNeverGoBackAlways == Spec => AnswersNeverGoBack
<1> DEFINE Forward == \A c, d \in Calls :
             result'[c] # result[c] /\ result'[c] # Failed => result'[c] >= result[d]
<1>1. IInv /\ [Next]_vars => [Forward]_vars
  <2> SUFFICES ASSUME IInv, [Next]_vars PROVE Forward
    OBVIOUS
  <2> USE DEF IInv
  <2>1. CASE result' = result
    BY <2>1
  <2>2. ASSUME NEW c \in Calls, NEW v \in {Failed, file}, v # 0, Return(c, v) PROVE Forward
    <3>1. result'[c] = v /\ \A d \in Calls \ {c} : result'[d] = result[d]
      BY <2>2 DEF Return, TypeOK
    <3>2. SUFFICES ASSUME result'[c] # result[c], v # Failed, NEW d \in Calls
                   PROVE  v >= result[d]
      BY <3>1
    <3>3. v = file /\ file # 0 /\ file \in Nat /\ result[d] \in Int
      BY <2>2, <3>2, BoundsAssumption DEF TypeOK, Failed
    <3>4. QED
      BY <3>3 DEF AnswerInv
  <2>3. QED
    BY <2>1, <2>2, AnswerOfStep
<1>2. QED
  BY <1>1, InductiveInvariant, PTL DEF Spec, AnswersNeverGoBack

-----------------------------------------------------------------------------
(* Refinement *)

\* A call that has not returned and does not return now leaves the answers alone.
LEMMA NoAnswer ==
  ASSUME TypeOK, NEW c \in Calls, pc[c] # "returned", pc'[c] # "returned",
         \A d \in Calls \ {c} : pc'[d] = pc[d] /\ result'[d] = result[d]
  PROVE  Answers' = Answers
  BY DEF Answers

\* Returning v is an answer of the abstract specification.
LEMMA AnswerStep ==
  ASSUME TypeOK, NEW c \in Calls, NEW v, pc[c] # "returned", pc'[c] = "returned",
         \A d \in Calls \ {c} : pc'[d] = pc[d] /\ result'[d] = result[d],
         result'[c] = v, v \in Produced \cup {Failed}, UNCHANGED fetched,
         calls' = IF calls = c THEN NoCall ELSE calls
  PROVE  SF!SNext
<1>1. Answers[c] = 0 /\ Answers' = [Answers EXCEPT ![c] = v]
  BY DEF Answers
<1>2. Produced' = Produced
  BY DEF Produced
<1>3. v \in Versions \cup {-1}
  BY BoundsAssumption DEF Produced, Failed, TypeOK, Versions
<1>4. SF!Answer(c, v)
  BY <1>1, <1>2 DEF SF!Answer, Failed
<1>5. QED
  BY <1>3, <1>4 DEF SF!SNext

LEMMA NextRefines == IInv /\ [Next]_vars => [SF!SNext]_(SF!svars)
<1> SUFFICES ASSUME IInv, [Next]_vars PROVE SF!SNext \/ UNCHANGED SF!svars
  OBVIOUS
<1> USE DEF IInv, cache, flight, world
<1>f. file # 0 => file \in Produced
  BY DEF VersionInv
<1>1. ASSUME UNCHANGED <<calls, fetched>>, Answers' = Answers PROVE UNCHANGED SF!svars
  BY <1>1 DEF SF!svars, Produced
<1>2. ASSUME NEW c \in Calls, Get(c) \/ RemoveStale(c) PROVE UNCHANGED SF!svars
  <2>1. Answers' = Answers
    BY <1>2, NoAnswer DEF Get, RemoveStale, Step, TypeOK
  <2>2. QED
    BY <1>1, <1>2, <2>1 DEF Get, RemoveStale
<1>3. ASSUME NEW c \in Calls, OpenHit(c) PROVE SF!SNext \/ UNCHANGED SF!svars
  <2>0. pc[c] = "hit" /\ calls # c
    BY <1>3 DEF OpenHit, Step, FlightOwned, Leading
  <2>1. CASE file = 0
    <3>1. Answers' = Answers
      BY <1>3, <2>1, NoAnswer DEF OpenHit, Step, TypeOK
    <3>2. QED
      BY <1>1, <1>3, <3>1 DEF OpenHit
  <2>2. CASE file # 0
    BY <1>3, <1>f, <2>0, <2>2, AnswerStep DEF OpenHit, Step, Return, TypeOK
  <2>3. QED
    BY <2>1, <2>2
<1>4. ASSUME NEW c \in Calls, LoadOrStore(c) PROVE SF!SNext \/ UNCHANGED SF!svars
  <2>1. Answers' = Answers /\ Answers[c] = 0
    BY <1>4, NoAnswer DEF LoadOrStore, Step, TypeOK, Answers
  <2>2. Produced' = Produced
    BY <1>4 DEF LoadOrStore, Produced
  <2>3. CASE calls = NoCall
    <3>1. SF!Start(c)
      BY <1>4, <2>1, <2>2, <2>3 DEF LoadOrStore, SF!Start
    <3>2. QED
      BY <3>1 DEF SF!SNext
  <2>4. CASE calls # NoCall
    BY <1>1, <1>4, <2>1, <2>4 DEF LoadOrStore
  <2>5. QED
    BY <2>3, <2>4
<1>5. ASSUME NEW c \in Calls, Follow(c) PROVE SF!SNext \/ UNCHANGED SF!svars
  <2>0. pc[c] \in {"wait", "shared"} /\ calls # c
    BY <1>5 DEF Follow, Wait, OpenShared, Step, FlightOwned, Leading
  <2>1. CASE Wait(c) /\ err[joined[c]]
    BY <2>0, <2>1, AnswerStep DEF Wait, Step, Return, TypeOK
  <2>2. CASE Wait(c) /\ ~err[joined[c]]
    <3>1. Answers' = Answers
      BY <2>2, NoAnswer DEF Wait, Step, TypeOK
    <3>2. QED
      BY <1>1, <2>2, <3>1 DEF Wait
  <2>3. CASE OpenShared(c)
    BY <1>f, <2>0, <2>3, AnswerStep DEF OpenShared, Opened, Step, Return, TypeOK
  <2>4. QED
    BY <1>5, <2>1, <2>2, <2>3 DEF Follow
<1>6. ASSUME NEW c \in Calls, Fetch(c) PROVE SF!SNext
  <2>1. Answers' = Answers
    BY <1>6, NoAnswer DEF Fetch, Step, TypeOK
  <2>2. calls' = calls /\ calls # NoCall
    BY <1>6, CallsAssumption DEF Fetch, Step, FlightOwned, Leading
  <2>3. fetched' = [fetched EXCEPT ![c] = upstream] /\ fetched[c] = 0
    BY <1>6 DEF Fetch, Step, CallInv
  <2>4. upstream \in Versions /\ upstream # 0
    BY BoundsAssumption DEF TypeOK, Versions
  <2>5. Produced' = Produced \cup {upstream}
    BY <2>3, <2>4 DEF Produced, TypeOK
  <2>6. SF!Produce(upstream)
    BY <2>1, <2>2, <2>5 DEF SF!Produce
  <2>7. QED
    BY <2>4, <2>6 DEF SF!SNext
<1>7. ASSUME NEW c \in Calls,
             \/ FetchFails(c) \/ PutRename(c) \/ PutRegister(c) \/ OpenOwn(c) \/ Done(c)
      PROVE  UNCHANGED SF!svars
  <2>1. Answers' = Answers
    BY <1>7, NoAnswer DEF FetchFails, PutRename, PutRegister, OpenOwn, Done, Step, Return,
       TypeOK
  <2>2. QED
    BY <1>1, <1>7, <2>1 DEF FetchFails, PutRename, PutRegister, OpenOwn, Done
<1>8. ASSUME NEW c \in Calls, Delete(c) PROVE SF!SNext
  <2>1. pc[c] = "delete" /\ calls = c /\ calls' = NoCall /\ UNCHANGED <<fetched, result>>
    BY <1>8 DEF Delete, Step, FlightOwned, Leading
  <2>2. result[c] \in Produced \cup {Failed}
    BY <2>1 DEF CallInv
  <2>3. QED
    BY <1>8, <2>1, <2>2, AnswerStep DEF Delete, Step, TypeOK
<1>9. CASE Evict \/ Publish \/ AllReturned \/ UNCHANGED vars
  BY <1>1, <1>9 DEF Evict, Publish, AllReturned, vars, Answers
<1>10. QED
  BY <1>2, <1>3, <1>4, <1>5, <1>6, <1>7, <1>8, <1>9 DEF Next, Look, Lead

\* GetOrFetch implements what it promises: one fetch at a time, and every caller
\* answered once, with bytes that a fetch of this process produced or an error.
THEOREM ImplementsSingleFlightAlways == Spec => ImplementsSingleFlight
<1>1. Init => SF!SInit
  BY DEF Init, SF!SInit, Answers, Produced
<1>2. QED
  BY <1>1, NextRefines, InductiveInvariant, PTL
  DEF Spec, ImplementsSingleFlight, SF!SSpec

-----------------------------------------------------------------------------
(* The npm and the apt proxy *)

\* A step of a handler is a step of GetOrFetch, or only a client that leaves.
LEMMA PNextNext == [PNext]_allVars => [Next]_vars
<1> SUFFICES ASSUME [PNext]_allVars PROVE Next \/ UNCHANGED vars
  OBVIOUS
<1>1. ASSUME NEW c \in Calls, PLook(c) \/ PFollow(c) \/ PLead(c) PROVE Look(c) \/ Follow(c) \/ Lead(c)
  BY <1>1 DEF PLook, PFollow, PLead, PRename, PFetchFails, POpenOwn, Lead
<1>2. ASSUME NEW c \in Calls, Goes(c) PROVE UNCHANGED vars
  BY <1>2 DEF Goes
<1>3. CASE UNCHANGED allVars
  BY <1>3 DEF allVars
<1>4. CASE PNext
  BY <1>1, <1>2, <1>4 DEF PNext, Next
<1>5. QED
  BY <1>3, <1>4

LEMMA PInitInv == PInit => PIInv
<1> SUFFICES ASSUME PInit PROVE PIInv
  OBVIOUS
<1> USE CallsAssumption, BoundsAssumption
<1>1. Init /\ IInv
  BY InitInv DEF PInit
<1>2. PTypeOK
  BY ProxiesAssumption DEF PInit, PTypeOK
<1>3. FetchedInv /\ AuthorInv
  BY <1>1 DEF PInit, Init, FetchedInv, AuthorInv
<1>4. KeptInv
  BY <1>1 DEF Init, KeptInv
<1>5. LeaversHarmNobody /\ OwnHeaders
  BY <1>1 DEF PInit, Init, Failed, LeaversHarmNobody, OwnHeaders
<1>6. QED
  BY <1>1, <1>2, <1>3, <1>4, <1>5 DEF PIInv

-----------------------------------------------------------------------------
(* Frames *)

\* What a call is answered with, and by whom, is the author's file.
LEMMA AnsweredFrame ==
  ASSUME PTypeOK, NEW c \in Calls, Answered(c)
  PROVE  /\ \A d \in Calls \ {c} : from'[d] = from[d]
         /\ from'[c] \in {from[c], author}
         /\ result'[c] \in {0, Failed} \/ result'[c] = result[c] => from' = from
         /\ result'[c] \notin {0, Failed, result[c]} => from'[c] = author
         /\ from' \in [Calls -> Calls \cup {NoCall}]
  BY DEF Answered, PTypeOK

LEMMA PNextType == PTypeOK /\ [PNext]_allVars => PTypeOK'
<1> SUFFICES ASSUME PTypeOK, [PNext]_allVars PROVE PTypeOK'
  OBVIOUS
<1> USE LeaversAssumption DEF aux
<1>1. ASSUME NEW c \in Calls, PLook(c) \/ PFollow(c) \/ POpenOwn(c) PROVE PTypeOK'
  BY <1>1, AnsweredFrame DEF PLook, PFollow, POpenOwn, PTypeOK
<1>2. ASSUME NEW c \in Calls, PRename(c) \/ PFetchFails(c) PROVE PTypeOK'
  BY <1>2 DEF PRename, PFetchFails, PTypeOK
<1>3. CASE UNCHANGED aux
  BY <1>3 DEF PTypeOK
<1>4. ASSUME NEW c \in Calls, Goes(c) PROVE PTypeOK'
  BY <1>4 DEF Goes, PTypeOK
<1>5. CASE UNCHANGED allVars
  BY <1>3, <1>5 DEF allVars
<1>6. QED
  BY <1>1, <1>2, <1>3, <1>4, <1>5 DEF PNext, PLead

-----------------------------------------------------------------------------
(* Blame: who made a flight fail *)

\* A step of c that leaves the other calls alone, fetches nothing and fails nothing.
LEMMA FetchedFrame ==
  ASSUME FetchedInv, UNCHANGED <<fetched, err, proxy>>, refused \subseteq refused', left \subseteq left',
         \A c \in Calls : pc'[c] \in {"rename", "register", "open"} =>
                            pc[c] \in {"rename", "register", "open"},
         \A c \in Calls : pc'[c] \in {"done", "delete"} \/ c \in landed' =>
                            pc[c] \in {"open", "done", "delete"} \/ c \in landed
  PROVE  FetchedInv'
BY DEF FetchedInv

LEMMA PNextFetched == TypeOK /\ PTypeOK /\ FetchedInv /\ [PNext]_allVars => FetchedInv'
<1> SUFFICES ASSUME TypeOK, PTypeOK, FetchedInv, [PNext]_allVars PROVE FetchedInv'
  OBVIOUS
<1> USE DEF cache, flight, world, aux
<1>1. ASSUME NEW c \in Calls, Look(c), UNCHANGED <<proxy, refused, left>> PROVE FetchedInv'
  BY <1>1, FetchedFrame DEF Look, Get, OpenHit, RemoveStale, LoadOrStore, Step, TypeOK
<1>2. ASSUME NEW c \in Calls, Follow(c), UNCHANGED <<proxy, refused, left>> PROVE FetchedInv'
  BY <1>2, FetchedFrame DEF Follow, Wait, OpenShared, Step, TypeOK
<1>3. ASSUME NEW c \in Calls, Fetch(c), UNCHANGED aux PROVE FetchedInv'
  <2>1. /\ \A d \in Calls \ {c} : pc'[d] = pc[d] /\ fetched'[d] = fetched[d]
        /\ pc'[c] = "rename" /\ fetched'[c] = upstream /\ UNCHANGED <<err, landed, refused, proxy, left>>
    BY <1>3 DEF Fetch, Step, TypeOK
  <2>2. upstream # 0
    BY BoundsAssumption DEF TypeOK, Versions
  <2>3. QED
    BY <2>1, <2>2 DEF FetchedInv
<1>4. ASSUME NEW c \in Calls, PFetchFails(c) PROVE FetchedInv'
  <2>1. /\ \A d \in Calls \ {c} : pc'[d] = pc[d] /\ err'[d] = err[d]
        /\ pc'[c] = "done" /\ err'[c] /\ UNCHANGED <<fetched, landed, proxy, left>>
    BY <1>4 DEF PFetchFails, FetchFails, Step, TypeOK
  <2>2. refused \subseteq refused' /\ (c \in refused' \/ (proxy = "apt" /\ c \in left))
    BY <1>4 DEF PFetchFails, Cancels
  <2>3. QED
    BY <2>1, <2>2 DEF FetchedInv
<1>5. ASSUME NEW c \in Calls, PRename(c) \/ POpenOwn(c) PROVE FetchedInv'
  BY <1>5, FetchedFrame DEF PRename, POpenOwn, PutRename, OpenOwn, Step, TypeOK
<1>6. ASSUME NEW c \in Calls, PutRegister(c) \/ Done(c) \/ Delete(c), UNCHANGED aux PROVE FetchedInv'
  BY <1>6, FetchedFrame DEF PutRegister, Done, Delete, Step, TypeOK
<1>7. CASE (Evict \/ Publish \/ AllReturned) /\ UNCHANGED aux
  BY <1>7, FetchedFrame DEF Evict, Publish, AllReturned, vars
<1>8. CASE UNCHANGED allVars \/ \E c \in Calls : Goes(c)
  BY <1>8, FetchedFrame DEF allVars, vars, Goes
<1>9. QED
  BY <1>1, <1>2, <1>3, <1>4, <1>5, <1>6, <1>7, <1>8 DEF PNext, PLook, PFollow, PLead

-----------------------------------------------------------------------------
(* The author of the file *)

\* A step that fetches nothing and leaves the author and the file alone, unless it removes
\* the file.
LEMMA AuthorFrame ==
  ASSUME AuthorInv, UNCHANGED <<fetched, author>>, file' \in {0, file},
         \A c \in Calls : pc'[c] \in {"register", "open"} => pc[c] \in {"register", "open"}
  PROVE  AuthorInv'
BY DEF AuthorInv

LEMMA PNextAuthor ==
  TypeOK /\ PTypeOK /\ FlightOwned /\ CallInv /\ FetchedInv /\ AuthorInv /\ [PNext]_allVars
    => AuthorInv'
<1> SUFFICES ASSUME TypeOK, PTypeOK, FlightOwned, CallInv, FetchedInv, AuthorInv, [PNext]_allVars
             PROVE  AuthorInv'
  OBVIOUS
<1> USE DEF cache, flight, world, aux
<1>1. ASSUME NEW c \in Calls, Look(c), UNCHANGED author PROVE AuthorInv'
  BY <1>1, AuthorFrame DEF Look, Get, OpenHit, RemoveStale, LoadOrStore, Step, TypeOK
<1>2. ASSUME NEW c \in Calls, Follow(c), UNCHANGED author PROVE AuthorInv'
  BY <1>2, AuthorFrame DEF Follow, Wait, OpenShared, Step, TypeOK
<1>3. ASSUME NEW c \in Calls, Fetch(c), UNCHANGED aux PROVE AuthorInv'
  <2>1. /\ \A d \in Calls \ {c} : pc'[d] = pc[d] /\ fetched'[d] = fetched[d]
        /\ pc'[c] = "rename" /\ fetched[c] = 0 /\ UNCHANGED <<author, file>>
    BY <1>3 DEF Fetch, Step, TypeOK, CallInv
  <2>2. author # NoCall => author \in Calls \ {c} /\ fetched'[author] = fetched[author]
    BY <2>1 DEF AuthorInv, PTypeOK
  <2>3. QED
    BY <2>1, <2>2 DEF AuthorInv
<1>4. ASSUME NEW c \in Calls, PRename(c) PROVE AuthorInv'
  <2>1. /\ pc[c] = "rename" /\ pc'[c] = "register" /\ \A d \in Calls \ {c} : pc'[d] = pc[d]
        /\ file' = fetched[c] /\ author' = c /\ fetched' = fetched
    BY <1>4 DEF PRename, PutRename, Step, TypeOK
  <2>2. fetched[c] # 0 /\ c # NoCall
    BY <2>1, CallsAssumption DEF FetchedInv
  <2>3. \A d \in Calls \ {c} : pc[d] \notin {"register", "open"}
    BY <2>1 DEF FlightOwned, Leading
  <2>4. QED
    BY <2>1, <2>2, <2>3 DEF AuthorInv
<1>5. ASSUME NEW c \in Calls, PFetchFails(c) \/ POpenOwn(c) PROVE AuthorInv'
  BY <1>5, AuthorFrame DEF PFetchFails, POpenOwn, FetchFails, OpenOwn, Step, TypeOK
<1>6. ASSUME NEW c \in Calls, PutRegister(c) \/ Done(c) \/ Delete(c), UNCHANGED aux PROVE AuthorInv'
  BY <1>6, AuthorFrame DEF PutRegister, Done, Delete, Step, TypeOK
<1>7. CASE (Evict \/ Publish \/ AllReturned) /\ UNCHANGED aux
  BY <1>7, AuthorFrame DEF Evict, Publish, AllReturned, vars
<1>8. CASE UNCHANGED allVars \/ \E c \in Calls : Goes(c)
  BY <1>8, AuthorFrame DEF allVars, vars, Goes
<1>9. QED
  BY <1>1, <1>2, <1>3, <1>4, <1>5, <1>6, <1>7, <1>8 DEF PNext, PLook, PFollow, PLead

-----------------------------------------------------------------------------
(* Answers *)

\* The steps of the proxies, by what they do to the answers: steps that may answer c, ...
Answering(c) == PLook(c) \/ PFollow(c) \/ POpenOwn(c)
\* ... that fetch or fail its flight, ...
Fetching(c) == (Fetch(c) /\ UNCHANGED aux) \/ PFetchFails(c)
\* ... and all the others.
Silent ==
  \/ \E c \in Calls : \/ PRename(c) \/ Goes(c)
                      \/ (PutRegister(c) \/ Done(c) \/ Delete(c)) /\ UNCHANGED aux
  \/ (Evict \/ Publish \/ AllReturned) /\ UNCHANGED aux
  \/ UNCHANGED allVars

LEMMA PSteps == [PNext]_allVars => Silent \/ \E c \in Calls : Answering(c) \/ Fetching(c)
BY DEF PNext, PLead, Answering, Fetching, Silent

\* Who answers: a body is the author's.
LEMMA AnswerOfAuthor ==
  ASSUME TypeOK, PTypeOK,
         NEW c \in Calls, NEW v, result[c] = 0, Return(c, v), v \in {Failed, file}, Answered(c)
  PROVE  /\ v \notin {0, Failed} => from'[c] = author /\ v = file
         /\ \A d \in Calls \ {c} : from'[d] = from[d] /\ result'[d] = result[d]
<1>1. result'[c] = v /\ \A d \in Calls \ {c} : result'[d] = result[d]
  BY DEF Return, TypeOK
<1>2. QED
  BY <1>1, AnsweredFrame

\* Which steps answer a call, with what.
LEMMA AnsweringFrame ==
  ASSUME TypeOK, CallInv, NEW c \in Calls, Answering(c)
  PROVE  /\ Answered(c) /\ UNCHANGED <<fetched, proxy, left, refused, author>>
         /\ result[c] = 0
         /\ result' = result \/ \E v \in {Failed, file} : Return(c, v)
<1> USE DEF cache, flight, world
<1>1. CASE PLook(c)
  <2>1. Look(c) /\ Answered(c) /\ UNCHANGED <<proxy, left, refused, author>>
    BY <1>1 DEF PLook
  <2>2. pc[c] \in {"get", "hit", "stale", "miss"}
    BY <2>1 DEF Look, Get, OpenHit, RemoveStale, LoadOrStore, Step
  <2>3. UNCHANGED fetched /\ (result' = result \/ Return(c, file))
    BY <2>1 DEF Look, Get, OpenHit, RemoveStale, LoadOrStore
  <2>4. QED
    BY <2>1, <2>2, <2>3 DEF CallInv, Early
<1>2. CASE PFollow(c)
  <2>1. Follow(c) /\ Answered(c) /\ UNCHANGED <<proxy, left, refused, author>>
    BY <1>2 DEF PFollow
  <2>2. pc[c] \in {"wait", "shared"}
    BY <2>1 DEF Follow, Wait, OpenShared, Step
  <2>3. UNCHANGED fetched /\ (result' = result \/ Return(c, file) \/ Return(c, Failed))
    BY <2>1 DEF Follow, Wait, OpenShared, Opened
  <2>4. QED
    BY <2>1, <2>2, <2>3 DEF CallInv, Early
<1>3. CASE POpenOwn(c)
  <2>1. OpenOwn(c) /\ Answered(c) /\ UNCHANGED <<proxy, left, refused, author>>
    BY <1>3 DEF POpenOwn
  <2>2. pc[c] = "open" /\ UNCHANGED fetched /\ (Return(c, file) \/ Return(c, Failed))
    BY <2>1 DEF OpenOwn, Step, Opened
  <2>3. QED
    BY <2>1, <2>2 DEF CallInv, Early
<1>4. QED
  BY <1>1, <1>2, <1>3 DEF Answering

\* A call with a version of its own is answered when it opens the file.
LEMMA AnsweringPC ==
  ASSUME NEW c \in Calls, Answering(c)
  PROVE  pc[c] \in Early \cup {"open"}
BY DEF Answering, PLook, PFollow, POpenOwn, Look, Get, OpenHit, RemoveStale, LoadOrStore, Follow,
       Wait, OpenShared, OpenOwn, Step, Early

\* The steps that answer nobody: a version is fetched, or a flight fails.
LEMMA FetchingFrame ==
  ASSUME TypeOK, CallInv, NEW c \in Calls, Fetching(c)
  PROVE  /\ result'[c] \in {0, Failed} /\ joined[c] = NoCall
         /\ \A d \in Calls \ {c} : result'[d] = result[d] /\ fetched'[d] = fetched[d]
<1> USE DEF flight, world, cache
<1>1. /\ pc[c] \in {"fetch", "rename"} /\ result'[c] \in {result[c], Failed}
      /\ \A d \in Calls \ {c} : result'[d] = result[d] /\ fetched'[d] = fetched[d]
  BY DEF Fetching, PFetchFails, Fetch, FetchFails, Step, Return, TypeOK
<1>2. result[c] = 0 /\ joined[c] = NoCall
  BY <1>1 DEF CallInv, Alone, Leading
<1>3. QED
  BY <1>1, <1>2

LEMMA SilentFrame ==
  ASSUME Silent
  PROVE  /\ UNCHANGED <<result, fetched, joined, from, proxy, refused>>
         /\ left \subseteq left' /\ evictions' \in {evictions, evictions + 1}
<1> USE DEF cache, flight, world, aux
<1>1. CASE UNCHANGED allVars
  BY <1>1 DEF allVars, vars
<1>2. ASSUME NEW c \in Calls,
             PRename(c) \/ ((PutRegister(c) \/ Done(c) \/ Delete(c)) /\ UNCHANGED aux)
      PROVE  UNCHANGED <<result, fetched, joined, from, proxy, refused, left, evictions>>
  BY <1>2 DEF PRename, PutRename, PutRegister, Done, Delete
<1>3. ASSUME NEW c \in Calls, Goes(c)
      PROVE  /\ UNCHANGED <<result, fetched, joined, from, proxy, refused, evictions>>
             /\ left \subseteq left'
  BY <1>3 DEF Goes, vars
<1>4. CASE (Evict \/ Publish \/ AllReturned) /\ UNCHANGED aux
  BY <1>4 DEF Evict, Publish, AllReturned, vars
<1>5. QED
  BY <1>1, <1>2, <1>3, <1>4 DEF Silent

\* A leader is answered with the file it has fetched itself.
LEMMA PNextOwn ==
  /\ TypeOK /\ PTypeOK /\ CallInv /\ AuthorInv /\ OwnHeaders /\ [PNext]_allVars
  => OwnHeaders'
<1> SUFFICES ASSUME TypeOK, PTypeOK, CallInv, AuthorInv, OwnHeaders, [PNext]_allVars
             PROVE  OwnHeaders'
  OBVIOUS
<1>1. ASSUME NEW c \in Calls, Answering(c) PROVE OwnHeaders'
  <2>1. /\ Answered(c) /\ UNCHANGED fetched /\ result[c] = 0
        /\ result' = result \/ \E v \in {Failed, file} : Return(c, v)
    BY <1>1, AnsweringFrame
  <2>2. CASE result' = result
    BY <2>1, <2>2 DEF Answered, OwnHeaders
  <2>3. ASSUME NEW v \in {Failed, file}, Return(c, v) PROVE OwnHeaders'
    <3>1. /\ v \notin {0, Failed} => from'[c] = author /\ v = file
          /\ \A d \in Calls \ {c} : from'[d] = from[d] /\ result'[d] = result[d]
      BY <2>1, <2>3, AnswerOfAuthor
    <3>2. result'[c] = v
      BY <2>3 DEF Return, TypeOK
    <3>3. v \notin {0, Failed} /\ fetched[c] # 0 => author = c
      <4>1. fetched[c] # 0 => pc[c] = "open"
        BY <1>1, AnsweringPC DEF CallInv, Early
      <4>2. QED
        BY <3>1, <4>1 DEF AuthorInv
    <3>4. QED
      BY <2>1, <3>1, <3>2, <3>3 DEF OwnHeaders
  <2>4. QED
    BY <2>1, <2>2, <2>3
<1>2. ASSUME NEW c \in Calls, Fetching(c) PROVE OwnHeaders'
  <2>1. UNCHANGED from
    BY <1>2 DEF Fetching, PFetchFails, aux
  <2>2. QED
    BY <1>2, <2>1, FetchingFrame DEF OwnHeaders
<1>3. CASE Silent
  BY <1>3, SilentFrame DEF OwnHeaders
<1>4. QED
  BY <1>1, <1>2, <1>3, PSteps

-----------------------------------------------------------------------------
(* What was stored is kept until an eviction *)

\* A step that keeps the file and moves only c along, not to where it would lack the file.
LEMMA KeptFrame ==
  ASSUME KeptInv, NEW c \in Calls, UNCHANGED <<entry, file, evictions>>,
         \A d \in Calls \ {c} : pc'[d] = pc[d] /\ err'[d] = err[d] /\ fetched'[d] = fetched[d],
         evictions = 0 =>
           /\ pc'[c] # "stale" /\ (pc'[c] = "hit" => file # 0)
           /\ Stored(c)' /\ fetched'[c] # 0 => Stored(c) /\ fetched[c] # 0
  PROVE  KeptInv'
BY DEF KeptInv, Stored

LEMMA NextKept ==
  TypeOK /\ CallInv /\ FetchedInv /\ KeptInv /\ [Next]_vars => KeptInv'
<1> SUFFICES ASSUME TypeOK, CallInv, FetchedInv, KeptInv, [Next]_vars PROVE KeptInv'
  OBVIOUS
<1> USE DEF cache, flight, world
<1>1. ASSUME NEW c \in Calls, Get(c) PROVE KeptInv'
  BY <1>1, KeptFrame DEF Get, Step, TypeOK, Stored, Early, KeptInv
<1>2. ASSUME NEW c \in Calls, OpenHit(c) PROVE KeptInv'
  <2>1. fetched[c] = 0 /\ pc[c] = "hit" /\ pc'[c] = IF file = 0 THEN "stale" ELSE "returned"
    BY <1>2 DEF OpenHit, Step, TypeOK, CallInv, Early
  <2>2. evictions = 0 => file # 0
    BY <2>1 DEF KeptInv
  <2>3. /\ UNCHANGED <<entry, file, evictions, fetched, err>>
        /\ \A d \in Calls \ {c} : pc'[d] = pc[d]
    BY <1>2 DEF OpenHit, Step, TypeOK
  <2>4. QED
    BY <2>1, <2>2, <2>3, KeptFrame
<1>3. ASSUME NEW c \in Calls, RemoveStale(c) PROVE KeptInv'
  BY <1>3 DEF RemoveStale, Step, KeptInv
<1>4. ASSUME NEW c \in Calls, LoadOrStore(c) \/ Wait(c) PROVE KeptInv'
  BY <1>4, KeptFrame DEF LoadOrStore, Wait, Step, TypeOK, Stored, CallInv, Early
<1>5. ASSUME NEW c \in Calls, OpenShared(c) PROVE KeptInv'
  BY <1>5, KeptFrame DEF OpenShared, Step, TypeOK, Stored, CallInv, Early
<1>6. ASSUME NEW c \in Calls, Fetch(c) \/ FetchFails(c) PROVE KeptInv'
  BY <1>6, KeptFrame DEF Fetch, FetchFails, Step, TypeOK, Stored
<1>7. ASSUME NEW c \in Calls, PutRename(c) PROVE KeptInv'
  <2>1. /\ pc[c] = "rename" /\ pc'[c] = "register" /\ \A d \in Calls \ {c} : pc'[d] = pc[d]
        /\ file' = fetched[c] /\ UNCHANGED <<evictions, fetched, err>>
    BY <1>7 DEF PutRename, Step, TypeOK
  <2>2. file' # 0
    BY <2>1 DEF FetchedInv
  <2>3. QED
    BY <2>1, <2>2 DEF KeptInv
<1>8. ASSUME NEW c \in Calls, PutRegister(c) PROVE KeptInv'
  <2>1. /\ pc[c] = "register" /\ pc'[c] = "open" /\ \A d \in Calls \ {c} : pc'[d] = pc[d]
        /\ UNCHANGED <<file, evictions, fetched, err>>
    BY <1>8 DEF PutRegister, Step, TypeOK
  <2>2. Stored(c) /\ fetched[c] # 0
    BY <2>1 DEF Stored, Early, CallInv, FetchedInv
  <2>3. evictions = 0 => file # 0
    BY <2>2 DEF KeptInv
  <2>4. QED
    BY <2>1, <2>2, <2>3 DEF KeptInv, Stored
<1>9. ASSUME NEW c \in Calls, OpenOwn(c) \/ Done(c) \/ Delete(c) PROVE KeptInv'
  BY <1>9, KeptFrame DEF OpenOwn, Done, Delete, Step, TypeOK, Stored, Early
<1>10. CASE Evict
  <2>1. evictions' # 0
    BY <1>10, BoundsAssumption DEF Evict, TypeOK
  <2>2. QED
    BY <2>1 DEF KeptInv
<1>11. CASE Publish \/ AllReturned \/ UNCHANGED vars
  BY <1>11 DEF Publish, AllReturned, vars, KeptInv, Stored
<1>12. QED
  BY <1>1, <1>2, <1>3, <1>4, <1>5, <1>6, <1>7, <1>8, <1>9, <1>10, <1>11
  DEF Next, Look, Follow, Lead

-----------------------------------------------------------------------------
(* Who leaves, and who fails *)

\* With nothing evicted a call fails only with its flight.
LEMMA FailsWithFlight ==
  ASSUME TypeOK, CallInv, FetchedInv, KeptInv, NEW c \in Calls, Answering(c),
         evictions = 0, result'[c] = Failed
  PROVE  joined[c] # NoCall /\ err[joined[c]] /\ joined' = joined
<1> USE DEF cache, flight, world
<1>0. result[c] = 0
  BY AnsweringFrame
<1>f. Failed \notin 0..MaxVersion /\ 0 # Failed /\ file \in 0..MaxVersion
  BY BoundsAssumption DEF Failed, TypeOK
<1>1. CASE PLook(c)
  <2>1. result' = result \/ Return(c, file)
    BY <1>1 DEF PLook, Look, Get, OpenHit, RemoveStale, LoadOrStore
  <2>2. QED
    BY <1>0, <1>f, <2>1 DEF Return, TypeOK
<1>2. CASE Wait(c)
  <2>1. CASE err[joined[c]]
    BY <1>2, <2>1 DEF Wait, Step, CallInv
  <2>2. CASE ~err[joined[c]]
    BY <1>0, <1>2, <1>f, <2>2 DEF Wait
  <2>3. QED
    BY <2>1, <2>2
<1>3. CASE OpenShared(c)
  <2>1. joined[c] \in landed /\ ~err[joined[c]] /\ joined[c] \in Calls
    BY <1>3 DEF OpenShared, Step, CallInv, TypeOK
  <2>2. Stored(joined[c]) /\ fetched[joined[c]] # 0
    BY <2>1 DEF Stored, CallInv, FetchedInv, Early
  <2>3. file # 0
    BY <2>1, <2>2 DEF KeptInv
  <2>4. result'[c] = file
    BY <1>3, <2>3 DEF OpenShared, Opened, Return, TypeOK
  <2>5. QED
    BY <1>f, <2>4
<1>4. CASE POpenOwn(c)
  <2>1. OpenOwn(c) /\ pc[c] = "open"
    BY <1>4 DEF POpenOwn, OpenOwn, Step
  <2>2. Stored(c) /\ fetched[c] # 0
    BY <2>1 DEF Stored, CallInv, FetchedInv, Early
  <2>3. file # 0
    BY <2>2 DEF KeptInv
  <2>4. result'[c] = file
    BY <2>1, <2>3 DEF OpenOwn, Opened, Return, TypeOK
  <2>5. QED
    BY <1>f, <2>4
<1>5. QED
  BY <1>1, <1>2, <1>3, <1>4 DEF Answering, PFollow, Follow

LEMMA PNextLeavers ==
  /\ TypeOK /\ PTypeOK /\ CallInv /\ FetchedInv /\ FetchedInv' /\ KeptInv
  /\ LeaversHarmNobody /\ [PNext]_allVars
  => LeaversHarmNobody'
<1> SUFFICES ASSUME TypeOK, PTypeOK, CallInv, FetchedInv, FetchedInv', KeptInv,
                    LeaversHarmNobody, [PNext]_allVars
             PROVE  LeaversHarmNobody'
  OBVIOUS
<1> USE DEF cache, flight, world
<1>e. evictions \in Nat
  BY BoundsAssumption DEF TypeOK
<1>1. ASSUME NEW c \in Calls, Answering(c) PROVE LeaversHarmNobody'
  <2>1. /\ UNCHANGED <<proxy, left, refused>> /\ result[c] = 0
        /\ result' = result \/ \E v \in {Failed, file} : Return(c, v)
    BY <1>1, AnsweringFrame
  <2>2. evictions' = evictions /\ \A d \in Calls \ {c} : joined'[d] = joined[d]
    BY <1>1 DEF Answering, PLook, PFollow, POpenOwn, Look, Get, OpenHit, RemoveStale, LoadOrStore,
                Follow, Wait, OpenShared, OpenOwn, TypeOK
  <2>3. \A d \in Calls \ {c} : result'[d] = result[d]
    BY <2>1 DEF Return, TypeOK
  <2>4. ASSUME evictions = 0, result'[c] = Failed
        PROVE  FlightOf(c)' \in refused \/ (proxy = "apt" /\ FlightOf(c)' \in left)
    <3>1. joined[c] # NoCall /\ err[joined[c]] /\ joined' = joined
      BY <1>1, <2>4, FailsWithFlight
    <3>2. joined[c] \in Calls /\ FlightOf(c)' = joined[c]
      BY <3>1 DEF FlightOf, TypeOK
    <3>3. QED
      BY <3>1, <3>2 DEF FetchedInv
  <2>5. \A d \in Calls \ {c} : FlightOf(d)' = FlightOf(d)
    BY <2>2 DEF FlightOf
  <2>6. QED
    BY <2>1, <2>2, <2>3, <2>4, <2>5 DEF LeaversHarmNobody
<1>2. ASSUME NEW c \in Calls, Fetching(c) PROVE LeaversHarmNobody'
  <2>1. /\ joined[c] = NoCall /\ UNCHANGED <<joined, evictions, proxy, left>>
        /\ refused \subseteq refused'
    BY <1>2, FetchingFrame DEF Fetching, Fetch, PFetchFails, FetchFails, aux
  <2>2. \A d \in Calls \ {c} : result'[d] = result[d] /\ FlightOf(d)' = FlightOf(d)
    BY <1>2, <2>1, FetchingFrame DEF FlightOf
  <2>3. ASSUME result'[c] = Failed
        PROVE  FlightOf(c)' \in refused' \/ (proxy' = "apt" /\ FlightOf(c)' \in left')
    <3>1. FlightOf(c)' = c
      BY <2>1 DEF FlightOf
    <3>2. CASE Fetch(c)
      <4>1. result[c] = 0 /\ result' = result
        BY <3>2 DEF Fetch, Step, CallInv
      <4>2. QED
        BY <2>3, <4>1 DEF Failed
    <3>3. CASE PFetchFails(c)
      <4>1. err'[c]
        BY <3>3 DEF PFetchFails, FetchFails, TypeOK
      <4>2. QED
        BY <3>1, <4>1 DEF FetchedInv
    <3>4. QED
      BY <1>2, <3>2, <3>3 DEF Fetching
  <2>4. QED
    BY <2>1, <2>2, <2>3 DEF LeaversHarmNobody
<1>3. CASE Silent
  <2>1. /\ UNCHANGED <<result, joined, proxy, refused>> /\ left \subseteq left'
        /\ evictions' \in {evictions, evictions + 1}
    BY <1>3, SilentFrame
  <2>2. evictions' = 0 => evictions = 0
    BY <1>e, <2>1
  <2>3. \A c \in Calls : FlightOf(c)' = FlightOf(c)
    BY <2>1 DEF FlightOf
  <2>4. QED
    BY <2>1, <2>2, <2>3 DEF LeaversHarmNobody
<1>4. QED
  BY <1>1, <1>2, <1>3, PSteps

-----------------------------------------------------------------------------
(* Theorems *)

LEMMA PNextInv == PIInv /\ [PNext]_allVars => PIInv'
<1> SUFFICES ASSUME PIInv, [PNext]_allVars PROVE PIInv'
  OBVIOUS
<1>1. [Next]_vars
  BY PNextNext
<1>2. IInv'
  BY <1>1, NextInv DEF PIInv
<1>3. PTypeOK' /\ FetchedInv' /\ AuthorInv' /\ KeptInv'
  BY <1>1, PNextType, PNextFetched, PNextAuthor, NextKept DEF PIInv, IInv
<1>4. LeaversHarmNobody' /\ OwnHeaders'
  BY <1>3, PNextLeavers, PNextOwn DEF PIInv, IInv
<1>5. QED
  BY <1>2, <1>3, <1>4 DEF PIInv

\* Every behaviour of the handlers of npm and apt is one of GetOrFetch: what is proved of
\* Coalescing holds of both proxies.
THEOREM ProxiesCoalesce == PSpec => Spec
<1>1. PInit => Init
  BY DEF PInit
<1>2. QED
  BY <1>1, PNextNext, PTL DEF PSpec, Spec

\* Whichever client leads a fetch, leaves or is refused: every file has an author, a leader
\* opens its own, and nothing that was stored is lost without an eviction.
THEOREM ProxyInvariant == PSpec => []PIInv
<1>1. QED
  BY PInitInv, PNextInv, PTL DEF PSpec

\* The handlers give up on an upstream request only when its own client has left, and
\* only in the apt proxy: nobody else is harmed.
THEOREM LeaversHarmNobodyAlways == PSpec => []LeaversHarmNobody
<1>1. PIInv => LeaversHarmNobody
  BY DEF PIInv
<1>2. QED
  BY <1>1, ProxyInvariant, PTL

\* The headers apt.go copies from its own upstream answer belong to the file it opens.
THEOREM OwnHeadersAlways == PSpec => []OwnHeaders
<1>1. PIInv => OwnHeaders
  BY DEF PIInv
<1>2. QED
  BY <1>1, ProxyInvariant, PTL

\* Both proxies ask the upstream once at a time for a key, and answer every client once.
THEOREM ProxiesImplementSingleFlight == PSpec => ImplementsSingleFlight
<1>1. QED
  BY ProxiesCoalesce, ImplementsSingleFlightAlways, PTL
=============================================================================
