----------------------------- MODULE S3ObjectProofs -----------------------------
(***************************************************************************)
(* Theorems about one object in the S3 proxy, for any number of readers    *)
(* and writers, versions, instants and evictions.                          *)
(***************************************************************************)
EXTENDS S3Object, TLAPS

\* What a step of one request does to the program counters.
LEMMA StepPC ==
  ASSUME TypeOK, NEW r \in Reqs, NEW from, NEW to \in PCs, Step(r, from, to)
  PROVE  /\ pc[r] = from /\ pc'[r] = to
         /\ \A q \in Reqs \ {r} : pc'[q] = pc[q]
         /\ pc' \in [Reqs -> PCs]
  BY DEF TypeOK, Step

\* ... and a return to its local variables.
LEMMA ReturnFrame ==
  ASSUME TypeOK, NEW r \in Reqs, NEW from, Return(r, from)
  PROVE  /\ pc[r] = from /\ pc'[r] = "answered"
         /\ site'[r] = "first" /\ held'[r] = NoMeta /\ got'[r] = 0
         /\ \A q \in Reqs \ {r} : /\ pc'[q] = pc[q] /\ site'[q] = site[q]
                                  /\ held'[q] = held[q] /\ got'[q] = got[q]
         /\ pc' \in [Reqs -> PCs] /\ site' \in [Reqs -> {"first", "again", "lead"}]
         /\ held' \in [Reqs -> Metas] /\ got' \in [Reqs -> 0..MaxVersion]
<1>1. NoMeta \in Metas /\ 0 \in 0..MaxVersion
  BY NumbersAssumption DEF NoMeta, Metas
<1>2. QED
  BY <1>1 DEF Return, Step, TypeOK, PCs

LEMMA RemoveBodyFrame ==
  ASSUME TypeOK, RemoveBody
  PROVE  /\ ~body' /\ body' \in BOOLEAN /\ file' \in 0..MaxVersion
         /\ file' \in {0, file}
<1>1. ~body' /\ body' \in BOOLEAN
  BY DEF RemoveBody
<1>2. file' \in {0, file} /\ file' \in 0..MaxVersion
  BY NumbersAssumption DEF RemoveBody, TypeOK
<1>3. QED
  BY <1>1, <1>2

\* The validators of a response are those of a version, or none.
LEMMA ValidatorTypes ==
  ASSUME TypeOK, NEW v \in 0..MaxVersion
  PROVE  TagOf(v) \in 0..MaxVersion /\ DateOf(v) \in Nat
<1> USE NumbersAssumption, ValidatorsAssumption DEF Versions
<1>1. v \in Dated => date[v] \in Nat
  BY DEF TypeOK
<1>2. QED
  BY <1>1 DEF TagOf, DateOf

\* A refresh leaves the version and the body of the entry alone.
LEMMA RefreshFrame ==
  ASSUME TypeOK, NEW r \in Readers, Refresh(r)
  PROVE  /\ held' \in [Reqs -> Metas]
         /\ held'[r].ver = held[r].ver /\ held'[r].full = held[r].full
         /\ \A q \in Reqs \ {r} : held'[q] = held[q]
<1>1. r \in Reqs /\ got[r] \in 0..MaxVersion /\ held[r] \in Metas /\ clock + TTL \in Nat
  BY NumbersAssumption DEF TypeOK, Reqs
<1>2. TagOf(got[r]) \in 0..MaxVersion /\ DateOf(got[r]) \in Nat
  BY <1>1, ValidatorTypes
<1>3. /\ Refreshed(r) \in Metas
      /\ Refreshed(r).ver = held[r].ver /\ Refreshed(r).full = held[r].full
  BY <1>1, <1>2 DEF Refreshed, Metas
<1>4. QED
  BY <1>1, <1>3 DEF Refresh, TypeOK

\* What a 200 is stored as.
LEMMA MetaOfType ==
  ASSUME TypeOK, NEW r \in Readers
  PROVE  MetaOf(r) \in Metas /\ MetaOf(r).ver = got[r]
<1>1. (r \in Gets) \in BOOLEAN /\ got[r] \in 0..MaxVersion /\ clock + TTL \in Nat
  BY NumbersAssumption DEF TypeOK, Reqs
<1>2. TagOf(got[r]) \in 0..MaxVersion /\ DateOf(got[r]) \in Nat
  BY <1>1, ValidatorTypes
<1>3. QED
  BY <1>1, <1>2 DEF MetaOf, Metas

LEMMA InitInv == Init => IInv
<1> SUFFICES ASSUME Init PROVE IInv
  OBVIOUS
<1> USE RequestsAssumption, NumbersAssumption DEF Init
<1>1. TypeOK
  <2>1. NoMeta \in Metas
    BY DEF NoMeta, Metas
  <2>2. date \in [Versions -> Nat]
    BY DEF Versions
  <2>3. pc \in [Reqs -> PCs]
    BY DEF PCs
  <2>4. body \in BOOLEAN
    OBVIOUS
  <2>5. QED
    BY <2>1, <2>2, <2>3, <2>4 DEF TypeOK, Versions
<1>2. LeadInv
  BY DEF LeadInv, Leading, Storing, Readers, Reqs
<1>3. LatestInv
  BY DEF LatestInv, NoMeta
<1>4. FillInv /\ BodyHasFile /\ OverlapInv
  BY DEF FillInv, Filling, BodyHasFile, OverlapInv, Readers, Reqs
<1>5. PairInv
  BY DEF PairInv, NoMeta, Readers, Reqs
<1>6. QED
  BY <1>1, <1>2, <1>3, <1>4, <1>5 DEF IInv

-----------------------------------------------------------------------------
(* Types *)

LEMMA ReadType ==
  ASSUME TypeOK, NEW r \in Readers, Read(r)
  PROVE  TypeOK'
<1> USE NumbersAssumption DEF upstream, disk, request, world, history
<1>0. r \in Reqs /\ NoMeta \in Metas
  BY DEF Reqs, NoMeta, Metas
<1>1. CASE LoadMeta(r)
  BY <1>0, <1>1 DEF LoadMeta, Step, Decide, TypeOK, PCs, Storing
<1>2. CASE LoadBody(r) \/ Forget(r)
  BY <1>0, <1>2 DEF LoadBody, Forget, Step, Decide, TypeOK, PCs, Storing
<1>3. CASE Serve(r)
  <2>1. CASE Return(r, "serve")
    BY <1>0, <1>3, <2>1, ReturnFrame DEF Serve, TypeOK
  <2>2. CASE ~Return(r, "serve")
    BY <1>0, <1>3, <2>2 DEF Serve, Step, TypeOK, PCs
  <2>3. QED
    BY <2>1, <2>2
<1>4. CASE Drop(r)
  BY <1>0, <1>4 DEF Drop, Step, TypeOK, PCs
<1>5. CASE DropBody(r)
  BY <1>0, <1>5, RemoveBodyFrame DEF DropBody, Step, TypeOK, PCs
<1>6. CASE Join(r)
  BY <1>0, <1>6 DEF Join, Step, TypeOK, PCs
<1>7. CASE Wait(r)
  BY <1>0, <1>7 DEF Wait, Step, TypeOK, PCs
<1>8. CASE FetchFails(r)
  BY <1>0, <1>8 DEF FetchFails, Step, TypeOK, PCs
<1>9. CASE Revalidate(r) \/ Pass(r) \/ FetchMissing(r)
  BY <1>0, <1>9 DEF Revalidate, Pass, FetchMissing, Step, TypeOK, PCs, Storing
<1>10. CASE Fetch(r)
  BY <1>0, <1>10 DEF Fetch, Step, TypeOK, PCs, Storing
<1>11. CASE Refresh(r)
  <2>1. held' \in [Reqs -> Metas] /\ meta' \in Metas
    BY <1>0, <1>11, RefreshFrame DEF Refresh, TypeOK
  <2>2. QED
    BY <1>0, <1>11, <2>1 DEF Refresh, Step, TypeOK, PCs
<1>12. CASE StoreBegin(r)
  BY <1>0, <1>12, RemoveBodyFrame DEF StoreBegin, Step, TypeOK, PCs, Storing
<1>13. CASE RenameBody(r)
  BY <1>0, <1>13 DEF RenameBody, Step, TypeOK, PCs, Storing
<1>14. CASE RegisterBody(r)
  BY <1>0, <1>14 DEF RegisterBody, Step, TypeOK, PCs, Storing
<1>15. CASE StoreMeta(r)
  <2>0. pc' \in [Reqs -> PCs]
    BY <1>0, <1>15 DEF StoreMeta, Step, TypeOK, PCs
  <2>1. meta' \in Metas
    BY <1>15, MetaOfType DEF StoreMeta, TypeOK
  <2>2. UNCHANGED <<body, file>> \/ RemoveBody
    BY <1>15 DEF StoreMeta
  <2>3. body' \in BOOLEAN
    <3>1. CASE UNCHANGED <<body, file>>
      BY <3>1 DEF TypeOK
    <3>2. CASE RemoveBody
      BY <3>2, RemoveBodyFrame
    <3>3. QED
      BY <2>2, <3>1, <3>2
  <2>4. file' \in 0..MaxVersion
    BY <2>2, RemoveBodyFrame DEF TypeOK
  <2>5. QED
    BY <1>15, <2>0, <2>1, <2>3, <2>4 DEF StoreMeta, TypeOK
<1>16. CASE Close(r)
  BY <1>0, <1>16 DEF Close, Step, TypeOK, PCs
<1>17. CASE Delete(r)
  BY <1>0, <1>17, ReturnFrame DEF Delete, TypeOK
<1>18. QED
  BY <1>1, <1>2, <1>3, <1>4, <1>5, <1>6, <1>7, <1>8, <1>9, <1>10, <1>11, <1>12, <1>13, <1>14,
     <1>15, <1>16, <1>17 DEF Read, Look, Enter, Respond, Store, Leave

LEMMA ChangeType ==
  ASSUME TypeOK, Change(last + 1) \/ Change(0)
  PROVE  /\ object' \in 0..MaxVersion /\ last' \in Versions
         /\ date' \in [Versions -> Nat]
<1>1. last' = last + 1 /\ last < MaxVersion /\ object' \in {0, last'}
  BY DEF Change
<1>2. date' = [date EXCEPT ![last'] = clock]
  BY DEF Change
<1>3. object' \in 0..MaxVersion /\ last' \in Versions
  BY <1>1, NumbersAssumption DEF TypeOK, Versions
<1>4. date' \in [Versions -> Nat]
  BY <1>2, <1>3 DEF TypeOK
<1>5. QED
  BY <1>3, <1>4

LEMMA NextType == TypeOK /\ [Next]_vars => TypeOK'
<1> SUFFICES ASSUME TypeOK, [Next]_vars PROVE TypeOK'
  OBVIOUS
<1> USE NumbersAssumption DEF upstream, disk, request, world, history
<1>1. ASSUME NEW r \in Readers, Read(r) PROVE TypeOK'
  BY <1>1, ReadType
<1>2. ASSUME NEW w \in Writers, Write(w) PROVE TypeOK'
  <2>0. w \in Reqs /\ NoMeta \in Metas
    BY DEF Reqs, NoMeta, Metas
  <2>1. CASE Mutate(w)
    <3>1. /\ object' \in 0..MaxVersion /\ last' \in Versions
          /\ date' \in [Versions -> Nat]
      BY <2>1, ChangeType DEF Mutate
    <3>2. pc' \in [Reqs -> PCs]
      BY <2>0, <2>1 DEF Mutate, Step, TypeOK, PCs
    <3>3. got' \in [Reqs -> 0..MaxVersion]
      BY <2>0, <2>1, <3>1 DEF Mutate, TypeOK, Versions
    <3>4. QED
      BY <2>1, <3>1, <3>2, <3>3 DEF Mutate, TypeOK
  <2>2. CASE MutateFails(w)
    BY <2>0, <2>2 DEF MutateFails, Step, TypeOK, PCs
  <2>3. CASE Invalidate(w)
    <3>1. /\ wrote' \in [Writers -> 0..MaxVersion]
          /\ across' \in [Writers -> SUBSET Readers]
      BY <2>0, <2>3 DEF Invalidate, TypeOK
    <3>2. body' \in BOOLEAN /\ file' \in 0..MaxVersion /\ meta' \in Metas
      BY <2>0, <2>3, RemoveBodyFrame DEF Invalidate, Invalidates
    <3>3. QED
      BY <2>0, <2>3, <3>1, <3>2, ReturnFrame DEF Invalidate, TypeOK
  <2>4. QED
    BY <1>2, <2>1, <2>2, <2>3 DEF Write
<1>3. CASE Elsewhere
  BY <1>3, ChangeType DEF Elsewhere, TypeOK
<1>4. CASE EvictRecord
  <2>1. meta' \in Metas
    <3>1. NoMeta \in Metas /\ meta \in Metas
      BY DEF NoMeta, Metas, TypeOK
    <3>2. meta' = NoMeta \/ meta' = meta
      BY <1>4 DEF EvictRecord
    <3>3. QED
      BY <3>1, <3>2
  <2>2. body' \in BOOLEAN /\ file' \in 0..MaxVersion
    <3>1. CASE UNCHANGED <<body, file>>
      BY <3>1 DEF TypeOK
    <3>2. CASE RemoveBody
      BY <3>2, RemoveBodyFrame
    <3>3. QED
      BY <1>4, <3>1, <3>2 DEF EvictRecord
  <2>3. QED
    BY <1>4, <2>1, <2>2 DEF EvictRecord, TypeOK
<1>5. CASE TimePasses
  BY <1>5 DEF TimePasses, TypeOK
<1>6. CASE AllAnswered \/ UNCHANGED vars
  BY <1>6 DEF AllAnswered, vars, TypeOK
<1>7. QED
  BY <1>1, <1>2, <1>3, <1>4, <1>5, <1>6 DEF Next

\* Every state has the types the module declares.
THEOREM TypeCorrect == Spec => []TypeOK
<1>1. Init => TypeOK
  BY InitInv DEF IInv
<1>2. QED
  BY <1>1, NextType, PTL DEF Spec

-----------------------------------------------------------------------------
(* One leader *)

LEMMA NextLead == TypeOK /\ LeadInv /\ [Next]_vars => LeadInv'
<1> SUFFICES ASSUME TypeOK, LeadInv, [Next]_vars PROVE LeadInv'
  OBVIOUS
<1> USE RequestsAssumption DEF upstream, disk, request, world, history, Reqs
<1>1. ASSUME NEW r \in Readers, NEW from, NEW to \in PCs, Step(r, from, to),
             UNCHANGED <<flights, site>>,
             to \in Leading => site[r] = "lead",
             to \in {"join", "wait", "answered"} => site[r] # "lead",
             to \notin {"mutate", "invalidate"}
      PROVE  LeadInv'
  BY <1>1, StepPC DEF LeadInv
<1>2. ASSUME NEW r \in Readers, Look(r) PROVE LeadInv'
  <2>1. CASE LoadMeta(r)
    BY <1>1, <2>1 DEF LoadMeta, Decide, PCs, Leading, Storing
  <2>2. CASE LoadBody(r) \/ Forget(r)
    BY <1>1, <2>2 DEF LoadBody, Forget, Decide, PCs, Leading, Storing
  <2>3. CASE Serve(r)
    <3>1. CASE Return(r, "serve")
      <4>1. site[r] # "lead" /\ UNCHANGED flights
        BY <2>3, <3>1, ReturnFrame, StepPC DEF Serve, PCs
      <4>2. QED
        BY <3>1, <4>1, ReturnFrame DEF LeadInv, Leading, Storing
    <3>2. CASE ~Return(r, "serve")
      BY <1>1, <2>3, <3>2 DEF Serve, PCs, Leading, Storing
    <3>3. QED
      BY <3>1, <3>2
  <2>4. CASE Drop(r) \/ DropBody(r)
    BY <1>1, <2>4 DEF Drop, DropBody, PCs, Leading, Storing
  <2>5. QED
    BY <1>2, <2>1, <2>2, <2>3, <2>4 DEF Look
<1>3. ASSUME NEW r \in Readers, Enter(r) PROVE LeadInv'
  BY <1>3 DEF Enter, Join, Wait, Step, LeadInv, Leading, Storing, TypeOK
<1>4. ASSUME NEW r \in Readers, Respond(r) PROVE LeadInv'
  BY <1>1, <1>4 DEF Respond, FetchFails, Revalidate, Pass, FetchMissing, Fetch, LeadInv, PCs, Step,
     Leading, Storing
<1>5. ASSUME NEW r \in Readers, Store(r) PROVE LeadInv'
  BY <1>1, <1>5 DEF Store, Refresh, StoreBegin, RenameBody, RegisterBody, StoreMeta, LeadInv,
     PCs, Step, Leading, Storing
<1>6. ASSUME NEW r \in Readers, Close(r) PROVE LeadInv'
  BY <1>1, <1>6 DEF Close, LeadInv, PCs, Step, Leading, Storing
<1>7. ASSUME NEW r \in Readers, Delete(r) PROVE LeadInv'
  BY <1>7, ReturnFrame DEF Delete, LeadInv, Leading, Storing
<1>8. ASSUME NEW w \in Writers, Write(w) PROVE LeadInv'
  BY <1>8, ReturnFrame DEF Write, Mutate, MutateFails, Invalidate, Step, LeadInv, Leading,
     Storing, TypeOK
<1>9. CASE Elsewhere \/ EvictRecord \/ TimePasses \/ AllAnswered \/ UNCHANGED vars
  BY <1>9 DEF Elsewhere, EvictRecord, TimePasses, AllAnswered, vars, LeadInv
<1>10. QED
  BY <1>2, <1>3, <1>4, <1>5, <1>6, <1>7, <1>8, <1>9 DEF Next, Read, Leave

\* A leader is alone, also after a step of its own.
LEMMA OtherLeaders ==
  ASSUME LeadInv, NEW r \in Readers, pc[r] \in Leading,
         \A q \in Readers \ {r} : pc'[q] = pc[q]
  PROVE  \A q \in Readers \ {r} : /\ pc[q] \notin Leading /\ pc'[q] \notin Leading
                                  /\ site[q] # "lead"
  BY DEF LeadInv

-----------------------------------------------------------------------------
(* Who writes to the cache *)

\* All that a request may do to the records unless it leads.
Removes == meta' \in {meta, NoMeta} /\ (UNCHANGED <<body, file>> \/ RemoveBody)

LEMMA RemovesFrame ==
  ASSUME TypeOK, Removes
  PROVE  /\ meta' = meta \/ meta' = NoMeta
         /\ body' => body /\ file' = file
         /\ ~body => file' = file
         /\ file' \in {0, file}
  BY DEF Removes, RemoveBody, TypeOK

LEMMA OthersRemove ==
  ASSUME TypeOK, NEW r \in Readers, Look(r) \/ Enter(r) \/ Respond(r) \/ StoreBegin(r) \/ Leave(r)
  PROVE  Removes
  BY DEF disk, Removes, Look, LoadMeta, Forget, LoadBody, Serve, Drop, DropBody, Enter, Join, Wait,
     Respond, FetchFails, Revalidate, Pass, FetchMissing, Fetch, StoreBegin, Leave, Close, Delete

LEMMA WorldRemoves ==
  ASSUME TypeOK,
         \/ \E w \in Writers : Write(w)
         \/ Elsewhere \/ EvictRecord \/ TimePasses \/ AllAnswered \/ UNCHANGED vars
  PROVE  Removes
  BY DEF disk, Removes, Write, Mutate, MutateFails, Invalidate, Invalidates, Elsewhere,
     EvictRecord, TimePasses, AllAnswered, vars

-----------------------------------------------------------------------------
(* Versions *)

LEMMA NextLatest == TypeOK /\ LatestInv /\ [Next]_vars => LatestInv'
<1> SUFFICES ASSUME TypeOK, LatestInv, [Next]_vars PROVE LatestInv'
  OBVIOUS
<1> USE NumbersAssumption DEF upstream, disk, request, world, history, Reqs
<1>0. NoMeta.ver = 0 /\ last \in Nat /\ meta.ver \in Nat /\ file \in Nat
  BY DEF NoMeta, Metas, TypeOK, Versions
<1>1. ASSUME NEW r \in Readers, UNCHANGED <<upstream, history>>, Removes,
             \A q \in Reqs : got'[q] \in {0, got[q], object},
             \A q \in Reqs : held'[q] \in {NoMeta, held[q], meta}
      PROVE  LatestInv'
  BY <1>0, <1>1, RemovesFrame DEF LatestInv, TypeOK
<1>2. ASSUME NEW r \in Readers, Look(r) PROVE LatestInv'
  <2>1. Removes /\ UNCHANGED <<upstream, history>>
    BY <1>2, OthersRemove DEF Look, LoadMeta, Forget, LoadBody, Serve, Drop, DropBody
  <2>2. /\ \A q \in Reqs : got'[q] \in {0, got[q]}
        /\ \A q \in Reqs : held'[q] \in {NoMeta, held[q], meta}
    BY <1>2, ReturnFrame DEF Look, LoadMeta, Forget, LoadBody, Serve, Drop, DropBody, TypeOK
  <2>3. QED
    BY <1>1, <2>1, <2>2
<1>3. ASSUME NEW r \in Readers, Enter(r) \/ Respond(r) \/ StoreBegin(r) \/ Leave(r)
      PROVE  LatestInv'
  <2>1. Removes /\ UNCHANGED <<upstream, history>>
    BY <1>3, OthersRemove DEF Enter, Join, Wait, Respond, FetchFails, Revalidate, Pass, FetchMissing,
       Fetch, StoreBegin, Leave, Close, Delete
  <2>2. /\ \A q \in Reqs : got'[q] \in {0, got[q], object}
        /\ \A q \in Reqs : held'[q] \in {NoMeta, held[q], meta}
    BY <1>3, ReturnFrame DEF Enter, Join, Wait, Respond, FetchFails, Revalidate, Pass, FetchMissing,
       Fetch, StoreBegin, Leave, Close, Delete, TypeOK
  <2>3. QED
    BY <1>1, <2>1, <2>2
<1>4. ASSUME NEW r \in Readers, Refresh(r) PROVE LatestInv'
  <2>1. /\ held'[r].ver = held[r].ver
        /\ \A q \in Reqs \ {r} : held'[q] = held[q]
    BY <1>4, RefreshFrame
  <2>2. QED
    BY <1>4, <2>1 DEF Refresh, LatestInv
<1>5. ASSUME NEW r \in Readers, RenameBody(r) \/ RegisterBody(r) PROVE LatestInv'
  BY <1>5 DEF RenameBody, RegisterBody, LatestInv
<1>6. ASSUME NEW r \in Readers, StoreMeta(r) PROVE LatestInv'
  <2>1. meta'.ver \in {meta.ver, got[r]} /\ file' \in {0, file}
    BY <1>6, MetaOfType DEF StoreMeta, RemoveBody
  <2>2. QED
    BY <1>0, <1>6, <2>1 DEF StoreMeta, LatestInv
<1>7. ASSUME NEW w \in Writers, Write(w) PROVE LatestInv'
  <2>0. Removes
    BY <1>7, WorldRemoves
  <2>1. CASE Mutate(w)
    <3>1. last' = last + 1 /\ object' \in {0, last'}
      BY <2>1 DEF Mutate, Change
    <3>2. \A q \in Reqs : got'[q] \in {0, got[q], last'}
      BY <2>1 DEF Mutate, TypeOK
    <3>3. QED
      BY <1>0, <2>0, <2>1, <3>1, <3>2, RemovesFrame DEF Mutate, LatestInv, TypeOK, Metas
  <2>2. CASE MutateFails(w)
    BY <2>2 DEF MutateFails, LatestInv
  <2>3. CASE Invalidate(w)
    <3>1. /\ \A q \in Reqs : got'[q] \in {0, got[q]} /\ held'[q] \in {NoMeta, held[q]}
          /\ \A x \in Writers : wrote'[x] \in {wrote[x], got[x]}
      BY <2>3, ReturnFrame DEF Invalidate, TypeOK
    <3>2. QED
      BY <1>0, <2>0, <2>3, <3>1, RemovesFrame DEF Invalidate, LatestInv
  <2>4. QED
    BY <1>7, <2>1, <2>2, <2>3 DEF Write
<1>8. CASE Elsewhere
  BY <1>0, <1>8 DEF Elsewhere, Change, LatestInv, TypeOK, Metas
<1>9. CASE EvictRecord \/ TimePasses \/ AllAnswered \/ UNCHANGED vars
  BY <1>0, <1>9, WorldRemoves, RemovesFrame DEF EvictRecord, TimePasses, AllAnswered, vars,
     LatestInv
<1>10. QED
  BY <1>2, <1>3, <1>4, <1>5, <1>6, <1>7, <1>8, <1>9 DEF Next, Read, Store

-----------------------------------------------------------------------------
(* What a leader stores *)

\* A step that starts no fill and changes no response under way.
LEMMA FillFrame ==
  ASSUME TypeOK, FillInv, BodyHasFile, Removes,
         \A q \in Readers : pc'[q] \in Filling => pc'[q] = pc[q] /\ got'[q] = got[q]
  PROVE  FillInv' /\ BodyHasFile'
<1>1. \A q \in Readers : got[q] \in Nat
  BY DEF TypeOK, Reqs
<1>2. NoMeta.ver = 0
  BY DEF NoMeta
<1>3. FillInv'
  BY <1>1, <1>2, RemovesFrame DEF FillInv, Filling
<1>4. BodyHasFile'
  BY RemovesFrame DEF BodyHasFile
<1>5. QED
  BY <1>3, <1>4

\* A step of the leader has to establish the invariant for the leader alone.
LEMMA FillLeader ==
  ASSUME TypeOK, LeadInv, NEW r \in Readers, pc[r] \in Leading,
         \A q \in Readers \ {r} : pc'[q] = pc[q],
         pc'[r] \in Filling => got'[r] # 0 /\ meta'.ver <= got'[r],
         pc'[r] \in {"store", "rename"} => file' <= got'[r],
         pc'[r] \in {"rename", "register"} => ~body' /\ r \in Gets,
         pc'[r] = "register" => file' = got'[r],
         pc'[r] = "meta" /\ body' => r \in Gets /\ file' = got'[r]
  PROVE  FillInv'
<1>1. \A q \in Readers \ {r} : pc'[q] \notin Leading
  BY OtherLeaders
<1>2. QED
  BY <1>1 DEF FillInv, Filling, Leading, Storing

LEMMA NextFill ==
  TypeOK /\ LeadInv /\ LatestInv /\ FillInv /\ BodyHasFile /\ [Next]_vars
    => FillInv' /\ BodyHasFile'
<1> SUFFICES ASSUME TypeOK, LeadInv, LatestInv, FillInv, BodyHasFile, [Next]_vars
             PROVE  FillInv' /\ BodyHasFile'
  OBVIOUS
<1> USE NumbersAssumption, RequestsAssumption DEF upstream, disk, request, world, history, Reqs
<1>0. NoMeta.ver = 0 /\ last \in Nat /\ meta.ver \in Nat /\ file \in Nat
  BY DEF NoMeta, Metas, TypeOK, Versions
<1>1. ASSUME NEW r \in Readers, Look(r) \/ Enter(r) \/ Leave(r)
      PROVE  FillInv' /\ BodyHasFile'
  <2>1. /\ \A q \in Readers \ {r} : pc'[q] = pc[q] /\ got'[q] = got[q]
        /\ pc'[r] \notin Filling
    BY <1>1, ReturnFrame DEF Look, LoadMeta, Forget, LoadBody, Serve, Drop, DropBody, Enter, Join, Wait,
       Leave, Close, Delete, Decide, Step, TypeOK, Filling
  <2>2. Removes
    BY <1>1, OthersRemove
  <2>3. QED
    BY <2>1, <2>2, FillFrame
<1>2. ASSUME NEW r \in Readers, FetchFails(r) \/ Revalidate(r) \/ Pass(r) \/ FetchMissing(r)
      PROVE  FillInv' /\ BodyHasFile'
  <2>1. /\ \A q \in Readers \ {r} : pc'[q] = pc[q] /\ got'[q] = got[q]
        /\ pc'[r] \notin Filling
    BY <1>2 DEF FetchFails, Revalidate, Pass, FetchMissing, Step, TypeOK, Filling
  <2>2. Removes
    BY <1>2, OthersRemove DEF Respond
  <2>3. QED
    BY <2>1, <2>2, FillFrame
<1>3. ASSUME NEW r \in Readers, Fetch(r) PROVE FillInv' /\ BodyHasFile'
  <2>1. /\ pc[r] \in Leading /\ pc'[r] \in {"store", "close"}
        /\ \A q \in Readers \ {r} : pc'[q] = pc[q]
    BY <1>3 DEF Fetch, Step, TypeOK, Leading
  <2>2. object = last /\ object # 0 /\ UNCHANGED <<meta, body, file>>
    BY <1>3 DEF Fetch, LatestInv, TypeOK
  <2>3. meta'.ver <= object /\ file' <= object
    BY <2>2 DEF LatestInv
  <2>4. pc'[r] = "store" => got'[r] = object
    BY <1>3 DEF Fetch, Step, TypeOK
  <2>5. QED
    BY <2>1, <2>2, <2>3, <2>4, FillLeader DEF Filling, BodyHasFile
<1>4. ASSUME NEW r \in Readers, Refresh(r) PROVE FillInv' /\ BodyHasFile'
  <2>1. /\ pc[r] \in Leading /\ pc'[r] = "serve"
        /\ \A q \in Readers \ {r} : pc'[q] = pc[q]
    BY <1>4 DEF Refresh, Step, TypeOK, Leading, Storing
  <2>2. QED
    BY <1>4, <2>1, FillLeader DEF Filling, Refresh, BodyHasFile
<1>5. ASSUME NEW r \in Readers, StoreBegin(r) PROVE FillInv' /\ BodyHasFile'
  <2>1. /\ pc[r] = "store" /\ pc'[r] = IF r \in Heads THEN "meta" ELSE "rename"
        /\ \A q \in Readers \ {r} : pc'[q] = pc[q]
    BY <1>5 DEF StoreBegin, Step, TypeOK
  <2>2. UNCHANGED <<meta, got>> /\ ~body' /\ file' \in {0, file}
    BY <1>5 DEF StoreBegin, RemoveBody
  <2>3. got[r] \in Nat /\ (r \in Heads \/ r \in Gets)
    BY DEF TypeOK, Readers
  <2>4. QED
    BY <1>0, <2>1, <2>2, <2>3, FillLeader DEF FillInv, Filling, Leading, Storing, BodyHasFile
<1>6. ASSUME NEW r \in Readers, RenameBody(r) PROVE FillInv' /\ BodyHasFile'
  <2>1. /\ pc[r] = "rename" /\ pc'[r] \in {"register", "close"}
        /\ pc'[r] = "register" => file' = got[r]
        /\ \A q \in Readers \ {r} : pc'[q] = pc[q]
    BY <1>6 DEF RenameBody, Step, TypeOK
  <2>2. UNCHANGED <<meta, body, got>> /\ ~body
    BY <1>6, <2>1 DEF RenameBody, FillInv
  <2>3. QED
    BY <2>1, <2>2, FillLeader DEF FillInv, Filling, Leading, Storing, BodyHasFile
<1>7. ASSUME NEW r \in Readers, RegisterBody(r) PROVE FillInv' /\ BodyHasFile'
  <2>1. /\ pc[r] = "register" /\ pc'[r] = "meta"
        /\ \A q \in Readers \ {r} : pc'[q] = pc[q]
    BY <1>7 DEF RegisterBody, Step, TypeOK
  <2>2. UNCHANGED <<meta, file, got>> /\ file = got[r] /\ got[r] # 0
    BY <1>7, <2>1 DEF RegisterBody, FillInv, Filling
  <2>3. r \in Gets
    BY <2>1 DEF FillInv
  <2>4. QED
    BY <2>1, <2>2, <2>3, FillLeader DEF FillInv, Filling, Leading, Storing, BodyHasFile
<1>8. ASSUME NEW r \in Readers, StoreMeta(r) PROVE FillInv' /\ BodyHasFile'
  <2>1. /\ pc[r] \in Leading /\ pc'[r] = "close"
        /\ \A q \in Readers \ {r} : pc'[q] = pc[q]
    BY <1>8 DEF StoreMeta, Step, TypeOK, Leading, Storing
  <2>2. UNCHANGED <<body, file>> \/ RemoveBody
    BY <1>8 DEF StoreMeta
  <2>3. BodyHasFile'
    BY <2>2 DEF BodyHasFile, RemoveBody
  <2>4. QED
    BY <2>1, <2>3, FillLeader DEF Filling
<1>9. ASSUME NEW w \in Writers, Write(w) PROVE FillInv' /\ BodyHasFile'
  <2>1. \A q \in Readers : pc'[q] = pc[q] /\ got'[q] = got[q]
    BY <1>9, ReturnFrame DEF Write, Mutate, MutateFails, Invalidate, Step, TypeOK
  <2>2. QED
    BY <1>9, <2>1, FillFrame, WorldRemoves
<1>10. CASE Elsewhere \/ EvictRecord \/ TimePasses \/ AllAnswered \/ UNCHANGED vars
  BY <1>10, FillFrame, WorldRemoves DEF Elsewhere, EvictRecord, TimePasses, AllAnswered, vars
<1>11. QED
  BY <1>1, <1>2, <1>3, <1>4, <1>5, <1>6, <1>7, <1>8, <1>9, <1>10 DEF Next, Read, Respond, Store

-----------------------------------------------------------------------------
(* Metadata and body *)

\* A step that writes nothing, loads nothing and ends no store of metadata.
LEMMA PairFrame ==
  ASSUME TypeOK, PairInv, Removes,
         \A q \in Readers : pc[q] = "meta" => pc'[q] = "meta",
         \A q \in Readers : site'[q] = "lead" /\ pc'[q] \in Looked =>
           site[q] = "lead" /\ pc[q] \in Looked /\ held'[q] = held[q]
  PROVE  PairInv'
<1>1. NoMeta.ver = 0 /\ ~NoMeta.full
  BY DEF NoMeta
<1>2. QED
  BY <1>1, RemovesFrame DEF PairInv

\* A step of the leader has to establish the second part for the leader alone.
LEMMA PairLeader ==
  ASSUME TypeOK, LeadInv, NEW r \in Readers, site[r] = "lead",
         \A q \in Readers \ {r} : pc'[q] = pc[q] /\ site'[q] = site[q],
         meta'.full /\ body' => file' = meta'.ver \/ pc'[r] = "meta",
         pc'[r] \in Looked =>
           meta'.ver \in {0, held'[r].ver} /\ (held'[r].full /\ body' => file' = held'[r].ver)
  PROVE  PairInv'
<1>1. \A q \in Readers \ {r} : site'[q] # "lead"
  BY DEF LeadInv
<1>2. QED
  BY <1>1 DEF PairInv

LEMMA NextPair ==
  TypeOK /\ LeadInv /\ FillInv /\ PairInv /\ [Next]_vars => PairInv'
<1> SUFFICES ASSUME TypeOK, LeadInv, FillInv, PairInv, [Next]_vars PROVE PairInv'
  OBVIOUS
<1> USE RequestsAssumption DEF upstream, disk, request, world, history, Reqs
<1>0. NoMeta.ver = 0 /\ ~NoMeta.full
  BY DEF NoMeta
<1>1. ASSUME NEW r \in Readers, LoadMeta(r) PROVE PairInv'
  <2>1. /\ UNCHANGED <<meta, body, file, site>>
        /\ pc[r] = "load" /\ pc'[r] # "meta"
        /\ pc'[r] \in Looked => held'[r] = meta
        /\ \A q \in Readers \ {r} : pc'[q] = pc[q] /\ held'[q] = held[q]
    <3>1. CASE Step(r, "load", "forget") /\ UNCHANGED held
      BY <1>1, <3>1 DEF LoadMeta, Step, TypeOK, Looked
    <3>2. CASE Step(r, "load", IF meta.full THEN "loadbody" ELSE Decide(r, meta))
               /\ held' = [held EXCEPT ![r] = meta]
      BY <1>1, <3>2 DEF LoadMeta, Step, Decide, TypeOK
    <3>3. QED
      BY <1>1, <3>1, <3>2 DEF LoadMeta
  <2>2. CASE site[r] = "lead"
    <3>1. \A q \in Readers : pc[q] # "meta"
      BY <2>1, <2>2 DEF LeadInv, Leading, Storing
    <3>2. meta.full /\ body => file = meta.ver
      BY <3>1 DEF PairInv
    <3>3. QED
      BY <2>1, <2>2, <3>2, PairLeader
  <2>3. CASE site[r] # "lead"
    BY <2>1, <2>3, PairFrame DEF Removes
  <2>4. QED
    BY <2>2, <2>3
<1>11. ASSUME NEW r \in Readers, Forget(r) PROVE PairInv'
  <2>1. /\ pc[r] = "forget" /\ pc'[r] # "meta" /\ UNCHANGED <<body, file, site>>
        /\ meta' = NoMeta /\ held'[r] = NoMeta
        /\ \A q \in Readers \ {r} : pc'[q] = pc[q] /\ held'[q] = held[q]
    BY <1>11 DEF Forget, Step, Decide, TypeOK
  <2>2. CASE site[r] = "lead"
    BY <1>0, <2>1, <2>2, PairLeader
  <2>3. CASE site[r] # "lead"
    BY <2>1, <2>3, PairFrame DEF Removes
  <2>4. QED
    BY <2>2, <2>3
<1>2. ASSUME NEW r \in Readers, LoadBody(r) PROVE PairInv'
  <2>1. /\ pc[r] = "loadbody" /\ pc'[r] # "meta" /\ UNCHANGED <<body, file, site>>
        /\ \A q \in Readers \ {r} : pc'[q] = pc[q] /\ held'[q] = held[q]
    BY <1>2 DEF LoadBody, Step, Decide, TypeOK
  <2>2. CASE body
    <3>1. UNCHANGED <<held, meta>>
      BY <1>2, <2>2 DEF LoadBody
    <3>2. QED
      BY <2>1, <3>1, PairFrame DEF Removes, Looked
  <2>3. CASE ~body
    <3>1. meta' = NoMeta
      BY <1>2, <2>3 DEF LoadBody
    <3>2. Removes
      BY <2>1, <3>1 DEF Removes
    <3>3. CASE site[r] = "lead"
      BY <1>0, <2>1, <2>3, <3>1, <3>3, PairLeader
    <3>4. CASE site[r] # "lead"
      BY <2>1, <3>2, <3>4, PairFrame
    <3>5. QED
      BY <3>3, <3>4
  <2>4. QED
    BY <2>2, <2>3
<1>3. ASSUME NEW r \in Readers, Serve(r) \/ Drop(r) \/ DropBody(r) \/ Enter(r) \/ Leave(r)
      PROVE  PairInv'
  <2>1. /\ \A q \in Readers \ {r} : pc'[q] = pc[q] /\ site'[q] = site[q] /\ held'[q] = held[q]
        /\ pc[r] # "meta" /\ pc'[r] \notin Looked
    BY <1>3, ReturnFrame DEF Serve, Drop, DropBody, Enter, Join, Wait, Leave, Close, Delete,
       Step, TypeOK, Looked
  <2>2. Removes
    BY <1>3, OthersRemove DEF Look
  <2>3. QED
    BY <2>1, <2>2, PairFrame
<1>4. ASSUME NEW r \in Readers, Respond(r) \/ StoreBegin(r) PROVE PairInv'
  <2>1. /\ \A q \in Readers \ {r} : pc'[q] = pc[q]
        /\ UNCHANGED <<site, held>>
        /\ pc[r] # "meta"
        /\ pc'[r] \in Looked => pc[r] \in Looked
    BY <1>4 DEF Respond, FetchFails, Revalidate, Pass, FetchMissing, Fetch, StoreBegin, Step, TypeOK,
       Looked
  <2>2. Removes
    BY <1>4, OthersRemove
  <2>3. QED
    BY <2>1, <2>2, PairFrame
<1>5. ASSUME NEW r \in Readers, Refresh(r) PROVE PairInv'
  <2>1. /\ pc[r] = "refresh" /\ pc'[r] = "serve" /\ site[r] = "lead"
        /\ UNCHANGED <<site, body, file>>
        /\ \A q \in Readers \ {r} : pc'[q] = pc[q]
    BY <1>5 DEF Refresh, Step, TypeOK, LeadInv, Leading, Storing
  <2>2. held'[r].ver = held[r].ver /\ held'[r].full = held[r].full
    BY <1>5, RefreshFrame
  <2>3. held[r].full /\ body => file = held[r].ver
    BY <2>1 DEF PairInv, Looked
  <2>4. meta.full /\ body => file = meta.ver
    BY <2>1 DEF PairInv, LeadInv, Leading, Storing
  <2>5. meta' \in {held'[r], meta}
    BY <1>5 DEF Refresh
  <2>6. meta'.full /\ body' => file' = meta'.ver
    BY <2>1, <2>2, <2>3, <2>4, <2>5
  <2>7. QED
    BY <2>1, <2>6, PairLeader DEF Looked
<1>6. ASSUME NEW r \in Readers, RenameBody(r) \/ RegisterBody(r) PROVE PairInv'
  <2>1. /\ pc[r] \in {"rename", "register"} /\ pc'[r] \in {"register", "close", "meta"}
        /\ UNCHANGED <<site, meta>>
        /\ \A q \in Readers \ {r} : pc'[q] = pc[q]
    BY <1>6 DEF RenameBody, RegisterBody, Step, TypeOK
  <2>2. site[r] = "lead" /\ ~body
    BY <2>1 DEF LeadInv, Leading, Storing, FillInv
  <2>3. ~body' \/ pc'[r] = "meta"
    BY <1>6, <2>2 DEF RenameBody, RegisterBody, Step, TypeOK
  <2>4. QED
    BY <2>1, <2>2, <2>3, PairLeader DEF Looked
<1>7. ASSUME NEW r \in Readers, StoreMeta(r) PROVE PairInv'
  <2>1. /\ pc[r] = "meta" /\ pc'[r] = "close" /\ site[r] = "lead" /\ UNCHANGED site
        /\ \A q \in Readers \ {r} : pc'[q] = pc[q]
    BY <1>7 DEF StoreMeta, Step, TypeOK, LeadInv, Leading, Storing
  <2>2. body => r \in Gets /\ file = got[r]
    BY <2>1 DEF FillInv
  <2>3. meta'.full /\ body' => file' = meta'.ver
    <3>1. CASE UNCHANGED <<body, file>> /\ meta'.ver = got[r]
      BY <2>2, <3>1
    <3>2. CASE r \in Gets /\ RemoveBody
      BY <3>2 DEF RemoveBody
    <3>3. CASE r \notin Gets /\ UNCHANGED <<body, file>>
      BY <2>2, <3>3
    <3>4. MetaOf(r).ver = got[r]
      BY MetaOfType
    <3>5. QED
      BY <1>7, <3>1, <3>2, <3>3, <3>4 DEF StoreMeta
  <2>4. QED
    BY <2>1, <2>3, PairLeader DEF Looked
<1>8. ASSUME NEW w \in Writers, Write(w) PROVE PairInv'
  <2>1. \A q \in Readers : pc'[q] = pc[q] /\ site'[q] = site[q] /\ held'[q] = held[q]
    BY <1>8, ReturnFrame DEF Write, Mutate, MutateFails, Invalidate, Step, TypeOK
  <2>2. QED
    BY <1>8, <2>1, PairFrame, WorldRemoves
<1>9. CASE Elsewhere \/ EvictRecord \/ TimePasses \/ AllAnswered \/ UNCHANGED vars
  BY <1>9, PairFrame, WorldRemoves DEF Elsewhere, EvictRecord, TimePasses, AllAnswered, vars
<1>10. QED
  BY <1>1, <1>2, <1>3, <1>4, <1>5, <1>6, <1>7, <1>8, <1>9, <1>11 DEF Next, Read, Look, Store

-----------------------------------------------------------------------------
(* Mutations *)

\* Versions come, and those that are there keep their dates.
LEMMA UpstreamFrame ==
  ASSUME TypeOK, [Next]_vars
  PROVE  /\ last' \in Nat /\ last \in Nat /\ last' >= last
         /\ \A v \in 1..last : date'[v] = date[v]
<1>1. last \in Nat /\ date \in [Versions -> Nat]
  BY DEF TypeOK, Versions
<1>2. CASE UNCHANGED <<last, date>>
  BY <1>1, <1>2
<1>3. CASE Change(last + 1) \/ Change(0)
  <2>1. last' = last + 1 /\ date' = [date EXCEPT ![last'] = clock]
    BY <1>3 DEF Change
  <2>2. ASSUME NEW v \in 1..last PROVE date'[v] = date[v]
    <3>1. v \in Versions /\ v # last'
      BY <1>1, <2>1, <2>2, NumbersAssumption DEF TypeOK, Versions
    <3>2. QED
      BY <1>1, <2>1, <3>1
  <2>3. QED
    BY <1>1, <2>1, <2>2
<1>4. QED
  BY <1>2, <1>3 DEF Next, Read, Write, Look, LoadMeta, Forget, LoadBody, Serve, Drop, DropBody,
     Enter, Join, Wait, Respond, FetchFails, Revalidate, Pass, FetchMissing, Fetch, Store,
     Refresh, StoreBegin, RenameBody, RegisterBody, StoreMeta, Leave, Close, Delete, Mutate,
     MutateFails, Invalidate, Elsewhere, EvictRecord, TimePasses, AllAnswered, vars, upstream

\* What a 304 could not tell it cannot tell later either.
LEMMA BlindStays ==
  ASSUME TypeOK, [Next]_vars, NEW r \in Readers, held'[r] = held[r], Blind(r)
  PROVE  Blind(r)'
<1>1. held[r].ver \in Nat
  BY DEF TypeOK, Metas, Reqs
<1>2. ASSUME NEW v \in (held[r].ver + 1)..last, date[v] <= held[r].date
      PROVE  v \in (held'[r].ver + 1)..last' /\ date'[v] <= held'[r].date
  BY <1>1, <1>2, UpstreamFrame
<1>3. QED
  BY <1>2 DEF Blind

LEMMA NextOverlap ==
  TypeOK /\ LatestInv /\ OverlapInv /\ [Next]_vars => OverlapInv'
<1> SUFFICES ASSUME TypeOK, LatestInv, OverlapInv, [Next]_vars PROVE OverlapInv'
  OBVIOUS
<1> USE RequestsAssumption DEF upstream, disk, request, world, history, Reqs
<1>0. /\ \A q \in Reqs, w \in Writers : got[q] \in Nat /\ wrote[w] \in Nat
      /\ last \in Nat /\ \A q \in Reqs : held[q].ver \in Nat
  BY DEF TypeOK, Versions, Metas
<1>b. \A q \in Readers : held'[q] = held[q] /\ Blind(q) => Blind(q)'
  BY BlindStays
<1>1. ASSUME NEW r \in Readers, UNCHANGED <<wrote, across>>,
             pc'[r] \in Filling => pc[r] \in Filling /\ got'[r] = got[r],
             pc'[r] # "refresh",
             \A q \in Readers \ {r} : pc'[q] = pc[q] /\ got'[q] = got[q] /\ held'[q] = held[q]
      PROVE  OverlapInv'
  BY <1>1, <1>b DEF OverlapInv
<1>2. ASSUME NEW r \in Readers, Look(r) \/ Enter(r) \/ Leave(r) PROVE OverlapInv'
  <2>1. /\ \A q \in Readers \ {r} : pc'[q] = pc[q] /\ got'[q] = got[q] /\ held'[q] = held[q]
        /\ pc'[r] \notin Filling \cup {"refresh"}
        /\ UNCHANGED <<wrote, across>>
    BY <1>2, ReturnFrame DEF Look, LoadMeta, Forget, LoadBody, Serve, Drop, DropBody, Enter, Join, Wait,
       Leave, Close, Delete, Decide, Step, TypeOK, Filling
  <2>2. QED
    BY <1>1, <2>1
<1>3. ASSUME NEW r \in Readers, FetchFails(r) \/ Pass(r) \/ FetchMissing(r) \/ Store(r)
      PROVE  OverlapInv'
  <2>1. /\ \A q \in Readers \ {r} : pc'[q] = pc[q] /\ got'[q] = got[q] /\ held'[q] = held[q]
        /\ pc'[r] \in Filling => pc[r] \in Filling /\ got'[r] = got[r]
        /\ pc'[r] # "refresh"
        /\ UNCHANGED <<wrote, across>>
    BY <1>3 DEF FetchFails, Pass, FetchMissing, Store, Refresh, StoreBegin, RenameBody, RegisterBody,
       StoreMeta, Step, TypeOK, Filling
  <2>2. QED
    BY <1>1, <2>1
<1>4. ASSUME NEW r \in Readers, Revalidate(r) PROVE OverlapInv'
  <2>1. held[r].ver = last \/ Blind(r)
    <3>1. /\ object = last /\ CanRevalidate(r, held[r])
          /\ IF held[r].tag # 0 THEN held[r].tag = object
             ELSE r \in Conditional \/ (object \in Dated /\ date[object] <= held[r].date)
      BY <1>4 DEF Revalidate, NotModified, LatestInv
    <3>2. held[r].ver <= last
      BY DEF LatestInv
    <3>3. CASE held[r].tag # 0
      BY <1>0, <3>1, <3>2, <3>3 DEF Blind
    <3>4. CASE held[r].tag = 0 /\ r \in Conditional
      BY <3>4 DEF Blind
    <3>5. CASE held[r].tag = 0 /\ date[object] <= held[r].date
      <4>1. held[r].ver = last \/ last \in (held[r].ver + 1)..last
        BY <1>0, <3>2
      <4>2. QED
        BY <3>1, <3>5, <4>1 DEF Blind
    <3>6. QED
      BY <3>1, <3>3, <3>4, <3>5
  <2>2. \A w \in Writers : wrote'[w] <= last
    BY <1>4 DEF Revalidate, LatestInv
  <2>3. /\ \A q \in Readers \ {r} : pc'[q] = pc[q] /\ got'[q] = got[q] /\ held'[q] = held[q]
        /\ held'[r] = held[r] /\ pc'[r] \notin Filling /\ UNCHANGED <<wrote, across>>
    BY <1>4 DEF Revalidate, Step, TypeOK, Filling
  <2>4. \A w \in Writers : held'[r].ver < wrote'[w] => Blind(r)'
    BY <1>0, <1>b, <2>1, <2>2, <2>3
  <2>5. QED
    BY <1>b, <2>3, <2>4 DEF OverlapInv
<1>5. ASSUME NEW r \in Readers, Fetch(r) PROVE OverlapInv'
  <2>1. /\ pc'[r] \in Filling => got'[r] = last
        /\ pc'[r] # "refresh" /\ UNCHANGED <<wrote, across>>
        /\ \A q \in Readers \ {r} : pc'[q] = pc[q] /\ got'[q] = got[q] /\ held'[q] = held[q]
    BY <1>5 DEF Fetch, Step, TypeOK, LatestInv, Filling
  <2>2. \A w \in Writers : wrote'[w] <= last
    BY <2>1 DEF LatestInv
  <2>3. QED
    BY <1>0, <1>b, <2>1, <2>2 DEF OverlapInv
<1>6. ASSUME NEW w \in Writers, Invalidate(w) PROVE OverlapInv'
  <2>1. /\ \A q \in Readers : pc'[q] = pc[q] /\ got'[q] = got[q] /\ held'[q] = held[q]
        /\ across'[w] = {q \in Readers : pc[q] \in Storing}
        /\ \A x \in Writers \ {w} : wrote'[x] = wrote[x] /\ across'[x] = across[x]
    BY <1>6, ReturnFrame DEF Invalidate, TypeOK
  <2>2. QED
    BY <1>b, <2>1 DEF OverlapInv, Storing, Filling
<1>7. ASSUME NEW w \in Writers, Mutate(w) \/ MutateFails(w) PROVE OverlapInv'
  <2>1. /\ \A q \in Readers : pc'[q] = pc[q] /\ got'[q] = got[q] /\ held'[q] = held[q]
        /\ UNCHANGED <<wrote, across>>
    BY <1>7 DEF Mutate, MutateFails, Step, TypeOK
  <2>2. QED
    BY <1>b, <2>1 DEF OverlapInv
<1>8. CASE Elsewhere \/ EvictRecord \/ TimePasses \/ AllAnswered \/ UNCHANGED vars
  BY <1>8, <1>b DEF Elsewhere, EvictRecord, TimePasses, AllAnswered, vars, OverlapInv
<1>9. QED
  BY <1>2, <1>3, <1>4, <1>5, <1>6, <1>7, <1>8 DEF Next, Read, Respond, Write

-----------------------------------------------------------------------------
(* The theorems *)

LEMMA NextInv == IInv /\ [Next]_vars => IInv'
  BY NextType, NextLead, NextLatest, NextFill, NextPair, NextOverlap DEF IInv

\* Whatever order the requests of the proxy, the writers and the evictions take, the leader
\* of a fetch has the key to itself, what it is about to write is not older than what it
\* finds, nor than a mutation answered before its response came, but for a 304 that does not
\* tell, and metadata and body part only while it stores them.
THEOREM InductiveInvariant == Spec => []IInv
  BY InitInv, NextInv, PTL DEF Spec

\* A body in the index of the cache always has its file, however fetches, failures,
\* invalidations and evictions interleave.
THEOREM BodyHasFileAlways == Spec => []BodyHasFile
<1>1. IInv => BodyHasFile
  BY DEF IInv
<1>2. QED
  BY InductiveInvariant, <1>1, PTL

\* No interleaving leaves the metadata of one version beside the body of another.
THEOREM PairedAlways == Spec => []Paired
<1>1. ASSUME IInv PROVE Paired
  <2>1. CASE \E r \in Readers : pc[r] = "meta"
    BY <1>1, <2>1, RequestsAssumption DEF IInv, LeadInv, Leading, Storing, Paired, Reqs
  <2>2. CASE ~\E r \in Readers : pc[r] = "meta"
    BY <1>1, <2>2 DEF IInv, PairInv, Paired
  <2>3. QED
    BY <2>1, <2>2
<1>2. QED
  BY InductiveInvariant, <1>1, PTL

\* Only a leader changes the metadata or the file but by removing them, and what a leader
\* writes it got while nobody else wrote.
LEMMA Changes ==
  ASSUME IInv, [Next]_vars
  PROVE  \/ Removes
         \/ \E r \in Readers :
              \/ /\ pc[r] = "refresh" /\ pc'[r] = "serve" /\ UNCHANGED <<body, file, wrote, across>>
                 /\ meta'.ver = held[r].ver /\ meta.ver \in {0, held[r].ver}
              \/ /\ pc[r] = "rename" /\ pc'[r] = "register" /\ UNCHANGED <<meta, wrote, across>>
                 /\ file' = got[r] /\ file <= got[r]
              \/ pc[r] = "register" /\ UNCHANGED <<meta, file, wrote, across>>
              \/ /\ pc[r] = "meta" /\ pc'[r] = "close" /\ UNCHANGED <<body, file, wrote, across>>
                 /\ meta'.ver = got[r] /\ meta.ver <= got[r]
<1> USE RequestsAssumption DEF IInv, upstream, disk, request, world, history, Reqs
<1>1. ASSUME NEW r \in Readers, Refresh(r), ~Removes
      PROVE  /\ pc[r] = "refresh" /\ pc'[r] = "serve" /\ UNCHANGED <<body, file, wrote, across>>
             /\ meta'.ver = held[r].ver /\ meta.ver \in {0, held[r].ver}
  <2>1. /\ pc[r] = "refresh" /\ pc'[r] = "serve" /\ UNCHANGED <<body, file, wrote, across>>
        /\ meta' = held'[r] /\ held'[r].ver = held[r].ver
    BY <1>1, RefreshFrame DEF Refresh, Step, TypeOK, Metas, Removes
  <2>2. QED
    BY <2>1 DEF LeadInv, Leading, Storing, PairInv, Looked
<1>2. ASSUME NEW r \in Readers, RenameBody(r), ~Removes
      PROVE  /\ pc[r] = "rename" /\ pc'[r] = "register" /\ UNCHANGED <<meta, wrote, across>>
             /\ file' = got[r] /\ file <= got[r]
  BY <1>2 DEF RenameBody, Step, TypeOK, Removes, FillInv
<1>3. ASSUME NEW r \in Readers, RegisterBody(r)
      PROVE  pc[r] = "register" /\ UNCHANGED <<meta, file, wrote, across>>
  BY <1>3 DEF RegisterBody, Step
<1>4. ASSUME NEW r \in Readers, StoreMeta(r), ~Removes
      PROVE  /\ pc[r] = "meta" /\ pc'[r] = "close" /\ UNCHANGED <<body, file, wrote, across>>
             /\ meta'.ver = got[r] /\ meta.ver <= got[r]
  <2>1. pc[r] = "meta" /\ pc'[r] = "close" /\ UNCHANGED <<wrote, across>>
    BY <1>4 DEF StoreMeta, Step, TypeOK
  <2>2. MetaOf(r).ver = got[r]
    BY MetaOfType
  <2>3. UNCHANGED <<body, file>> /\ meta'.ver = got[r]
    BY <1>4, <2>2 DEF StoreMeta, Removes
  <2>4. QED
    BY <2>1, <2>3 DEF FillInv, Filling
<1>5. ASSUME NEW r \in Readers, Read(r), ~Removes
      PROVE  Refresh(r) \/ RenameBody(r) \/ RegisterBody(r) \/ StoreMeta(r)
  BY <1>5, OthersRemove DEF Read, Store
<1>6. ASSUME ~Removes PROVE \E r \in Readers : Read(r)
  BY <1>6, WorldRemoves DEF Next
<1>7. QED
  BY <1>1, <1>2, <1>3, <1>4, <1>5, <1>6

\* No slow writer replaces the file of the body by an older one.
THEOREM BytesNeverGoBackAlways == Spec => BytesNeverGoBack
<1>1. ASSUME IInv, [Next]_vars PROVE file # 0 /\ file' # 0 => file' >= file
  <2>1. file \in Nat
    BY <1>1 DEF IInv, TypeOK
  <2>2. ASSUME NEW r \in Readers PROVE got[r] \in Nat
    BY <1>1 DEF IInv, TypeOK, Reqs
  <2>3. CASE Removes
    BY <1>1, <2>1, <2>3, RemovesFrame DEF IInv
  <2>4. CASE ~Removes
    BY <1>1, <2>1, <2>2, <2>4, Changes
  <2>5. QED
    BY <2>3, <2>4
<1>2. QED
  BY InductiveInvariant, <1>1, PTL DEF Spec, BytesNeverGoBack

\* No slow fetch overwrites the metadata that a later one has stored.
THEOREM MetaNeverGoesBackAlways == Spec => MetaNeverGoesBack
<1>1. ASSUME IInv, [Next]_vars PROVE meta.ver # 0 /\ meta'.ver # 0 => meta'.ver >= meta.ver
  <2>1. meta.ver \in Nat /\ NoMeta.ver = 0
    BY <1>1 DEF IInv, TypeOK, Metas, NoMeta
  <2>2. ASSUME NEW r \in Readers PROVE got[r] \in Nat /\ held[r].ver \in Nat
    BY <1>1 DEF IInv, TypeOK, Reqs, Metas
  <2>3. CASE Removes
    BY <1>1, <2>1, <2>3, RemovesFrame DEF IInv
  <2>4. CASE ~Removes
    BY <1>1, <2>1, <2>2, <2>4, Changes
  <2>5. QED
    BY <2>3, <2>4
<1>2. QED
  BY InductiveInvariant, <1>1, PTL DEF Spec, MetaNeverGoesBack

\* Metadata older than a mutation answered with success comes back only from a request
\* that was storing its response when the mutation invalidated, or from a 304 that does
\* not tell whether the version held is still the one the upstream serves.
THEOREM StaleOnlyFromOverlapAlways == Spec => StaleOnlyFromOverlap
<1>1. ASSUME IInv, [Next]_vars, NEW w \in Writers, meta'.ver # 0, meta'.ver < wrote'[w]
      PROVE  \/ meta' = meta /\ wrote'[w] = wrote[w]
             \/ \E r \in across[w] : pc[r] \in {"refresh", "meta"} /\ pc'[r] # pc[r]
             \/ \E r \in Readers : pc[r] = "refresh" /\ pc'[r] # "refresh" /\ Blind(r)
  <2>1. meta' # NoMeta
    BY <1>1 DEF NoMeta
  <2>2. CASE Removes
    <3>1. meta' = meta
      BY <1>1, <2>1, <2>2, RemovesFrame DEF IInv
    <3>2. \A x \in Writers : ~Invalidate(x)
      BY <2>1 DEF Invalidate, Invalidates
    <3>3. UNCHANGED wrote
      BY <1>1, <3>2 DEF Next, Read, Write, Look, LoadMeta, Forget, LoadBody, Serve, Drop, DropBody, Enter,
         Join, Wait, Respond, FetchFails, Revalidate, Pass, FetchMissing, Fetch, Store, Refresh,
         StoreBegin, RenameBody, RegisterBody, StoreMeta, Leave, Close, Delete, Mutate,
         MutateFails, Elsewhere, EvictRecord, TimePasses, AllAnswered, vars, history
    <3>4. QED
      BY <3>1, <3>3
  <2>3. CASE ~Removes
    <3>1. PICK r \in Readers :
            \/ UNCHANGED <<meta, wrote>>
            \/ /\ pc[r] = "refresh" /\ pc'[r] = "serve" /\ UNCHANGED wrote
               /\ meta'.ver = held[r].ver
            \/ /\ pc[r] = "meta" /\ pc'[r] = "close" /\ UNCHANGED wrote
               /\ meta'.ver = got[r]
      BY <1>1, <2>3, Changes
    <3>2. CASE UNCHANGED <<meta, wrote>>
      BY <3>2
    <3>3. CASE pc[r] = "refresh" /\ held[r].ver < wrote[w] /\ pc'[r] = "serve"
      BY <1>1, <3>3 DEF IInv, OverlapInv
    <3>4. CASE pc[r] = "meta" /\ got[r] < wrote[w] /\ pc'[r] = "close"
      BY <1>1, <3>4 DEF IInv, OverlapInv, Filling
    <3>5. QED
      BY <1>1, <3>1, <3>2, <3>3, <3>4
  <2>4. QED
    BY <2>2, <2>3
<1>2. IInv /\ [Next]_vars =>
        \A w \in Writers :
          meta'.ver # 0 /\ meta'.ver < wrote'[w] =>
            \/ meta' = meta /\ wrote'[w] = wrote[w]
            \/ \E r \in across[w] : pc[r] \in {"refresh", "meta"} /\ pc'[r] # pc[r]
            \/ \E r \in Readers : pc[r] = "refresh" /\ pc'[r] # "refresh" /\ Blind(r)
  BY <1>1
<1>3. QED
  BY InductiveInvariant, <1>2, PTL DEF Spec, StaleOnlyFromOverlap
=============================================================================
