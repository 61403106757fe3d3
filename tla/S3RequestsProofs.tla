----------------------------- MODULE S3RequestsProofs -----------------------------
(***************************************************************************)
(* Proofs about S3Requests: what a hit and a revalidation answer, for any  *)
(* objects, spellings, scopes, requests and lengths of bodies.             *)
(*                                                                         *)
(* No action reads the answer to the request before.  The invariant is     *)
(* therefore one of the entries, and a property of the answer follows from *)
(* it and from the step that gave the answer.                              *)
(***************************************************************************)
EXTENDS S3Requests, TLAPS

-----------------------------------------------------------------------------
(* Tags, entries, and what the upstream answers *)

\* A tag is the content it is of, or there is none.
LEMMA TagOfContent ==
  ASSUME NEW c
  PROVE  /\ Tag(c) = {} \/ Tag(c) = c
         /\ Tag(c) # {} => Tag(Tag(c)) = Tag(c)
BY DEF Tag

\* Every answer of the upstream carries the content there is and its tag.
LEMMA UpstreamFields ==
  ASSUME NEW how, NEW r, NEW conds
  PROVE  LET a == UpstreamAnswer(how, r, conds)
         IN  /\ a.how = how /\ a.to = r
             /\ a.content = Content(r) /\ a.tag = Tag(Content(r)) /\ a.at = Len(log)
             /\ a.status = 200 => Content(r) # {}
BY DEF UpstreamAnswer, Answer

\* The upstream answers 304 to the tag of its content, or, where no tag is asked about,
\* to its date.
LEMMA NotModified ==
  ASSUME NEW how, NEW r, NEW conds, UpstreamAnswer(how, r, conds).status = 304
  PROVE  /\ Content(r) # {}
         /\ \/ Tag(Content(r)) # {} /\ Cond("none-match", Content(r)) \in conds
            \/ ~Sends(conds, "none-match") /\ NotSince(conds, Content(r))
BY DEF UpstreamAnswer, Answer

\* A date is the content it is of, or there is none.
LEMMA DateOfContent ==
  ASSUME NEW c
  PROVE  Date(c) = {} \/ Date(c) = c
BY DEF Date

\* The content of a cacheable request is a set of versions of objects.
LEMMA ContentTyped ==
  ASSUME S3TypeOK, NEW r \in Sent, CachePolicy(r)
  PROVE  Content(r) \in Contents /\ Tag(Content(r)) \in Contents /\ Date(Content(r)) \in Contents
<1>1. Names[r.path] \in Objects
  BY RequestsAssumption DEF CachePolicy
<1>2. Content(r) \in Contents
  BY <1>1 DEF Content, Contents, S3TypeOK, CachePolicy
<1>3. QED  BY <1>2, TagOfContent, DateOfContent DEF Contents

\* A second is a number.
LEMMA SecondTyped ==
  ASSUME NEW v \in Nat
  PROVE  Second(v) \in Int
BY RequestsAssumption DEF Second

\* A cacheable request is for one object, whose date is its own.
LEMMA OneDate ==
  ASSUME S3TypeOK, NEW r \in Sent, CachePolicy(r)
  PROVE  NotLater(Content(r), Content(r))
<1>1. \A p \in Content(r), q \in Content(r) : p = q
  BY DEF Content, CachePolicy
<1>2. \A p \in Content(r) : p[2] \in Nat
  BY ContentTyped DEF Contents
<1>3. \A p \in Content(r) : Second(p[2]) <= Second(p[2])
  <2> SUFFICES ASSUME NEW p \in Content(r) PROVE Second(p[2]) <= Second(p[2])
    OBVIOUS
  <2> QED  BY <1>2, SecondTyped
<1>4. QED  BY <1>1, <1>3 DEF NotLater

\* The order of dates is transitive, but for contents of nothing.
LEMMA LaterTransitive ==
  ASSUME NEW c \in Contents, NEW d \in Contents, NEW e \in Contents, d # {},
         NotLater(c, d), NotLater(d, e)
  PROVE  NotLater(c, e)
<1>1. ASSUME NEW p \in c, NEW q \in e PROVE Second(p[2]) <= Second(q[2])
  <2>1. PICK o \in d : TRUE  OBVIOUS
  <2>2. p[2] \in Nat /\ q[2] \in Nat /\ o[2] \in Nat  BY DEF Contents
  <2>3. Second(p[2]) \in Int /\ Second(q[2]) \in Int /\ Second(o[2]) \in Int
    BY <2>2, SecondTyped
  <2>4. Second(p[2]) <= Second(o[2]) /\ Second(o[2]) <= Second(q[2])  BY DEF NotLater
  <2>5. QED  BY <2>3, <2>4
<1>2. QED  BY <1>1 DEF NotLater

\* A usable entry is one of the cache, under the key it was looked up with.
LEMMA UsableFound ==
  ASSUME NEW r, NEW k, Usable(r, Entry(k))
  PROVE  Entry(k) \in entries /\ Entry(k).key = k
<1>1. \E e \in entries : e.key = k  BY DEF Usable, Entry
<1>2. QED  BY <1>1 DEF Entry

\* The target of a mutation is the same to an entry and to the requests it answers.
LEMMA TargetOfKey ==
  ASSUME NEW m, NEW r
  PROVE  SameTarget(m, cacheKey(r)) <=> SameTarget(m, r)
BY DEF SameTarget, cacheKey

-----------------------------------------------------------------------------
(* The invariant holds of every entry *)

\* The record type of the entries.
Entries ==
  [key : Keys, content : Contents, tag : Contents, date : Contents, full : BOOLEAN,
   fresh : BOOLEAN, at : Nat]

\* The invariant, of one entry.
Sound(e) ==
  /\ e \in Entries
  /\ e.content # {} /\ e.at <= Len(log)
  /\ \A i \in (e.at + 1)..Len(log) : ~SameTarget(log[i], e.key)
  /\ \/ e.tag = Tag(e.content)
     \/ Tag(e.content) = {} /\ e.tag # {} /\ Tag(e.tag) = e.tag
  /\ e.tag = {} => NotLater(e.date, e.content)

\* The types apart from the entries'.
Typed ==
  /\ version \in [Objects -> Nat] /\ deleted \subseteq Objects
  /\ log \in Seq(Sent) /\ sent \in 0..MaxSent

\* The invariant is that of all entries.
LEMMA IInvOfEntries == S3IInv <=> Typed /\ \A e \in entries : Sound(e)
BY DEF S3IInv, S3TypeOK, StoredInv, UntouchedInv, TagInv, DateInv, Typed, Sound, Entries

\* An entry stays sound while the log does.
LEMMA SoundFrame ==
  ASSUME NEW e, Sound(e), UNCHANGED log
  PROVE  Sound(e)'
BY DEF Sound, Entries, SameTarget, Keys, cacheKey, Contents, Tag, NotLater, Second

\* An entry stays sound when its freshness changes.
LEMMA FreshnessFrame ==
  ASSUME NEW e, Sound(e), NEW b \in BOOLEAN
  PROVE  Sound([e EXCEPT !.fresh = b])
<1> DEFINE f == [e EXCEPT !.fresh = b]
<1>1. f \in Entries  BY DEF Sound, Entries
<1>2. /\ f.key = e.key /\ f.content = e.content /\ f.tag = e.tag /\ f.date = e.date /\ f.at = e.at
  BY DEF Sound, Entries
<1>3. QED  BY <1>1, <1>2 DEF Sound

-----------------------------------------------------------------------------
(* The steps *)

\* A mutation leaves the entries it has nothing to do with.
LEMMA MutateStep ==
  ASSUME S3IInv, Mutate
  PROVE  S3IInv'
<1> USE RequestsAssumption
<1>1. Typed /\ \A e \in entries : Sound(e)  BY IInvOfEntries
<1>2. PICK r \in Sent :
        /\ IsMutation(r) /\ Count /\ Effect(r)
        /\ entries' = IF Cacheable[r.scope] THEN InvalidateTarget(r) ELSE entries
        /\ log' = Append(log, r)
  BY DEF Mutate
<1>3. Typed'
  <2>1. /\ version' \in [Objects -> Nat] /\ deleted' \subseteq Objects
    BY <1>1, <1>2 DEF Typed, Effect, Change, Delete
  <2>2. log' \in Seq(Sent)  BY <1>1, <1>2 DEF Typed
  <2>3. sent' \in 0..MaxSent  BY <1>1, <1>2 DEF Typed, Count
  <2>4. QED  BY <2>1, <2>2, <2>3 DEF Typed
<1>4. /\ Len(log) \in Nat /\ Len(log') = Len(log) + 1 /\ log'[Len(log) + 1] = r
      /\ \A i \in 1..Len(log) : log'[i] = log[i]
  BY <1>1, <1>2 DEF Typed
<1>5. ASSUME NEW e \in entries'
      PROVE  Sound(e)'
  <2>1. e \in entries /\ Sound(e)  BY <1>1, <1>2 DEF InvalidateTarget
  <2>2. ~SameTarget(r, e.key)  BY <1>2 DEF InvalidateTarget, SameTarget
  <2>3. ASSUME NEW i \in (e.at + 1)..Len(log') PROVE ~SameTarget(log'[i], e.key)
    <3>1. e.at \in Nat  BY <2>1 DEF Sound, Entries
    <3>2. CASE i = Len(log) + 1  BY <3>2, <1>4, <2>2
    <3>3. CASE i # Len(log) + 1
      <4>1. i \in (e.at + 1)..Len(log) /\ i \in 1..Len(log)  BY <3>1, <3>3, <1>4
      <4>2. QED  BY <4>1, <2>1, <1>4 DEF Sound
    <3>4. QED  BY <3>2, <3>3
  <2>4. e.at <= Len(log')  BY <2>1, <1>4 DEF Sound, Entries
  <2>5. e \in Entries /\ e.content # {}
        /\ \/ e.tag = Tag(e.content)
           \/ Tag(e.content) = {} /\ e.tag # {} /\ Tag(e.tag) = e.tag
        /\ (e.tag = {} => NotLater(e.date, e.content))
    BY <2>1 DEF Sound
  <2>6. QED
    BY <2>3, <2>4, <2>5 DEF Sound, Entries, SameTarget, Keys, cacheKey, Contents, Tag, NotLater,
       Second
<1>6. QED
  BY <1>3, <1>5 DEF S3IInv, S3TypeOK, StoredInv, UntouchedInv, TagInv, DateInv, Typed, Sound, Entries

\* Steps that at most count a request and take entries away.
LEMMA ReadStep ==
  ASSUME S3IInv, UNCHANGED <<version, deleted, log>>, sent' \in 0..MaxSent,
         \A e \in entries' : Sound(e)
  PROVE  S3IInv'
<1>1. Typed  BY IInvOfEntries
<1>2. Typed'  BY <1>1 DEF Typed
<1>3. \A e \in entries' : Sound(e)'  BY SoundFrame
<1>4. QED  BY <1>2, <1>3 DEF S3IInv, S3TypeOK, StoredInv, UntouchedInv, TagInv, DateInv, Typed, Sound, Entries

\* A request counts.
LEMMA Counted ==
  ASSUME S3IInv, Count
  PROVE  sent' \in 0..MaxSent
BY RequestsAssumption DEF S3IInv, S3TypeOK, Count

\* What an upstream answers to the conditions of an entry: with 304, the entry's content
\* is the current one, or it had no tag and the answer's is somebody else's, or the change
\* was in the same second.
LEMMA NotModifiedEntry ==
  ASSUME S3TypeOK, NEW r \in Sent, CachePolicy(r), NEW e, Sound(e), CanRevalidate(r, e), NEW how,
         UpstreamAnswer(how, r, CondsSet(r, e)).status = 304
  PROVE  \/ /\ e.tag # {} /\ Content(r) = e.tag /\ Tag(Content(r)) = e.tag
            /\ e.content = Content(r) \/ Tag(e.content) = {}
         \/ /\ e.tag = {} /\ Tag(e.content) = {} /\ Tag(Content(r)) # {}
         \/ /\ e.tag = {} /\ Tag(e.content) = {} /\ NotLater(Content(r), e.content)
<1> DEFINE c == Content(r)
<1>1. \/ Tag(c) # {} /\ Cond("none-match", c) \in CondsSet(r, e)
      \/ ~Sends(CondsSet(r, e), "none-match") /\ NotSince(CondsSet(r, e), c)
  BY NotModified
<1>2. CASE e.tag # {}
  <2>0. Own(e) = Cond("none-match", e.tag)  BY <1>2 DEF Own
  <2>1. Cond("none-match", e.tag) \in CondsSet(r, e)  BY <2>0 DEF CondsSet
  <2>2. Tag(c) # {} /\ Cond("none-match", c) \in CondsSet(r, e)
    BY <1>1, <2>1 DEF Sends, Cond
  <2>3. Cond("none-match", c) = Cond("none-match", e.tag)
    BY <2>0, <2>2 DEF CondsSet, Cond
  <2>4. c = e.tag  BY <2>3 DEF Cond
  <2>5. Tag(c) = c  BY <2>2, TagOfContent
  <2>6. e.content = c \/ Tag(e.content) = {}
    BY <1>2, <2>4, TagOfContent DEF Sound
  <2>7. QED  BY <1>2, <2>4, <2>5, <2>6
<1>3. CASE e.tag = {}
  <2>0. Own(e) = Cond("since", e.date) /\ e.date # {}
    BY <1>3 DEF Own, CanRevalidate
  <2>1. Tag(e.content) = {}  BY <1>3 DEF Sound
  <2>2. NotSince(CondsSet(r, e), c) => NotLater(c, e.date)
    BY <2>0 DEF NotSince, CondsSet, Cond
  <2>3. c \in Contents  BY ContentTyped
  <2>4. e.date \in Contents /\ e.content \in Contents /\ NotLater(e.date, e.content)
    BY <1>3 DEF Sound, Entries
  <2>5. NotLater(c, e.date) => NotLater(c, e.content)
    BY <2>0, <2>3, <2>4, LaterTransitive
  <2>6. QED  BY <1>1, <1>3, <2>1, <2>2, <2>5
<1>4. QED  BY <1>2, <1>3

\* A revalidated entry is sound again.
LEMMA RefreshStep ==
  ASSUME S3IInv, NEW r \in Sent, CachePolicy(r),
         CanRevalidate(r, Entry(cacheKey(r))),
         UpstreamAnswer("miss", r, CondsSet(r, Entry(cacheKey(r)))).status = 304,
         Refresh(r, Entry(cacheKey(r)),
                 UpstreamAnswer("miss", r, CondsSet(r, Entry(cacheKey(r)))))
  PROVE  \A f \in entries' : Sound(f)
<1> DEFINE e == Entry(cacheKey(r))
           a == UpstreamAnswer("miss", r, CondsSet(r, e))
           f == [e EXCEPT !.fresh = TRUE, !.tag = IF a.tag # {} THEN a.tag ELSE @,
                          !.date = IF Date(a.content) # {} THEN Date(a.content) ELSE @]
<1>1. Typed /\ \A g \in entries : Sound(g)  BY IInvOfEntries
<1>2. e \in entries /\ Sound(e)  BY <1>1, UsableFound DEF CanRevalidate
<1>3. e \in Entries  BY <1>2 DEF Sound
<1>4. a.tag = Tag(Content(r)) /\ a.content = Content(r)  BY UpstreamFields
<1>5. a.tag \in Contents /\ Date(a.content) \in Contents  BY <1>4, ContentTyped DEF S3IInv
<1>6. /\ f \in Entries /\ f.key = e.key /\ f.content = e.content /\ f.at = e.at
      /\ f.tag = IF a.tag # {} THEN a.tag ELSE e.tag
      /\ f.date = IF Date(a.content) # {} THEN Date(a.content) ELSE e.date
  <2> HIDE DEF a, e
  <2>1. QED  BY <1>3, <1>5 DEF Entries
<1>11. \/ e.tag # {} /\ Content(r) = e.tag /\ Tag(Content(r)) = e.tag
       \/ e.tag = {} /\ Tag(e.content) = {} /\ Tag(Content(r)) # {}
       \/ e.tag = {} /\ Tag(e.content) = {} /\ NotLater(Content(r), e.content)
  BY <1>2, NotModifiedEntry DEF S3IInv
<1>7. \/ f.tag = Tag(f.content)
      \/ Tag(f.content) = {} /\ f.tag # {} /\ Tag(f.tag) = f.tag
  <2> HIDE DEF a, e, f
  <2>2. CASE e.tag # {} /\ Content(r) = e.tag /\ Tag(Content(r)) = e.tag
    BY <2>2, <1>2, <1>4, <1>6 DEF Sound
  <2>3. CASE e.tag = {} /\ Tag(e.content) = {} /\ Tag(Content(r)) # {}
    BY <2>3, <1>4, <1>6, TagOfContent
  <2>4. CASE e.tag = {} /\ Tag(e.content) = {} /\ Tag(Content(r)) = {}
    BY <2>4, <1>4, <1>6
  <2>5. QED  BY <1>11, <2>2, <2>3, <2>4
<1>12. f.tag = {} => NotLater(f.date, f.content)
  <2> HIDE DEF a, e, f
  <2>1. SUFFICES ASSUME f.tag = {} PROVE NotLater(f.date, e.content)
    BY <1>6
  <2>2. e.tag = {} /\ NotLater(Content(r), e.content)  BY <1>4, <1>6, <1>11, <2>1
  <2>3. f.date = Content(r) \/ f.date = e.date  BY <1>4, <1>6, DateOfContent
  <2>4. QED  BY <1>2, <2>2, <2>3 DEF Sound
<1>8. Sound(f)
  <2> HIDE DEF a, e, f
  <2>1. QED  BY <1>2, <1>6, <1>7, <1>12 DEF Sound
<1>9. entries' = Without(e.key) \cup {f}  BY DEF Refresh
<1>10. QED
  <2> HIDE DEF a, e, f
  <2>1. QED  BY <1>1, <1>8, <1>9 DEF Without

\* What is stored is sound: it is what was fetched just now.
LEMMA StoreStep ==
  ASSUME S3IInv, NEW r \in Sent, CachePolicy(r), NEW conds,
         Store(r, cacheKey(r), UpstreamAnswer("miss", r, conds))
  PROVE  \A f \in entries' : Sound(f)
<1> DEFINE a == UpstreamAnswer("miss", r, conds)
           full == r.method = "GET"
           f == [key |-> cacheKey(r), content |-> a.content, tag |-> a.tag,
                 date |-> Date(a.content), full |-> full, fresh |-> TRUE, at |-> Len(log)]
<1>1. Typed /\ \A g \in entries : Sound(g)  BY IInvOfEntries
<1>2. /\ a.content = Content(r) /\ a.tag = Tag(Content(r)) /\ (a.status = 200 => Content(r) # {})
  BY UpstreamFields
<1>3. a.content \in Contents /\ a.tag \in Contents /\ Date(a.content) \in Contents
  <2> HIDE DEF a
  <2>1. QED  BY <1>2, ContentTyped DEF S3IInv
<1>4. Len(log) \in Nat  BY <1>1 DEF Typed
<1>5. cacheKey(r) \in Keys /\ full \in BOOLEAN  BY DEF Keys
<1>6. f \in Entries /\ f.key = cacheKey(r) /\ f.content = a.content /\ f.tag = a.tag
      /\ f.date = Date(a.content) /\ f.at = Len(log)
  <2> HIDE DEF a, full
  <2>1. QED  BY <1>3, <1>4, <1>5 DEF Entries
<1>7. a.status = 200 => Sound(f)
  <2> HIDE DEF a, f
  <2>1. \A i \in (f.at + 1)..Len(log) : ~SameTarget(log[i], f.key)  BY <1>4, <1>6
  <2>2. NotLater(f.date, f.content)
    <3>1. NotLater(Content(r), Content(r))  BY OneDate DEF S3IInv
    <3>2. f.date = {} \/ f.date = Content(r)  BY <1>2, <1>6, DateOfContent
    <3>3. NotLater({}, f.content)  BY DEF NotLater
    <3>4. QED  BY <1>2, <1>6, <3>1, <3>2, <3>3
  <2>3. QED  BY <2>1, <2>2, <1>2, <1>4, <1>6 DEF Sound
<1>8. \/ a.status = 200 /\ entries' = Without(cacheKey(r)) \cup {f}
      \/ entries' \subseteq entries
  BY DEF Store, Without
<1>9. QED
  <2> HIDE DEF a, f
  <2>1. QED  BY <1>1, <1>7, <1>8 DEF Without

\* An entry that expires is the same entry.
LEMMA ExpireStep ==
  ASSUME S3IInv, Expire
  PROVE  S3IInv'
<1>1. Typed /\ \A e \in entries : Sound(e)  BY IInvOfEntries
<1>2. PICK e \in entries : entries' = (entries \ {e}) \cup {[e EXCEPT !.fresh = FALSE]}
  BY DEF Expire
<1>3. Sound([e EXCEPT !.fresh = FALSE])  BY <1>1, FreshnessFrame
<1>4. \A f \in entries' : Sound(f)  BY <1>1, <1>2, <1>3
<1>5. sent' \in 0..MaxSent  BY <1>1 DEF Typed, Expire
<1>6. QED  BY <1>4, <1>5, ReadStep DEF Expire

\* A fetch stores what is there, or finds an entry current again.
LEMMA FetchStep ==
  ASSUME S3IInv, Fetch
  PROVE  S3IInv'
<1>1. PICK r \in Sent :
        LET e == Entry(cacheKey(r))
            a == UpstreamAnswer("miss", r, IF CanRevalidate(r, e) THEN CondsSet(r, e) ELSE r.conds)
        IN  /\ Reading(r) /\ MayCache(r) /\ ~(Usable(r, e) /\ e.fresh)
            /\ IF a.status = 304 /\ CanRevalidate(r, e) THEN Refresh(r, e, a)
               ELSE Store(r, cacheKey(r), a) /\ response' = a
  BY DEF Fetch
<1> DEFINE e == Entry(cacheKey(r))
           conds == IF CanRevalidate(r, e) THEN CondsSet(r, e) ELSE r.conds
           a == UpstreamAnswer("miss", r, conds)
<1>2. CachePolicy(r)  BY <1>1 DEF MayCache
<1>3. \A f \in entries' : Sound(f)
  <2>1. CASE a.status = 304 /\ CanRevalidate(r, e)
    <3>1. conds = CondsSet(r, e)  BY <2>1
    <3>2. Refresh(r, e, a)  BY <1>1, <2>1
    <3>3. QED  BY <1>2, <2>1, <3>1, <3>2, RefreshStep
  <2>2. CASE ~(a.status = 304 /\ CanRevalidate(r, e))
    <3>1. Store(r, cacheKey(r), a)  BY <1>1, <2>2
    <3> HIDE DEF conds
    <3>2. QED  BY <1>2, <3>1, StoreStep
  <2>3. QED  BY <2>1, <2>2
<1>4. sent' \in 0..MaxSent  BY <1>1, Counted DEF Reading
<1>5. UNCHANGED <<version, deleted, log>>  BY <1>1 DEF Reading
<1>6. QED  BY <1>3, <1>4, <1>5, ReadStep

\* The invariant holds at the start.
LEMMA IInvInit ==
  ASSUME S3Init
  PROVE  S3IInv
<1>1. Len(log) \in Nat  BY DEF S3Init
<1>2. QED
  BY <1>1, RequestsAssumption DEF S3Init, S3IInv, S3TypeOK, StoredInv, UntouchedInv, TagInv,
     DateInv

\* Every step keeps the invariant.
LEMMA IInvStep ==
  ASSUME S3IInv, [S3Next]_s3Vars
  PROVE  S3IInv'
<1>0. Typed /\ \A e \in entries : Sound(e)  BY IInvOfEntries
<1>1. CASE Mutate  BY <1>1, MutateStep
<1>2. CASE MutateRefused \/ Forward \/ Bypass \/ Hit
  <2>1. Count /\ UNCHANGED <<version, deleted, log, entries>>
    BY <1>2 DEF MutateRefused, Forward, Bypass, Hit, Reading
  <2>2. sent' \in 0..MaxSent  BY <2>1, Counted
  <2>3. \A e \in entries' : Sound(e)  BY <2>1, <1>0
  <2>4. QED  BY <2>1, <2>2, <2>3, ReadStep
<1>3. CASE Fetch  BY <1>3, FetchStep
<1>4. CASE Expire  BY <1>4, ExpireStep
<1>5. CASE Done \/ UNCHANGED s3Vars
  <2>1. UNCHANGED <<version, deleted, log, entries, sent>>  BY <1>5 DEF Done, s3Vars
  <2>2. sent' \in 0..MaxSent  BY <1>0, <2>1 DEF Typed
  <2>3. \A e \in entries' : Sound(e)  BY <2>1, <1>0
  <2>4. QED  BY <2>1, <2>2, <2>3, ReadStep
<1>6. QED  BY <1>1, <1>2, <1>3, <1>4, <1>5 DEF S3Next

\* The invariant of the entries (serveCacheable, fetchAndMaybeStore, forwardMutation of
\* src/s3/server.go): every entry has the tag of its content or none of its own, and no
\* change the proxy could see has been made to its object since it was fetched.
THEOREM InductiveInvariant == S3Spec => []S3IInv
<1>1. S3Init => S3IInv  BY IInvInit
<1>2. S3IInv /\ [S3Next]_s3Vars => S3IInv'  BY IInvStep
<1>3. QED  BY <1>1, <1>2, PTL DEF S3Spec

-----------------------------------------------------------------------------
(* What hits and revalidations answer *)

\* parseRange and the upstream agree on every range that is understood: on which bytes
\* it is, and on when there are none.
LEMMA RangesAgree ==
  ASSUME BodySize \in Nat, NEW range, range.list \in Seq(Bounds \X Bounds), Understood(range)
  PROVE  LET b == UpstreamRange(range.list[1])
         IN  IF ParseRange(range) = NoBytes THEN b[1] > b[2]
             ELSE b = ParseRange(range) /\ ~(b[1] > b[2])
<1>1. range.unit = "bytes" /\ Len(range.list) = 1  BY DEF Understood
<1>2. range.list[1] \in Bounds \X Bounds  BY <1>1
<1>3. PICK x \in Bounds, y \in Bounds : range.list[1] = <<x, y>>  BY <1>2
<1>4. IF x = None THEN y # None ELSE y = None \/ x <= y
  BY <1>3 DEF Understood
<1>5. CASE x = None
  <2>1. y \in Nat  BY <1>4, <1>5 DEF Bounds
  <2>2. UpstreamRange(range.list[1]) = <<BodySize - SmallerOf(y, BodySize), BodySize - 1>>
    BY <1>3, <1>5 DEF UpstreamRange
  <2>3. ParseRange(range) =
          IF BodySize = 0 \/ y <= 0 THEN NoBytes
          ELSE <<BodySize - SmallerOf(y, BodySize), BodySize - 1>>
    BY <1>1, <1>3, <1>5 DEF ParseRange
  <2>4. SmallerOf(y, BodySize) = IF y < BodySize THEN y ELSE BodySize  BY DEF SmallerOf
  <2>5. QED  BY <2>1, <2>2, <2>3, <2>4 DEF NoBytes, None
<1>6. CASE x # None
  <2>1. x \in Nat /\ (y = None \/ (y \in Nat /\ x <= y))  BY <1>4, <1>6 DEF Bounds
  <2>2. UpstreamRange(range.list[1]) =
          <<x, IF y = None THEN BodySize - 1 ELSE SmallerOf(y, BodySize - 1)>>
    BY <1>3, <1>6 DEF UpstreamRange
  <2>3. ParseRange(range) =
          IF BodySize = 0 \/ x >= BodySize \/ (y # None /\ y < x) THEN NoBytes
          ELSE <<x, IF y = None THEN BodySize - 1 ELSE SmallerOf(y, BodySize - 1)>>
    BY <1>1, <1>3, <1>6 DEF ParseRange
  <2>4. SmallerOf(y, BodySize - 1) = IF y < BodySize - 1 THEN y ELSE BodySize - 1
    BY DEF SmallerOf
  <2>5. QED  BY <2>1, <2>2, <2>3, <2>4 DEF NoBytes, None
<1>7. QED  BY <1>5, <1>6

\* parseRange has no bytes for a range that is not understood.
LEMMA RefusedRange ==
  ASSUME BodySize \in Nat, NEW range, range.list \in Seq(Bounds \X Bounds), ~Understood(range)
  PROVE  ParseRange(range) = NoBytes
<1>1. CASE range.unit # "bytes" \/ Len(range.list) # 1  BY <1>1 DEF ParseRange
<1>2. CASE range.unit = "bytes" /\ Len(range.list) = 1
  <2>1. range.list[1] \in Bounds \X Bounds  BY <1>2
  <2>2. PICK x \in Bounds, y \in Bounds : range.list[1] = <<x, y>>  BY <2>1
  <2>3. ~(IF x = None THEN y # None ELSE y = None \/ x <= y)
    BY <1>2, <2>2 DEF Understood
  <2>4. CASE x = None  BY <1>2, <2>2, <2>3, <2>4 DEF ParseRange, None
  <2>5. CASE x # None
    <3>1. y # None /\ y < x  BY <2>3, <2>5 DEF Bounds, None
    <3>2. QED  BY <1>2, <2>2, <2>5, <3>1 DEF ParseRange
  <2>6. QED  BY <2>4, <2>5
<1>3. QED  BY <1>1, <1>2

\* What a hit answers for an entry with the current content and its tag.
LEMMA HitAgrees ==
  ASSUME NEW r \in Sent, r.method \in {"GET", "HEAD"},
         NEW e, e.content = Content(r), e.tag = e.content, e.content # {},
         Tag(Content(r)) = Content(r),
         \A c \in r.conds : c.kind \notin {"match", "since", "range"}
  PROVE  LET direct == UpstreamAnswer("hit", r, r.conds)
             a == ServeEntry("hit", r, e)
         IN  \/ a.status = direct.status /\ a.bytes = direct.bytes
             \/ a.status = 416 /\ r.range # NoRange /\ ~Understood(r.range)
<1> DEFINE c == Content(r)
           direct == UpstreamAnswer("hit", r, r.conds)
           a == ServeEntry("hit", r, e)
<1>1. /\ Holds(r.conds, "match", c) /\ Holds(r.conds, "range", c) /\ ~NotSince(r.conds, c)
  BY DEF Holds, NotSince
<1>2. CASE Cond("none-match", c) \in r.conds
  <2>1. direct.status = 304 /\ direct.bytes = NoBytes
    BY <1>1, <1>2 DEF UpstreamAnswer, Answer
  <2>2. a.status = 304 /\ a.bytes = NoBytes  BY <1>2 DEF ServeEntry, Answer
  <2>3. QED  BY <2>1, <2>2
<1>3. CASE Cond("none-match", c) \notin r.conds /\ r.method = "HEAD"
  <2>1. direct.status = 200 /\ direct.bytes = NoBytes
    BY <1>1, <1>3 DEF UpstreamAnswer, Answer
  <2>2. a.status = 200 /\ a.bytes = NoBytes  BY <1>3 DEF ServeEntry, Answer
  <2>3. QED  BY <2>1, <2>2
<1>4. CASE Cond("none-match", c) \notin r.conds /\ r.method # "HEAD" /\ r.range = NoRange
  <2>1. ~Understood(r.range)  BY <1>4 DEF Understood, NoRange
  <2>2. direct.status = 200 /\ direct.bytes = Whole
    BY <1>1, <1>4, <2>1 DEF UpstreamAnswer, Answer
  <2>3. a.status = 200 /\ a.bytes = Whole  BY <1>4 DEF ServeEntry, Answer
  <2>4. QED  BY <2>2, <2>3
<1>5. CASE Cond("none-match", c) \notin r.conds /\ r.method # "HEAD" /\ r.range # NoRange
  <2> DEFINE p == ParseRange(r.range)
             b == UpstreamRange(r.range.list[1])
  <2>1. /\ a.status = IF p = NoBytes THEN 416 ELSE 206
        /\ a.bytes = p
    BY <1>5 DEF ServeEntry, Answer
  <2>2. CASE Understood(r.range)
    <3>1. /\ direct.status = IF b[1] > b[2] THEN 416 ELSE 206
          /\ direct.bytes = IF b[1] > b[2] THEN NoBytes ELSE b
      BY <1>1, <1>5, <2>2 DEF UpstreamAnswer, Answer
    <3>2. IF p = NoBytes THEN b[1] > b[2] ELSE b = p /\ ~(b[1] > b[2])
      BY <2>2, RangesAgree, RequestsAssumption
    <3>3. QED  BY <2>1, <3>1, <3>2
  <2>3. CASE ~Understood(r.range)
    <3>1. p = NoBytes  BY <2>3, RefusedRange, RequestsAssumption
    <3>2. QED  BY <2>1, <2>3, <3>1, <1>5
  <2>4. QED  BY <2>2, <2>3
<1>6. QED  BY <1>2, <1>3, <1>4, <1>5

\* The entry a hit answers with.
LEMMA HitEntry ==
  ASSUME S3IInv, Hit
  PROVE  \E r \in Sent, e \in entries :
           /\ Sound(e) /\ e.key = cacheKey(r) /\ r.method \in {"GET", "HEAD"}
           /\ response' = ServeEntry("hit", r, e)
           /\ UNCHANGED <<version, deleted, log>>
<1>1. \A e \in entries : Sound(e)  BY IInvOfEntries
<1>2. PICK r \in Sent :
        LET e == Entry(cacheKey(r))
        IN  /\ Reading(r) /\ Usable(r, e) /\ response' = ServeEntry("hit", r, e)
  BY DEF Hit
<1>3. Entry(cacheKey(r)) \in entries /\ Entry(cacheKey(r)).key = cacheKey(r)
  BY <1>2, UsableFound
<1>4. QED  BY <1>1, <1>2, <1>3 DEF Reading

\* What is served out of an entry carries the entry's content, tag and age.
LEMMA ServedFields ==
  ASSUME NEW how, NEW r, NEW e
  PROVE  LET a == ServeEntry(how, r, e)
         IN  a.how = how /\ a.to = r /\ a.content = e.content /\ a.tag = e.tag /\ a.at = e.at
BY DEF ServeEntry, Answer

\* An entry as a revalidation leaves it.
Refreshed(r, e) ==
  [e EXCEPT !.fresh = TRUE, !.tag = IF Tag(Content(r)) # {} THEN Tag(Content(r)) ELSE @,
            !.date = IF Date(Content(r)) # {} THEN Date(Content(r)) ELSE @]

\* A fetch answers with what the upstream sent, or out of the entry it revalidated.
LEMMA FetchAnswer ==
  ASSUME Fetch
  PROVE  \E r \in Sent :
           /\ UNCHANGED <<version, deleted, log>>
           /\ \/ \E conds : response' = UpstreamAnswer("miss", r, conds)
              \/ /\ CachePolicy(r) /\ CanRevalidate(r, Entry(cacheKey(r)))
                 /\ UpstreamAnswer("miss", r, CondsSet(r, Entry(cacheKey(r)))).status = 304
                 /\ response' = ServeEntry("revalidated", r, Refreshed(r, Entry(cacheKey(r))))
<1>1. PICK r \in Sent :
        LET e == Entry(cacheKey(r))
            a == UpstreamAnswer("miss", r, IF CanRevalidate(r, e) THEN CondsSet(r, e) ELSE r.conds)
        IN  /\ Reading(r) /\ MayCache(r)
            /\ IF a.status = 304 /\ CanRevalidate(r, e) THEN Refresh(r, e, a)
               ELSE Store(r, cacheKey(r), a) /\ response' = a
  BY DEF Fetch
<1> DEFINE e == Entry(cacheKey(r))
           conds == IF CanRevalidate(r, e) THEN CondsSet(r, e) ELSE r.conds
           a == UpstreamAnswer("miss", r, conds)
<1>2. UNCHANGED <<version, deleted, log>>  BY <1>1 DEF Reading
<1>3. CASE a.status = 304 /\ CanRevalidate(r, e)
  <2>1. conds = CondsSet(r, e)  BY <1>3
  <2>2. a.tag = Tag(Content(r)) /\ a.content = Content(r)  BY UpstreamFields
  <2>3. Refresh(r, e, a)  BY <1>1, <1>3
  <2>4. response' = ServeEntry("revalidated", r, Refreshed(r, e))
    <3> HIDE DEF a, e
    <3>1. QED  BY <2>2, <2>3 DEF Refresh, Refreshed
  <2>5. QED  BY <1>1, <1>2, <1>3, <2>1, <2>4 DEF MayCache
<1>4. CASE ~(a.status = 304 /\ CanRevalidate(r, e))
  <2>1. response' = a  BY <1>1, <1>4
  <2> HIDE DEF conds
  <2>2. QED  BY <1>2, <2>1
<1>5. QED  BY <1>3, <1>4

\* Only a hit answers as a hit, and only a fetch as a revalidation.
LEMMA HowAnswered ==
  ASSUME S3Next
  PROVE  /\ response'.how = "hit" => Hit \/ UNCHANGED <<version, deleted, response, log>>
         /\ response'.how = "revalidated" => Fetch \/ UNCHANGED <<version, deleted, response, log>>
<1>1. CASE Mutate \/ MutateRefused \/ Forward
  <2>1. response'.how = "forward"
    BY <1>1 DEF Mutate, MutateRefused, Forward, Answer
  <2>2. QED  BY <2>1
<1>2. CASE Bypass
  <2>1. response'.how = "bypass"  BY <1>2, UpstreamFields DEF Bypass
  <2>2. QED  BY <2>1
<1>3. CASE Hit
  <2>1. response'.how = "hit"  BY <1>3, ServedFields DEF Hit
  <2>2. QED  BY <2>1, <1>3
<1>4. CASE Fetch
  <2>1. response'.how = "revalidated" \/ response'.how = "miss"
    BY <1>4, FetchAnswer, UpstreamFields, ServedFields
  <2>2. QED  BY <2>1, <1>4
<1>5. QED  BY <1>1, <1>2, <1>3, <1>4 DEF S3Next, Expire, Done, s3Vars

-----------------------------------------------------------------------------
(* The properties *)

\* A fresh entry that is out of date was changed only behind the proxy's back
\* (invalidateTarget of src/s3/server.go removes every variant of a path).
THEOREM StaleOnlyBehindItsBackAlways == S3Spec => []StaleOnlyBehindItsBack
<1>1. S3Init => StaleOnlyBehindItsBack
  BY DEF S3Init, StaleOnlyBehindItsBack, Answer
<1>2. S3IInv /\ StaleOnlyBehindItsBack /\ [S3Next]_s3Vars => StaleOnlyBehindItsBack'
  <2> SUFFICES ASSUME S3IInv, StaleOnlyBehindItsBack, [S3Next]_s3Vars
               PROVE  StaleOnlyBehindItsBack'
    OBVIOUS
  <2>1. CASE UNCHANGED <<version, deleted, response, log>>
    BY <2>1 DEF StaleOnlyBehindItsBack, SameTarget
  <2>2. CASE Hit
    <3>1. PICK r \in Sent, e \in entries :
            /\ Sound(e) /\ e.key = cacheKey(r)
            /\ response' = ServeEntry("hit", r, e)
            /\ UNCHANGED log
      BY <2>2, HitEntry
    <3>2. response'.to = r /\ response'.at = e.at  BY <3>1, ServedFields
    <3>3. \A i \in (e.at + 1)..Len(log) : ~SameTarget(log[i], r)
      BY <3>1, TargetOfKey DEF Sound
    <3>4. QED  BY <3>1, <3>2, <3>3 DEF StaleOnlyBehindItsBack, SameTarget
  <2>3. CASE response'.how # "hit"  BY <2>3 DEF StaleOnlyBehindItsBack
  <2>4. QED  BY <2>1, <2>2, <2>3, HowAnswered DEF s3Vars
<1>3. QED  BY <1>1, <1>2, InductiveInvariant, PTL DEF S3Spec

\* A hit with the current content and its ETag answers as the upstream would, except to
\* conditions serveEntry does not know and ranges that are not understood (serveEntry,
\* clientNotModified and parseRange of src/s3/entry.go).
THEOREM HitsAnswerLikeUpstreamAlways == S3Spec => []HitsAnswerLikeUpstream
<1>1. S3Init => HitsAnswerLikeUpstream
  BY DEF S3Init, HitsAnswerLikeUpstream, Answer
<1>2. S3IInv /\ HitsAnswerLikeUpstream /\ [S3Next]_s3Vars => HitsAnswerLikeUpstream'
  <2> SUFFICES ASSUME S3IInv, HitsAnswerLikeUpstream, [S3Next]_s3Vars
               PROVE  HitsAnswerLikeUpstream'
    OBVIOUS
  <2>1. CASE UNCHANGED <<version, deleted, response, log>>
    <3>1. ASSUME NEW r, NEW conds
          PROVE  /\ Content(r)' = Content(r)
                 /\ UpstreamAnswer("hit", r, conds)' = UpstreamAnswer("hit", r, conds)
      BY <2>1 DEF UpstreamAnswer, Content, Tag, Date, NotSince, NotLater, Second, Answer
    <3>2. response' = response  BY <2>1
    <3>3. QED  BY <3>1, <3>2 DEF HitsAnswerLikeUpstream
  <2>2. CASE Hit
    <3>1. PICK r \in Sent, e \in entries :
            /\ Sound(e) /\ r.method \in {"GET", "HEAD"}
            /\ response' = ServeEntry("hit", r, e)
            /\ UNCHANGED <<version, deleted, log>>
      BY <2>2, HitEntry
    <3> DEFINE a == ServeEntry("hit", r, e)
               direct == UpstreamAnswer("hit", r, r.conds)
    <3>2. a.to = r /\ a.content = e.content /\ a.tag = e.tag  BY ServedFields
    <3>3. e.content = Content(r) /\ e.tag = e.content =>
            \/ a.status = direct.status /\ a.bytes = direct.bytes
            \/ \E c \in r.conds : c.kind \in {"match", "since", "range"}
            \/ a.status = 416 /\ r.range # NoRange /\ ~Understood(r.range)
      <4> SUFFICES ASSUME e.content = Content(r), e.tag = e.content,
                          \A c \in r.conds : c.kind \notin {"match", "since", "range"}
                   PROVE  \/ a.status = direct.status /\ a.bytes = direct.bytes
                          \/ a.status = 416 /\ r.range # NoRange /\ ~Understood(r.range)
        OBVIOUS
      <4>1. e.content # {}  BY <3>1 DEF Sound
      <4>2. Tag(Content(r)) = Content(r)  BY <3>1, <4>1, TagOfContent DEF Sound
      <4>3. QED  BY <3>1, <4>1, <4>2, HitAgrees
    <3>4. Content(r)' = Content(r) /\ UpstreamAnswer("hit", r, r.conds)' = direct
      BY <3>1 DEF UpstreamAnswer, Content, Tag, Date, NotSince, NotLater, Second, Answer
    <3>5. response' = a  BY <3>1
    <3>6. QED
      <4> HIDE DEF a, direct
      <4>1. QED  BY <3>2, <3>3, <3>4, <3>5 DEF HitsAnswerLikeUpstream
  <2>3. CASE response'.how # "hit"  BY <2>3 DEF HitsAnswerLikeUpstream
  <2>4. QED  BY <2>1, <2>2, <2>3, HowAnswered DEF s3Vars
<1>3. QED  BY <1>1, <1>2, InductiveInvariant, PTL DEF S3Spec

\* An entry is taken for current only if it is, unless it was stored without an ETag and
\* has been given one that is not its own, or the change was in the second of its
\* Last-Modified (fetchAndMaybeStore of src/s3/server.go: the proxy's own condition takes
\* the place of the client's of the same kind only).
THEOREM RevalidatedIsCurrentAlways == S3Spec => []RevalidatedIsCurrent
<1>1. S3Init => RevalidatedIsCurrent
  BY DEF S3Init, RevalidatedIsCurrent, Answer
<1>2. S3IInv /\ RevalidatedIsCurrent /\ [S3Next]_s3Vars => RevalidatedIsCurrent'
  <2> SUFFICES ASSUME S3IInv, RevalidatedIsCurrent, [S3Next]_s3Vars
               PROVE  RevalidatedIsCurrent'
    OBVIOUS
  <2>0. \A e \in entries : Sound(e)  BY IInvOfEntries
  <2>1. CASE UNCHANGED <<version, deleted, response, log>>
    BY <2>1 DEF RevalidatedIsCurrent, Content, Tag, NotLater, Second
  <2>2. CASE Fetch /\ response'.how = "revalidated"
    <3>1. PICK r \in Sent :
            /\ UNCHANGED <<version, deleted, log>>
            /\ \/ \E conds : response' = UpstreamAnswer("miss", r, conds)
               \/ /\ CachePolicy(r) /\ CanRevalidate(r, Entry(cacheKey(r)))
                  /\ UpstreamAnswer("miss", r, CondsSet(r, Entry(cacheKey(r)))).status = 304
                  /\ response' = ServeEntry("revalidated", r, Refreshed(r, Entry(cacheKey(r))))
      BY <2>2, FetchAnswer
    <3> DEFINE e == Entry(cacheKey(r))
               f == Refreshed(r, e)
    <3>2. /\ CachePolicy(r) /\ CanRevalidate(r, e) /\ UpstreamAnswer("miss", r, CondsSet(r, e)).status = 304
          /\ response' = ServeEntry("revalidated", r, f)
      BY <2>2, <3>1, UpstreamFields
    <3>3. Sound(e)  BY <2>0, <3>2, UsableFound DEF CanRevalidate
    <3>4. \/ /\ e.tag # {} /\ Content(r) = e.tag /\ Tag(Content(r)) = e.tag
             /\ e.content = Content(r) \/ Tag(e.content) = {}
          \/ /\ e.tag = {} /\ Tag(e.content) = {} /\ Tag(Content(r)) # {}
          \/ /\ e.tag = {} /\ Tag(e.content) = {} /\ NotLater(Content(r), e.content)
      BY <3>2, <3>3, NotModifiedEntry DEF S3IInv
    <3> HIDE DEF e
    <3>5. /\ f.content = e.content
          /\ f.tag = IF Tag(Content(r)) # {} THEN Tag(Content(r)) ELSE e.tag
      BY <3>3 DEF Sound, Entries, Refreshed
    <3> HIDE DEF f
    <3>6. response'.to = r /\ response'.content = f.content /\ response'.tag = f.tag
      BY <3>2, ServedFields
    <3>7. \/ e.content = Content(r)
          \/ Tag(e.content) = {} /\ (f.tag # {} \/ NotLater(Content(r), e.content))
      BY <3>4, <3>5
    <3>8. Content(r)' = Content(r)  BY <3>1 DEF Content
    <3>9. QED  BY <3>5, <3>6, <3>7, <3>8 DEF RevalidatedIsCurrent, Tag, NotLater, Second
  <2>3. CASE response'.how # "revalidated"  BY <2>3 DEF RevalidatedIsCurrent
  <2>4. QED  BY <2>1, <2>2, <2>3, HowAnswered DEF s3Vars
<1>3. QED  BY <1>1, <1>2, InductiveInvariant, PTL DEF S3Spec
=============================================================================
