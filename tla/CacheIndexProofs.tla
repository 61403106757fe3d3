---------------------------- MODULE CacheIndexProofs ----------------------------
(***************************************************************************)
(* Theorems about CacheIndex for every set of keys and goroutines, every   *)
(* size limit and every number of deaths of the process.                   *)
(***************************************************************************)
EXTENDS CacheIndex, FiniteSetTheorems, TLAPS

-----------------------------------------------------------------------------
(* Type correctness *)

\* What a removal does to the types, whoever calls removeLocked.
LEMMA RemoveLockedType ==
  ASSUME TypeOK, NEW k \in Keys, RemoveLocked(k)
  PROVE  /\ entries' \in [Keys -> Entry \cup {NoEntry}]
         /\ rows' \in [Keys -> Entry \cup {NoEntry}]
         /\ files' \in [Keys -> Nat \cup {NoFile}]
         /\ total' \in Int
<1>1. entries[k].size \in Int
  BY DEF TypeOK, Entry, NoEntry
<1>2. QED
  BY <1>1 DEF TypeOK, RemoveLocked

\* The expiry stored with an entry is an instant, or 0 for never.
LEMMA ExpiresAtType ==
  ASSUME NEW now \in Nat, NEW ttl \in Int
  PROVE  ExpiresAt(now, ttl) \in Nat
  BY NumbersAssumption DEF ExpiresAt

LEMMA NoJobType == NoJob \in Job
<1>1. (CHOOSE k \in Keys : TRUE) \in Keys
  BY KeysAssumption
<1>2. QED
  BY <1>1 DEF NoJob, Job

LEMMA InitType == Init => TypeOK
  BY NoJobType DEF Init, TypeOK, PCs, NoEntry, NoFile

\* Every step of the program preserves the type invariant.
LEMMA NextType == TypeOK /\ [Next]_vars => TypeOK'
<1> SUFFICES ASSUME TypeOK, [Next]_vars PROVE TypeOK'
  OBVIOUS
<1> USE DEF index, goroutines, loops, life, history
<1>a. ASSUME NEW p \in Callers, NEW k \in Keys, NEW n \in Sizes, NEW ttl \in TTLs,
             Stage(p, k, n, ttl)
      PROVE  TypeOK'
  <2>1. [key |-> k, size |-> n, ttl |-> ttl, stamp |-> 0, temp |-> TRUE] \in Job
    BY NumbersAssumption DEF Job
  <2>2. QED
    BY <1>a, <2>1 DEF TypeOK, Stage, Goto, PCs, Procs
<1>b. ASSUME NEW p \in Callers, Abandon(p) PROVE TypeOK'
  BY <1>b, NoJobType DEF TypeOK, Abandon, Return, Goto, PCs
<1>c. ASSUME NEW p \in Callers, Rename(p) PROVE TypeOK'
  <2>1. job' \in [Procs -> Job]
    BY <1>c DEF TypeOK, Rename, Job
  <2>2. job[p].size \in Nat
    BY DEF TypeOK, Job, Procs
  <2>3. QED
    BY <1>c, <2>1, <2>2 DEF TypeOK, Rename, Goto, PCs
<1>d. ASSUME NEW p \in Callers, Register(p) PROVE TypeOK'
  <2> DEFINE k == job[p].key
             e == [size |-> job[p].size, created |-> job[p].stamp,
                   accessed |-> job[p].stamp,
                   expires |-> ExpiresAt(job[p].stamp, job[p].ttl)]
  <2>1. k \in Keys /\ job[p].size \in Nat /\ job[p].stamp \in Nat /\ job[p].ttl \in Int
    BY DEF TypeOK, Job, Procs
  <2>2. e \in Entry
    BY <2>1, ExpiresAtType DEF Entry
  <2>3. Replaced(k) \in Int
    BY <2>1 DEF TypeOK, Replaced, Entry, NoEntry
  <2>4. /\ total' = total - Replaced(k) + e.size
        /\ entries' = [entries EXCEPT ![k] = e]
        /\ rows' = IF db THEN [rows EXCEPT ![k] = e] ELSE rows
    BY <1>d DEF Register
  <2>5. e.size \in Nat
    BY <2>2 DEF Entry
  <2> HIDE DEF k, e
  <2>6. /\ total' \in Int
        /\ entries' \in [Keys -> Entry \cup {NoEntry}]
        /\ rows' \in [Keys -> Entry \cup {NoEntry}]
    BY <2>1, <2>2, <2>3, <2>4, <2>5 DEF TypeOK
  <2>7. QED
    BY <1>d, <2>6, NoJobType DEF TypeOK, Register, Goto, PCs, AfterRegister
<1>e. ASSUME NEW p \in Procs, Evict(p) PROVE TypeOK'
  <2>1. CASE EvictBegin(p)
    BY <2>1 DEF TypeOK, EvictBegin, Goto, PCs, Holding
  <2>2. CASE EvictStep(p)
    BY <2>2, RemoveLockedType DEF TypeOK, EvictStep, LeastRecent, Tracked
  <2>3. CASE EvictEnd(p)
    BY <2>3 DEF TypeOK, EvictEnd, Goto, PCs
  <2>4. QED
    BY <1>e, <2>1, <2>2, <2>3 DEF Evict
<1>f. ASSUME NEW p \in Procs, NEW doomed, NEW like,
             doomed \subseteq Keys, like \subseteq Keys, SweepBegin(p, doomed, like)
      PROVE  TypeOK'
  BY <1>f DEF TypeOK, SweepBegin, Goto, PCs, Holding
<1>g. ASSUME NEW p \in Callers, Invalidate(p) PROVE TypeOK'
  <2>1. ASSUME NEW match \in SUBSET Keys, RemoveMatching(p, match) PROVE TypeOK'
    BY <1>f, <2>1 DEF RemoveMatching, Tracked, Procs
  <2>2. ASSUME NEW x \in Prefixes, RemoveByPrefix(p, x) PROVE TypeOK'
    BY <1>f, <2>2, PrefixAssumption DEF RemoveByPrefix, Tracked, Procs
  <2>3. QED
    BY <1>g, <2>1, <2>2 DEF Invalidate
<1>h. ASSUME NEW p \in Procs, Sweep(p) PROVE TypeOK'
  <2>1. CASE SweepStep(p)
    <3>1. PICK k \in todo : RemoveLocked(k) /\ todo' = todo \ {k}
      BY <2>1 DEF SweepStep
    <3>2. k \in Keys
      BY DEF TypeOK
    <3>3. QED
      BY <2>1, <3>1, <3>2, RemoveLockedType DEF TypeOK, SweepStep
  <2>2. CASE SweepEnd(p)
    BY <2>2, NoJobType DEF TypeOK, SweepEnd, Goto, PCs, AfterSweep
  <2>3. QED
    BY <1>h, <2>1, <2>2 DEF Sweep
<1>i. ASSUME NEW k \in Keys, Get(k) PROVE TypeOK'
  <2>1. CASE Expired(entries[k], clock)
    BY <1>i, <2>1, RemoveLockedType DEF TypeOK, Get
  <2>2. CASE ~Expired(entries[k], clock)
    <3>1. entries[k] \in Entry
      BY <1>i DEF TypeOK, Get, Tracked
    <3>2. [entries[k] EXCEPT !.accessed = clock] \in Entry
      BY <3>1 DEF TypeOK, Entry
    <3>3. rows[k] # NoEntry => [rows[k] EXCEPT !.accessed = clock] \in Entry
      BY DEF TypeOK, Entry
    <3>4. entries' \in [Keys -> Entry \cup {NoEntry}]
      BY <1>i, <2>2, <3>2 DEF TypeOK, Get
    <3>5. rows' \in [Keys -> Entry \cup {NoEntry}]
      BY <1>i, <2>2, <3>3 DEF TypeOK, Get
    <3>6. QED
      BY <1>i, <2>2, <3>4, <3>5 DEF TypeOK, Get
  <2>3. QED
    BY <2>1, <2>2
<1>j. ASSUME NEW k \in Keys, Remove(k) PROVE TypeOK'
  BY <1>j, RemoveLockedType DEF TypeOK, Remove
<1>k. ASSUME Clear PROVE TypeOK'
  <2>1. job' \in [Procs -> Job]
    BY <1>k DEF TypeOK, Clear, Job
  <2>2. QED
    BY <1>k, <2>1 DEF TypeOK, Clear
<1>l. ASSUME Loop PROVE TypeOK'
  <2>1. CASE Tick
    <3>1. job' \in [Procs -> Job]
      BY <2>1 DEF TypeOK, Tick, Job
    <3>2. QED
      BY <2>1, <3>1 DEF TypeOK, Tick, Goto, PCs
  <2>2. CASE EvictExpired
    BY <1>f, <2>2 DEF EvictExpired, Tracked, Procs
  <2>3. CASE SoftBegin
    BY <2>3 DEF TypeOK, SoftBegin, Goto, PCs, Holding
  <2>4. CASE SoftStep
    BY <2>4, RemoveLockedType DEF TypeOK, SoftStep, Oldest, Tracked
  <2>5. CASE SoftEnd
    BY <2>5 DEF TypeOK, SoftEnd, Goto, PCs
  <2>6. QED
    BY <1>l, <2>1, <2>2, <2>3, <2>4, <2>5 DEF Loop
<1>m. ASSUME Stop PROVE TypeOK'
  BY <1>m DEF TypeOK, Stop, Goto, PCs
<1>n. ASSUME Die,
             rows' \in [Keys -> Entry \cup {NoEntry}],
             files' \in [Keys -> Nat \cup {NoFile}]
      PROVE  TypeOK'
  <2>1. Leftovers \subseteq Keys
    BY DEF Leftovers
  <2>2. /\ entries' \in [Keys -> Entry \cup {NoEntry}]
        /\ pc' \in [Procs -> PCs] /\ job' \in [Procs -> Job]
    BY <1>n, NoJobType DEF Die, PCs
  <2>3. /\ strays' \subseteq Keys /\ dirs' \subseteq StreamKeys
        /\ todo' \subseteq Keys /\ liked' \subseteq Keys /\ orphans' \subseteq Keys
    BY <1>n, <2>1 DEF TypeOK, Die
  <2>4. total' \in Int /\ ghost' \in Nat /\ crashes' \in Nat /\ clock' \in Nat
    BY <1>n DEF TypeOK, Die
  <2>5. /\ db' \in BOOLEAN /\ settled' \in BOOLEAN
        /\ phase' \in {"up", "down", "rows", "scan"}
    BY <1>n DEF Die
  <2>6. QED
    BY <1>n, <2>2, <2>3, <2>4, <2>5 DEF TypeOK
<1>o. ASSUME Kill PROVE TypeOK'
  <2>1. CASE Crash
    BY <1>n, <2>1 DEF Crash, TypeOK
  <2>2. ASSUME NEW k \in Keys, CrashInRemove(k) PROVE TypeOK'
    BY <1>n, <2>2 DEF CrashInRemove, TypeOK
  <2>3. ASSUME NEW survivors \in SUBSET Keys, NEW table \in BOOLEAN,
               CrashInClear(survivors, table)
        PROVE  TypeOK'
    BY <1>n, <2>3 DEF CrashInClear, TypeOK
  <2>4. QED
    BY <1>o, <2>1, <2>2, <2>3 DEF Kill
<1>p. ASSUME NEW k \in Keys, BootRow(k) PROVE TypeOK'
  <2>1. rows[k] # NoEntry /\ files[k] # NoFile
          => [rows[k] EXCEPT !.size = files[k]] \in Entry
    BY DEF TypeOK, Entry
  <2>2. files[k] \in Int
    BY DEF TypeOK, NoFile
  <2>3. entries' \in [Keys -> Entry \cup {NoEntry}]
    BY <1>p, <2>1 DEF TypeOK, BootRow
  <2>4. total' \in Int
    BY <1>p, <2>2 DEF TypeOK, BootRow
  <2>5. files' \in [Keys -> Nat \cup {NoFile}] /\ liked' \subseteq Keys
    BY <1>p DEF TypeOK, BootRow
  <2>6. QED
    BY <1>p, <2>3, <2>4, <2>5 DEF TypeOK, BootRow
<1>q. ASSUME NEW k \in Keys, BootScan(k) PROVE TypeOK'
  <2>1. Unknown(k) \in Nat
    BY NumbersAssumption DEF Unknown, TypeOK
  <2>2. QED
    BY <1>q, <2>1 DEF TypeOK, BootScan, SweptTemps
<1>r. ASSUME Restart PROVE TypeOK'
  <2>1. CASE Boot
    BY <2>1 DEF TypeOK, Boot
  <2>2. CASE BootStale
    BY <2>2 DEF TypeOK, BootStale
  <2>3. CASE BootDone
    BY <2>3 DEF TypeOK, BootDone
  <2>4. QED
    BY <1>p, <1>q, <1>r, <2>1, <2>2, <2>3 DEF Restart
<1>s. CASE TimePasses
  BY <1>s DEF TypeOK, TimePasses
<1>t. CASE UNCHANGED vars
  BY <1>t DEF TypeOK, vars
<1>u. QED
  BY <1>a, <1>b, <1>c, <1>d, <1>e, <1>g, <1>h, <1>i, <1>j, <1>k, <1>l, <1>m, <1>o,
     <1>r, <1>s, <1>t DEF Next, Write

\* Every state of the cache is well typed; in particular the size recovery counts
\* for untracked files is never negative.
THEOREM TypeCorrect == Spec => []TypeOK
  BY InitType, NextType, PTL DEF Spec

-----------------------------------------------------------------------------
(* The mutex, and what loops hold under it *)

LEMMA InitInv == Init => MutexInv /\ SweepInv /\ ClockInv /\ RowsInv /\ FilesInv
                         /\ LimitInv /\ TempsInv
  BY NumbersAssumption
  DEF Init, MutexInv, SweepInv, ClockInv, RowsInv, FilesInv, LimitInv, TempsInv,
      RowsFollowEntries, RowMatches, NoUntrackedFiles, OverLimitIsPending,
      PutTempsCleaned, Tracked, Holding, NoEntry, NoFile, NoJob

\* Only a goroutine that finds the mutex free enters a loop.
LEMMA NextMutex == TypeOK /\ MutexInv /\ [Next]_vars => MutexInv'
<1> SUFFICES ASSUME TypeOK, MutexInv, [Next]_vars PROVE MutexInv'
  OBVIOUS
<1> USE DEF index, goroutines, loops, life, history
<1>1. CASE UNCHANGED <<pc, phase>>
  BY <1>1 DEF MutexInv
<1>2. ASSUME NEW p \in Procs, NEW l, phase = "up", UNCHANGED phase,
             pc' = [pc EXCEPT ![p] = l],
             l \notin Holding \/ MuFree
      PROVE  MutexInv'
  <2>1. \A q \in Procs : pc'[q] = IF q = p THEN l ELSE pc[q]
    BY <1>2 DEF TypeOK
  <2>2. QED
    BY <1>2, <2>1 DEF MutexInv, MuFree
<1>3. ASSUME Die PROVE MutexInv'
  BY <1>3 DEF Die, MutexInv, Holding
<1>4. ASSUME NEW p \in Callers, Write(p) PROVE MutexInv'
  BY <1>2, <1>4 DEF Write, Stage, Abandon, Rename, Register, At, Goto, Return, Holding,
     AfterRegister, Procs
<1>5. ASSUME NEW p \in Callers, Invalidate(p) PROVE MutexInv'
  BY <1>2, <1>5 DEF Invalidate, RemoveMatching, RemoveByPrefix, SweepBegin, At, Goto,
     Procs
<1>6. ASSUME NEW p \in Procs, Evict(p) \/ Sweep(p) PROVE MutexInv'
  BY <1>1, <1>2, <1>6 DEF Evict, Sweep, EvictBegin, EvictStep, EvictEnd, SweepStep,
     SweepEnd, At, Goto, Holding, AfterSweep
<1>7. ASSUME NEW k \in Keys, Get(k) \/ Remove(k) PROVE MutexInv'
  BY <1>1, <1>7 DEF Get, Remove
<1>8. CASE Clear
  BY <1>1, <1>8 DEF Clear
<1>9. CASE Loop
  BY <1>1, <1>2, <1>9 DEF Loop, Tick, EvictExpired, SweepBegin, SoftBegin, SoftStep,
     SoftEnd, At, Goto, Holding, Procs
<1>10. CASE Stop
  BY <1>2, <1>10 DEF Stop, At, Goto, Holding, Procs
<1>11. CASE Kill
  BY <1>3, <1>11 DEF Kill, Crash, CrashInRemove, CrashInClear
<1>12. CASE Restart
  <2>1. phase # "up" => MutexInv'
    BY <1>12 DEF Restart, Boot, BootStale, BootDone, BootRow, BootScan, MutexInv, Holding
  <2>2. QED
    BY <1>12, <2>1 DEF Restart, Boot, BootStale, BootDone, BootRow, BootScan
<1>13. CASE TimePasses
  BY <1>1, <1>13 DEF TimePasses
<1>14. CASE UNCHANGED vars
  BY <1>1, <1>14 DEF vars
<1>15. QED
  BY <1>4, <1>5, <1>6, <1>7, <1>8, <1>9, <1>10, <1>11, <1>12, <1>13, <1>14 DEF Next

\* What a removal does to the set of tracked keys.
LEMMA RemoveLockedTracked ==
  ASSUME TypeOK, NEW k \in Keys, RemoveLocked(k)
  PROVE  Tracked' = Tracked \ {k}
  BY DEF TypeOK, RemoveLocked, Tracked

\* The keys a loop has still to visit stay tracked until it removes them.
LEMMA NextSweep == TypeOK /\ MutexInv /\ SweepInv /\ RowsInv /\ [Next]_vars => SweepInv'
<1> SUFFICES ASSUME TypeOK, MutexInv, SweepInv, RowsInv, [Next]_vars PROVE SweepInv'
  OBVIOUS
<1> USE DEF index, goroutines, loops, life, history
<1>a. MuFree => todo = {} /\ liked = {}
  BY DEF MuFree, SweepInv, Holding
<1>b. ASSUME NEW p \in Procs, phase = "up", pc[p] \in Holding, pc[p] # "sweep"
      PROVE  todo = {} /\ liked = {}
  BY <1>b DEF SweepInv, MutexInv, Holding
<1>c. Overmatched' = Overmatched
  BY DEF Overmatched
<1>1. ASSUME todo' = {}, liked' = {} PROVE SweepInv'
  BY <1>1 DEF SweepInv
<1>2. ASSUME UNCHANGED <<entries, todo, liked, phase>>,
             \A q \in Procs : pc[q] = "sweep" => pc'[q] = "sweep"
      PROVE  SweepInv'
  BY <1>2, <1>c DEF SweepInv, Tracked
<1>3. ASSUME NEW p \in Procs, NEW doomed, NEW like, doomed \subseteq Tracked,
             like \subseteq Overmatched \cup doomed \cup (Keys \ Tracked),
             SweepBegin(p, doomed, like)
      PROVE  SweepInv'
  <2>1. pc'[p] = "sweep"
    BY <1>3 DEF TypeOK, SweepBegin, Goto
  <2>2. Tracked' = Tracked /\ todo' = doomed /\ liked' = like
    BY <1>3 DEF SweepBegin, Tracked
  <2>3. QED
    BY <1>3, <1>c, <2>1, <2>2 DEF SweepInv
<1>4. ASSUME NEW p \in Callers, Write(p) PROVE SweepInv'
  <2>1. CASE Register(p)
    BY <1>1, <1>a, <2>1 DEF Register
  <2>2. CASE ~Register(p)
    BY <1>2, <1>4, <2>2 DEF Write, Stage, Abandon, Rename, At, Goto, Return, TypeOK
  <2>3. QED
    BY <2>1, <2>2
<1>5. ASSUME NEW p \in Callers, Invalidate(p) PROVE SweepInv'
  <2>1. ASSUME NEW match \in SUBSET Keys, RemoveMatching(p, match) PROVE SweepInv'
    BY <1>3, <2>1 DEF RemoveMatching, Procs
  <2>2. ASSUME NEW x \in Prefixes, RemoveByPrefix(p, x) PROVE SweepInv'
    <3>1. Like[x] \subseteq Keys
      BY PrefixAssumption
    <3>2. Like[x] \subseteq Overmatched \cup (Tracked \cap HasPrefix[x]) \cup (Keys \ Tracked)
      BY <3>1 DEF Overmatched
    <3>3. QED
      BY <1>3, <2>2, <3>2 DEF RemoveByPrefix, Procs
  <2>3. QED
    BY <1>5, <2>1, <2>2 DEF Invalidate
<1>6. ASSUME NEW p \in Procs, Evict(p) PROVE SweepInv'
  <2>1. CASE EvictBegin(p)
    BY <1>2, <2>1 DEF EvictBegin, At, Goto, TypeOK
  <2>2. CASE EvictStep(p)
    BY <1>1, <1>b, <2>2 DEF EvictStep, At, Holding
  <2>3. CASE EvictEnd(p)
    BY <1>2, <2>3 DEF EvictEnd, At, Goto, TypeOK
  <2>4. QED
    BY <1>6, <2>1, <2>2, <2>3 DEF Evict
<1>7. ASSUME NEW p \in Procs, Sweep(p) PROVE SweepInv'
  <2>1. CASE SweepStep(p)
    <3>1. PICK k \in todo : RemoveLocked(k) /\ todo' = todo \ {k}
      BY <2>1 DEF SweepStep
    <3>2. Tracked' = Tracked \ {k}
      BY <3>1, RemoveLockedTracked DEF TypeOK
    <3>3. UNCHANGED <<phase, liked, pc>> /\ phase = "up"
      BY <2>1 DEF SweepStep, At
    <3>4. pc[p] = "sweep"
      BY <2>1 DEF SweepStep, At
    <3>5. k \in Keys
      BY DEF TypeOK
    <3>6. QED
      BY <1>c, <3>1, <3>2, <3>3, <3>4, <3>5 DEF SweepInv
  <2>2. CASE SweepEnd(p)
    BY <1>1, <2>2 DEF SweepEnd
  <2>3. QED
    BY <1>7, <2>1, <2>2 DEF Sweep
<1>8. ASSUME NEW k \in Keys, Get(k) \/ Remove(k) PROVE SweepInv'
  BY <1>1, <1>8, <1>a DEF Get, Remove
<1>9. CASE Clear
  BY <1>1, <1>9, <1>a DEF Clear
<1>10. CASE Loop
  <2>1. CASE EvictExpired
    <3>1. {k \in Tracked : Expired(entries[k], job[Janitor].stamp)} \subseteq Tracked
      OBVIOUS
    <3>2. QED
      BY <1>3, <2>1, <3>1 DEF EvictExpired, Procs
  <2>2. CASE SoftStep
    BY <1>1, <1>b, <2>2 DEF SoftStep, At, Holding, Procs
  <2>3. CASE Tick \/ SoftBegin \/ SoftEnd
    BY <1>2, <2>3 DEF Tick, SoftBegin, SoftEnd, At, Goto, TypeOK
  <2>4. QED
    BY <1>10, <2>1, <2>2, <2>3 DEF Loop
<1>11. CASE Stop
  BY <1>2, <1>11 DEF Stop, At, Goto, TypeOK
<1>12. CASE Kill
  BY <1>1, <1>12 DEF Kill, Crash, CrashInRemove, CrashInClear, Die
<1>13. CASE Restart
  <2>1. CASE BootDone
    BY <1>1, <2>1 DEF BootDone, RowsInv
  <2>2. CASE ~BootDone
    BY <1>13, <2>2 DEF Restart, Boot, BootStale, BootRow, BootScan, SweepInv
  <2>3. QED
    BY <2>1, <2>2
<1>14. CASE TimePasses
  BY <1>2, <1>14 DEF TimePasses
<1>15. CASE UNCHANGED vars
  BY <1>2, <1>15 DEF vars
<1>16. QED
  BY <1>4, <1>5, <1>6, <1>7, <1>8, <1>9, <1>10, <1>11, <1>12, <1>13, <1>14, <1>15
  DEF Next

\* Time only moves forward, and what is stamped is stamped with it.
LEMMA NextClock == TypeOK /\ ClockInv /\ [Next]_vars => ClockInv'
<1> SUFFICES ASSUME TypeOK, ClockInv, [Next]_vars PROVE ClockInv'
  OBVIOUS
<1> USE DEF index, goroutines, loops, life, history
<1>a. clock \in Nat /\ 0 <= clock
  BY DEF TypeOK
<1>1. ASSUME UNCHANGED clock,
             \A k \in Keys : \/ entries'[k] = entries[k]
                             \/ entries'[k].accessed <= clock,
             \A k \in Keys : rows'[k] = rows[k] \/ rows'[k].accessed <= clock,
             \A p \in Procs : job'[p].stamp = job[p].stamp \/ job'[p].stamp <= clock
      PROVE  ClockInv'
  BY <1>1 DEF ClockInv
<1>2. ASSUME NEW k \in Keys, RemoveLocked(k), UNCHANGED <<job, clock>> PROVE ClockInv'
  BY <1>1, <1>2, <1>a DEF RemoveLocked, NoEntry, TypeOK
<1>3. CASE UNCHANGED <<entries, rows, clock>> /\ UNCHANGED job
  BY <1>3 DEF ClockInv
<1>4. ASSUME NEW p \in Callers, Write(p) PROVE ClockInv'
  <2>1. ASSUME NEW k \in Keys, NEW n \in Sizes, NEW ttl \in TTLs, Stage(p, k, n, ttl)
        PROVE  ClockInv'
    BY <1>1, <1>a, <2>1 DEF Stage, TypeOK
  <2>2. CASE Abandon(p)
    BY <1>1, <1>a, <2>2 DEF Abandon, Return, NoJob, TypeOK
  <2>3. CASE Rename(p)
    <3>1. \A q \in Procs : job'[q].stamp = job[q].stamp \/ job'[q].stamp <= clock
      BY <1>a, <2>3 DEF Rename, TypeOK, Job
    <3>2. QED
      BY <1>1, <2>3, <3>1 DEF Rename
  <2>4. CASE Register(p)
    <3>1. job[p].stamp <= clock /\ job[p].key \in Keys
      BY DEF ClockInv, Procs, TypeOK, Job
    <3>2. \A q \in Procs : job'[q].stamp = job[q].stamp \/ job'[q].stamp <= clock
      BY <1>a, <2>4 DEF Register, NoJob, TypeOK
    <3>3. \A k \in Keys : entries'[k] = entries[k] \/ entries'[k].accessed <= clock
      BY <2>4, <3>1 DEF Register, TypeOK
    <3>4. \A k \in Keys : rows'[k] = rows[k] \/ rows'[k].accessed <= clock
      BY <2>4, <3>1 DEF Register, TypeOK
    <3>5. QED
      BY <1>1, <2>4, <3>2, <3>3, <3>4 DEF Register
  <2>5. QED
    BY <1>4, <2>1, <2>2, <2>3, <2>4 DEF Write
<1>5. ASSUME NEW p \in Callers, Invalidate(p) PROVE ClockInv'
  BY <1>3, <1>5 DEF Invalidate, RemoveMatching, RemoveByPrefix, SweepBegin
<1>6. ASSUME NEW p \in Procs, Evict(p) PROVE ClockInv'
  <2>1. CASE EvictStep(p)
    BY <1>2, <2>1 DEF EvictStep, LeastRecent, Tracked
  <2>2. CASE EvictBegin(p) \/ EvictEnd(p)
    BY <1>3, <2>2 DEF EvictBegin, EvictEnd
  <2>3. QED
    BY <1>6, <2>1, <2>2 DEF Evict
<1>7. ASSUME NEW p \in Procs, Sweep(p) PROVE ClockInv'
  <2>1. CASE SweepStep(p)
    BY <1>2, <2>1 DEF SweepStep, TypeOK
  <2>2. CASE SweepEnd(p)
    <3>1. \A k \in Keys : rows'[k] = rows[k] \/ rows'[k].accessed <= clock
      BY <1>a, <2>2 DEF SweepEnd, NoEntry, TypeOK
    <3>2. \A q \in Procs : job'[q].stamp = job[q].stamp \/ job'[q].stamp <= clock
      BY <1>a, <2>2 DEF SweepEnd, NoJob, TypeOK
    <3>3. QED
      BY <1>1, <2>2, <3>1, <3>2 DEF SweepEnd
  <2>3. QED
    BY <1>7, <2>1, <2>2 DEF Sweep
<1>8. ASSUME NEW k \in Keys, Get(k) PROVE ClockInv'
  <2>1. CASE Expired(entries[k], clock)
    BY <1>2, <1>8, <2>1 DEF Get
  <2>2. CASE ~Expired(entries[k], clock)
    <3>1. entries[k] \in Entry /\ (rows[k] # NoEntry => rows[k] \in Entry)
      BY <1>8 DEF Get, Tracked, TypeOK
    <3>2. \A j \in Keys : entries'[j] = entries[j] \/ entries'[j].accessed <= clock
      BY <1>8, <1>a, <2>2, <3>1 DEF Get, TypeOK, Entry
    <3>3. \A j \in Keys : rows'[j] = rows[j] \/ rows'[j].accessed <= clock
      BY <1>8, <1>a, <2>2, <3>1 DEF Get, TypeOK, Entry
    <3>4. QED
      BY <1>1, <1>8, <3>2, <3>3 DEF Get
  <2>3. QED
    BY <2>1, <2>2
<1>9. ASSUME NEW k \in Keys, Remove(k) PROVE ClockInv'
  BY <1>2, <1>9 DEF Remove
<1>10. CASE Clear
  <2>1. \A q \in Procs : job'[q].stamp = job[q].stamp
    BY <1>10 DEF Clear, TypeOK, Job
  <2>2. QED
    BY <1>1, <1>10, <1>a, <2>1 DEF Clear, NoEntry
<1>11. CASE Loop
  <2>1. CASE Tick
    <3>1. \A q \in Procs : job'[q].stamp = job[q].stamp \/ job'[q].stamp <= clock
      BY <1>a, <2>1 DEF Tick, TypeOK, Job
    <3>2. QED
      BY <1>1, <2>1, <3>1 DEF Tick
  <2>2. CASE SoftStep
    BY <1>2, <2>2 DEF SoftStep, Oldest, Tracked
  <2>3. CASE EvictExpired \/ SoftBegin \/ SoftEnd
    BY <1>3, <2>3 DEF EvictExpired, SweepBegin, SoftBegin, SoftEnd
  <2>4. QED
    BY <1>11, <2>1, <2>2, <2>3 DEF Loop
<1>12. CASE Stop
  BY <1>3, <1>12 DEF Stop
<1>13. CASE Kill
  <2>1. Die /\ \A k \in Keys : rows'[k] = rows[k] \/ rows'[k].accessed <= clock
    BY <1>13, <1>a DEF Kill, Crash, CrashInRemove, CrashInClear, NoEntry
  <2>2. QED
    BY <1>1, <1>a, <2>1 DEF Die, NoEntry, NoJob
<1>14. ASSUME NEW k \in Keys, BootRow(k) PROVE ClockInv'
  <2>1. rows[k].accessed <= clock
    BY DEF ClockInv
  <2>2. rows[k] # NoEntry => [rows[k] EXCEPT !.size = files[k]].accessed = rows[k].accessed
    BY DEF TypeOK, Entry
  <2>3. \A j \in Keys : entries'[j] = entries[j] \/ entries'[j].accessed <= clock
    BY <1>14, <2>1, <2>2 DEF BootRow, TypeOK
  <2>4. QED
    BY <1>1, <1>14, <2>3 DEF BootRow
<1>15. CASE Restart
  <2>1. CASE BootStale
    BY <1>1, <1>a, <2>1 DEF BootStale, NoEntry
  <2>2. ASSUME NEW k \in Keys, BootScan(k) PROVE ClockInv'
    BY <1>3, <2>2 DEF BootScan
  <2>3. CASE Boot \/ BootDone
    BY <1>3, <2>3 DEF Boot, BootDone
  <2>4. QED
    BY <1>14, <1>15, <2>1, <2>2, <2>3 DEF Restart
<1>16. CASE TimePasses
  <2>1. clock' = clock + 1 /\ UNCHANGED <<entries, rows, job>>
    BY <1>16 DEF TimePasses
  <2>2. /\ \A k \in Keys : entries[k].accessed \in Nat /\ rows[k].accessed \in Nat
        /\ \A p \in Procs : job[p].stamp \in Nat
    BY DEF TypeOK, Entry, NoEntry, Job
  <2>3. QED
    BY <1>a, <2>1, <2>2 DEF ClockInv
<1>17. CASE UNCHANGED vars
  BY <1>3, <1>17 DEF vars
<1>18. QED
  BY <1>4, <1>5, <1>6, <1>7, <1>8, <1>9, <1>10, <1>11, <1>12, <1>13, <1>15, <1>16, <1>17
  DEF Next

-----------------------------------------------------------------------------
(* The table *)

\* A removal takes the entry and its row, or leaves the closed table as it is.
LEMMA RemoveLockedRows ==
  ASSUME TypeOK, phase = "up", RowsInv, NEW k \in Keys, RemoveLocked(k),
         UNCHANGED <<db, phase>>
  PROVE  RowsInv'
<1>1. Overmatched' = Overmatched /\ Tracked' = Tracked \ {k}
  BY RemoveLockedTracked DEF Overmatched
<1>2. CASE ~db
  BY <1>2 DEF RowsInv, RowsFollowEntries
<1>3. CASE db
  <2>1. \A j \in Keys \ {k} : entries'[j] = entries[j] /\ rows'[j] = rows[j]
    BY <1>3 DEF RemoveLocked, TypeOK
  <2>2. rows'[k] = NoEntry
    BY <1>3 DEF RemoveLocked, TypeOK
  <2>3. QED
    BY <1>1, <1>3, <2>1, <2>2 DEF RowsInv, RowsFollowEntries, RowMatches
<1>4. QED
  BY <1>2, <1>3 DEF TypeOK

\* The table and the index agree after every step, recovery included.
LEMMA NextRows ==
  TypeOK /\ MutexInv /\ SweepInv /\ ClockInv /\ RowsInv /\ [Next]_vars => RowsInv'
<1> SUFFICES ASSUME TypeOK, MutexInv, SweepInv, ClockInv, RowsInv, [Next]_vars
             PROVE  RowsInv'
  OBVIOUS
<1> USE DEF index, goroutines, loops, life, history
<1>a. Overmatched' = Overmatched
  BY DEF Overmatched
<1>1. CASE UNCHANGED <<entries, rows, db, phase, todo, liked>>
  BY <1>1, <1>a DEF RowsInv, RowsFollowEntries, RowMatches, Tracked
<1>2. ASSUME UNCHANGED <<entries, rows, db, phase>>, phase = "up" PROVE RowsInv'
  BY <1>2, <1>a DEF RowsInv, RowsFollowEntries, RowMatches, Tracked
<1>3. ASSUME NEW k \in Keys, RemoveLocked(k), UNCHANGED <<db, phase>>, phase = "up"
      PROVE  RowsInv'
  BY <1>3, RemoveLockedRows
<1>4. ASSUME NEW p \in Callers, Register(p) PROVE RowsInv'
  <2> DEFINE k == job[p].key
             e == [size |-> job[p].size, created |-> job[p].stamp,
                   accessed |-> job[p].stamp,
                   expires |-> ExpiresAt(job[p].stamp, job[p].ttl)]
  <2>0. job[p].size \in Nat /\ job[p].stamp \in Nat
    BY DEF TypeOK, Job, Procs
  <2>1. /\ e # NoEntry /\ e.accessed <= e.accessed
        /\ entries' = [entries EXCEPT ![k] = e]
        /\ rows' = IF db THEN [rows EXCEPT ![k] = e] ELSE rows
    BY <1>4, <2>0 DEF Register, NoEntry
  <2>2. k \in Keys /\ phase = "up" /\ UNCHANGED <<db, phase>>
    BY <1>4 DEF Register, At, TypeOK, Job, Procs
  <2> HIDE DEF k, e
  <2>3. entries'[k] = e /\ \A j \in Keys \ {k} : entries'[j] = entries[j]
    BY <2>1, <2>2 DEF TypeOK
  <2>4. db => rows'[k] = e /\ \A j \in Keys \ {k} : rows'[j] = rows[j]
    BY <2>1, <2>2 DEF TypeOK
  <2>5. Tracked' = Tracked \cup {k}
    BY <2>1, <2>2, <2>3 DEF Tracked
  <2>6. QED
    BY <1>a, <2>1, <2>2, <2>3, <2>4, <2>5 DEF RowsInv, RowsFollowEntries, RowMatches
<1>5. ASSUME NEW p \in Callers, Write(p) PROVE RowsInv'
  BY <1>2, <1>4, <1>5 DEF Write, Stage, Abandon, Rename, At
<1>6. ASSUME NEW p \in Callers, Invalidate(p) PROVE RowsInv'
  BY <1>2, <1>6 DEF Invalidate, RemoveMatching, RemoveByPrefix, SweepBegin, At
<1>7. ASSUME NEW p \in Procs, Evict(p) PROVE RowsInv'
  <2>1. CASE EvictStep(p)
    BY <1>3, <2>1 DEF EvictStep, LeastRecent, Tracked, At
  <2>2. CASE EvictBegin(p) \/ EvictEnd(p)
    BY <1>2, <2>2 DEF EvictBegin, EvictEnd, At
  <2>3. QED
    BY <1>7, <2>1, <2>2 DEF Evict
<1>8. ASSUME NEW p \in Procs, Sweep(p) PROVE RowsInv'
  <2>1. CASE SweepStep(p)
    BY <1>3, <2>1 DEF SweepStep, TypeOK, At
  <2>2. CASE SweepEnd(p)
    <3>1. todo = {} /\ phase = "up" /\ UNCHANGED <<entries, db, phase>>
      BY <2>2 DEF SweepEnd, At
    <3>2. liked \subseteq Overmatched \cup (Keys \ Tracked)
      BY <3>1 DEF SweepInv
    <3>3. Tracked' = Tracked
      BY <3>1 DEF Tracked
    <3>4. db => \A k \in Keys : rows'[k] = IF k \in liked THEN NoEntry ELSE rows[k]
      BY <2>2 DEF SweepEnd
    <3>5. QED
      BY <1>a, <3>1, <3>2, <3>3, <3>4 DEF RowsInv, RowsFollowEntries, RowMatches
  <2>3. QED
    BY <1>8, <2>1, <2>2 DEF Sweep
<1>9. ASSUME NEW k \in Keys, Get(k) PROVE RowsInv'
  <2>1. CASE Expired(entries[k], clock)
    BY <1>3, <1>9, <2>1 DEF Get, MuFree
  <2>2. CASE ~Expired(entries[k], clock)
    <3>1. phase = "up" /\ UNCHANGED <<db, phase>> /\ k \in Tracked
      BY <1>9 DEF Get, MuFree
    <3>2. entries[k] \in Entry /\ (rows[k] # NoEntry => rows[k] \in Entry)
      BY <3>1 DEF Tracked, TypeOK
    <3>3. /\ entries'[k] = [entries[k] EXCEPT !.accessed = clock]
          /\ \A j \in Keys \ {k} : entries'[j] = entries[j] /\ rows'[j] = rows[j]
          /\ \/ rows'[k] = rows[k]
             \/ rows[k] # NoEntry /\ rows'[k] = [rows[k] EXCEPT !.accessed = clock]
      BY <1>9, <2>2 DEF Get, TypeOK
    <3>4. /\ entries'[k].created = entries[k].created
          /\ entries'[k].expires = entries[k].expires
          /\ entries'[k].accessed = clock /\ entries'[k] \in Entry
      BY <3>2, <3>3 DEF Entry, TypeOK
    <3>5. /\ rows'[k] # NoEntry <=> rows[k] # NoEntry
          /\ rows[k] # NoEntry => /\ rows'[k].created = rows[k].created
                                  /\ rows'[k].expires = rows[k].expires
                                  /\ rows'[k].accessed <= clock
      <4>1. rows[k].accessed <= clock /\ clock <= clock
        BY DEF ClockInv, TypeOK
      <4>2. CASE rows'[k] = rows[k]
        BY <4>1, <4>2
      <4>3. CASE rows[k] # NoEntry /\ rows'[k] = [rows[k] EXCEPT !.accessed = clock]
        <5>1. rows'[k] \in Entry /\ rows'[k].accessed = clock
          BY <3>2, <4>3 DEF Entry, TypeOK
        <5>2. rows'[k] # NoEntry
          BY <5>1 DEF Entry, NoEntry
        <5>3. QED
          BY <3>2, <4>1, <4>3, <5>1, <5>2 DEF Entry
      <4>4. QED
        BY <3>3, <4>2, <4>3
    <3>6. entries'[k] # NoEntry
      BY <3>4 DEF Entry, NoEntry
    <3>7. Tracked' = Tracked
      BY <3>1, <3>3, <3>6 DEF Tracked
    <3>8. db /\ rows[k] # NoEntry => RowMatches(k)'
      BY <3>1, <3>4, <3>5 DEF RowsInv, RowsFollowEntries, RowMatches
    <3>9. \A j \in Keys \ {k} : RowMatches(j)' <=> RowMatches(j)
      BY <3>3 DEF RowMatches
    <3>10. QED
      BY <1>a, <3>1, <3>3, <3>5, <3>7, <3>8, <3>9 DEF RowsInv, RowsFollowEntries
  <2>3. QED
    BY <2>1, <2>2
<1>10. ASSUME NEW k \in Keys, Remove(k) PROVE RowsInv'
  BY <1>3, <1>10 DEF Remove, MuFree
<1>11. CASE Clear
  BY <1>11 DEF Clear, MuFree, RowsInv, RowsFollowEntries, Tracked
<1>12. CASE Loop
  <2>1. CASE SoftStep
    BY <1>3, <2>1 DEF SoftStep, Oldest, Tracked, At
  <2>2. CASE Tick \/ EvictExpired \/ SoftBegin \/ SoftEnd
    BY <1>2, <2>2 DEF Tick, EvictExpired, SweepBegin, SoftBegin, SoftEnd, At
  <2>3. QED
    BY <1>12, <2>1, <2>2 DEF Loop
<1>13. CASE Stop
  BY <1>13 DEF Stop, At, RowsInv, RowsFollowEntries
<1>14. CASE Kill
  BY <1>14 DEF Kill, Crash, CrashInRemove, CrashInClear, Die, RowsInv,
     RowsFollowEntries, Tracked
<1>15. CASE Boot
  BY <1>15 DEF Boot, RowsInv, RowsFollowEntries, Tracked
<1>16. ASSUME NEW k \in Keys, BootRow(k) PROVE RowsInv'
  <2>1. phase = "rows" /\ k \in todo /\ todo' = todo \ {k} /\ UNCHANGED <<phase, rows, db>>
    BY <1>16 DEF BootRow
  <2>2. \A j \in Keys \ {k} : entries'[j] = entries[j] /\ (j \in liked' <=> j \in liked)
    BY <1>16 DEF BootRow, TypeOK
  <2>3. /\ rows[k] = NoEntry => k \notin liked' /\ entries'[k] = NoEntry
        /\ rows[k] # NoEntry =>
             \/ k \in liked' /\ entries'[k] = NoEntry
             \/ /\ k \notin liked' /\ files[k] # NoFile
                /\ entries'[k] = [rows[k] EXCEPT !.size = files[k]]
    BY <1>16, <2>1 DEF BootRow, RowsInv, Tracked, TypeOK
  <2>4. rows[k] # NoEntry /\ files[k] # NoFile =>
          LET e == [rows[k] EXCEPT !.size = files[k]]
          IN  /\ e.created = rows[k].created /\ e.expires = rows[k].expires
              /\ e.accessed = rows[k].accessed /\ e.accessed <= e.accessed
              /\ e # NoEntry
    BY DEF TypeOK, Entry, NoEntry
  <2>5. Tracked' \ {k} = Tracked \ {k}
    BY <2>2 DEF Tracked
  <2>6. k \in Tracked' <=> entries'[k] # NoEntry
    BY DEF Tracked
  <2>7. k \in Tracked' => rows[k] # NoEntry /\ RowMatches(k)'
    BY <2>1, <2>3, <2>4, <2>6 DEF RowMatches
  <2>8. \A j \in Keys \ {k} : RowMatches(j)' <=> RowMatches(j)
    BY <2>1, <2>2 DEF RowMatches
  <2>9. QED
    BY <2>1, <2>2, <2>3, <2>4, <2>5, <2>6, <2>7, <2>8 DEF RowsInv, RowsFollowEntries
<1>17. CASE BootStale
  <2>1. /\ phase = "rows" /\ phase' = "scan" /\ todo = {} /\ liked' = {}
        /\ UNCHANGED entries
        /\ \A k \in Keys : rows'[k] = IF k \in liked THEN NoEntry ELSE rows[k]
    BY <1>17 DEF BootStale
  <2>2. Tracked' = Tracked
    BY <2>1 DEF Tracked
  <2>3. QED
    BY <2>1, <2>2 DEF RowsInv, RowsFollowEntries, RowMatches
<1>18. ASSUME NEW k \in Keys, BootScan(k) PROVE RowsInv'
  BY <1>18 DEF BootScan, RowsInv, RowsFollowEntries, RowMatches, Tracked
<1>19. CASE BootDone
  <2>1. phase = "scan" /\ phase' = "up" /\ UNCHANGED <<entries, rows, liked>>
    BY <1>19 DEF BootDone
  <2>2. Tracked' = Tracked
    BY <2>1 DEF Tracked
  <2>3. QED
    BY <2>1, <2>2 DEF RowsInv, RowsFollowEntries, RowMatches
<1>20. CASE Restart
  BY <1>15, <1>16, <1>17, <1>18, <1>19, <1>20 DEF Restart
<1>21. CASE TimePasses
  BY <1>1, <1>21 DEF TimePasses
<1>22. CASE UNCHANGED vars
  BY <1>1, <1>22 DEF vars
<1>23. QED
  BY <1>5, <1>6, <1>7, <1>8, <1>9, <1>10, <1>11, <1>12, <1>13, <1>14, <1>20, <1>21, <1>22
  DEF Next

-----------------------------------------------------------------------------
(* The files *)

\* A removal deletes the file with the entry.
LEMMA RemoveLockedFiles ==
  ASSUME TypeOK, FilesInv, NEW k \in Keys, RemoveLocked(k), phase = "up",
         UNCHANGED <<phase, orphans, pc, job>>
  PROVE  FilesInv'
<1>1. Tracked' = Tracked \ {k}
  BY RemoveLockedTracked
<1>2. files'[k] = NoFile /\ \A j \in Keys \ {k} : files'[j] = files[j]
  BY DEF RemoveLocked, TypeOK
<1>3. QED
  BY <1>1, <1>2 DEF FilesInv, NoUntrackedFiles

\* Only a writer between its rename and its registration, and what recovery found
\* without a row, leave a file outside the index.
LEMMA NextFiles == TypeOK /\ MutexInv /\ FilesInv /\ [Next]_vars => FilesInv'
<1> SUFFICES ASSUME TypeOK, MutexInv, FilesInv, [Next]_vars PROVE FilesInv'
  OBVIOUS
<1> USE DEF index, goroutines, loops, life, history
<1>1. ASSUME UNCHANGED <<files, entries, orphans, phase>>, phase = "up",
             \A p \in Procs : pc[p] = "renamed" => /\ pc'[p] = "renamed"
                                                   /\ job'[p].key = job[p].key
      PROVE  FilesInv'
  BY <1>1 DEF FilesInv, NoUntrackedFiles, Tracked
<1>2. ASSUME UNCHANGED <<files, entries, orphans, phase, pc, job, todo>> PROVE FilesInv'
  BY <1>2 DEF FilesInv, NoUntrackedFiles, Tracked
<1>3. ASSUME NEW k \in Keys, RemoveLocked(k), phase = "up",
             UNCHANGED <<phase, orphans, pc, job>>
      PROVE  FilesInv'
  BY <1>3, RemoveLockedFiles
<1>4. ASSUME NEW p \in Callers, Rename(p) PROVE FilesInv'
  <2>1. pc'[p] = "renamed" /\ \A q \in Procs \ {p} : pc'[q] = pc[q] /\ job'[q] = job[q]
    BY <1>4 DEF Rename, Goto, TypeOK, Procs
  <2>2. job'[p].key = job[p].key /\ job[p].key \in Keys
    BY <1>4 DEF Rename, TypeOK, Job, Procs
  <2>3. /\ pc[p] # "renamed" /\ phase = "up" /\ UNCHANGED <<phase, entries>>
        /\ orphans' = orphans \ {job[p].key}
    BY <1>4 DEF Rename, At
  <2>4. \A j \in Keys \ {job[p].key} : files'[j] = files[j]
    BY <1>4 DEF Rename, TypeOK
  <2>5. Tracked' = Tracked
    BY <2>3 DEF Tracked
  <2>6. p \in Procs
    BY DEF Procs
  <2>7. QED
    BY <2>1, <2>2, <2>3, <2>4, <2>5, <2>6 DEF FilesInv, NoUntrackedFiles
<1>5. ASSUME NEW p \in Callers, Register(p) PROVE FilesInv'
  <2>1. job[p].key \in Keys /\ job[p].size \in Nat
    BY DEF TypeOK, Job, Procs
  <2>2. \A q \in Procs \ {p} : pc'[q] = pc[q] /\ job'[q] = job[q]
    BY <1>5 DEF Register, Goto, TypeOK
  <2>3. phase = "up" /\ UNCHANGED <<phase, files, orphans>>
    BY <1>5 DEF Register, At
  <2>4. entries'[job[p].key] # NoEntry
    BY <1>5, <2>1 DEF Register, TypeOK, NoEntry
  <2>5. \A j \in Keys \ {job[p].key} : entries'[j] = entries[j]
    BY <1>5, <2>1 DEF Register, TypeOK
  <2>6. Tracked' = Tracked \cup {job[p].key}
    BY <2>1, <2>4, <2>5 DEF Tracked
  <2>7. QED
    BY <2>2, <2>3, <2>6 DEF FilesInv, NoUntrackedFiles
<1>6. ASSUME NEW p \in Callers, Write(p) PROVE FilesInv'
  <2>1. ASSUME NEW k \in Keys, NEW n \in Sizes, NEW ttl \in TTLs, Stage(p, k, n, ttl)
        PROVE  FilesInv'
    BY <1>1, <2>1 DEF Stage, At, Goto, TypeOK
  <2>2. CASE Abandon(p)
    BY <1>1, <2>2 DEF Abandon, Return, At, Goto, TypeOK
  <2>3. QED
    BY <1>4, <1>5, <1>6, <2>1, <2>2 DEF Write
<1>7. ASSUME NEW p \in Callers, Invalidate(p) PROVE FilesInv'
  BY <1>1, <1>7 DEF Invalidate, RemoveMatching, RemoveByPrefix, SweepBegin, At, Goto,
     TypeOK
<1>8. ASSUME NEW p \in Procs, Evict(p) PROVE FilesInv'
  <2>1. CASE EvictStep(p)
    BY <1>3, <2>1 DEF EvictStep, LeastRecent, Tracked, At
  <2>2. CASE EvictBegin(p) \/ EvictEnd(p)
    BY <1>1, <2>2 DEF EvictBegin, EvictEnd, At, Goto, TypeOK
  <2>3. QED
    BY <1>8, <2>1, <2>2 DEF Evict
<1>9. ASSUME NEW p \in Procs, Sweep(p) PROVE FilesInv'
  <2>1. CASE SweepStep(p)
    BY <1>3, <2>1 DEF SweepStep, TypeOK, At
  <2>2. CASE SweepEnd(p)
    BY <1>1, <2>2 DEF SweepEnd, At, Goto, TypeOK
  <2>3. QED
    BY <1>9, <2>1, <2>2 DEF Sweep
<1>10. ASSUME NEW k \in Keys, Get(k) PROVE FilesInv'
  <2>1. CASE Expired(entries[k], clock)
    BY <1>3, <1>10, <2>1 DEF Get, MuFree
  <2>2. CASE ~Expired(entries[k], clock)
    <3>1. entries[k] \in Entry /\ k \in Tracked /\ phase = "up"
      BY <1>10 DEF Get, MuFree, Tracked, TypeOK
    <3>2. [entries[k] EXCEPT !.accessed = clock] \in Entry
      BY <3>1 DEF Entry, TypeOK
    <3>3. entries' = [entries EXCEPT ![k] = [entries[k] EXCEPT !.accessed = clock]]
      BY <1>10, <2>2 DEF Get
    <3>4. Tracked' = Tracked
      BY <3>1, <3>2, <3>3 DEF Tracked, TypeOK, Entry, NoEntry
    <3>5. UNCHANGED <<files, orphans, phase, pc, job>>
      BY <1>10, <2>2 DEF Get
    <3>6. QED
      BY <3>1, <3>4, <3>5 DEF FilesInv, NoUntrackedFiles
  <2>3. QED
    BY <2>1, <2>2
<1>11. ASSUME NEW k \in Keys, Remove(k) PROVE FilesInv'
  BY <1>3, <1>11 DEF Remove, MuFree
<1>12. CASE Clear
  BY <1>12 DEF Clear, MuFree, FilesInv, NoUntrackedFiles
<1>13. CASE Loop
  <2>1. CASE SoftStep
    BY <1>3, <2>1 DEF SoftStep, Oldest, Tracked, At
  <2>2. CASE Tick
    <3>1. \A q \in Procs : job'[q].key = job[q].key
      BY <2>2 DEF Tick, TypeOK, Job
    <3>2. QED
      BY <1>1, <2>2, <3>1 DEF Tick, At, Goto, TypeOK
  <2>3. CASE EvictExpired \/ SoftBegin \/ SoftEnd
    BY <1>1, <2>3 DEF EvictExpired, SweepBegin, SoftBegin, SoftEnd, At, Goto, TypeOK
  <2>4. QED
    BY <1>13, <2>1, <2>2, <2>3 DEF Loop
<1>14. CASE Stop
  BY <1>1, <1>14 DEF Stop, At, Goto, TypeOK
<1>15. CASE Kill
  BY <1>15 DEF Kill, Crash, CrashInRemove, CrashInClear, Die, FilesInv, NoUntrackedFiles
<1>16. CASE Restart
  <2>1. CASE Boot
    BY <2>1 DEF Boot, FilesInv, NoUntrackedFiles
  <2>2. CASE BootStale
    BY <2>2 DEF BootStale, FilesInv, NoUntrackedFiles
  <2>3. CASE BootDone
    BY <2>3 DEF BootDone, FilesInv, NoUntrackedFiles, Tracked
  <2>4. ASSUME NEW k \in Keys, BootRow(k) PROVE FilesInv'
    BY <2>4 DEF BootRow, FilesInv, NoUntrackedFiles
  <2>5. ASSUME NEW k \in Keys, BootScan(k) PROVE FilesInv'
    BY <2>5 DEF BootScan, FilesInv, NoUntrackedFiles, Tracked
  <2>6. QED
    BY <1>16, <2>1, <2>2, <2>3, <2>4, <2>5 DEF Restart
<1>17. CASE TimePasses
  BY <1>2, <1>17 DEF TimePasses
<1>18. CASE UNCHANGED vars
  BY <1>2, <1>18 DEF vars
<1>19. QED
  BY <1>6, <1>7, <1>8, <1>9, <1>10, <1>11, <1>12, <1>13, <1>14, <1>15, <1>16, <1>17, <1>18
  DEF Next

-----------------------------------------------------------------------------
(* The size limit *)

\* A removal of a tracked entry never raises the byte count.
LEMMA RemoveLockedLimit ==
  ASSUME TypeOK, LimitInv, NEW k \in Tracked, RemoveLocked(k), phase = "up",
         UNCHANGED <<phase, settled, pc>>
  PROVE  LimitInv'
<1>1. Tracked' = Tracked \ {k}
  BY RemoveLockedTracked DEF Tracked
<1>2. entries[k].size \in Nat
  BY DEF Tracked, TypeOK, Entry
<1>3. total' <= total /\ total' \in Int /\ total \in Int /\ MaxSize \in Nat
  BY <1>2, NumbersAssumption DEF RemoveLocked, TypeOK
<1>4. total' > MaxSize => total > MaxSize
  BY <1>3
<1>5. QED
  BY <1>1, <1>4 DEF LimitInv, OverLimitIsPending

\* Whatever raises the byte count owes an evictLRU, which returns only within the
\* limit or with nothing left.
LEMMA NextLimit == TypeOK /\ MutexInv /\ SweepInv /\ LimitInv /\ [Next]_vars => LimitInv'
<1> SUFFICES ASSUME TypeOK, MutexInv, SweepInv, LimitInv, [Next]_vars PROVE LimitInv'
  OBVIOUS
<1> USE DEF index, goroutines, loops, life, history
<1>1. ASSUME UNCHANGED <<total, phase, settled>>, phase = "up", Tracked' = Tracked,
             \A p \in Procs : pc[p] \in {"evict", "lru"} => pc'[p] \in {"evict", "lru"}
      PROVE  LimitInv'
  BY <1>1 DEF LimitInv, OverLimitIsPending
<1>2. ASSUME UNCHANGED <<total, phase, settled, entries, pc>> PROVE LimitInv'
  BY <1>2 DEF LimitInv, OverLimitIsPending, Tracked
<1>3. ASSUME NEW k \in Tracked, RemoveLocked(k), phase = "up",
             UNCHANGED <<phase, settled, pc>>
      PROVE  LimitInv'
  BY <1>3, RemoveLockedLimit
<1>4. ASSUME phase' # "up", ~settled' PROVE LimitInv'
  BY <1>4 DEF LimitInv, OverLimitIsPending
<1>5. ASSUME NEW p \in Callers, Write(p) PROVE LimitInv'
  <2>1. CASE Register(p)
    <3>1. MaxSize > 0 => pc'[p] = "evict"
      BY <2>1 DEF Register, Goto, AfterRegister, TypeOK, Procs
    <3>2. phase' = "up" /\ p \in Procs
      BY <2>1 DEF Register, At, Procs
    <3>3. QED
      BY <3>1, <3>2 DEF LimitInv, OverLimitIsPending
  <2>2. CASE ~Register(p)
    BY <1>1, <1>5, <2>2 DEF Write, Stage, Abandon, Rename, At, Goto, Return, TypeOK, Tracked
  <2>3. QED
    BY <2>1, <2>2
<1>6. ASSUME NEW p \in Callers, Invalidate(p) PROVE LimitInv'
  BY <1>1, <1>6 DEF Invalidate, RemoveMatching, RemoveByPrefix, SweepBegin, At, Goto,
     TypeOK, Tracked
<1>7. ASSUME NEW p \in Procs, Evict(p) PROVE LimitInv'
  <2>1. CASE EvictBegin(p)
    BY <1>1, <2>1 DEF EvictBegin, At, Goto, TypeOK, Tracked
  <2>2. CASE EvictStep(p)
    BY <1>3, <2>2 DEF EvictStep, LeastRecent, At
  <2>3. CASE EvictEnd(p)
    <3>1. ~(total > MaxSize) \/ Tracked = {}
      BY <2>3, NumbersAssumption DEF EvictEnd, TypeOK
    <3>2. UNCHANGED <<total, entries, phase>> /\ phase = "up"
      BY <2>3 DEF EvictEnd, At
    <3>3. QED
      BY <3>1, <3>2 DEF LimitInv, OverLimitIsPending, Tracked
  <2>4. QED
    BY <1>7, <2>1, <2>2, <2>3 DEF Evict
<1>8. ASSUME NEW p \in Procs, Sweep(p) PROVE LimitInv'
  <2>1. CASE SweepStep(p)
    BY <1>3, <2>1 DEF SweepStep, SweepInv, At
  <2>2. CASE SweepEnd(p)
    BY <1>1, <2>2 DEF SweepEnd, At, Goto, TypeOK, Tracked
  <2>3. QED
    BY <1>8, <2>1, <2>2 DEF Sweep
<1>9. ASSUME NEW k \in Keys, Get(k) PROVE LimitInv'
  <2>1. CASE Expired(entries[k], clock)
    BY <1>3, <1>9, <2>1 DEF Get, MuFree
  <2>2. CASE ~Expired(entries[k], clock)
    <3>1. entries[k] \in Entry /\ k \in Tracked /\ phase = "up"
      BY <1>9 DEF Get, MuFree, Tracked, TypeOK
    <3>2. [entries[k] EXCEPT !.accessed = clock] \in Entry
      BY <3>1 DEF Entry, TypeOK
    <3>3. entries' = [entries EXCEPT ![k] = [entries[k] EXCEPT !.accessed = clock]]
      BY <1>9, <2>2 DEF Get
    <3>4. Tracked' = Tracked
      BY <3>1, <3>2, <3>3 DEF Tracked, TypeOK, Entry, NoEntry
    <3>5. QED
      BY <1>1, <1>9, <2>2, <3>1, <3>4 DEF Get
  <2>3. QED
    BY <2>1, <2>2
<1>10. ASSUME NEW k \in Keys, Remove(k) PROVE LimitInv'
  BY <1>3, <1>10 DEF Remove, MuFree
<1>11. CASE Clear
  BY <1>11 DEF Clear, MuFree, LimitInv, OverLimitIsPending, Tracked
<1>12. CASE Loop
  <2>1. CASE SoftStep
    BY <1>3, <2>1 DEF SoftStep, Oldest, At
  <2>2. CASE Tick \/ EvictExpired \/ SoftBegin \/ SoftEnd
    BY <1>1, <2>2 DEF Tick, EvictExpired, SweepBegin, SoftBegin, SoftEnd, At, Goto,
       TypeOK, Tracked
  <2>3. QED
    BY <1>12, <2>1, <2>2 DEF Loop
<1>13. CASE Stop
  BY <1>1, <1>13 DEF Stop, At, Goto, TypeOK, Tracked
<1>14. CASE Kill
  BY <1>4, <1>14 DEF Kill, Crash, CrashInRemove, CrashInClear, Die
<1>15. CASE Restart
  <2>1. CASE BootDone
    BY <2>1 DEF BootDone, LimitInv, OverLimitIsPending
  <2>2. CASE ~BootDone
    BY <1>4, <1>15, <2>2 DEF Restart, Boot, BootStale, BootRow, BootScan, LimitInv
  <2>3. QED
    BY <2>1, <2>2
<1>16. CASE TimePasses
  BY <1>2, <1>16 DEF TimePasses
<1>17. CASE UNCHANGED vars
  BY <1>2, <1>17 DEF vars
<1>18. QED
  BY <1>5, <1>6, <1>7, <1>8, <1>9, <1>10, <1>11, <1>12, <1>13, <1>14, <1>15, <1>16, <1>17
  DEF Next

-----------------------------------------------------------------------------
(* Temporary files *)

\* Only a death leaves a temporary file, and the scan removes those it sees.
LEMMA NextTemps == TypeOK /\ TempsInv /\ [Next]_vars => TempsInv'
<1> SUFFICES ASSUME TypeOK, TempsInv, [Next]_vars PROVE TempsInv'
  OBVIOUS
<1> USE DEF index, goroutines, loops, life, history
<1>1. ASSUME strays' \subseteq strays, phase = "up", phase' = "up" PROVE TempsInv'
  BY <1>1 DEF TempsInv, PutTempsCleaned
<1>2. ASSUME phase' \notin {"up", "scan"} PROVE TempsInv'
  BY <1>2 DEF TempsInv, PutTempsCleaned
<1>3. ASSUME NEW p \in Callers, Write(p) PROVE TempsInv'
  BY <1>1, <1>3 DEF Write, Stage, Abandon, Rename, Register, At
<1>4. ASSUME NEW p \in Callers, Invalidate(p) PROVE TempsInv'
  BY <1>1, <1>4 DEF Invalidate, RemoveMatching, RemoveByPrefix, SweepBegin, At
<1>5. ASSUME NEW p \in Procs, Evict(p) \/ Sweep(p) PROVE TempsInv'
  BY <1>1, <1>5 DEF Evict, Sweep, EvictBegin, EvictStep, EvictEnd, SweepStep, SweepEnd, At
<1>6. ASSUME NEW k \in Keys, Get(k) \/ Remove(k) PROVE TempsInv'
  BY <1>1, <1>6 DEF Get, Remove, MuFree
<1>7. CASE Clear
  BY <1>1, <1>7 DEF Clear, MuFree
<1>8. CASE Loop
  BY <1>1, <1>8 DEF Loop, Tick, EvictExpired, SweepBegin, SoftBegin, SoftStep, SoftEnd, At
<1>9. CASE Stop
  BY <1>1, <1>9 DEF Stop, At
<1>10. CASE Kill
  BY <1>2, <1>10 DEF Kill, Crash, CrashInRemove, CrashInClear, Die
<1>11. CASE Restart
  <2>1. CASE Boot
    BY <1>2, <2>1 DEF Boot
  <2>2. ASSUME NEW k \in Keys, BootRow(k) PROVE TempsInv'
    BY <1>2, <2>2 DEF BootRow
  <2>3. CASE BootStale
    BY <2>3 DEF BootStale, TempsInv, PutTempsCleaned, TypeOK
  <2>4. ASSUME NEW k \in Keys, BootScan(k) PROVE TempsInv'
    BY <2>4 DEF BootScan, SweptTemps, TempsInv, PutTempsCleaned
  <2>5. CASE BootDone
    BY <2>5 DEF BootDone, TempsInv, PutTempsCleaned
  <2>6. QED
    BY <1>11, <2>1, <2>2, <2>3, <2>4, <2>5 DEF Restart
<1>12. CASE TimePasses
  BY <1>12 DEF TimePasses, TempsInv, PutTempsCleaned
<1>13. CASE UNCHANGED vars
  BY <1>13 DEF vars, TempsInv, PutTempsCleaned
<1>14. QED
  BY <1>3, <1>4, <1>5, <1>6, <1>7, <1>8, <1>9, <1>10, <1>11, <1>12, <1>13 DEF Next

-----------------------------------------------------------------------------
(* The theorems *)

\* The inductive invariant holds of every reachable state: locking, sweeps, clock,
\* table, files, limit and temporary files need each other to be inductive.
THEOREM InductiveInvariant == Spec => []IInv
<1>1. Init => IInv
  BY InitType, InitInv DEF IInv
<1>2. IInv /\ [Next]_vars => IInv'
  BY NextType, NextMutex, NextSweep, NextClock, NextRows, NextFiles, NextLimit, NextTemps
  DEF IInv
<1>3. QED
  BY <1>1, <1>2, PTL DEF Spec

\* The SQLite table mirrors the index whenever it is open, so that what recovery
\* tracks after a kill is what was tracked before it.
THEOREM RowsFollowEntriesAlways == Spec => []RowsFollowEntries
<1>1. IInv => RowsFollowEntries
  BY DEF IInv, RowsInv
<1>2. QED
  BY <1>1, InductiveInvariant, PTL

\* No eviction, expiry, invalidation, failed write or restart leaks a file.
THEOREM NoUntrackedFilesAlways == Spec => []NoUntrackedFiles
<1>1. IInv => NoUntrackedFiles
  BY DEF IInv, FilesInv
<1>2. QED
  BY <1>1, InductiveInvariant, PTL

\* A cache over its limit always has somebody due to shrink it.
THEOREM OverLimitIsPendingAlways == Spec => []OverLimitIsPending
<1>1. IInv => OverLimitIsPending
  BY DEF IInv, LimitInv
<1>2. QED
  BY <1>1, InductiveInvariant, PTL

\* Put's temporary files do not survive a restart.
THEOREM PutTempsCleanedAlways == Spec => []PutTempsCleaned
<1>1. IInv => PutTempsCleaned
  BY DEF IInv, TempsInv
<1>2. QED
  BY <1>1, InductiveInvariant, PTL

-----------------------------------------------------------------------------
(* Entries without a file *)

\* What FilesMissingOnlyFromGap says of one step and one key.
Gap(k) == \E p \in Procs : pc[p] = "renamed" /\ job[p].key = k /\ pc'[p] # pc[p]
KeepsFile(k) ==
  k \in Tracked' /\ files'[k] = NoFile => (k \in Tracked /\ files[k] = NoFile) \/ Gap(k)

\* A removal takes the entry with the file.
LEMMA RemoveLockedKeepsFiles ==
  ASSUME TypeOK, NEW j \in Keys, RemoveLocked(j), NEW k \in Keys
  PROVE  KeepsFile(k)
<1>1. Tracked' = Tracked \ {j}
  BY RemoveLockedTracked
<1>2. \A i \in Keys \ {j} : files'[i] = files[i]
  BY DEF RemoveLocked, TypeOK
<1>3. QED
  BY <1>1, <1>2 DEF KeepsFile

LEMMA NextKeepsFiles ==
  ASSUME TypeOK, RowsInv, [Next]_vars, NEW k \in Keys
  PROVE  KeepsFile(k)
<1> USE DEF index, goroutines, loops, life, history
<1>1. ASSUME UNCHANGED <<files, entries>> PROVE KeepsFile(k)
  BY <1>1 DEF KeepsFile, Tracked
<1>2. ASSUME NEW j \in Keys, RemoveLocked(j) PROVE KeepsFile(k)
  BY <1>2, RemoveLockedKeepsFiles
<1>3. ASSUME Tracked' = {} PROVE KeepsFile(k)
  BY <1>3 DEF KeepsFile
<1>4. ASSUME NEW p \in Callers, Rename(p) PROVE KeepsFile(k)
  <2>1. job[p].key \in Keys /\ job[p].size \in Nat
    BY DEF TypeOK, Job, Procs
  <2>2. /\ files'[job[p].key] = job[p].size
        /\ \A i \in Keys \ {job[p].key} : files'[i] = files[i]
    BY <1>4, <2>1 DEF Rename, TypeOK
  <2>3. Tracked' = Tracked
    BY <1>4 DEF Rename, Tracked
  <2>4. job[p].size # NoFile
    BY <2>1 DEF NoFile
  <2>5. QED
    BY <2>2, <2>3, <2>4 DEF KeepsFile
<1>5. ASSUME NEW p \in Callers, Register(p) PROVE KeepsFile(k)
  <2>1. pc[p] = "renamed" /\ p \in Procs /\ pc'[p] = AfterRegister
    BY <1>5 DEF Register, At, Goto, TypeOK, Procs
  <2>2. AfterRegister # "renamed"
    BY DEF AfterRegister
  <2>3. Gap(job[p].key)
    BY <2>1, <2>2 DEF Gap
  <2>4. files' = files
    BY <1>5 DEF Register
  <2>5. k # job[p].key => entries'[k] = entries[k]
    BY <1>5 DEF Register, TypeOK
  <2>6. k # job[p].key => (k \in Tracked' <=> k \in Tracked)
    BY <2>5 DEF Tracked
  <2>7. QED
    BY <2>3, <2>4, <2>6 DEF KeepsFile
<1>6. ASSUME NEW p \in Callers, Write(p) PROVE KeepsFile(k)
  BY <1>1, <1>4, <1>5, <1>6 DEF Write, Stage, Abandon
<1>7. ASSUME NEW p \in Callers, Invalidate(p) PROVE KeepsFile(k)
  BY <1>1, <1>7 DEF Invalidate, RemoveMatching, RemoveByPrefix, SweepBegin
<1>8. ASSUME NEW p \in Procs, Evict(p) \/ Sweep(p) PROVE KeepsFile(k)
  BY <1>1, <1>2, <1>8 DEF Evict, EvictBegin, EvictStep, EvictEnd, LeastRecent, Tracked,
     Sweep, SweepStep, SweepEnd, TypeOK
<1>9. ASSUME NEW j \in Keys, Get(j) PROVE KeepsFile(k)
  <2>1. CASE Expired(entries[j], clock)
    BY <1>2, <1>9, <2>1 DEF Get
  <2>2. CASE ~Expired(entries[j], clock)
    <3>1. files' = files /\ entries' = [entries EXCEPT ![j].accessed = clock] /\ j \in Tracked
      BY <1>9, <2>2 DEF Get
    <3>2. k # j => entries'[k] = entries[k]
      BY <3>1 DEF TypeOK
    <3>3. k \in Tracked' => k \in Tracked
      BY <3>1, <3>2 DEF Tracked
    <3>4. QED
      BY <3>1, <3>3 DEF KeepsFile
  <2>3. QED
    BY <2>1, <2>2
<1>10. ASSUME NEW j \in Keys, Remove(j) PROVE KeepsFile(k)
  BY <1>2, <1>10 DEF Remove
<1>11. CASE Clear
  BY <1>3, <1>11 DEF Clear, Tracked
<1>12. CASE Loop
  BY <1>1, <1>2, <1>12 DEF Loop, Tick, EvictExpired, SweepBegin, SoftBegin, SoftStep, SoftEnd,
     Oldest, Tracked
<1>13. CASE Kill
  BY <1>3, <1>13 DEF Kill, Crash, CrashInRemove, CrashInClear, Die, Tracked
<1>14. ASSUME NEW j \in Keys, BootRow(j) PROVE KeepsFile(k)
  <2>1. phase = "rows" /\ j \in todo
    BY <1>14 DEF BootRow
  <2>2. j \notin Tracked
    BY <2>1 DEF RowsInv
  <2>3. k # j => entries'[k] = entries[k] /\ files'[k] = files[k]
    BY <1>14 DEF BootRow, TypeOK
  <2>4. entries' = entries \/ (files' = files /\ files[j] # NoFile)
    BY <1>14 DEF BootRow
  <2>5. QED
    BY <2>2, <2>3, <2>4 DEF KeepsFile, Tracked
<1>15. CASE Restart
  BY <1>1, <1>14, <1>15 DEF Restart, Boot, BootStale, BootDone, BootScan
<1>16. CASE Stop \/ TimePasses \/ UNCHANGED vars
  BY <1>1, <1>16 DEF Stop, TimePasses, vars
<1>17. QED
  BY <1>6, <1>7, <1>8, <1>9, <1>10, <1>11, <1>12, <1>13, <1>15, <1>16 DEF Next

\* An entry loses its file only to a removal of the key, or to Clear, between the rename
\* and the registration of a writer (the window that the comment on Clear leaves out).
THEOREM FilesMissingOnlyFromGapAlways == Spec => FilesMissingOnlyFromGap
<1>1. IInv /\ [Next]_vars => \A k \in Keys : KeepsFile(k)
  BY NextKeepsFiles DEF IInv
<1>2. IInv /\ [Next]_vars =>
        [\A k \in Keys :
           k \in Tracked' /\ files'[k] = NoFile =>
             \/ k \in Tracked /\ files[k] = NoFile
             \/ \E p \in Procs : pc[p] = "renamed" /\ job[p].key = k /\ pc'[p] # pc[p]]_vars
  BY <1>1 DEF KeepsFile, Gap
<1>3. QED
  BY <1>2, InductiveInvariant, PTL DEF Spec, FilesMissingOnlyFromGap

-----------------------------------------------------------------------------
(* The byte count *)

\* One key has as many bytes as its size says.
LEMMA BytesOfOne ==
  ASSUME NEW k, NEW n \in Nat
  PROVE  /\ IsFiniteSet({k} \X (1 .. n))
         /\ Cardinality({k} \X (1 .. n)) = n
<1> DEFINE pair == [i \in 1 .. n |-> <<k, i>>]
<1>1. pair \in Bijection(1 .. n, {k} \X (1 .. n))
  <2>1. pair \in [1 .. n -> {k} \X (1 .. n)]
    OBVIOUS
  <2>2. \A i, j \in 1 .. n : pair[i] = pair[j] => i = j
    OBVIOUS
  <2>3. \A b \in {k} \X (1 .. n) : \E i \in 1 .. n : pair[i] = b
    OBVIOUS
  <2>4. pair \in Injection(1 .. n, {k} \X (1 .. n))
    BY <2>1, <2>2 DEF Injection, IsInjective
  <2>5. pair \in Surjection(1 .. n, {k} \X (1 .. n))
    BY <2>1, <2>3 DEF Surjection
  <2>6. QED
    BY <2>4, <2>5 DEF Bijection
<1>2. ExistsBijection(1 .. n, {k} \X (1 .. n))
  BY <1>1 DEF ExistsBijection
<1>3. IsFiniteSet(1 .. n) /\ Cardinality(1 .. n) = n
  BY FS_Interval
<1>4. QED
  BY <1>2, <1>3, FS_Bijection

\* Finite sums are natural numbers.
LEMMA SumType ==
  ASSUME NEW f, NEW S, IsFiniteSet(Bytes(f, S))
  PROVE  SumOf(f, S) \in Nat
  BY FS_CardinalityType DEF SumOf

\* A sum depends on the summed sizes only.
LEMMA SumSame ==
  ASSUME NEW f, NEW g, NEW S, \A k \in S : f[k] = g[k]
  PROVE  Bytes(f, S) = Bytes(g, S) /\ SumOf(f, S) = SumOf(g, S)
<1>1. Bytes(f, S) = Bytes(g, S)
  BY DEF Bytes
<1>2. QED
  BY <1>1 DEF SumOf

\* Disjoint sets of keys have disjoint bytes.
LEMMA SumDisjoint ==
  ASSUME NEW f, NEW S, NEW T, S \cap T = {},
         IsFiniteSet(Bytes(f, S)), IsFiniteSet(Bytes(f, T))
  PROVE  /\ IsFiniteSet(Bytes(f, S \cup T))
         /\ SumOf(f, S \cup T) = SumOf(f, S) + SumOf(f, T)
<1> DEFINE B == Bytes(f, S)
           C == Bytes(f, T)
<1>1. Bytes(f, S \cup T) = B \cup C
  BY DEF Bytes
<1>2. B \cap C = {}
  BY DEF Bytes
<1>3. IsFiniteSet(B) /\ IsFiniteSet(C)
  OBVIOUS
<1> HIDE DEF B, C
<1>4. Cardinality(B \cap C) = 0
  BY <1>2, FS_EmptySet
<1>5. /\ IsFiniteSet(B \cup C)
      /\ Cardinality(B \cup C) = Cardinality(B) + Cardinality(C) - Cardinality(B \cap C)
  BY <1>3, FS_Union
<1>6. Cardinality(B) \in Nat /\ Cardinality(C) \in Nat
  BY <1>3, FS_CardinalityType
<1>7. Cardinality(B \cup C) = Cardinality(B) + Cardinality(C)
  BY <1>4, <1>5, <1>6
<1>8. QED
  BY <1>1, <1>5, <1>7 DEF SumOf, B, C

\* No keys, no bytes.
LEMMA SumEmpty ==
  ASSUME NEW f
  PROVE  IsFiniteSet(Bytes(f, {})) /\ SumOf(f, {}) = 0
<1>1. Bytes(f, {}) = {}
  BY DEF Bytes
<1>2. QED
  BY <1>1, FS_EmptySet DEF SumOf

\* One key more adds its size.
LEMMA SumOneMore ==
  ASSUME NEW f, NEW S, NEW k, k \notin S, f[k] \in Nat, IsFiniteSet(Bytes(f, S))
  PROVE  /\ IsFiniteSet(Bytes(f, S \cup {k}))
         /\ SumOf(f, S \cup {k}) = SumOf(f, S) + f[k]
<1>1. Bytes(f, {k}) = {k} \X (1 .. f[k])
  BY DEF Bytes
<1>2. IsFiniteSet({k} \X (1 .. f[k])) /\ Cardinality({k} \X (1 .. f[k])) = f[k]
  BY BytesOfOne
<1>3. IsFiniteSet(Bytes(f, {k})) /\ SumOf(f, {k}) = f[k]
  BY <1>1, <1>2, Zenon DEF SumOf
<1>4. S \cap {k} = {}
  OBVIOUS
<1>5. /\ IsFiniteSet(Bytes(f, S \cup {k}))
      /\ SumOf(f, S \cup {k}) = SumOf(f, S) + SumOf(f, {k})
  BY <1>3, <1>4, SumDisjoint, Zenon
<1>6. QED
  BY <1>3, <1>5, Zenon

\* One key less takes its size away.
LEMMA SumOneLess ==
  ASSUME NEW f, NEW S, NEW k \in S, f[k] \in Nat, IsFiniteSet(Bytes(f, S))
  PROVE  /\ IsFiniteSet(Bytes(f, S \ {k}))
         /\ SumOf(f, S \ {k}) = SumOf(f, S) - f[k]
<1>1. Bytes(f, S \ {k}) \in SUBSET Bytes(f, S)
  BY DEF Bytes
<1>2. IsFiniteSet(Bytes(f, S \ {k}))
  BY <1>1, FS_Subset
<1>3. SumOf(f, (S \ {k}) \cup {k}) = SumOf(f, S \ {k}) + f[k]
  BY <1>2, SumOneMore
<1>4. (S \ {k}) \cup {k} = S
  OBVIOUS
<1>5. SumOf(f, S) = SumOf(f, S \ {k}) + f[k]
  BY <1>3, <1>4, Zenon
<1>6. SumOf(f, S \ {k}) \in Nat
  BY <1>2, SumType
<1>7. QED
  BY <1>2, <1>5, <1>6

\* The sizes of tracked entries are those of their files, and never negative.
LEMMA EntrySizesType ==
  ASSUME TypeOK, NEW k \in Tracked
  PROVE  EntrySizes[k] = entries[k].size /\ entries[k].size \in Nat
<1>1. k \in Keys /\ entries[k] \in Entry
  BY DEF TypeOK, Tracked
<1>2. QED
  BY <1>1 DEF EntrySizes, Entry

\* A step that leaves index, count and history alone leaves the count right.
LEMMA KeepsAccount ==
  ASSUME AccountInv, UNCHANGED <<entries, total, ghost>>
  PROVE  AccountInv'
<1>1. EntrySizes' = EntrySizes /\ Tracked' = Tracked
  BY DEF EntrySizes, Tracked
<1>2. QED
  BY <1>1 DEF AccountInv, Accounting

\* An empty index counts nothing.
LEMMA EmptyAccount ==
  ASSUME Tracked = {}, total = 0, ghost = 0
  PROVE  AccountInv
  BY SumEmpty DEF AccountInv, Accounting

\* What is left of the count when a key is set aside.
LEMMA SetAside ==
  ASSUME TypeOK, AccountInv, NEW k
  PROVE  /\ IsFiniteSet(Bytes(EntrySizes, Tracked \ {k}))
         /\ SumOf(EntrySizes, Tracked \ {k}) = total - ghost - Replaced(k)
<1>1. SumOf(EntrySizes, Tracked) \in Nat /\ total = SumOf(EntrySizes, Tracked) + ghost
  BY SumType DEF AccountInv, Accounting
<1>2. IsFiniteSet(Bytes(EntrySizes, Tracked)) /\ ghost \in Nat /\ total \in Int
  BY DEF AccountInv, TypeOK
<1>3. CASE k \in Tracked
  <2>1. EntrySizes[k] \in Nat /\ EntrySizes[k] = Replaced(k)
    BY <1>3, EntrySizesType DEF Replaced
  <2>2. /\ IsFiniteSet(Bytes(EntrySizes, Tracked \ {k}))
        /\ SumOf(EntrySizes, Tracked \ {k}) = SumOf(EntrySizes, Tracked) - EntrySizes[k]
    BY <1>2, <1>3, <2>1, SumOneLess
  <2>3. QED
    BY <1>1, <1>2, <2>1, <2>2
<1>4. CASE k \notin Tracked
  <2>1. Tracked \ {k} = Tracked /\ Replaced(k) = 0
    BY <1>4 DEF Replaced
  <2>2. /\ IsFiniteSet(Bytes(EntrySizes, Tracked \ {k}))
        /\ SumOf(EntrySizes, Tracked \ {k}) = SumOf(EntrySizes, Tracked)
    BY <1>2, <2>1, Zenon
  <2>3. QED
    BY <1>1, <1>2, <2>1, <2>2
<1>5. QED
  BY <1>3, <1>4

\* Tracking an entry, new or in place of another, adds what it adds to totalSize.
LEMMA TrackEntry ==
  ASSUME TypeOK, AccountInv, NEW k \in Keys, NEW e \in Entry,
         entries' = [entries EXCEPT ![k] = e],
         total' = total - Replaced(k) + e.size, ghost' = ghost
  PROVE  AccountInv'
<1> DEFINE S == Tracked \ {k}
<1>1. IsFiniteSet(Bytes(EntrySizes, S)) /\ SumOf(EntrySizes, S) = total - ghost - Replaced(k)
  BY SetAside
<1>2. e.size \in Nat /\ e # NoEntry
  BY DEF Entry, NoEntry
<1>3. \A j \in Keys : j # k => entries'[j] = entries[j]
  BY DEF TypeOK
<1>4. entries'[k] = e
  BY DEF TypeOK
<1>5. Tracked' = S \cup {k}
  BY <1>2, <1>3, <1>4 DEF Tracked
<1>6. EntrySizes' = [j \in Keys |-> entries'[j].size]
  BY DEF EntrySizes
<1>7. EntrySizes'[k] = e.size
  BY <1>4, <1>6
<1>8. \A j \in S : EntrySizes[j] = EntrySizes'[j]
  BY <1>3, <1>6 DEF EntrySizes, Tracked
<1>9. k \notin S
  OBVIOUS
<1> HIDE DEF S
<1>10. Bytes(EntrySizes, S) = Bytes(EntrySizes', S) /\ SumOf(EntrySizes, S) = SumOf(EntrySizes', S)
  BY <1>8, SumSame
<1>11. IsFiniteSet(Bytes(EntrySizes', S))
  BY <1>1, <1>10
<1>12. /\ IsFiniteSet(Bytes(EntrySizes', S \cup {k}))
       /\ SumOf(EntrySizes', S \cup {k}) = SumOf(EntrySizes', S) + EntrySizes'[k]
  BY <1>2, <1>7, <1>9, <1>11, SumOneMore
<1>13. Replaced(k) \in Int
  BY DEF TypeOK, Replaced, Entry, NoEntry
<1>14. total \in Int /\ ghost \in Int
  BY DEF TypeOK
<1>15. total' = SumOf(EntrySizes', S \cup {k}) + ghost'
  BY <1>1, <1>2, <1>7, <1>10, <1>12, <1>13, <1>14
<1>16. QED
  BY <1>5, <1>12, <1>15 DEF AccountInv, Accounting

\* removeLocked takes the size of the entry it removes.
LEMMA RemoveLockedAccount ==
  ASSUME TypeOK, AccountInv, NEW k \in Tracked, RemoveLocked(k), ghost' = ghost
  PROVE  AccountInv'
<1> DEFINE S == Tracked \ {k}
<1>1. IsFiniteSet(Bytes(EntrySizes, S)) /\ SumOf(EntrySizes, S) = total - ghost - Replaced(k)
  BY SetAside
<1>2. k \in Keys
  BY DEF Tracked
<1>3. Tracked' = S
  BY <1>2, RemoveLockedTracked
<1>4. \A j \in S : entries'[j] = entries[j]
  BY DEF RemoveLocked, TypeOK, Tracked
<1>5. \A j \in S : EntrySizes[j] = EntrySizes'[j]
  BY <1>4 DEF EntrySizes, Tracked
<1>6. total' = total - Replaced(k)
  BY DEF RemoveLocked, Replaced
<1>7. total \in Int /\ ghost \in Int /\ Replaced(k) \in Int
  BY EntrySizesType DEF TypeOK, Replaced
<1> HIDE DEF S
<1>8. Bytes(EntrySizes, S) = Bytes(EntrySizes', S) /\ SumOf(EntrySizes, S) = SumOf(EntrySizes', S)
  BY <1>5, SumSame
<1>9. total' = SumOf(EntrySizes', S) + ghost' /\ IsFiniteSet(Bytes(EntrySizes', S))
  BY <1>1, <1>6, <1>7, <1>8
<1>10. QED
  BY <1>3, <1>9 DEF AccountInv, Accounting

\* A step of the running cache that accounts for what it changes.
LEMMA UpCount ==
  ASSUME AccountInv', phase' = "up"
  PROVE  CountInv'
  BY DEF CountInv, RecoverInv

\* Memory is empty after the process has died.
LEMMA DieCount ==
  ASSUME Die
  PROVE  CountInv'
<1>1. Tracked' = {} /\ total' = 0 /\ ghost' = 0 /\ phase' = "down"
  BY DEF Die, Tracked
<1>2. AccountInv'
  BY <1>1, SumEmpty DEF AccountInv, Accounting
<1>3. QED
  BY <1>1, <1>2 DEF CountInv, RecoverInv

\* A row of the table recovery tracks again counts with the size of its file; it
\* was not tracked before.
LEMMA BootRowCount ==
  ASSUME TypeOK, RowsInv, CountInv, NEW k \in Keys, BootRow(k)
  PROVE  CountInv'
<1>1. k \notin Tracked /\ phase = "rows" /\ phase' = "rows" /\ ghost' = ghost /\ ghost = 0
  BY DEF BootRow, RowsInv, CountInv, RecoverInv, life, history
<1>2. \A j \in Tracked : files[j] = entries[j].size
  BY <1>1 DEF CountInv, RecoverInv
<1>3. CASE UNCHANGED <<entries, total>> /\ \A j \in Keys : j # k => files'[j] = files[j]
  <2>1. AccountInv'
    BY <1>1, <1>3, KeepsAccount DEF CountInv
  <2>2. Tracked' = Tracked
    BY <1>3 DEF Tracked
  <2>3. \A j \in Tracked' : files'[j] = entries'[j].size
    BY <1>1, <1>2, <1>3, <2>2 DEF Tracked
  <2>4. QED
    BY <1>1, <2>1, <2>3 DEF CountInv, RecoverInv
<1>4. CASE /\ rows[k] # NoEntry /\ files[k] # NoFile /\ files' = files
           /\ entries' = [entries EXCEPT ![k] = [rows[k] EXCEPT !.size = files[k]]]
           /\ total' = total + files[k]
  <2> DEFINE e == [rows[k] EXCEPT !.size = files[k]]
  <2>1. e \in Entry /\ e.size = files[k]
    BY <1>4 DEF TypeOK, Entry
  <2>2. Replaced(k) = 0
    BY <1>1 DEF Replaced
  <2>3. entries' = [entries EXCEPT ![k] = e]
    BY <1>4
  <2> HIDE DEF e
  <2>4. total' = total - Replaced(k) + e.size
    BY <1>4, <2>1, <2>2 DEF TypeOK, NoFile
  <2>5. AccountInv'
    BY <1>1, <2>1, <2>3, <2>4, TrackEntry DEF CountInv
  <2>6. \A j \in Keys : j # k => entries'[j] = entries[j]
    BY <2>3 DEF TypeOK
  <2>7. entries'[k].size = files'[k]
    BY <1>4, <2>1, <2>3 DEF TypeOK
  <2>8. \A j \in Tracked' : files'[j] = entries'[j].size
    BY <1>2, <1>4, <2>6, <2>7 DEF Tracked
  <2>9. QED
    BY <1>1, <2>5, <2>8 DEF CountInv, RecoverInv
<1>5. QED
  BY <1>3, <1>4 DEF BootRow, TypeOK

\* One directory more or less among those that count DirSize.
LEMMA OneMoreTimes ==
  ASSUME NEW d \in Nat, NEW n \in Nat
  PROVE  d * (n + 1) = d * n + d
  OBVIOUS

\* The scan counts each untracked file and each stream directory once, as it passes.
LEMMA BootScanCount ==
  ASSUME TypeOK, CountInv, NEW k \in Keys, BootScan(k)
  PROVE  CountInv'
<1> DEFINE passed == dirs \ todo
<1>1. /\ phase = "scan" /\ phase' = "scan" /\ k \in todo /\ todo' = todo \ {k}
      /\ UNCHANGED <<entries, files, dirs>>
      /\ total' = total + Unknown(k) /\ ghost' = ghost + Unknown(k)
  BY DEF BootScan, life
<1>2. /\ IsFiniteSet(Bytes(files, Counted)) /\ IsFiniteSet(passed)
      /\ ghost = SumOf(files, Counted) + DirSize * Cardinality(passed)
      /\ \A j \in Tracked : files[j] = entries[j].size
  BY <1>1 DEF CountInv, RecoverInv
<1>3. EntrySizes' = EntrySizes /\ Tracked' = Tracked
  BY <1>1 DEF EntrySizes, Tracked
<1>4. SumOf(EntrySizes, Tracked) \in Nat /\ SumOf(files, Counted) \in Nat
  BY <1>2, SumType DEF CountInv, AccountInv
<1>5. Unknown(k) \in Nat
  BY NumbersAssumption DEF Unknown, TypeOK
<1>6. AccountInv'
  BY <1>1, <1>3, <1>4, <1>5 DEF CountInv, AccountInv, Accounting, TypeOK
<1>7. Cardinality(passed) \in Nat /\ DirSize \in Nat
  BY <1>2, FS_CardinalityType, NumbersAssumption
<1>8. Counted' = {j \in Keys \ StreamKeys :
                    j \notin todo \ {k} /\ j \notin Tracked /\ files[j] # NoFile}
  BY <1>1, <1>3 DEF Counted
<1>9. (dirs \ todo)' = IF k \in dirs THEN passed \cup {k} ELSE passed
  BY <1>1
<1>10. /\ IsFiniteSet(Bytes(files', Counted')) /\ IsFiniteSet((dirs \ todo)')
       /\ ghost' = SumOf(files', Counted') + DirSize * Cardinality((dirs \ todo)')
  <2>1. CASE k \in StreamKeys /\ k \in dirs
    <3>1. Counted' = Counted /\ Unknown(k) = DirSize /\ k \notin passed
      BY <1>1, <1>8, <2>1 DEF Counted, Unknown
    <3>2. IsFiniteSet(passed \cup {k}) /\ Cardinality(passed \cup {k}) = Cardinality(passed) + 1
      BY <1>2, <3>1, FS_AddElement
    <3>3. (dirs \ todo)' = passed \cup {k}
      BY <1>9, <2>1
    <3> HIDE DEF passed
    <3>4. DirSize * (Cardinality(passed) + 1) = DirSize * Cardinality(passed) + DirSize
      BY <1>7, OneMoreTimes
    <3>5. DirSize * Cardinality(passed) \in Nat
      BY <1>7
    <3>6. ghost' = SumOf(files, Counted) + DirSize * (Cardinality(passed) + 1)
      BY <1>1, <1>2, <1>4, <1>7, <3>1, <3>4, <3>5
    <3>7. QED
      BY <1>1, <1>2, <3>1, <3>2, <3>3, <3>6
  <2>2. CASE k \notin StreamKeys /\ k \notin Tracked /\ files[k] # NoFile
    <3>1. Counted' = Counted \cup {k} /\ Unknown(k) = files[k] /\ k \notin Counted
      BY <1>1, <1>8, <2>2 DEF Counted, Unknown
    <3>2. (dirs \ todo)' = passed
      BY <1>9, <2>2 DEF TypeOK
    <3>3. files[k] \in Nat
      BY <2>2 DEF TypeOK
    <3>4. /\ IsFiniteSet(Bytes(files, Counted \cup {k}))
          /\ SumOf(files, Counted \cup {k}) = SumOf(files, Counted) + files[k]
      BY <1>2, <3>1, <3>3, SumOneMore
    <3> HIDE DEF passed
    <3>5. DirSize * Cardinality(passed) \in Nat
      BY <1>7
    <3>6. ghost' = SumOf(files, Counted \cup {k}) + DirSize * Cardinality(passed)
      BY <1>1, <1>2, <1>4, <3>1, <3>3, <3>4, <3>5
    <3>7. QED
      BY <1>1, <1>2, <3>1, <3>2, <3>4, <3>6
  <2>3. CASE /\ ~(k \in StreamKeys /\ k \in dirs)
             /\ ~(k \notin StreamKeys /\ k \notin Tracked /\ files[k] # NoFile)
    <3>1. Counted' = Counted /\ Unknown(k) = 0
      BY <1>1, <1>8, <2>3 DEF Counted, Unknown
    <3>2. (dirs \ todo)' = passed
      BY <1>9, <2>3 DEF TypeOK
    <3>3. ghost' = ghost
      BY <1>1, <3>1 DEF TypeOK
    <3>4. QED
      BY <1>1, <1>2, <3>1, <3>2, <3>3
  <2>4. QED
    BY <2>1, <2>2, <2>3
<1>11. \A j \in Tracked' : files'[j] = entries'[j].size
  BY <1>1, <1>2, <1>3
<1>12. QED
  BY <1>1, <1>6, <1>10, <1>11 DEF CountInv, RecoverInv

\* Every step keeps totalSize the bytes of the index and of what recovery counted.
LEMMA NextCount ==
  ASSUME TypeOK, SweepInv, RowsInv, CountInv, [Next]_vars
  PROVE  CountInv'
<1> USE DEF index, goroutines, loops, life, history
<1>1. ASSUME UNCHANGED <<entries, total, ghost>>, phase' = "up" PROVE CountInv'
  BY <1>1, KeepsAccount, UpCount DEF CountInv
<1>2. ASSUME NEW k \in Tracked, RemoveLocked(k), ghost' = ghost, phase' = "up" PROVE CountInv'
  BY <1>2, RemoveLockedAccount, UpCount DEF CountInv
<1>3. ASSUME NEW p \in Callers, Register(p) PROVE CountInv'
  <2> DEFINE k == job[p].key
             e == [size |-> job[p].size, created |-> job[p].stamp,
                   accessed |-> job[p].stamp,
                   expires |-> ExpiresAt(job[p].stamp, job[p].ttl)]
  <2>1. k \in Keys /\ job[p].size \in Nat /\ job[p].stamp \in Nat /\ job[p].ttl \in Int
    BY DEF TypeOK, Job, Procs
  <2>2. e \in Entry
    BY <2>1, ExpiresAtType DEF Entry
  <2>3. /\ total' = total - Replaced(k) + e.size
        /\ entries' = [entries EXCEPT ![k] = e]
        /\ ghost' = ghost /\ phase' = "up"
    BY <1>3 DEF Register, At
  <2> HIDE DEF k, e
  <2>4. QED
    BY <2>1, <2>2, <2>3, TrackEntry, UpCount DEF CountInv
<1>4. ASSUME NEW p \in Callers, Write(p) PROVE CountInv'
  BY <1>1, <1>3, <1>4 DEF Write, Stage, Abandon, Rename, At
<1>5. ASSUME NEW p \in Callers, Invalidate(p) PROVE CountInv'
  BY <1>1, <1>5 DEF Invalidate, RemoveMatching, RemoveByPrefix, SweepBegin, At
<1>6. ASSUME NEW p \in Procs, Evict(p) PROVE CountInv'
  BY <1>1, <1>2, <1>6 DEF Evict, EvictBegin, EvictStep, EvictEnd, LeastRecent, At
<1>7. ASSUME NEW p \in Procs, Sweep(p) PROVE CountInv'
  BY <1>1, <1>2, <1>7 DEF Sweep, SweepStep, SweepEnd, SweepInv, At
<1>8. ASSUME NEW k \in Keys, Get(k) PROVE CountInv'
  <2>1. phase' = "up" /\ ghost' = ghost /\ k \in Tracked
    BY <1>8 DEF Get, MuFree
  <2>2. CASE Expired(entries[k], clock)
    BY <1>2, <1>8, <2>1, <2>2 DEF Get
  <2>3. CASE ~Expired(entries[k], clock)
    <3>1. entries[k] \in Entry
      BY <2>1 DEF TypeOK, Tracked
    <3>2. /\ [entries[k] EXCEPT !.accessed = clock] \in Entry
          /\ [entries[k] EXCEPT !.accessed = clock].size = entries[k].size
      BY <3>1 DEF Entry, TypeOK
    <3>3. entries' = [entries EXCEPT ![k] = [entries[k] EXCEPT !.accessed = clock]]
      BY <1>8, <2>3 DEF Get
    <3>4. total' = total /\ total \in Int /\ entries[k].size \in Int
      BY <1>8, <2>3, <3>1 DEF Get, TypeOK, Entry
    <3>5. total' = total - Replaced(k) + [entries[k] EXCEPT !.accessed = clock].size
      BY <2>1, <3>2, <3>4 DEF Replaced
    <3>6. QED
      BY <2>1, <3>2, <3>3, <3>5, TrackEntry, UpCount DEF CountInv
  <2>4. QED
    BY <2>2, <2>3
<1>9. ASSUME NEW k \in Keys, Remove(k) PROVE CountInv'
  BY <1>2, <1>9 DEF Remove, MuFree
<1>10. CASE Clear
  <2>1. Tracked' = {} /\ total' = 0 /\ ghost' = 0 /\ phase' = "up"
    BY <1>10 DEF Clear, Tracked, MuFree
  <2>2. AccountInv'
    BY <2>1, SumEmpty DEF AccountInv, Accounting
  <2>3. QED
    BY <2>1, <2>2, UpCount
<1>11. CASE Loop
  BY <1>1, <1>2, <1>11 DEF Loop, Tick, EvictExpired, SweepBegin, SoftBegin, SoftStep, SoftEnd,
     Oldest, At
<1>12. CASE Kill
  BY <1>12, DieCount DEF Kill, Crash, CrashInRemove, CrashInClear
<1>13. CASE Boot
  <2>1. Tracked' = {} /\ ghost' = 0 /\ phase' = "rows"
    BY <1>13 DEF Boot, RowsInv, CountInv, RecoverInv, Tracked
  <2>2. AccountInv'
    BY <1>13, KeepsAccount DEF Boot, CountInv
  <2>3. QED
    BY <2>1, <2>2 DEF CountInv, RecoverInv
<1>14. CASE BootStale
  <2>1. /\ phase = "rows" /\ phase' = "scan" /\ todo' = Keys
        /\ UNCHANGED <<entries, total, files, dirs, ghost>>
    BY <1>14 DEF BootStale
  <2>2. AccountInv'
    BY <2>1, KeepsAccount DEF CountInv
  <2>3. Counted' = {} /\ (dirs \ todo)' = {} /\ Tracked' = Tracked
    BY <2>1, KeysAssumption DEF Counted, TypeOK, Tracked
  <2>4. /\ IsFiniteSet(Bytes(files', {})) /\ SumOf(files', {}) = 0
        /\ IsFiniteSet({}) /\ Cardinality({}) = 0
    BY SumEmpty, FS_EmptySet
  <2>5. ghost' = 0 /\ DirSize * 0 = 0
    BY <2>1, NumbersAssumption DEF CountInv, RecoverInv
  <2>6. ghost' = SumOf(files', Counted') + DirSize * Cardinality((dirs \ todo)')
    BY <2>3, <2>4, <2>5
  <2>7. \A k \in Tracked' : files'[k] = entries'[k].size
    BY <2>1, <2>3 DEF CountInv, RecoverInv
  <2>8. QED
    BY <2>1, <2>2, <2>3, <2>4, <2>6, <2>7 DEF CountInv, RecoverInv
<1>15. CASE Restart
  BY <1>1, <1>13, <1>14, <1>15, BootRowCount, BootScanCount DEF Restart, BootDone
<1>16. CASE Stop
  BY <1>1, <1>16 DEF Stop, At
<1>17. CASE TimePasses \/ UNCHANGED vars
  <2>1. UNCHANGED <<entries, total, files, dirs, todo, phase, ghost>>
    BY <1>17 DEF TimePasses, vars
  <2>2. Tracked' = Tracked /\ Counted' = Counted
    BY <2>1 DEF Tracked, Counted
  <2>3. AccountInv'
    BY <2>1, KeepsAccount DEF CountInv
  <2>4. QED
    BY <2>1, <2>2, <2>3 DEF CountInv, RecoverInv
<1>18. QED
  BY <1>4, <1>5, <1>6, <1>7, <1>8, <1>9, <1>10, <1>11, <1>12, <1>15, <1>16, <1>17 DEF Next

\* A new cache has tracked and counted nothing.
LEMMA InitCount == Init => CountInv
  BY EmptyAccount DEF Init, Tracked, CountInv, RecoverInv

\* The count and its parts hold of every reachable state.
LEMMA CountInvariant == Spec => []CountInv
<1>1. IInv /\ CountInv /\ [Next]_vars => CountInv'
  BY NextCount DEF IInv
<1>2. QED
  BY <1>1, InitCount, InductiveInvariant, PTL DEF Spec

\* totalSize never loses or repeats a byte, whatever goroutines register, replace, evict,
\* expire, invalidate and clear in whatever order, and whenever the process dies.
THEOREM AccountingAlways == Spec => []Accounting
<1>1. CountInv => Accounting
  BY DEF CountInv, AccountInv
<1>2. QED
  BY <1>1, CountInvariant, PTL

\* What the scan has added up when it ends, together with the tracked entries.
LEMMA RecoveredSum ==
  ASSUME TypeOK, CountInv, phase = "scan", todo = {}
  PROVE  total = SumOf(files, {k \in Keys : files[k] # NoFile /\
                                             (k \notin StreamKeys \/ k \in Tracked)})
                 + DirSize * Cardinality(dirs)
<1> DEFINE G == Counted
           T == Tracked
           D == DirSize * Cardinality(dirs)
<1>1. /\ IsFiniteSet(Bytes(files, G)) /\ IsFiniteSet(dirs)
      /\ ghost = SumOf(files, G) + D
      /\ \A k \in T : files[k] = entries[k].size
  <2>1. dirs \ todo = dirs
    OBVIOUS
  <2>2. QED
    BY <2>1 DEF CountInv, RecoverInv
<1>2. \A k \in T : EntrySizes[k] = files[k] /\ files[k] # NoFile
  BY <1>1, EntrySizesType DEF NoFile
<1>3. {k \in Keys : files[k] # NoFile /\ (k \notin StreamKeys \/ k \in Tracked)} = G \cup T
  BY <1>2 DEF Counted, Tracked
<1>4. G \cap T = {}
  BY DEF Counted
<1>5. total = SumOf(EntrySizes, T) + ghost /\ IsFiniteSet(Bytes(EntrySizes, T))
  BY DEF CountInv, AccountInv, Accounting
<1>6. D \in Nat
  BY <1>1, FS_CardinalityType, NumbersAssumption
<1> HIDE DEF G, T, D
<1>7. Bytes(EntrySizes, T) = Bytes(files, T) /\ SumOf(EntrySizes, T) = SumOf(files, T)
  BY <1>2, SumSame
<1>8. IsFiniteSet(Bytes(files, T))
  BY <1>5, <1>7
<1>9. SumOf(files, G \cup T) = SumOf(files, G) + SumOf(files, T)
  BY <1>1, <1>4, <1>8, SumDisjoint
<1>10. SumOf(files, G) \in Nat /\ SumOf(files, T) \in Nat
  BY <1>1, <1>8, SumType
<1>11. total = SumOf(files, G \cup T) + D
  BY <1>1, <1>5, <1>6, <1>7, <1>9, <1>10
<1>12. QED
  BY <1>3, <1>11 DEF D

\* New restores the bytes of every file one level deep and of the tracked streams, and the
\* size of the stream directories, each once, whenever the process died before.
THEOREM RecoveredTotalAlways == Spec => RecoveredTotal
<1>1. phase = "scan" /\ phase' = "up" /\ [Next]_vars => todo = {}
  BY DEF Next, Write, Stage, Abandon, Rename, Register, Invalidate, RemoveMatching,
     RemoveByPrefix, SweepBegin, Evict, EvictBegin, EvictStep, EvictEnd, Sweep, SweepStep,
     SweepEnd, Get, Remove, Clear, Loop, Tick, EvictExpired, SoftBegin, SoftStep, SoftEnd,
     Stop, Kill, Crash, CrashInRemove, CrashInClear, Die, Restart, Boot, BootRow, BootStale,
     BootScan, BootDone, TimePasses, At, MuFree, vars, life
<1>2. TypeOK /\ CountInv /\ [Next]_vars =>
        [phase = "scan" /\ phase' = "up" =>
           total = SumOf(files, {k \in Keys : files[k] # NoFile /\
                                              (k \notin StreamKeys \/ k \in Tracked)})
                   + DirSize * Cardinality(dirs)]_vars
  BY <1>1, RecoveredSum
<1>3. QED
  BY <1>2, TypeCorrect, CountInvariant, PTL DEF Spec, RecoveredTotal
=============================================================================
