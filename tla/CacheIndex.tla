------------------------------- MODULE CacheIndex -------------------------------
(***************************************************************************)
(* The shared disk cache of proxykit (src/cache/cache.go): the in-memory   *)
(* index with its byte count, the SQLite table that mirrors it, and the    *)
(* files on disk, under concurrent callers, the background eviction loop,  *)
(* Clear, Stop, a kill of the process at any point and recovery.           *)
(*                                                                         *)
(* A key stands for its file: the path is the SHA-256 of the key.  The     *)
(* files of StreamKeys lie one directory level deeper than the others      *)
(* (src/s3/server.go:584), which is what recovery is sensitive to.         *)
(*                                                                         *)
(* Everything done under Cache.mu is one step, but for the loops, which    *)
(* remove one entry per step, so that the process can die between two      *)
(* removals.  Creating the temporary file and renaming it happen outside   *)
(* the mutex and are steps of their own.                                   *)
(***************************************************************************)
EXTENDS Integers, FiniteSetsExt

CONSTANTS
  Keys,         \* cache keys
  StreamKeys,   \* the keys written under streams/xx/ by the S3 proxy
  Callers,      \* goroutines calling the cache, one call each at a time
  Janitor,      \* the goroutine of evictionLoop
  Sizes,        \* file sizes in bytes
  MaxSize,      \* Config.MaxSize, 0 is unlimited
  SoftPercent,  \* Config.SoftEvictPercent in percent, 0 is disabled
  TTLs,         \* ttl arguments of Put: 0 is the default, -1 is never
  DefaultTTL,   \* Config.TTL, 0 is no expiration
  AccessLag,    \* the 60 seconds after which a hit is written to the table
  Prefixes,     \* arguments of RemoveByPrefix
  HasPrefix,    \* for each of them, the keys strings.HasPrefix accepts
  Like,         \* and the keys SQL's LIKE prefix% accepts
  DirSize,      \* what Info().Size() says of a directory
  MaxClock,     \* bound of the model: the last instant
  MaxCrashes    \* bound of the model: how often the process may die

Procs == Callers \cup {Janitor}

ASSUME KeysAssumption ==
  /\ Keys # {} /\ StreamKeys \subseteq Keys
  /\ Janitor \notin Callers
ASSUME NumbersAssumption ==
  /\ Sizes \subseteq Nat /\ MaxSize \in Nat /\ SoftPercent \in Nat
  /\ TTLs \subseteq Int /\ DefaultTTL \in Nat /\ AccessLag \in Nat
  /\ DirSize \in Nat /\ MaxClock \in Nat /\ MaxCrashes \in Nat
ASSUME PrefixAssumption ==
  /\ HasPrefix \in [Prefixes -> SUBSET Keys]
  /\ Like \in [Prefixes -> SUBSET Keys]
  /\ \A x \in Prefixes : HasPrefix[x] \subseteq Like[x]

VARIABLES
  entries,   \* Cache.entries: key -> entry, or NoEntry
  total,     \* Cache.totalSize
  rows,      \* the table cache_entries: key -> row, or NoEntry
  db,        \* Cache.db # nil
  files,     \* size of the file at the path of a key, or NoFile
  strays,    \* keys in whose directory a .tmp- file of a dead writer lies
  dirs,      \* stream keys whose directory exists
  pc,        \* where each goroutine stands
  job,       \* the local variables of its Put or RegisterAfterStream
  todo,      \* what a loop has still to visit (removal, recovery)
  liked,     \* rows the running RemoveByPrefix deletes by LIKE in the end;
             \* in recovery, its staleKeys
  phase,     \* life of the process: up, down, or recovering (rows, scan)
  clock,     \* time.Now, 0 is the zero time
  crashes,   \* how often the process died
  ghost,     \* history: bytes of total that recovery counted for no entry
  orphans,   \* history: files recovery found without a row
  settled    \* history: an evictLRU has completed since the process started

index == <<entries, total, rows, files>>
goroutines == <<pc, job>>
loops == <<todo, liked>>
life == <<phase, crashes>>
history == <<ghost, orphans, settled>>
vars == <<entries, total, rows, db, files, strays, dirs, pc, job, todo, liked,
          phase, clock, crashes, ghost, orphans, settled>>

Entry == [size: Nat, created: Nat, accessed: Nat, expires: Nat]
NoEntry == [size |-> -1, created |-> 0, accessed |-> 0, expires |-> 0]
NoFile == -1
Job == [key: Keys, size: Nat, ttl: Int, stamp: Nat, temp: BOOLEAN]
NoJob == [key |-> CHOOSE k \in Keys : TRUE, size |-> 0, ttl |-> 0,
          stamp |-> 0, temp |-> FALSE]

\* A goroutine at one of these holds Cache.mu.
Holding == {"sweep", "age", "lru"}
PCs == {"idle", "staged", "renamed", "expire", "soft", "evict", "stopped"}
         \cup Holding

TypeOK ==
  /\ entries \in [Keys -> Entry \cup {NoEntry}]
  /\ rows \in [Keys -> Entry \cup {NoEntry}]
  /\ files \in [Keys -> Nat \cup {NoFile}]
  /\ total \in Int /\ ghost \in Nat
  /\ db \in BOOLEAN /\ settled \in BOOLEAN
  /\ strays \subseteq Keys /\ dirs \subseteq StreamKeys
  /\ pc \in [Procs -> PCs] /\ job \in [Procs -> Job]
  /\ todo \subseteq Keys /\ liked \subseteq Keys /\ orphans \subseteq Keys
  /\ phase \in {"up", "down", "rows", "scan"}
  /\ clock \in Nat /\ crashes \in Nat

\* New on an empty directory.
Init ==
  /\ entries = [k \in Keys |-> NoEntry]
  /\ rows = [k \in Keys |-> NoEntry]
  /\ files = [k \in Keys |-> NoFile]
  /\ total = 0 /\ db = TRUE
  /\ strays = {} /\ dirs = {}
  /\ pc = [p \in Procs |-> "idle"] /\ job = [p \in Procs |-> NoJob]
  /\ todo = {} /\ liked = {}
  /\ phase = "up" /\ clock = 1 /\ crashes = 0
  /\ ghost = 0 /\ orphans = {} /\ settled = TRUE

-----------------------------------------------------------------------------
(* Helpers *)

Tracked == {k \in Keys : entries[k] # NoEntry}
Expired(e, now) == e.expires # 0 /\ now > e.expires
MuFree == phase = "up" /\ \A p \in Procs : pc[p] \notin Holding
At(p, label) == phase = "up" /\ pc[p] = label
Goto(p, label) == pc' = [pc EXCEPT ![p] = label]
Return(p) == Goto(p, "idle") /\ job' = [job EXCEPT ![p] = NoJob]

\* The time.Time stored as expiresAt by Put (ttl) and RegisterAfterStream (0).
ExpiresAt(now, ttl) ==
  LET effective == IF ttl = 0 THEN DefaultTTL ELSE ttl
  IN  IF effective > 0 THEN now + effective ELSE 0

SoftLimit == (MaxSize * SoftPercent) \div 100

\* The heads of the two sorted slices; sort.Slice orders ties arbitrarily.
LeastRecent == {k \in Tracked :
                  \A j \in Tracked : entries[k].accessed <= entries[j].accessed}
Oldest == {k \in Tracked :
             \A j \in Tracked : entries[k].created <= entries[j].created}

\* Mutation of removeLocked: the file is forgotten.
RemoveLockedKeepsFile(k) ==
  /\ total' = total - entries[k].size
  /\ entries' = [entries EXCEPT ![k] = NoEntry]
  /\ rows' = IF db THEN [rows EXCEPT ![k] = NoEntry] ELSE rows
  /\ UNCHANGED files

\* removeLocked: os.Remove, the index, the table.
RemoveLocked(k) ==
  /\ files' = [files EXCEPT ![k] = NoFile]
  /\ total' = total - entries[k].size
  /\ entries' = [entries EXCEPT ![k] = NoEntry]
  /\ rows' = IF db THEN [rows EXCEPT ![k] = NoEntry] ELSE rows

-----------------------------------------------------------------------------
(* Put, and the streaming writers that end in RegisterAfterStream *)

\* MkdirAll and CreateTemp; the data is then copied into the temporary file.
Stage(p, k, n, ttl) ==
  /\ At(p, "idle")
  /\ k \in StreamKeys => ttl = 0
  /\ Goto(p, "staged")
  /\ job' = [job EXCEPT ![p] = [key |-> k, size |-> n, ttl |-> ttl,
                                stamp |-> 0, temp |-> TRUE]]
  /\ dirs' = IF k \in StreamKeys THEN dirs \cup {k} ELSE dirs
  /\ UNCHANGED <<index, db, strays, loops, life, clock, history>>

\* A failed copy, close or rename: the deferred cleanup removes the temporary
\* file and the call returns an error.
Abandon(p) ==
  /\ At(p, "staged")
  /\ Return(p)
  /\ UNCHANGED <<index, db, strays, dirs, loops, life, clock, history>>

\* os.Rename onto the path of the key, without the mutex; then time.Now.
\* Clear may have removed the temporary file: the rename fails (Abandon).
Rename(p) ==
  /\ At(p, "staged") /\ job[p].temp
  /\ Goto(p, "renamed")
  /\ job' = [job EXCEPT ![p].temp = FALSE, ![p].stamp = clock]
  /\ files' = [files EXCEPT ![job[p].key] = job[p].size]
  /\ orphans' = orphans \ {job[p].key}
  /\ UNCHANGED <<entries, total, rows, db, strays, dirs, loops, life, clock,
                 ghost, settled>>

\* Mutations: the old entry is not subtracted; no inline eviction.
ReplacedForgotten(k) == 0
AfterRegisterReturn == "idle"

\* The bytes a new entry for k takes over from the one it replaces.
Replaced(k) == IF k \in Tracked THEN entries[k].size ELSE 0
AfterRegister == IF MaxSize > 0 THEN "evict" ELSE "idle"

\* The critical section of Put and of RegisterAfterStream.
Register(p) ==
  /\ At(p, "renamed") /\ MuFree
  /\ LET k == job[p].key
         e == [size |-> job[p].size, created |-> job[p].stamp,
               accessed |-> job[p].stamp,
               expires |-> ExpiresAt(job[p].stamp, job[p].ttl)]
     IN  /\ total' = total - Replaced(k) + e.size
         /\ entries' = [entries EXCEPT ![k] = e]
         /\ rows' = IF db THEN [rows EXCEPT ![k] = e] ELSE rows
  /\ Goto(p, AfterRegister)
  /\ job' = [job EXCEPT ![p] = NoJob]
  /\ UNCHANGED <<db, files, strays, dirs, loops, life, clock, history>>

-----------------------------------------------------------------------------
(* evictLRU, inline after a registration and from the eviction loop *)

EvictBegin(p) ==
  /\ At(p, "evict") /\ MuFree
  /\ Goto(p, "lru")
  /\ UNCHANGED <<index, db, strays, dirs, job, loops, life, clock, history>>

EvictStep(p) ==
  /\ At(p, "lru") /\ total > MaxSize
  /\ \E k \in LeastRecent : RemoveLocked(k)
  /\ UNCHANGED <<db, strays, dirs, goroutines, loops, life, clock, history>>

EvictEnd(p) ==
  /\ At(p, "lru") /\ (total <= MaxSize \/ Tracked = {})
  /\ Goto(p, "idle")
  /\ settled' = TRUE
  /\ UNCHANGED <<index, db, strays, dirs, job, loops, life, clock, ghost,
                 orphans>>

-----------------------------------------------------------------------------
(* Get and the removals *)

\* A hit moves the entry up in the LRU order; an expired entry is removed.
Get(k) ==
  /\ MuFree /\ k \in Tracked
  /\ IF Expired(entries[k], clock)
     THEN RemoveLocked(k)
     ELSE /\ entries' = [entries EXCEPT ![k].accessed = clock]
          /\ rows' = IF /\ clock - entries[k].accessed > AccessLag
                        /\ db /\ rows[k] # NoEntry
                     THEN [rows EXCEPT ![k].accessed = clock] ELSE rows
          /\ UNCHANGED <<total, files>>
  /\ UNCHANGED <<db, strays, dirs, goroutines, loops, life, clock, history>>

Remove(k) ==
  /\ MuFree /\ k \in Tracked
  /\ RemoveLocked(k)
  /\ UNCHANGED <<db, strays, dirs, goroutines, loops, life, clock, history>>

\* The loop shared by RemoveMatching, RemoveByPrefix and evictExpired begins.
SweepBegin(p, doomed, like) ==
  /\ MuFree
  /\ Goto(p, "sweep")
  /\ todo' = doomed /\ liked' = like
  /\ UNCHANGED <<index, db, strays, dirs, job, life, clock, history>>

RemoveMatching(p, match) ==
  At(p, "idle") /\ p # Janitor /\ SweepBegin(p, Tracked \cap match, {})

RemoveByPrefix(p, x) ==
  At(p, "idle") /\ p # Janitor /\ SweepBegin(p, Tracked \cap HasPrefix[x], Like[x])

SweepStep(p) ==
  /\ At(p, "sweep")
  /\ \E k \in todo : RemoveLocked(k) /\ todo' = todo \ {k}
  /\ UNCHANGED <<db, strays, dirs, goroutines, liked, life, clock, history>>

\* Where a goroutine goes from there (mutation: the loop skips the size limits).
AfterSweepIdle(p) == "idle"
AfterSweep(p) == IF p = Janitor /\ MaxSize > 0 THEN "soft" ELSE "idle"

\* RemoveByPrefix deletes by LIKE before it unlocks; the eviction loop goes on.
SweepEnd(p) ==
  /\ At(p, "sweep") /\ todo = {}
  /\ rows' = IF db THEN [k \in Keys |-> IF k \in liked THEN NoEntry ELSE rows[k]]
             ELSE rows
  /\ liked' = {}
  /\ Goto(p, AfterSweep(p))
  /\ job' = [job EXCEPT ![p] = NoJob]
  /\ UNCHANGED <<entries, total, files, db, strays, dirs, todo, life, clock,
                 history>>

\* Clear forgets the index, removes the whole directory with the temporary
\* files of running writers and opens a new table, even after Stop.
Clear ==
  /\ MuFree
  /\ entries' = [k \in Keys |-> NoEntry]
  /\ rows' = [k \in Keys |-> NoEntry]
  /\ files' = [k \in Keys |-> NoFile]
  /\ total' = 0 /\ db' = TRUE
  /\ strays' = {} /\ dirs' = {}
  /\ job' = [p \in Procs |-> [job[p] EXCEPT !.temp = FALSE]]
  /\ ghost' = 0 /\ orphans' = {}
  /\ UNCHANGED <<pc, loops, life, clock, settled>>

-----------------------------------------------------------------------------
(* The eviction loop, and Stop *)

\* The ticker fires; evictExpired reads the clock before it locks.
Tick ==
  /\ At(Janitor, "idle")
  /\ Goto(Janitor, "expire")
  /\ job' = [job EXCEPT ![Janitor].stamp = clock]
  /\ UNCHANGED <<index, db, strays, dirs, loops, life, clock, history>>

EvictExpired ==
  /\ At(Janitor, "expire")
  /\ SweepBegin(Janitor, {k \in Tracked : Expired(entries[k], job[Janitor].stamp)}, {})

SoftBegin ==
  /\ At(Janitor, "soft")
  /\ IF SoftPercent = 0 THEN Goto(Janitor, "evict")
     ELSE MuFree /\ Goto(Janitor, "age")
  /\ UNCHANGED <<index, db, strays, dirs, job, loops, life, clock, history>>

SoftStep ==
  /\ At(Janitor, "age") /\ total > SoftLimit
  /\ \E k \in Oldest : RemoveLocked(k)
  /\ UNCHANGED <<db, strays, dirs, goroutines, loops, life, clock, history>>

SoftEnd ==
  /\ At(Janitor, "age") /\ (total <= SoftLimit \/ Tracked = {})
  /\ Goto(Janitor, "evict")
  /\ UNCHANGED <<index, db, strays, dirs, job, loops, life, clock, history>>

\* Stop waits for the loop to return, then closes the table; the callers of
\* the cache go on.
Stop ==
  /\ At(Janitor, "idle") /\ MuFree
  /\ Goto(Janitor, "stopped")
  /\ db' = FALSE
  /\ UNCHANGED <<index, strays, dirs, job, loops, life, clock, history>>

-----------------------------------------------------------------------------
(* The death of the process, and recovery *)

\* Keys whose temporary file is open.
Leftovers == {k \in Keys : \E p \in Procs : job[p].temp /\ job[p].key = k}

\* Memory is lost; temporary files of running writers stay where they are.
Die ==
  /\ crashes < MaxCrashes
  /\ crashes' = crashes + 1 /\ phase' = "down"
  /\ entries' = [k \in Keys |-> NoEntry]
  /\ total' = 0 /\ db' = FALSE
  /\ strays' = strays \cup Leftovers
  /\ pc' = [p \in Procs |-> "idle"] /\ job' = [p \in Procs |-> NoJob]
  /\ todo' = {} /\ liked' = {}
  /\ ghost' = 0 /\ orphans' = {} /\ settled' = FALSE
  /\ UNCHANGED <<dirs, clock>>

Crash == phase # "down" /\ Die /\ UNCHANGED <<rows, files>>

\* Killed inside removeLocked, after os.Remove and before the DELETE.
CrashInRemove(k) ==
  /\ MuFree /\ k \in Tracked
  /\ Die
  /\ files' = [files EXCEPT ![k] = NoFile]
  /\ UNCHANGED rows

\* Killed inside Clear's RemoveAll: some files are gone, perhaps the table too.
CrashInClear(survivors, table) ==
  /\ MuFree
  /\ Die
  /\ files' = [k \in Keys |-> IF k \in survivors THEN files[k] ELSE NoFile]
  /\ rows' = IF table THEN rows ELSE [k \in Keys |-> NoEntry]

\* New: openMetadataDB, then recover goes through the rows of the table.
Boot ==
  /\ phase = "down"
  /\ phase' = "rows" /\ db' = TRUE /\ todo' = Keys
  /\ UNCHANGED <<index, strays, dirs, goroutines, liked, crashes, clock, history>>

\* Mutation: rows whose file is gone are tracked again.
BootRowUnchecked(k) ==
  /\ phase = "rows" /\ k \in todo
  /\ todo' = todo \ {k}
  /\ entries' = [entries EXCEPT ![k] = rows[k]]
  /\ total' = IF rows[k] = NoEntry THEN total ELSE total + rows[k].size
  /\ UNCHANGED <<rows, files, liked, db, strays, dirs, goroutines, life, clock, history>>

\* One row: expired (its file is removed), without a file, or tracked again,
\* with the size the file has now.
BootRow(k) ==
  /\ phase = "rows" /\ k \in todo
  /\ todo' = todo \ {k}
  /\ \/ /\ rows[k] = NoEntry
        /\ UNCHANGED <<entries, total, files, liked>>
     \/ /\ rows[k] # NoEntry /\ Expired(rows[k], clock)
        /\ files' = [files EXCEPT ![k] = NoFile]
        /\ liked' = liked \cup {k}
        /\ UNCHANGED <<entries, total>>
     \/ /\ rows[k] # NoEntry /\ ~Expired(rows[k], clock) /\ files[k] = NoFile
        /\ liked' = liked \cup {k}
        /\ UNCHANGED <<entries, total, files>>
     \/ /\ rows[k] # NoEntry /\ ~Expired(rows[k], clock) /\ files[k] # NoFile
        /\ entries' = [entries EXCEPT ![k] = [rows[k] EXCEPT !.size = files[k]]]
        /\ total' = total + files[k]
        /\ UNCHANGED <<files, liked>>
  /\ UNCHANGED <<rows, db, strays, dirs, goroutines, life, clock, history>>

\* Mutation: the stale rows stay.
BootStaleKept ==
  /\ phase = "rows" /\ todo = {}
  /\ liked' = {} /\ todo' = Keys /\ phase' = "scan"
  /\ UNCHANGED <<index, db, strays, dirs, goroutines, crashes, clock, history>>

\* The rows of staleKeys are deleted once the query is closed.
BootStale ==
  /\ phase = "rows" /\ todo = {}
  /\ rows' = [k \in Keys |-> IF k \in liked THEN NoEntry ELSE rows[k]]
  /\ liked' = {} /\ todo' = Keys /\ phase' = "scan"
  /\ UNCHANGED <<entries, total, files, db, strays, dirs, goroutines, crashes,
                 clock, history>>

\* Mutations: a file with an entry is counted again; temporary files stay.
UnknownOrKnown(k) ==
  IF k \in StreamKeys THEN (IF k \in dirs THEN DirSize ELSE 0)
  ELSE IF files[k] # NoFile THEN files[k] ELSE 0
SweptTempsNone(k) == {}

\* What the scan of one directory level adds to total: a file without an entry,
\* or the directory in which a stream lies, whose contents it does not look at.
Unknown(k) ==
  IF k \in StreamKeys THEN (IF k \in dirs THEN DirSize ELSE 0)
  ELSE IF k \notin Tracked /\ files[k] # NoFile THEN files[k] ELSE 0

\* The temporary files in k's directory that the scan removes.
SweptTemps(k) == {k} \ StreamKeys

BootScan(k) ==
  /\ phase = "scan" /\ k \in todo
  /\ todo' = todo \ {k}
  /\ strays' = strays \ SweptTemps(k)
  /\ total' = total + Unknown(k) /\ ghost' = ghost + Unknown(k)
  /\ orphans' = IF k \notin Tracked /\ files[k] # NoFile
                THEN orphans \cup {k} ELSE orphans
  /\ UNCHANGED <<entries, rows, db, files, dirs, goroutines, liked, life, clock,
                 settled>>

BootDone ==
  /\ phase = "scan" /\ todo = {}
  /\ phase' = "up"
  /\ UNCHANGED <<index, db, strays, dirs, goroutines, loops, crashes, clock,
                 history>>

TimePasses ==
  /\ clock < MaxClock
  /\ clock' = clock + 1
  /\ UNCHANGED <<index, db, strays, dirs, goroutines, loops, life, history>>

-----------------------------------------------------------------------------

Write(p) ==
  \/ \E k \in Keys, n \in Sizes, ttl \in TTLs : Stage(p, k, n, ttl)
  \/ Abandon(p) \/ Rename(p) \/ Register(p)
Invalidate(p) ==
  \/ \E match \in SUBSET Keys : RemoveMatching(p, match)
  \/ \E x \in Prefixes : RemoveByPrefix(p, x)
Evict(p) == EvictBegin(p) \/ EvictStep(p) \/ EvictEnd(p)
Sweep(p) == SweepStep(p) \/ SweepEnd(p)
Loop == Tick \/ EvictExpired \/ SoftBegin \/ SoftStep \/ SoftEnd
Restart ==
  \/ Boot \/ BootStale \/ BootDone
  \/ \E k \in Keys : BootRow(k) \/ BootScan(k)
Kill ==
  \/ Crash
  \/ \E k \in Keys : CrashInRemove(k)
  \/ \E survivors \in SUBSET Keys, table \in BOOLEAN : CrashInClear(survivors, table)

Next ==
  \/ \E p \in Callers : Write(p) \/ Invalidate(p)
  \/ \E p \in Procs : Evict(p) \/ Sweep(p)
  \/ \E k \in Keys : Get(k) \/ Remove(k)
  \/ Clear \/ Loop \/ Stop \/ Kill \/ Restart \/ TimePasses

Spec == Init /\ [][Next]_vars

\* The scheduler runs every goroutine inside the cache that can run and
\* sync.RWMutex hands the lock to everyone who waits for it, hence strong
\* fairness; the ticker of the eviction loop keeps firing.  Nobody has to call.
Fairness ==
  /\ \A p \in Callers : SF_vars(Evict(p) \/ Sweep(p))
  /\ SF_vars(Loop \/ Evict(Janitor) \/ Sweep(Janitor))

FairSpec == Spec /\ Fairness

-----------------------------------------------------------------------------
(* Properties *)

\* A sum of sizes over a set of keys is the number of their bytes.
Bytes(f, S) == UNION {{k} \X (1 .. f[k]) : k \in S}
SumOf(f, S) == Cardinality(Bytes(f, S))
EntrySizes == [k \in Keys |-> entries[k].size]

\* totalSize is the sum of the sizes of the tracked entries and of what recovery
\* counted for no entry: no registration, replacement, eviction, expiry or
\* removal, in any order and by any number of goroutines, loses or repeats a byte.
Accounting == total = SumOf(EntrySizes, Tracked) + ghost

\* Rows that RemoveByPrefix can delete although their key lacks the prefix.
Overmatched == UNION {Like[x] \ HasPrefix[x] : x \in Prefixes}

\* While the table is open and no invalidation is half done, it says of every key
\* what the index says of it, but for the size of a recovered file and a last
\* access that lags behind; so a kill between any two steps recovers the same
\* entries.  (The rows LIKE deletes beyond the prefix are IndexComplete's.)
RowMatches(k) ==
  /\ rows[k].created = entries[k].created /\ rows[k].expires = entries[k].expires
  /\ rows[k].accessed <= entries[k].accessed
RowsFollowEntries ==
  phase = "up" /\ db =>
    \A k \in Keys :
      /\ rows[k] # NoEntry => k \in Tracked /\ RowMatches(k)
      /\ k \in Tracked \ Overmatched => rows[k] # NoEntry

\* A file on disk belongs to an entry, or to a writer between os.Rename and the
\* critical section that registers it, or was found without a row by recovery:
\* eviction and invalidation never leak a file.
NoUntrackedFiles ==
  phase = "up" =>
    \A k \in Keys :
      files[k] # NoFile /\ k \notin Tracked =>
        k \in orphans \/ \E p \in Procs : pc[p] = "renamed" /\ job[p].key = k

\* Once an evictLRU has completed, a cache over its limit has an evictLRU pending
\* or running, or has nothing left that it could evict: Put releases the mutex
\* between the registration and its inline eviction, and no interleaving in that
\* gap leaves the cache over the limit with nobody due to shrink it.
OverLimitIsPending ==
  phase = "up" /\ settled /\ MaxSize > 0 /\ total > MaxSize /\ Tracked # {} =>
    \E p \in Procs : pc[p] \in {"evict", "lru"}

\* No temporary file of Put survives a restart, however its writer died.  Those of
\* streams do: they lie below the level recovery scans.
PutTempsCleaned == phase = "up" => strays \subseteq StreamKeys

\* What New restores: the bytes of every file one level deep, tracked or not, of
\* the tracked streams, and the size of the stream directories, each once.
RecoveredTotal ==
  [][phase = "scan" /\ phase' = "up" =>
       total = SumOf(files, {k \in Keys : files[k] # NoFile /\
                                          (k \notin StreamKeys \/ k \in Tracked)})
               + DirSize * Cardinality(dirs)]_vars

\* An entry comes to lack its file only when a writer registers it whose file was
\* removed, by Clear or by a removal of the key, after the rename: no other removal,
\* and no recovery after a kill at any point, tracks what is not on disk.
FilesMissingOnlyFromGap ==
  [][\A k \in Keys :
       k \in Tracked' /\ files'[k] = NoFile =>
         \/ k \in Tracked /\ files[k] = NoFile
         \/ \E p \in Procs : pc[p] = "renamed" /\ job[p].key = k /\ pc'[p] # pc[p]]_vars

\* What the comment on RemoveByPrefix says, that it removes the entries whose key
\* starts with the prefix: an entry that stays keeps its row.
IndexComplete ==
  phase = "up" /\ db => \A k \in Tracked : rows[k] # NoEntry

\* A cache over its limit, be it after a restart, gets back within it or evicts
\* everything, unless the process dies or the eviction loop is stopped.
EventuallyWithinLimit ==
  (phase = "up" /\ MaxSize > 0 /\ total > MaxSize)
    ~> (total <= MaxSize \/ Tracked = {} \/ phase # "up" \/ pc[Janitor] = "stopped")

-----------------------------------------------------------------------------
(* The inductive invariant behind RowsFollowEntries, NoUntrackedFiles,      *)
(* OverLimitIsPending and PutTempsCleaned (proved in CacheIndexProofs).     *)

\* Cache.mu excludes, and nobody runs while the process is down or recovering.
MutexInv ==
  /\ phase # "up" => \A p \in Procs : pc[p] = "idle"
  /\ \A p, q \in Procs : pc[p] \in Holding /\ pc[q] \in Holding => p = q

\* A loop's remaining keys stay tracked while it holds the mutex, and the rows it
\* will delete by LIKE are of keys it removes or of overmatched ones.
SweepInv ==
  phase = "up" =>
    /\ todo \subseteq Tracked
    /\ todo # {} \/ liked # {} => \E p \in Procs : pc[p] = "sweep"
    /\ liked \subseteq Overmatched \cup todo \cup (Keys \ Tracked)

\* No timestamp lies in the future.
ClockInv ==
  /\ \A k \in Keys : entries[k].accessed <= clock /\ rows[k].accessed <= clock
  /\ \A p \in Procs : job[p].stamp <= clock

\* Recovery tracks the rows it does not find stale, and only those.
RowsInv ==
  /\ RowsFollowEntries
  /\ phase = "down" => Tracked = {} /\ liked = {}
  /\ phase = "rows" =>
       \A k \in Keys :
         /\ k \in todo \/ k \in liked => k \notin Tracked
         /\ k \in todo => k \notin liked
         /\ rows[k] # NoEntry => k \in todo \/ k \in liked \/ k \in Tracked
         /\ k \in Tracked => rows[k] # NoEntry /\ RowMatches(k)
  /\ phase = "scan" =>
       /\ liked = {}
       /\ \A k \in Keys : (rows[k] # NoEntry <=> k \in Tracked)
                          /\ (k \in Tracked => RowMatches(k))

\* The scan has recorded the untracked files of the directories behind it.
FilesInv ==
  /\ NoUntrackedFiles
  /\ phase = "scan" =>
       \A k \in Keys : files[k] # NoFile /\ k \notin Tracked => k \in todo \cup orphans

LimitInv == OverLimitIsPending /\ (phase # "up" => ~settled)

TempsInv == PutTempsCleaned /\ (phase = "scan" => strays \subseteq todo \cup StreamKeys)

IInv == /\ TypeOK /\ MutexInv /\ SweepInv /\ ClockInv
        /\ RowsInv /\ FilesInv /\ LimitInv /\ TempsInv

(* And what Accounting and RecoveredTotal need on top of it. *)

\* The untracked files one level deep that the scan has counted.
Counted == {k \in Keys \ StreamKeys :
              k \notin todo /\ k \notin Tracked /\ files[k] # NoFile}

\* Bytes are finitely many, though keys may not be.
AccountInv == Accounting /\ IsFiniteSet(Bytes(EntrySizes, Tracked))

\* Recovery tracks an entry with the size of its file; what it counts for no entry
\* are the files and the stream directories it has passed.
RecoverInv ==
  /\ phase \in {"down", "rows"} => ghost = 0
  /\ phase \in {"rows", "scan"} => \A k \in Tracked : files[k] = entries[k].size
  /\ phase = "scan" =>
       /\ IsFiniteSet(Bytes(files, Counted)) /\ IsFiniteSet(dirs \ todo)
       /\ ghost = SumOf(files, Counted) + DirSize * Cardinality(dirs \ todo)

CountInv == AccountInv /\ RecoverInv
=============================================================================
