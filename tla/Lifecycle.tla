------------------------------- MODULE Lifecycle -------------------------------
(***************************************************************************)
(* Starting and stopping: Cache.StartEviction, Cache.Stop and the life of  *)
(* the eviction loop (src/cache/cache.go:448), within Start and Stop of    *)
(* the npm and apt servers, of the S3 server and of the git handler.  One  *)
(* host process makes the calls, one after the other; requests come and go *)
(* meanwhile.  What a loop does in a sweep is CacheIndex.                  *)
(***************************************************************************)
EXTENDS Integers, Sequences

CONSTANTS
  Requests,   \* requests that store an entry, each made once
  MaxStarts   \* bound of the model: calls of Start and StartEviction

ASSUME MaxStartsAssumption == MaxStarts \in Nat

VARIABLES
  kind,       \* "npm" (and apt), "s3" or "git"
  todo,       \* the steps left of the Stop that is running
  starts,     \* calls of StartEviction so far: the current Cache.stopped and Cache.cancel
  loops,      \* eviction loops that have not ended
  cancelled,  \* contexts that are cancelled, <<cache, start>>
  closed,     \* channels that are closed, <<cache, start>>
  stopped,    \* per cache: the start its last Stop has waited for
  over,       \* caches started a second time without a Stop
  panicked,   \* a channel was closed twice: the process is gone
  table,      \* caches whose Cache.db is open
  server,     \* generation of Server.server, 0 for nil
  serving,    \* the generations that accept requests: one that Start has replaced still does
  cut,        \* generations whose Shutdown timed out, that started without a table, or that
              \* were replaced by another Start before a Stop
  req,        \* per request: "new", "busy" or "done"
  via,        \* per request: the server that accepted it, 0 for an embedding host
  orphans     \* requests whose entry was registered without a row

hostVars == <<todo, stopped, over>>
loopVars == <<starts, loops, cancelled, closed, panicked>>
serverVars == <<server, serving, cut>>
requestVars == <<req, via, orphans>>
vars == <<kind, hostVars, loopVars, table, serverVars, requestVars>>

\* The refs cache and the packs cache of git, the one cache of the others.
AllCaches == {"first", "second"}
Caches == IF kind = "git" THEN AllCaches ELSE {"first"}
\* The context and the channel of the latest StartEviction; 0 stands for a nil cancel.
Current(c) == <<c, starts[c]>>

Init ==
  /\ kind \in {"npm", "s3", "git"}
  /\ todo = <<>> /\ over = {} /\ stopped = [c \in AllCaches |-> 0]
  /\ starts = [c \in AllCaches |-> 0] /\ loops = {} /\ cancelled = {} /\ closed = {}
  /\ panicked = FALSE /\ table = Caches
  /\ server = 0 /\ serving = {} /\ cut = {}
  /\ req = [r \in Requests |-> "new"] /\ via = [r \in Requests |-> 0] /\ orphans = {}

-----------------------------------------------------------------------------
(* Start and StartEviction *)

\* Mutation: the channel is not reset for the new loop.
StartEvictionKeepsChannel ==
  /\ \A c \in Caches : starts[c] < MaxStarts
  /\ starts' = [c \in AllCaches |-> IF c \in Caches THEN starts[c] + 1 ELSE starts[c]]
  /\ loops' = loops \cup {[cache |-> c, ctx |-> starts'[c], chan |-> 0, at |-> "new"] : c \in Caches}
  /\ closed' = closed \cup {<<c, starts'[c]>> : c \in {x \in Caches : Current(x) \in closed}}
  /\ over' = over \cup {c \in Caches : starts[c] # stopped[c]}
  /\ UNCHANGED <<cancelled, panicked>>
\* A fresh channel and context, and a goroutine that has not run yet.  The cancel of a
\* loop that is still running is overwritten.
StartEviction ==
  /\ \A c \in Caches : starts[c] < MaxStarts
  /\ starts' = [c \in AllCaches |-> IF c \in Caches THEN starts[c] + 1 ELSE starts[c]]
  /\ loops' = loops \cup {[cache |-> c, ctx |-> starts'[c], chan |-> 0, at |-> "new"] : c \in Caches}
  /\ over' = over \cup {c \in Caches : starts[c] # stopped[c]}
  /\ UNCHANGED <<cancelled, closed, panicked>>

\* Server.Start of npm, apt and S3, again after a Stop perhaps.  Without one it overwrites
\* Server.server: nobody shuts the old one down, and nobody waits for its requests.
Start ==
  /\ kind # "git" /\ todo = <<>> /\ ~panicked
  /\ StartEviction
  /\ server' = server + 1 /\ serving' = serving \cup {server'}
  /\ cut' = cut \cup {g \in {server'} : table # Caches} \cup {g \in {server} : g \in serving}
  /\ UNCHANGED <<kind, todo, stopped, table, requestVars>>

\* StartEviction of the git handler and of an embedded S3 server.
Embed ==
  /\ kind # "npm" /\ todo = <<>> /\ ~panicked
  /\ StartEviction
  /\ UNCHANGED <<kind, todo, stopped, table, serverVars, requestVars>>

-----------------------------------------------------------------------------
(* Stop *)

\* Mutations: the table is closed without waiting; the wait comes first.
CacheStopUnwaited(c) == <<<<"cancel", c>>, <<"close", c>>>>
CacheStopWaitsFirst(c) ==
  (IF starts[c] = 0 THEN <<>> ELSE <<<<"wait", c>>, <<"cancel", c>>>>) \o <<<<"close", c>>>>
\* With no cancel there is no loop to wait for.
CacheStop(c) ==
  (IF starts[c] = 0 THEN <<>> ELSE <<<<"cancel", c>>, <<"wait", c>>>>) \o <<<<"close", c>>>>

Shutdown == IF server = 0 THEN <<>> ELSE <<<<"shut", "">>, <<"drain", "">>>>

\* Mutation: every server stops its cache first.
StopPlanCacheFirst ==
  IF kind = "git" THEN CacheStop("first") \o CacheStop("second")
  ELSE CacheStop("first") \o Shutdown
\* The npm and apt servers stop the cache first, the S3 server last.
StopPlan ==
  IF kind = "git" THEN CacheStop("first") \o CacheStop("second")
  ELSE IF kind = "npm" THEN CacheStop("first") \o Shutdown
  ELSE Shutdown \o CacheStop("first")

Stop ==
  /\ todo = <<>> /\ ~panicked
  /\ todo' = StopPlan
  /\ UNCHANGED <<kind, stopped, over, loopVars, table, serverVars, requestVars>>

Do(step, c) ==
  /\ todo # <<>> /\ ~panicked /\ Head(todo) = <<step, c>>
  /\ todo' = Tail(todo)
  /\ UNCHANGED <<kind, over, requestVars>>

Cancel(c) ==
  /\ Do("cancel", c)
  /\ cancelled' = cancelled \cup {Current(c)}
  /\ UNCHANGED <<stopped, starts, loops, closed, panicked, table, serverVars>>

\* <-c.stopped
WaitLoop(c) ==
  /\ Do("wait", c) /\ Current(c) \in closed
  /\ UNCHANGED <<stopped, loopVars, table, serverVars>>

\* c.db = nil: New is the only one to open it.
CloseTable(c) ==
  /\ Do("close", c)
  /\ table' = table \ {c} /\ stopped' = [stopped EXCEPT ![c] = starts[c]]
  /\ UNCHANGED <<loopVars, serverVars>>

\* http.Server.Shutdown: the listener is closed, and then it waits for the requests.
Shut ==
  /\ Do("shut", "") /\ serving' = serving \ {server}
  /\ UNCHANGED <<stopped, loopVars, table, server, cut>>

InFlight == {r \in Requests : req[r] = "busy" /\ via[r] = server}
\* ... for 5 seconds.
Drain ==
  /\ Do("drain", "")
  /\ \/ InFlight = {} /\ UNCHANGED cut
     \/ InFlight # {} /\ cut' = cut \cup {server}
  /\ UNCHANGED <<stopped, loopVars, table, server, serving>>

HostStep == Shut \/ Drain \/ \E c \in Caches : Cancel(c) \/ WaitLoop(c) \/ CloseTable(c)

\* The context the loops were started with is cancelled by its owner.
ParentCancel ==
  /\ ~panicked
  /\ cancelled' = cancelled \cup {x \in Caches \X (1..MaxStarts) : x[2] <= starts[x[1]]}
  /\ cancelled' # cancelled
  /\ UNCHANGED <<kind, hostVars, starts, loops, closed, panicked, table, serverVars, requestVars>>

-----------------------------------------------------------------------------
(* evictionLoop *)

Becomes(l, m) == loops' = (loops \ {l}) \cup m
LoopFrame == UNCHANGED <<kind, hostVars, starts, cancelled, table, serverVars, requestVars>>

\* The goroutine runs for the first time: the defer statement reads c.stopped now.
LoopBegin(l) ==
  /\ ~panicked /\ l.at = "new"
  /\ Becomes(l, {[l EXCEPT !.at = "select", !.chan = starts[l.cache]]})
  /\ LoopFrame /\ UNCHANGED <<closed, panicked>>

LoopTick(l) ==
  /\ ~panicked /\ l.at = "select"
  /\ Becomes(l, {[l EXCEPT !.at = "sweep"]})
  /\ LoopFrame /\ UNCHANGED <<closed, panicked>>

LoopSwept(l) ==
  /\ ~panicked /\ l.at = "sweep"
  /\ Becomes(l, {[l EXCEPT !.at = "select"]})
  /\ LoopFrame /\ UNCHANGED <<closed, panicked>>

\* ctx.Done: the deferred close of the channel, which panics if it is closed already.
LoopExit(l) ==
  /\ ~panicked /\ l.at = "select" /\ <<l.cache, l.ctx>> \in cancelled
  /\ Becomes(l, {})
  /\ closed' = closed \cup {<<l.cache, l.chan>>}
  /\ panicked' = (<<l.cache, l.chan>> \in closed)
  /\ LoopFrame

-----------------------------------------------------------------------------
(* Requests *)

\* A server, or the host a handler is embedded in, hands out a request.
Accept(r) ==
  /\ ~panicked /\ req[r] = "new"
  /\ req' = [req EXCEPT ![r] = "busy"]
  /\ \/ \E g \in serving : via' = [via EXCEPT ![r] = g]
     \/ kind # "npm" /\ UNCHANGED via
  /\ UNCHANGED <<kind, hostVars, loopVars, table, serverVars, orphans>>

\* Its answer is stored (Put, RegisterAfterStream): no row once the table is closed.
Store(r) ==
  /\ ~panicked /\ req[r] = "busy"
  /\ req' = [req EXCEPT ![r] = "done"]
  /\ \E c \in Caches : orphans' = IF c \in table THEN orphans ELSE orphans \cup {r}
  /\ UNCHANGED <<kind, hostVars, loopVars, table, serverVars, via>>

-----------------------------------------------------------------------------

LoopRun(l) == LoopBegin(l) \/ LoopSwept(l)
Loop(l) == LoopRun(l) \/ LoopTick(l) \/ LoopExit(l)

Next ==
  \/ Start \/ Embed \/ Stop \/ HostStep \/ ParentCancel
  \/ \E l \in loops : Loop(l)
  \/ \E r \in Requests : Accept(r) \/ Store(r)

Spec == Init /\ [][Next]_vars

Runs(c, n, Step(_)) == \E l \in loops : l.cache = c /\ l.ctx = n /\ Step(l)

\* Goroutines run, sweeps end, and a select with two ready cases takes each in the end:
\* Go chooses at random.  Requests may take for ever, and nobody need call Stop.
FairSpec ==
  /\ Spec /\ WF_vars(HostStep)
  /\ \A c \in AllCaches, n \in 1..MaxStarts :
       WF_vars(Runs(c, n, LoopRun)) /\ SF_vars(Runs(c, n, LoopExit))

-----------------------------------------------------------------------------
(* Properties *)

TypeOK ==
  /\ kind \in {"npm", "s3", "git"} /\ over \subseteq Caches /\ table \subseteq Caches
  /\ starts \in [AllCaches -> 0..MaxStarts] /\ stopped \in [AllCaches -> 0..MaxStarts]
  /\ loops \subseteq [cache : Caches, ctx : 1..MaxStarts, chan : 0..MaxStarts,
                      at : {"new", "select", "sweep"}]
  /\ cancelled \subseteq Caches \X (1..MaxStarts) /\ closed \subseteq Caches \X (1..MaxStarts)
  /\ panicked \in BOOLEAN /\ serving \subseteq 1..MaxStarts
  /\ server \in 0..MaxStarts /\ cut \subseteq 1..MaxStarts
  /\ req \in [Requests -> {"new", "busy", "done"}] /\ via \in [Requests -> 0..MaxStarts]
  /\ orphans \subseteq Requests

\* When Stop has closed the table, no eviction loop is left to sweep without one, unless
\* StartEviction was called twice without a Stop: the loops of all earlier lives, which
\* read Cache.stopped when they first run, have ended as well.
StopEndsLoops ==
  \A c \in Caches \ over : stopped[c] = starts[c] => \A l \in loops : l.cache # c

\* No life of the cache, and no cancellation of its context from outside, makes a loop
\* close a channel that is closed, unless StartEviction was called twice without a Stop.
PanicsOnlyStartedOver == panicked => over # {}

\* The S3 server, which drains before it stops its cache, gives every entry its row,
\* unless the drain has timed out, the server was started again after Stop, which nothing
\* opens the table for, or it was replaced by a second Start without a Stop, which nobody
\* drains.  (The npm and apt servers, which stop their cache first,
\* do not: what is stored while they drain is orphaned at the next start.)
TableOutlivesRequests ==
  kind = "s3" => \A r \in orphans : via[r] = 0 \/ via[r] \in cut

\* Stop always returns, whatever the requests do, whether or not the loop had run when
\* it was called, and also if the loops were started twice.
StopReturns == todo # <<>> ~> todo = <<>> \/ panicked

-----------------------------------------------------------------------------
(* The inductive invariant behind them (proved in LifecycleProofs) *)

Steps == ({"cancel", "wait", "close"} \X AllCaches) \cup {<<"shut", "">>, <<"drain", "">>}

\* Every y that Stop has yet to do comes after an x, or what x is for has happened.
After(y, x, happened) ==
  \A i \in 1..Len(todo) : todo[i] = y => happened \/ \E j \in 1..(i - 1) : todo[j] = x

\* Nobody accepts requests any more, and nobody waits for them.
Quiet == server = 0 \/ server \in cut \/ InFlight = {}
Draining == \E i \in 1..Len(todo) : todo[i] = <<"drain", "">>

\* Stop only cancels, and drains, what has been started, and does things in order.
StopInv ==
  /\ todo \in Seq(Steps)
  /\ \A c \in Caches, i \in 1..Len(todo) : todo[i] = <<"cancel", c>> => starts[c] # 0
  /\ Draining => server # 0
  /\ \A c \in Caches : After(<<"close", c>>, <<"wait", c>>, starts[c] = 0 \/ Current(c) \in closed)
  /\ After(<<"drain", "">>, <<"shut", "">>, server \notin serving)
  /\ \A i \in 1..Len(todo) :
       todo[i] = <<"shut", "">> => \E j \in (i + 1)..Len(todo) : todo[j] = <<"drain", "">>
  /\ kind = "s3" => After(<<"close", "first">>, <<"drain", "">>, server \notin serving /\ Quiet)

\* The channels a loop may close are those of its own start and later ones; in a cache that
\* was never started over there is one loop, whose channel is open.
LoopInv ==
  /\ \A l \in loops : l.ctx <= starts[l.cache] /\ l.chan <= starts[l.cache]
                      /\ (l.at # "new" => l.chan # 0)
  /\ \A c \in Caches, n \in 1..MaxStarts : <<c, n>> \in closed => n <= starts[c]
  /\ \A c \in Caches \ over :
       /\ \A l \in loops :
            l.cache = c =>
              /\ l.ctx = starts[c] /\ (l.at # "new" => l.chan = starts[c])
              /\ stopped[c] # starts[c] /\ Current(c) \notin closed
       /\ \A l, m \in loops : l.cache = c /\ m.cache = c => l = m

\* A server that is gone, or has no table to write to, has no request that is not cut.
ServerInv ==
  /\ server <= starts["first"]
  /\ \A g \in serving : g <= server /\ (g = server \/ g \in cut)
  /\ \A r \in Requests :
       /\ req[r] = "new" => via[r] = 0
       /\ r \in orphans => req[r] = "done"
       /\ via[r] <= server
       /\ req[r] = "busy" /\ via[r] \notin {0, server} => via[r] \in cut
  /\ server \in serving \/ Draining \/ Quiet
  /\ kind = "s3" /\ table # Caches => server \in cut \/ (server \notin serving /\ Quiet)

IInv ==
  /\ TypeOK /\ StopInv /\ LoopInv /\ ServerInv
  /\ PanicsOnlyStartedOver /\ TableOutlivesRequests
=============================================================================
