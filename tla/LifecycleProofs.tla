---------------------------- MODULE LifecycleProofs ----------------------------
(***************************************************************************)
(* Theorems about starting and stopping, for any number of requests and of *)
(* starts.                                                                 *)
(***************************************************************************)
EXTENDS Lifecycle, TLAPS

\* What is left of a plan after its first step, position by position.
LEMMA TailBefore ==
  ASSUME NEW s \in Seq(Steps), s # <<>>, NEW i \in 1..Len(Tail(s))
  PROVE  /\ Tail(s) \in Seq(Steps) /\ Len(Tail(s)) = Len(s) - 1
         /\ i + 1 \in 1..Len(s) /\ Tail(s)[i] = s[i + 1]
         /\ \A j \in 1..i : j # 1 => j - 1 \in 1..(i - 1) /\ Tail(s)[j - 1] = s[j]
         /\ \A j \in (i + 2)..Len(s) :
              j - 1 \in (i + 1)..Len(Tail(s)) /\ Tail(s)[j - 1] = s[j]
         /\ Head(s) = s[1]
  OBVIOUS

LEMMA TailPositions ==
  ASSUME NEW s \in Seq(Steps), s # <<>>
  PROVE  /\ \A j \in 2..Len(s) : j - 1 \in 1..Len(Tail(s)) /\ Tail(s)[j - 1] = s[j]
         /\ \A i \in 1..Len(Tail(s)) : i + 1 \in 2..Len(s) /\ Tail(s)[i] = s[i + 1]
  OBVIOUS

LEMMA HeadFirst ==
  ASSUME StopInv, todo # <<>>
  PROVE  todo \in Seq(Steps) /\ 1 \in 1..Len(todo) /\ Head(todo) = todo[1]
<1>1. todo \in Seq(Steps)
  BY DEF StopInv
<1>2. QED
  BY <1>1

\* Nothing changes the kind of the server, nor therefore its caches.
LEMMA KindStays == Next => kind' = kind /\ Caches' = Caches
BY DEF Next, Start, Embed, Stop, HostStep, Shut, Drain, Cancel, WaitLoop, CloseTable, Do,
       ParentCancel, Loop, LoopRun, LoopBegin, LoopTick, LoopSwept, LoopExit, LoopFrame,
       Accept, Store, Caches

LEMMA InitInv == Init => IInv
<1> SUFFICES ASSUME Init PROVE IInv
  OBVIOUS
<1> USE MaxStartsAssumption DEF Init
<1>1. TypeOK
  <2>1. panicked \in BOOLEAN /\ serving \subseteq 1..MaxStarts
    OBVIOUS
  <2>2. QED
    BY <2>1 DEF TypeOK, AllCaches, Caches
<1>2. StopInv
  BY DEF StopInv, After, Draining
<1>3. LoopInv
  BY DEF LoopInv
<1>4. ServerInv
  BY DEF ServerInv, Quiet, AllCaches
<1>5. PanicsOnlyStartedOver /\ TableOutlivesRequests
  BY DEF PanicsOnlyStartedOver, TableOutlivesRequests
<1>6. QED
  BY <1>1, <1>2, <1>3, <1>4, <1>5 DEF IInv

-----------------------------------------------------------------------------
(* Types *)

\* Every cache of the kind gets a loop, a start and an unread channel.
LEMMA StartEvictionType ==
  ASSUME TypeOK, LoopInv, StartEviction, kind' = kind
  PROVE  /\ over' \subseteq Caches /\ starts' \in [AllCaches -> 0..MaxStarts]
         /\ \A c \in Caches : starts'[c] = starts[c] + 1
         /\ loops' \subseteq [cache : Caches, ctx : 1..MaxStarts, chan : 0..MaxStarts,
                              at : {"new", "select", "sweep"}]
<1> USE MaxStartsAssumption
<1>1. Caches \subseteq AllCaches
  BY DEF Caches, AllCaches
<1>2. starts' \in [AllCaches -> 0..MaxStarts] /\ \A c \in Caches : starts'[c] = starts[c] + 1
  BY <1>1 DEF StartEviction, TypeOK
<1>3. \A c \in Caches : starts'[c] \in 1..MaxStarts
  BY <1>1, <1>2 DEF TypeOK
<1>4. \A c \in Caches : [cache |-> c, ctx |-> starts'[c], chan |-> 0, at |-> "new"]
                           \in [cache : Caches, ctx : 1..MaxStarts, chan : 0..MaxStarts,
                                at : {"new", "select", "sweep"}]
  BY <1>3
<1>5. loops' = loops \cup {[cache |-> c, ctx |-> starts'[c], chan |-> 0, at |-> "new"] : c \in Caches}
  BY DEF StartEviction
<1>6. over' \subseteq Caches
  BY DEF StartEviction, TypeOK
<1>7. QED
  BY <1>2, <1>4, <1>5, <1>6 DEF TypeOK

LEMMA TypeStep ==
  ASSUME TypeOK, StopInv, LoopInv, ServerInv, Next
  PROVE  TypeOK'
<1> USE MaxStartsAssumption DEF hostVars, loopVars, serverVars, requestVars
<1>0. kind' = kind /\ Caches' = Caches /\ Caches \subseteq AllCaches /\ "first" \in Caches
  BY KindStays DEF Caches, AllCaches
<1>1. CASE Start
  <2>1. server' \in 1..MaxStarts /\ serving' = serving \cup {server'}
    BY <1>0, <1>1 DEF Start, StartEviction, TypeOK, ServerInv
  <2>2. cut' \subseteq 1..MaxStarts
    BY <1>1, <2>1 DEF Start, TypeOK
  <2>3. StartEviction /\ UNCHANGED <<table, stopped, cancelled, closed, panicked, req, via, orphans>>
    BY <1>1 DEF Start, StartEviction
  <2>4. QED
    BY <1>0, <2>1, <2>2, <2>3, StartEvictionType DEF TypeOK
<1>2. CASE Embed
  <2>1. StartEviction /\ UNCHANGED <<table, stopped, cancelled, closed, panicked, server, serving,
                                     cut, req, via, orphans>>
    BY <1>2 DEF Embed, StartEviction
  <2>2. QED
    BY <1>0, <2>1, StartEvictionType DEF TypeOK
<1>3. CASE Stop
  BY <1>0, <1>3 DEF Stop, TypeOK
<1>4. CASE Shut \/ \E c \in Caches : WaitLoop(c)
  BY <1>0, <1>4 DEF Shut, WaitLoop, Do, TypeOK
<1>5. CASE Drain
  <2>1. Head(todo) = <<"drain", "">> /\ todo # <<>>
    BY <1>5 DEF Drain, Do
  <2>2. server \in 1..MaxStarts
    <3>1. Draining
      BY <2>1, HeadFirst DEF Draining
    <3>2. server # 0
      BY <3>1 DEF StopInv
    <3>3. QED
      BY <3>2, MaxStartsAssumption DEF TypeOK
  <2>3. /\ UNCHANGED <<kind, over, req, via, orphans, stopped, starts, loops, cancelled, closed,
                       panicked, table, server, serving>>
        /\ cut' = cut \/ cut' = cut \cup {server}
    BY <1>5 DEF Drain, Do
  <2>4. QED
    BY <1>0, <2>2, <2>3 DEF TypeOK
<1>6. ASSUME NEW c \in Caches, Cancel(c) PROVE TypeOK'
  <2>1. /\ UNCHANGED <<kind, over, req, via, orphans, stopped, starts, loops, closed, panicked,
                       table, server, serving, cut>>
        /\ cancelled' = cancelled \cup {Current(c)}
        /\ todo # <<>> /\ Head(todo) = <<"cancel", c>>
    BY <1>6 DEF Cancel, Do
  <2>2. starts[c] \in 1..MaxStarts
    <3>1. starts[c] # 0
      BY <2>1, HeadFirst DEF StopInv
    <3>2. QED
      BY <1>0, <3>1 DEF TypeOK
  <2>3. QED
    BY <1>0, <2>1, <2>2 DEF TypeOK, Current
<1>7. ASSUME NEW c \in Caches, CloseTable(c) PROVE TypeOK'
  BY <1>0, <1>7 DEF CloseTable, Do, TypeOK
<1>8. CASE ParentCancel
  BY <1>0, <1>8 DEF ParentCancel, TypeOK
<1>9. ASSUME NEW l \in loops, Loop(l) PROVE TypeOK'
  <2> DEFINE Records == [cache : Caches, ctx : 1..MaxStarts, chan : 0..MaxStarts,
                         at : {"new", "select", "sweep"}]
  <2>1. l \in Records
    BY DEF TypeOK
  <2>2. starts[l.cache] \in 0..MaxStarts
    BY <1>0, <2>1 DEF TypeOK
  <2>3. CASE LoopRun(l) \/ LoopTick(l)
    <3>1. /\ UNCHANGED <<kind, over, req, via, orphans, stopped, starts, closed, panicked, cancelled,
                         table, server, serving, cut>>
          /\ \/ loops' = (loops \ {l}) \cup {[l EXCEPT !.at = "select", !.chan = starts[l.cache]]}
             \/ loops' = (loops \ {l}) \cup {[l EXCEPT !.at = "sweep"]}
             \/ loops' = (loops \ {l}) \cup {[l EXCEPT !.at = "select"]}
      BY <2>3 DEF LoopRun, LoopBegin, LoopSwept, LoopTick, Becomes, LoopFrame
    <3>2. /\ [l EXCEPT !.at = "select", !.chan = starts[l.cache]] \in Records
          /\ [l EXCEPT !.at = "sweep"] \in Records /\ [l EXCEPT !.at = "select"] \in Records
      BY <2>1, <2>2
    <3>3. loops \subseteq Records
      BY DEF TypeOK
    <3>4. loops' \subseteq Records
      <4> HIDE DEF Records
      <4>1. QED
        BY <3>1, <3>2, <3>3
    <3>5. QED
      BY <1>0, <3>1, <3>4 DEF TypeOK
  <2>4. CASE LoopExit(l)
    <3>1. l.chan \in 1..MaxStarts
      BY <2>1, <2>4 DEF LoopExit, LoopInv
    <3>2. /\ UNCHANGED <<kind, over, req, via, orphans, stopped, starts, cancelled,
                         table, server, serving, cut>>
          /\ loops' \subseteq loops /\ panicked' \in BOOLEAN
          /\ closed' = closed \cup {<<l.cache, l.chan>>}
      BY <2>4 DEF LoopExit, Becomes, LoopFrame
    <3>3. QED
      BY <1>0, <2>1, <3>1, <3>2 DEF TypeOK
  <2>5. QED
    BY <1>9, <2>3, <2>4 DEF Loop
<1>10. ASSUME NEW r \in Requests, Accept(r) \/ Store(r) PROVE TypeOK'
  <2>1. \A g \in serving : g \in 0..MaxStarts
    BY DEF TypeOK
  <2>2. /\ UNCHANGED <<kind, over, stopped, starts, loops, cancelled, closed, panicked, table,
                       server, serving, cut>>
        /\ orphans' \subseteq Requests
        /\ req' = [req EXCEPT ![r] = "busy"] \/ req' = [req EXCEPT ![r] = "done"]
        /\ via' = via \/ \E g \in serving : via' = [via EXCEPT ![r] = g]
    BY <1>10 DEF Accept, Store, TypeOK
  <2>3. req' \in [Requests -> {"new", "busy", "done"}] /\ via' \in [Requests -> 0..MaxStarts]
    BY <2>1, <2>2 DEF TypeOK
  <2>4. QED
    BY <1>0, <2>2, <2>3 DEF TypeOK
<1>11. QED
  BY <1>1, <1>2, <1>3, <1>4, <1>5, <1>6, <1>7, <1>8, <1>9, <1>10 DEF Next, HostStep

-----------------------------------------------------------------------------
(* Eviction loops *)

\* No Stop waits twice for a loop of a cache that has one: before it closes the table it
\* has waited for the channel that loop closes when it ends.
LEMMA CloseHasWaited ==
  ASSUME StopInv, NEW c \in Caches, CloseTable(c)
  PROVE  starts[c] = 0 \/ Current(c) \in closed
<1>1. todo # <<>> /\ Head(todo) = <<"close", c>>
  BY DEF CloseTable, Do
<1>2. 1 \in 1..Len(todo) /\ todo[1] = <<"close", c>>
  BY <1>1, HeadFirst
<1>3. After(<<"close", c>>, <<"wait", c>>, starts[c] = 0 \/ Current(c) \in closed)
  BY DEF StopInv
<1>4. QED
  BY <1>2, <1>3 DEF After

LEMMA LoopStep ==
  ASSUME TypeOK, StopInv, LoopInv, Next
  PROVE  LoopInv'
<1> USE MaxStartsAssumption
<1>0. kind' = kind /\ Caches' = Caches /\ Caches \subseteq AllCaches
  BY KindStays DEF Caches, AllCaches
<1>1. \A c \in Caches : starts[c] \in 0..MaxStarts /\ stopped[c] \in 0..MaxStarts
  BY <1>0 DEF TypeOK
<1>2. \A l \in loops : l.cache \in Caches /\ l.ctx \in 1..MaxStarts /\ l.chan \in 0..MaxStarts
  BY DEF TypeOK
<1>3. CASE UNCHANGED <<starts, loops, closed, stopped, over>>
  BY <1>0, <1>3 DEF LoopInv, Current
<1>4. ASSUME StartEviction, UNCHANGED stopped PROVE LoopInv'
  <2>1. \A c \in Caches : starts'[c] = starts[c] + 1
    BY <1>0, <1>4, StartEvictionType
  <2>2. closed' = closed /\ over' = over \cup {c \in Caches : starts[c] # stopped[c]}
        /\ stopped' = stopped
    BY <1>4 DEF StartEviction
  <2>3. \A l \in loops' : \/ l \in loops
                         \/ /\ l.cache \in Caches /\ l.ctx = starts'[l.cache] /\ l.chan = 0
                            /\ l.at = "new"
                            /\ l = [cache |-> l.cache, ctx |-> starts'[l.cache], chan |-> 0, at |-> "new"]
    BY <1>4 DEF StartEviction
  <2>4. \A c \in Caches \ over' : c \notin over /\ stopped[c] = starts[c]
                                 /\ \A l \in loops : l.cache # c
    BY <2>2 DEF LoopInv
  <2>5. \A l \in loops' : /\ l.ctx <= starts'[l.cache] /\ l.chan <= starts'[l.cache]
                          /\ (l.at # "new" => l.chan # 0)
    BY <1>1, <1>2, <2>1, <2>3 DEF LoopInv
  <2>6. \A c \in Caches, n \in 1..MaxStarts : <<c, n>> \in closed' => n <= starts'[c]
    BY <1>1, <2>1, <2>2 DEF LoopInv
  <2>7. ASSUME NEW c \in Caches \ over'
        PROVE  /\ \A l \in loops' :
                    l.cache = c =>
                      /\ l.ctx = starts'[c] /\ (l.at # "new" => l.chan = starts'[c])
                      /\ stopped'[c] # starts'[c] /\ <<c, starts'[c]>> \notin closed'
               /\ \A l, m \in loops' : l.cache = c /\ m.cache = c => l = m
    <3>1. c \in Caches /\ starts'[c] = starts[c] + 1 /\ stopped'[c] = starts[c]
          /\ starts'[c] \in 1..MaxStarts
      BY <1>0, <1>1, <1>4, <2>1, <2>2, <2>4 DEF StartEviction
    <3>2. <<c, starts'[c]>> \notin closed'
      BY <1>1, <2>2, <3>1 DEF LoopInv
    <3>3. QED
      BY <1>1, <2>3, <2>4, <2>7, <3>1, <3>2
  <2>8. QED
    BY <1>0, <2>5, <2>6, <2>7 DEF LoopInv, Current
<1>5. ASSUME NEW c \in Caches, CloseTable(c) PROVE LoopInv'
  <2>1. starts[c] = 0 \/ Current(c) \in closed
    BY <1>5, CloseHasWaited
  <2>2. UNCHANGED <<starts, loops, closed, over>> /\ stopped' = [stopped EXCEPT ![c] = starts[c]]
    BY <1>5 DEF CloseTable, Do, loopVars
  <2>3. c \in over \/ \A l \in loops : l.cache # c
    BY <1>2, <2>1 DEF LoopInv
  <2>4. \A d \in Caches : d # c => stopped'[d] = stopped[d]
    BY <1>0, <2>2 DEF TypeOK
  <2>5. QED
    BY <1>0, <2>2, <2>3, <2>4 DEF LoopInv, Current
<1>6. ASSUME NEW l \in loops, LoopRun(l) \/ LoopTick(l) PROVE LoopInv'
  <2>1. PICK m : /\ loops' = (loops \ {l}) \cup {m}
                 /\ m.cache = l.cache /\ m.ctx = l.ctx /\ m.at # "new"
                 /\ \/ l.at = "new" /\ m.chan = starts[l.cache]
                    \/ l.at # "new" /\ m.chan = l.chan
    <3>1. l \in [cache : Caches, ctx : 1..MaxStarts, chan : 0..MaxStarts,
                 at : {"new", "select", "sweep"}]
      BY DEF TypeOK
    <3>2. \/ /\ l.at = "new"
             /\ loops' = (loops \ {l}) \cup {[l EXCEPT !.at = "select", !.chan = starts[l.cache]]}
          \/ l.at # "new" /\ \E at \in {"sweep", "select"} :
                                loops' = (loops \ {l}) \cup {[l EXCEPT !.at = at]}
      BY <1>6 DEF LoopRun, LoopBegin, LoopSwept, LoopTick, Becomes
    <3>3. CASE l.at = "new"
      <4>1. LET m == [l EXCEPT !.at = "select", !.chan = starts[l.cache]]
            IN  /\ loops' = (loops \ {l}) \cup {m}
                /\ m.cache = l.cache /\ m.ctx = l.ctx /\ m.at # "new" /\ m.chan = starts[l.cache]
        BY <3>1, <3>2, <3>3
      <4>2. QED
        BY <3>3, <4>1
    <3>4. CASE l.at # "new"
      <4>1. PICK at \in {"sweep", "select"} : loops' = (loops \ {l}) \cup {[l EXCEPT !.at = at]}
        BY <3>2, <3>4
      <4>2. LET m == [l EXCEPT !.at = at]
            IN  m.cache = l.cache /\ m.ctx = l.ctx /\ m.at # "new" /\ m.chan = l.chan
        BY <3>1
      <4>3. QED
        BY <3>4, <4>1, <4>2
    <3>5. QED
      BY <3>3, <3>4
  <2>2. UNCHANGED <<starts, stopped, closed, over>>
    BY <1>6 DEF LoopRun, LoopBegin, LoopSwept, LoopTick, LoopFrame, hostVars
  <2>3. starts[l.cache] # 0 /\ l.cache \in Caches
    BY <1>1, <1>2 DEF LoopInv
  <2>4. \A k \in loops' : /\ k.ctx <= starts[k.cache] /\ k.chan <= starts[k.cache]
                          /\ (k.at # "new" => k.chan # 0)
    BY <1>1, <1>2, <2>1, <2>3 DEF LoopInv
  <2>5. \A c \in Caches \ over :
          /\ \A k \in loops' :
               k.cache = c =>
                 /\ k.ctx = starts[c] /\ (k.at # "new" => k.chan = starts[c])
                 /\ stopped[c] # starts[c] /\ <<c, starts[c]>> \notin closed
          /\ \A j, k \in loops' : j.cache = c /\ k.cache = c => j = k
    BY <1>1, <1>2, <2>1, <2>3 DEF LoopInv, Current
  <2>6. QED
    BY <1>0, <2>2, <2>4, <2>5 DEF LoopInv, Current
<1>7. ASSUME NEW l \in loops, LoopExit(l) PROVE LoopInv'
  <2>1. /\ UNCHANGED <<starts, stopped, over>> /\ loops' = loops \ {l}
        /\ closed' = closed \cup {<<l.cache, l.chan>>}
    BY <1>7 DEF LoopExit, Becomes, LoopFrame, hostVars
  <2>2. l.cache \in Caches /\ l.chan <= starts[l.cache]
    BY <1>2 DEF LoopInv
  <2>3. \A c \in Caches, n \in 1..MaxStarts : <<c, n>> \in closed' => n <= starts[c]
    BY <2>1, <2>2 DEF LoopInv
  <2>4. \A c \in Caches \ over : \A k \in loops' : k.cache = c => c # l.cache
    BY <2>1 DEF LoopInv
  <2>5. \A c \in Caches \ over : \A k \in loops' : k.cache = c => <<c, starts[c]>> \notin closed'
    BY <2>1, <2>4 DEF LoopInv, Current
  <2>6. QED
    BY <1>0, <2>1, <2>3, <2>5 DEF LoopInv, Current
<1>8. CASE Start \/ Embed
  BY <1>4, <1>8 DEF Start, Embed
<1>9. CASE Stop \/ Shut \/ Drain \/ ParentCancel
  BY <1>3, <1>9 DEF Stop, Shut, Drain, ParentCancel, Do, hostVars, loopVars
<1>10. ASSUME NEW c \in Caches, Cancel(c) \/ WaitLoop(c) PROVE LoopInv'
  BY <1>3, <1>10 DEF Cancel, WaitLoop, Do, loopVars
<1>11. ASSUME NEW r \in Requests, Accept(r) \/ Store(r) PROVE LoopInv'
  BY <1>3, <1>11 DEF Accept, Store, hostVars, loopVars
<1>12. QED
  BY <1>5, <1>6, <1>7, <1>8, <1>9, <1>10, <1>11 DEF Next, HostStep, Loop

-----------------------------------------------------------------------------
(* The order of Stop *)

\* After one step of a plan the rest is still in order, if the step has done what it is for.
LEMMA DoInOrder ==
  ASSUME TypeOK, StopInv, NEW step, NEW d, Do(step, d),
         starts' = starts, closed \subseteq closed', server' = server,
         step = "wait" => Current(d) \in closed,
         step = "shut" => server' \notin serving',
         step = "drain" => (server \notin serving => Quiet'),
         server \notin serving => server' \notin serving',
         Quiet => Quiet'
  PROVE  StopInv'
<1>1. todo \in Seq(Steps) /\ todo # <<>> /\ todo[1] = <<step, d>> /\ todo' = Tail(todo)
  BY HeadFirst DEF Do
<1>2. todo' \in Seq(Steps)
  BY <1>1
<1>3. \A i \in 1..Len(todo') :
         /\ i + 1 \in 1..Len(todo) /\ todo'[i] = todo[i + 1]
         /\ \A j \in 1..i : j # 1 => j - 1 \in 1..(i - 1) /\ todo'[j - 1] = todo[j]
         /\ \A j \in (i + 2)..Len(todo) :
              j - 1 \in (i + 1)..Len(todo') /\ todo'[j - 1] = todo[j]
  BY <1>1, TailBefore
<1>4. Caches' = Caches
  BY DEF Do, Caches
<1>head. todo[1] = <<step, d>>
  BY <1>1
<1>shut. ASSUME todo[1] = <<"shut", "">> PROVE step = "shut"
  <2>1. <<step, d>> = <<"shut", "">>
    BY <1>head, <1>shut
  <2>2. QED
    BY <2>1
<1>drain. ASSUME todo[1] = <<"drain", "">> PROVE step = "drain"
  <2>1. <<step, d>> = <<"drain", "">>
    BY <1>head, <1>drain
  <2>2. QED
    BY <2>1
<1>int. \A i \in 1..Len(todo') : (i + 1) - 1 = i /\ (i + 1) + 1 = i + 2
  BY <1>2
<1>5. ASSUME NEW y, NEW x, NEW i \in 1..Len(todo'), todo'[i] = y,
             \E j \in 1..i : todo[j] = x
      PROVE  todo[1] = x \/ \E j \in 1..(i - 1) : todo'[j] = x
  BY <1>3, <1>5
<1>6. ASSUME NEW c \in Caches, NEW i \in 1..Len(todo'), todo'[i] = <<"close", c>>
      PROVE  (starts[c] = 0 \/ <<c, starts[c]>> \in closed')
               \/ \E j \in 1..(i - 1) : todo'[j] = <<"wait", c>>
  <2>1. i + 1 \in 1..Len(todo) /\ todo[i + 1] = <<"close", c>>
    BY <1>3, <1>6
  <2>2. starts[c] = 0 \/ Current(c) \in closed \/ \E j \in 1..((i + 1) - 1) : todo[j] = <<"wait", c>>
    BY <2>1 DEF StopInv, After
  <2>3. CASE \E j \in 1..i : todo[j] = <<"wait", c>>
    <3>1. CASE todo[1] = <<"wait", c>>
      BY <1>1, <3>1 DEF Current
    <3>2. QED
      BY <1>5, <1>6, <2>3, <3>1
  <2>4. QED
    BY <2>2, <2>3 DEF Current
<1>7. ASSUME NEW i \in 1..Len(todo'), todo'[i] = <<"drain", "">>
      PROVE  server' \notin serving' \/ \E j \in 1..(i - 1) : todo'[j] = <<"shut", "">>
  <2>1. i + 1 \in 1..Len(todo) /\ todo[i + 1] = <<"drain", "">>
    BY <1>3, <1>7
  <2>2. server \notin serving \/ \E j \in 1..i : todo[j] = <<"shut", "">>
    BY <1>int, <2>1 DEF StopInv, After
  <2>3. CASE \E j \in 1..i : todo[j] = <<"shut", "">>
    <3>1. CASE todo[1] = <<"shut", "">>
      BY <1>shut, <3>1
    <3>2. QED
      BY <1>5, <1>7, <2>3, <3>1
  <2>4. CASE server \notin serving
    BY <2>4
  <2>5. QED
    BY <2>2, <2>3, <2>4
<1>8. ASSUME kind' = "s3", NEW i \in 1..Len(todo'), todo'[i] = <<"close", "first">>
      PROVE  (server' \notin serving' /\ Quiet') \/ \E j \in 1..(i - 1) : todo'[j] = <<"drain", "">>
  <2>1. kind = "s3" /\ i + 1 \in 1..Len(todo) /\ todo[i + 1] = <<"close", "first">>
    BY <1>3, <1>8 DEF Do
  <2>2. (server \notin serving /\ Quiet) \/ \E j \in 1..i : todo[j] = <<"drain", "">>
    BY <1>int, <2>1 DEF StopInv, After
  <2>3. CASE \E j \in 1..i : todo[j] = <<"drain", "">>
    <3>1. CASE todo[1] = <<"drain", "">>
      <4>1. step = "drain"
        BY <1>drain, <3>1
      <4>2. server \notin serving
        <5>1. 1 \in 1..Len(todo) /\ 1..(1 - 1) = {}
          BY <1>1
        <5>2. After(<<"drain", "">>, <<"shut", "">>, server \notin serving)
          BY DEF StopInv
        <5>3. QED
          BY <3>1, <5>1, <5>2 DEF After
      <4>3. QED
        BY <4>1, <4>2
    <3>2. QED
      BY <1>5, <1>8, <2>3, <3>1
  <2>4. CASE server \notin serving /\ Quiet
    BY <2>4
  <2>5. QED
    BY <2>2, <2>3, <2>4
<1>9. ASSUME NEW i \in 1..Len(todo'), todo'[i] = <<"shut", "">>
      PROVE  \E j \in (i + 1)..Len(todo') : todo'[j] = <<"drain", "">>
  <2>1. PICK j \in (i + 2)..Len(todo) : todo[j] = <<"drain", "">>
    <3>1. i + 1 \in 1..Len(todo) /\ todo[i + 1] = <<"shut", "">>
      BY <1>3, <1>9
    <3>2. \E j \in ((i + 1) + 1)..Len(todo) : todo[j] = <<"drain", "">>
      BY <3>1 DEF StopInv
    <3>3. QED
      BY <1>int, <3>2
  <2>2. QED
    BY <1>3, <2>1
<1>10. \A c \in Caches, i \in 1..Len(todo') : todo'[i] = <<"cancel", c>> => starts'[c] # 0
  BY <1>3 DEF StopInv
<1>11. Draining' => server' # 0
  BY <1>3 DEF StopInv, Draining
<1>12. QED
  BY <1>2, <1>4, <1>6, <1>7, <1>8, <1>9, <1>10, <1>11 DEF StopInv, After, Current

\* In the plan s, every y comes after an x.
Before(s, y, x) == \A i \in 1..Len(s) : s[i] = y => \E j \in 1..(i - 1) : s[j] = x
Absent(s, y) == \A i \in 1..Len(s) : s[i] # y
\* ... and after every x there is a y.
Followed(s, x, y) == \A i \in 1..Len(s) : s[i] = x => \E j \in (i + 1)..Len(s) : s[j] = y

\* Two plans, one after the other: order is kept within each, and between the two.
LEMMA Concat ==
  ASSUME NEW s \in Seq(Steps), NEW t \in Seq(Steps)
  PROVE  /\ s \o t \in Seq(Steps) /\ Len(s \o t) = Len(s) + Len(t)
         /\ \A i \in 1..Len(s) : i \in 1..Len(s \o t) /\ (s \o t)[i] = s[i]
         /\ \A i \in 1..Len(t) :
              Len(s) + i \in 1..Len(s \o t) /\ (s \o t)[Len(s) + i] = t[i]
         /\ \A i \in 1..Len(s \o t) :
              \/ i \in 1..Len(s)
              \/ i - Len(s) \in 1..Len(t) /\ (s \o t)[i] = t[i - Len(s)]
  OBVIOUS

LEMMA ConcatAbsent ==
  ASSUME NEW s \in Seq(Steps), NEW t \in Seq(Steps), NEW y, Absent(s, y), Absent(t, y)
  PROVE  Absent(s \o t, y)
BY Concat DEF Absent

LEMMA ConcatBefore ==
  ASSUME NEW s \in Seq(Steps), NEW t \in Seq(Steps), NEW y, NEW x,
         Before(s, y, x), Before(t, y, x)
  PROVE  Before(s \o t, y, x)
<1> DEFINE u == s \o t
<1> SUFFICES ASSUME NEW i \in 1..Len(u), u[i] = y
             PROVE  \E j \in 1..(i - 1) : u[j] = x
  BY DEF Before
<1>1. CASE i \in 1..Len(s)
  <2>1. PICK j \in 1..(i - 1) : s[j] = x
    BY <1>1, Concat DEF Before
  <2>2. j \in 1..Len(s)
    BY <1>1
  <2>3. QED
    BY <2>1, <2>2, Concat
<1>2. CASE i - Len(s) \in 1..Len(t) /\ u[i] = t[i - Len(s)]
  <2>1. PICK j \in 1..((i - Len(s)) - 1) : t[j] = x
    BY <1>2 DEF Before
  <2>2. j \in 1..Len(t) /\ Len(s) + j \in 1..(i - 1)
    BY <1>2
  <2>3. u[Len(s) + j] = x
    BY <2>1, <2>2, Concat
  <2>4. QED
    BY <2>2, <2>3
<1>3. QED
  BY <1>1, <1>2, Concat

LEMMA ConcatFollowed ==
  ASSUME NEW s \in Seq(Steps), NEW t \in Seq(Steps), NEW x, NEW y,
         Followed(s, x, y), Followed(t, x, y)
  PROVE  Followed(s \o t, x, y)
<1> DEFINE u == s \o t
<1> SUFFICES ASSUME NEW i \in 1..Len(u), u[i] = x
             PROVE  \E j \in (i + 1)..Len(u) : u[j] = y
  BY DEF Followed
<1>1. CASE i \in 1..Len(s)
  <2>1. PICK j \in (i + 1)..Len(s) : s[j] = y
    BY <1>1, Concat DEF Followed
  <2>2. j \in 1..Len(s)
    BY <1>1
  <2>3. j \in (i + 1)..Len(u)
    BY <2>1, <2>2, Concat
  <2>4. QED
    BY <2>1, <2>2, <2>3, Concat
<1>2. CASE i - Len(s) \in 1..Len(t) /\ u[i] = t[i - Len(s)]
  <2>1. PICK j \in ((i - Len(s)) + 1)..Len(t) : t[j] = y
    BY <1>2 DEF Followed
  <2>2. j \in 1..Len(t) /\ Len(s) + j \in (i + 1)..(Len(s) + Len(t))
    BY <1>2
  <2>3. u[Len(s) + j] = y
    BY <2>1, <2>2, Concat
  <2>4. QED
    BY <2>2, <2>3, Concat
<1>3. QED
  BY <1>1, <1>2, Concat

LEMMA ConcatAfter ==
  ASSUME NEW s \in Seq(Steps), NEW t \in Seq(Steps), NEW y, NEW x,
         Absent(s, y), ~Absent(s, x)
  PROVE  Before(s \o t, y, x)
<1>1. PICK j \in 1..Len(s) : s[j] = x
  BY DEF Absent
<1>2. (s \o t)[j] = x
  BY <1>1, Concat
<1>3. \A i \in 1..Len(s \o t) : (s \o t)[i] = y => j \in 1..(i - 1)
  BY <1>1, Concat DEF Absent
<1>4. QED
  BY <1>2, <1>3 DEF Before

LEMMA TwoSteps ==
  ASSUME NEW x \in Steps, NEW y \in Steps, x # y
  PROVE  LET s == <<x, y>>
         IN  /\ s \in Seq(Steps) /\ Len(s) = 2 /\ s[1] = x /\ s[2] = y
             /\ Before(s, y, x) /\ Followed(s, x, y) /\ ~Absent(s, y)
             /\ \A z : z \notin {x, y} => Absent(s, z)
BY DEF Before, Absent, Followed

\* What Cache.Stop sets out to do ...
LEMMA CacheStopSteps ==
  ASSUME NEW c \in AllCaches
  PROVE  /\ CacheStop(c) \in Seq(Steps)
         /\ \A y : y \notin {<<"cancel", c>>, <<"wait", c>>, <<"close", c>>} => Absent(CacheStop(c), y)
         /\ starts[c] = 0 => Absent(CacheStop(c), <<"cancel", c>>)
         /\ starts[c] # 0 => Before(CacheStop(c), <<"close", c>>, <<"wait", c>>)
<1>1. <<"close", c>> \in Steps /\ <<"cancel", c>> \in Steps /\ <<"wait", c>> \in Steps
  BY DEF Steps
<1> DEFINE last == <<<<"close", c>>>>
           before == <<<<"cancel", c>>, <<"wait", c>>>>
<1>2. last \in Seq(Steps) /\ Len(last) = 1 /\ last[1] = <<"close", c>>
  BY <1>1
<1>3. /\ before \in Seq(Steps) /\ Len(before) = 2
      /\ before[1] = <<"cancel", c>> /\ before[2] = <<"wait", c>>
  BY <1>1
<1>4. <<>> \o last = last /\ <<>> \in Seq(Steps)
  BY <1>2
<1>5. CASE starts[c] = 0
  <2>1. CacheStop(c) = last
    BY <1>4, <1>5 DEF CacheStop
  <2>2. QED
    BY <1>2, <1>5, <2>1 DEF Absent
<1>6. CASE starts[c] # 0
  <2>1. CacheStop(c) = before \o last
    BY <1>6 DEF CacheStop
  <2> HIDE DEF before, last
  <2>2. Absent(before, <<"close", c>>) /\ ~Absent(before, <<"wait", c>>)
    BY <1>3 DEF Absent
  <2>3. \A y : y \notin {<<"cancel", c>>, <<"wait", c>>, <<"close", c>>} =>
                 Absent(before, y) /\ Absent(last, y)
    BY <1>2, <1>3 DEF Absent
  <2>4. QED
    BY <1>2, <1>3, <1>6, <2>1, <2>2, <2>3, Concat, ConcatAbsent, ConcatAfter
<1>7. QED
  BY <1>5, <1>6

\* ... and Server.Stop besides.
LEMMA ShutdownSteps ==
  /\ Shutdown \in Seq(Steps)
  /\ \A y : y \notin {<<"shut", "">>, <<"drain", "">>} => Absent(Shutdown, y)
  /\ server = 0 => Absent(Shutdown, <<"shut", "">>) /\ Absent(Shutdown, <<"drain", "">>)
  /\ server # 0 => /\ Before(Shutdown, <<"drain", "">>, <<"shut", "">>)
                   /\ Followed(Shutdown, <<"shut", "">>, <<"drain", "">>)
                   /\ ~Absent(Shutdown, <<"drain", "">>)
<1>1. <<"shut", "">> \in Steps /\ <<"drain", "">> \in Steps
  BY DEF Steps
<1>2. CASE server = 0
  <2>1. Shutdown = <<>>
    BY <1>2 DEF Shutdown
  <2>2. QED
    BY <1>2, <2>1 DEF Absent
<1>3. CASE server # 0
  <2>1. <<"shut", "">> # <<"drain", "">>
    OBVIOUS
  <2>2. Shutdown = <<<<"shut", "">>, <<"drain", "">>>>
    BY <1>3 DEF Shutdown
  <2>3. QED
    BY <1>1, <1>3, <2>1, <2>2, TwoSteps
<1>4. QED
  BY <1>2, <1>3

\* Every plan that Stop sets out with is in order.
LEMMA PlanInOrder ==
  ASSUME TypeOK, ServerInv, Stop
  PROVE  StopInv'
<1>1. /\ todo' = StopPlan /\ UNCHANGED <<kind, starts, closed, server, serving, cut, req, via>>
      /\ Caches' = Caches
  BY DEF Stop, Caches, loopVars, serverVars, requestVars
<1>2. server = 0 => server \notin serving /\ Quiet
  BY DEF TypeOK, Quiet
<1>3. Quiet' = Quiet
  BY <1>1 DEF Quiet, InFlight
<1>4. "first" \in AllCaches /\ "second" \in AllCaches /\ Caches \subseteq AllCaches
  BY DEF AllCaches, Caches
\* What it takes, of a plan of any kind of server.
<1>5. SUFFICES /\ todo' \in Seq(Steps)
               /\ \A c \in Caches : IF starts[c] = 0 THEN Absent(todo', <<"cancel", c>>)
                                  ELSE Before(todo', <<"close", c>>, <<"wait", c>>)
               /\ server = 0 => Absent(todo', <<"drain", "">>) /\ Absent(todo', <<"shut", "">>)
               /\ server # 0 => /\ Before(todo', <<"drain", "">>, <<"shut", "">>)
                                /\ Followed(todo', <<"shut", "">>, <<"drain", "">>)
                                /\ kind = "s3" => Before(todo', <<"close", "first">>, <<"drain", "">>)
  <2>1. kind' = "s3" => server # 0 \/ (server' \notin serving' /\ Quiet')
    BY <1>1, <1>2, <1>3
  <2>2. server = 0 => server' \notin serving'
    BY <1>1, <1>2
  <2>3. QED
    BY <1>1, <1>5, <2>1, <2>2 DEF StopInv, After, Draining, Absent, Before, Followed,
                                              Current
<1> DEFINE InOrder(s) == \A c \in AllCaches :
                            IF starts[c] = 0 THEN Absent(s, <<"cancel", c>>)
                            ELSE Before(s, <<"close", c>>, <<"wait", c>>)
<1>7. \A c \in AllCaches : /\ CacheStop(c) \in Seq(Steps) /\ InOrder(CacheStop(c))
                           /\ Absent(CacheStop(c), <<"shut", "">>)
                           /\ Absent(CacheStop(c), <<"drain", "">>)
  <2> TAKE d \in AllCaches
  <2>1. /\ <<"shut", "">> \notin {<<"cancel", d>>, <<"wait", d>>, <<"close", d>>}
        /\ <<"drain", "">> \notin {<<"cancel", d>>, <<"wait", d>>, <<"close", d>>}
    OBVIOUS
  <2>2. ASSUME NEW c \in AllCaches
        PROVE  IF starts[c] = 0 THEN Absent(CacheStop(d), <<"cancel", c>>)
               ELSE Before(CacheStop(d), <<"close", c>>, <<"wait", c>>)
    <3>1. CASE c = d
      BY <3>1, CacheStopSteps
    <3>2. CASE c # d
      <4>1. /\ <<"cancel", c>> \notin {<<"cancel", d>>, <<"wait", d>>, <<"close", d>>}
            /\ <<"close", c>> \notin {<<"cancel", d>>, <<"wait", d>>, <<"close", d>>}
        BY <3>2
      <4>2. Absent(CacheStop(d), <<"cancel", c>>) /\ Absent(CacheStop(d), <<"close", c>>)
        BY <4>1, CacheStopSteps
      <4>3. QED
        BY <4>2 DEF Absent, Before
    <3>3. QED
      BY <3>1, <3>2
  <2>3. QED
    BY <2>1, <2>2, CacheStopSteps
<1>8. Shutdown \in Seq(Steps) /\ InOrder(Shutdown)
      /\ Absent(Shutdown, <<"close", "first">>)
  BY ShutdownSteps DEF Absent, Before
<1>9. \A s \in Seq(Steps), t \in Seq(Steps) :
          InOrder(s) /\ InOrder(t) => s \o t \in Seq(Steps) /\ InOrder(s \o t)
  BY Concat, ConcatAbsent, ConcatBefore
<1>10. \A s \in Seq(Steps), t \in Seq(Steps) : \A y, x :
          /\ Absent(s, y) => Before(s, y, x) /\ Followed(s, y, x)
          /\ Absent(s, y) /\ Absent(t, y) => Absent(s \o t, y)
  BY ConcatAbsent DEF Absent, Before, Followed
<1> HIDE DEF InOrder
<1>11. CASE kind = "git"
  <2>1. todo' = CacheStop("first") \o CacheStop("second") /\ kind # "s3"
    BY <1>1, <1>11 DEF StopPlan
  <2>2. todo' \in Seq(Steps) /\ InOrder(todo')
    BY <1>4, <1>7, <1>9, <2>1
  <2>3. Absent(todo', <<"shut", "">>) /\ Absent(todo', <<"drain", "">>)
    BY <1>4, <1>7, <1>10, <2>1
  <2>4. QED
    BY <1>4, <1>10, <2>1, <2>2, <2>3 DEF InOrder
<1>12. CASE kind = "npm"
  <2>1. todo' = CacheStop("first") \o Shutdown /\ kind # "s3"
    BY <1>1, <1>12 DEF StopPlan
  <2>2. todo' \in Seq(Steps) /\ InOrder(todo')
    BY <1>4, <1>7, <1>8, <1>9, <2>1
  <2>3. CASE server = 0
    <3>1. Absent(todo', <<"shut", "">>) /\ Absent(todo', <<"drain", "">>)
      BY <1>4, <1>7, <1>8, <1>10, <2>1, <2>3, ShutdownSteps
    <3>2. QED
      BY <1>4, <2>1, <2>2, <2>3, <3>1 DEF InOrder
  <2>4. CASE server # 0
    <3>1. Before(todo', <<"drain", "">>, <<"shut", "">>)
      BY <1>4, <1>7, <1>8, <1>10, <2>1, <2>4, ShutdownSteps, ConcatBefore
    <3>2. Followed(todo', <<"shut", "">>, <<"drain", "">>)
      BY <1>4, <1>7, <1>8, <1>10, <2>1, <2>4, ShutdownSteps, ConcatFollowed
    <3>3. QED
      BY <1>4, <2>1, <2>2, <2>4, <3>1, <3>2 DEF InOrder
  <2>5. QED
    BY <2>3, <2>4
<1>13. CASE kind = "s3"
  <2>1. todo' = Shutdown \o CacheStop("first")
    BY <1>1, <1>13 DEF StopPlan
  <2>2. todo' \in Seq(Steps) /\ InOrder(todo')
    BY <1>4, <1>7, <1>8, <1>9, <2>1
  <2>3. CASE server = 0
    <3>1. Absent(todo', <<"shut", "">>) /\ Absent(todo', <<"drain", "">>)
      BY <1>4, <1>7, <1>8, <1>10, <2>1, <2>3, ShutdownSteps
    <3>2. QED
      BY <1>4, <2>2, <2>3, <3>1 DEF InOrder
  <2>4. CASE server # 0
    <3>1. Before(todo', <<"drain", "">>, <<"shut", "">>)
      BY <1>4, <1>7, <1>8, <1>10, <2>1, <2>4, ShutdownSteps, ConcatBefore
    <3>2. Followed(todo', <<"shut", "">>, <<"drain", "">>)
      BY <1>4, <1>7, <1>8, <1>10, <2>1, <2>4, ShutdownSteps, ConcatFollowed
    <3>3. Before(todo', <<"close", "first">>, <<"drain", "">>)
      BY <1>4, <1>7, <1>8, <2>1, <2>4, ShutdownSteps, ConcatAfter
    <3>4. QED
      BY <1>4, <2>2, <2>4, <3>1, <3>2, <3>3 DEF InOrder
  <2>5. QED
    BY <2>3, <2>4
<1>14. QED
  BY <1>11, <1>12, <1>13 DEF TypeOK

\* A request that comes or goes disturbs no peace: a server that does not serve accepts none.
LEMMA QuietRequests ==
  ASSUME TypeOK, ServerInv, NEW r \in Requests, Accept(r) \/ Store(r), server \notin serving, Quiet
  PROVE  Quiet'
<1>1. UNCHANGED <<server, cut>>
  BY DEF Accept, Store, serverVars
<1>2. CASE server # 0
  <2>1. InFlight' \subseteq InFlight
    <3>1. CASE Accept(r)
      <4>1. /\ via[r] = 0 /\ req' = [req EXCEPT ![r] = "busy"]
            /\ via' = via \/ \E g \in serving : via' = [via EXCEPT ![r] = g] /\ g # server
        BY <3>1 DEF Accept, ServerInv
      <4>2. QED
        BY <1>1, <1>2, <4>1 DEF InFlight, TypeOK
    <3>2. CASE Store(r)
      BY <1>1, <3>2 DEF Store, InFlight, TypeOK
    <3>3. QED
      BY <3>1, <3>2
  <2>2. QED
    BY <1>1, <2>1 DEF Quiet
<1>3. QED
  BY <1>1, <1>2 DEF Quiet

LEMMA StopStep ==
  ASSUME TypeOK, StopInv, LoopInv, ServerInv, Next
  PROVE  StopInv'
<1>1. CASE Start \/ Embed
  <2>1. todo' = <<>>
    BY <1>1 DEF Start, Embed
  <2>2. todo' \in Seq(Steps) /\ 1..Len(todo') = {}
    BY <2>1
  <2>3. QED
    BY <2>2 DEF StopInv, After, Draining
<1>2. CASE Stop
  BY <1>2, PlanInOrder
<1>3. CASE Shut
  <2>1. Do("shut", "") /\ server' \notin serving'
        /\ UNCHANGED <<starts, closed, server, cut, req, via>>
    BY <1>3 DEF Shut, Do, loopVars, requestVars
  <2>2. Quiet' = Quiet
    BY <2>1 DEF Quiet, InFlight
  <2>3. QED
    BY <2>1, <2>2, DoInOrder
<1>4. CASE Drain
  <2>1. /\ Do("drain", "") /\ UNCHANGED <<starts, closed, server, serving, req, via>>
        /\ cut \subseteq cut' /\ (InFlight = {} \/ server \in cut')
    BY <1>4 DEF Drain, Do, loopVars, requestVars
  <2>2. Quiet'
    BY <2>1 DEF Quiet, InFlight
  <2>3. server \notin serving => server' \notin serving'
    BY <2>1
  <2>4. QED
    BY <2>1, <2>2, <2>3, DoInOrder
<1>5. ASSUME NEW c \in Caches, Cancel(c) \/ WaitLoop(c) \/ CloseTable(c) PROVE StopInv'
  <2>1. /\ Do("cancel", c) \/ (Do("wait", c) /\ Current(c) \in closed) \/ Do("close", c)
        /\ UNCHANGED <<starts, closed, server, serving, cut, req, via>>
    BY <1>5 DEF Cancel, WaitLoop, CloseTable, Do, loopVars, serverVars, requestVars
  <2>2. Quiet' = Quiet
    BY <2>1 DEF Quiet, InFlight
  <2>3. server \notin serving => server' \notin serving'
    BY <2>1
  <2>4. QED
    BY <2>1, <2>2, <2>3, DoInOrder
<1>6. ASSUME UNCHANGED <<kind, todo, starts, server>>, closed \subseteq closed',
             server \notin serving => server' \notin serving', server \notin serving /\ Quiet => Quiet'
      PROVE  StopInv'
  <2>1. Caches' = Caches
    BY <1>6 DEF Caches
  <2>2. \A c \in Caches : After(<<"close", c>>, <<"wait", c>>, starts[c] = 0 \/ Current(c) \in closed)'
    BY <1>6 DEF StopInv, After, Current
  <2>3. After(<<"drain", "">>, <<"shut", "">>, server \notin serving)'
    BY <1>6 DEF StopInv, After
  <2>4. kind' = "s3" => After(<<"close", "first">>, <<"drain", "">>, server \notin serving /\ Quiet)'
    BY <1>6 DEF StopInv, After
  <2>5. QED
    BY <1>6, <2>1, <2>2, <2>3, <2>4 DEF StopInv, Draining
<1>7. ASSUME ParentCancel \/ \E l \in loops : Loop(l) PROVE StopInv'
  <2>1. UNCHANGED <<kind, todo, starts, server, serving, cut, req, via>> /\ closed \subseteq closed'
    BY <1>7 DEF ParentCancel, Loop, LoopRun, LoopBegin, LoopTick, LoopSwept, LoopExit, LoopFrame,
                hostVars, serverVars, requestVars
  <2>2. Quiet' = Quiet /\ (server \notin serving => server' \notin serving')
    BY <2>1 DEF Quiet, InFlight
  <2>3. QED
    BY <1>6, <2>1, <2>2
<1>8. ASSUME NEW r \in Requests, Accept(r) \/ Store(r) PROVE StopInv'
  <2>1. UNCHANGED <<kind, todo, starts, server, serving, cut, closed>>
    BY <1>8 DEF Accept, Store, hostVars, loopVars, serverVars
  <2>2. server \notin serving /\ Quiet => Quiet'
    BY <1>8, QuietRequests
  <2>3. server \notin serving => server' \notin serving'
    BY <2>1
  <2>4. QED
    BY <1>6, <2>1, <2>2, <2>3
<1>9. QED
  BY <1>1, <1>2, <1>3, <1>4, <1>5, <1>7, <1>8 DEF Next, HostStep

-----------------------------------------------------------------------------
(* Servers and requests *)

LEMMA ServerStep ==
  ASSUME TypeOK, StopInv, LoopInv, ServerInv, Next
  PROVE  ServerInv'
<1> USE MaxStartsAssumption
<1>0. kind' = kind /\ Caches' = Caches /\ "first" \in Caches /\ "first" \in AllCaches
  BY KindStays DEF Caches, AllCaches
<1>1. /\ server \in 0..MaxStarts
      /\ starts["first"] \in 0..MaxStarts /\ starts'["first"] \in 0..MaxStarts
      /\ \A r \in Requests : via[r] \in 0..MaxStarts
  BY <1>0, TypeStep DEF TypeOK
<1>2. CASE Start
  <2>1. /\ todo = <<>> /\ todo' = <<>> /\ serving' = serving \cup {server'}
        /\ server' = server + 1
        /\ UNCHANGED <<table, req, via, orphans>>
        /\ cut \subseteq cut' /\ (table = Caches \/ server' \in cut') /\ StartEviction
        /\ server \in serving => server \in cut'
    BY <1>2 DEF Start, requestVars
  <2>2. starts'["first"] = starts["first"] + 1
    BY <1>0, <2>1 DEF StartEviction
  <2>3. server \in serving \/ Quiet
    BY <2>1 DEF ServerInv, Draining
  <2>4. \A r \in Requests : req[r] = "busy" /\ via[r] = server => server = 0 \/ server \in cut'
    BY <2>1, <2>3 DEF Quiet, InFlight
  <2>5. \A r \in Requests :
          /\ req'[r] = "new" => via'[r] = 0
          /\ r \in orphans' => req'[r] = "done"
          /\ via'[r] <= server'
          /\ req'[r] = "busy" /\ via'[r] \notin {0, server'} => via'[r] \in cut'
    BY <1>1, <2>1, <2>4 DEF ServerInv
  <2>6. /\ server' <= starts'["first"] /\ server' \in serving'
        /\ \A g \in serving' : g <= server' /\ (g = server' \/ g \in cut')
    <3>1. \A g \in serving : g \in Nat /\ g <= server /\ (g = server \/ g \in cut)
      BY DEF TypeOK, ServerInv
    <3>2. \A g \in serving : g <= server' /\ g \in cut'
      BY <1>1, <2>1, <3>1
    <3>3. QED
      BY <1>1, <2>1, <2>2, <3>2 DEF ServerInv
  <2>7. kind' = "s3" /\ table' # Caches' => server' \in cut'
    BY <1>0, <2>1
  <2>8. QED
    BY <2>1, <2>5, <2>6, <2>7 DEF ServerInv
<1>3. ASSUME UNCHANGED <<server, req, via, orphans>>, starts'["first"] >= starts["first"],
             cut \subseteq cut', serving' \subseteq serving,
             server' \in serving' \/ Draining' \/ Quiet',
             kind = "s3" /\ table' # Caches => server \in cut' \/ (server' \notin serving' /\ Quiet')
      PROVE  ServerInv'
  <2>1. server' <= starts'["first"]
    BY <1>0, <1>1, <1>3 DEF ServerInv
  <2>2. \A r \in Requests :
          /\ req'[r] = "new" => via'[r] = 0
          /\ r \in orphans' => req'[r] = "done"
          /\ via'[r] <= server'
          /\ req'[r] = "busy" /\ via'[r] \notin {0, server'} => via'[r] \in cut'
    BY <1>3 DEF ServerInv
  <2>3. \A g \in serving' : g <= server' /\ (g = server' \/ g \in cut')
    BY <1>3 DEF ServerInv
  <2>4. QED
    BY <1>0, <1>3, <2>1, <2>2, <2>3 DEF ServerInv
<1>4. CASE Embed
  <2>1. /\ UNCHANGED <<server, serving, cut, req, via, orphans, todo, table>> /\ StartEviction
    BY <1>4 DEF Embed, serverVars, requestVars
  <2>2. starts'["first"] = starts["first"] + 1
    BY <1>0, <2>1 DEF StartEviction
  <2>3. Quiet' = Quiet /\ Draining' = Draining
    BY <2>1 DEF Quiet, InFlight, Draining
  <2>4. starts'["first"] >= starts["first"]
    BY <1>1, <2>2
  <2>5. server' \in serving' \/ Draining' \/ Quiet'
    BY <2>1, <2>3 DEF ServerInv
  <2>6. kind = "s3" /\ table' # Caches => server \in cut' \/ (server' \notin serving' /\ Quiet')
    BY <2>1, <2>3 DEF ServerInv
  <2>7. serving' \subseteq serving /\ cut \subseteq cut'
    BY <2>1
  <2>8. QED
    BY <1>3, <2>1, <2>4, <2>5, <2>6, <2>7
<1>5. starts' = starts => starts'["first"] >= starts["first"]
  BY <1>1
<1>6. CASE Shut
  <2>1. /\ UNCHANGED <<server, cut, req, via, orphans, table, starts>>
        /\ server' \notin serving' /\ serving' \subseteq serving
        /\ todo # <<>> /\ Head(todo) = <<"shut", "">> /\ todo' = Tail(todo)
    BY <1>6 DEF Shut, Do, loopVars, requestVars
  <2>2. Quiet' = Quiet
    BY <2>1 DEF Quiet, InFlight
  <2>3. Draining'
    <3>1. todo \in Seq(Steps) /\ 1 \in 1..Len(todo) /\ todo[1] = <<"shut", "">>
      BY <2>1, HeadFirst
    <3>2. PICK j \in (1 + 1)..Len(todo) : todo[j] = <<"drain", "">>
      BY <3>1 DEF StopInv
    <3>3. j - 1 \in 1..Len(todo') /\ todo'[j - 1] = <<"drain", "">>
      <4>0. Len(todo) \in Nat
        <5>1. todo \in Seq(Steps)
          BY <3>1
        <5>2. QED
          BY <5>1
      <4>1. j \in 2..Len(todo)
        BY <4>0
      <4>2. QED
        BY <2>1, <3>1, <3>2, <4>1, TailPositions
    <3>4. QED
      BY <3>3 DEF Draining
  <2>4. kind = "s3" /\ table' # Caches => server \in cut' \/ (server' \notin serving' /\ Quiet')
    BY <2>1, <2>2 DEF ServerInv
  <2>5. QED
    BY <1>3, <1>5, <2>1, <2>3, <2>4
<1>7. CASE Drain
  <2>1. /\ UNCHANGED <<server, serving, req, via, orphans, table, starts>>
        /\ cut \subseteq cut' /\ (InFlight = {} \/ server \in cut')
    BY <1>7 DEF Drain, Do, loopVars, requestVars
  <2>2. Quiet'
    BY <2>1 DEF Quiet, InFlight
  <2>3. kind = "s3" /\ table' # Caches => server \in cut' \/ (server' \notin serving' /\ Quiet')
    <3>1. CASE server \in serving
      BY <2>1, <3>1 DEF ServerInv
    <3>2. CASE server \notin serving
      BY <2>1, <2>2, <3>2
    <3>3. QED
      BY <3>1, <3>2
  <2>4. serving' \subseteq serving
    BY <2>1
  <2>5. QED
    BY <1>3, <1>5, <2>1, <2>2, <2>3, <2>4
\* Draining ends with the drain only.
<1>8. ASSUME NEW step, NEW c, Do(step, c), step # "drain" PROVE Draining' = Draining
  <2>1. /\ todo \in Seq(Steps) /\ todo # <<>> /\ todo' = Tail(todo)
        /\ Head(todo) = <<step, c>> /\ todo[1] = <<step, c>>
    BY <1>8, HeadFirst DEF Do
  <2>2. todo[1] # <<"drain", "">>
    <3>1. <<step, c>> # <<"drain", "">>
      BY <1>8
    <3>2. QED
      BY <2>1, <3>1
  <2>3. /\ \A j \in 2..Len(todo) : j - 1 \in 1..Len(todo') /\ todo'[j - 1] = todo[j]
        /\ \A i \in 1..Len(todo') : i + 1 \in 1..Len(todo) /\ todo'[i] = todo[i + 1]
    BY <2>1, TailPositions
  <2>4. Draining' => Draining
    BY <2>1, <2>3 DEF Draining
  <2>5. ASSUME Draining PROVE Draining'
    <3>1. PICK i \in 1..Len(todo) : todo[i] = <<"drain", "">>
      BY <2>5 DEF Draining
    <3>2. i \in 2..Len(todo)
      <4>1. i # 1
        BY <2>2, <3>1
      <4>2. Len(todo) \in Nat
        BY <2>1
      <4>3. QED
        BY <4>1, <4>2
    <3>3. QED
      BY <2>3, <3>1, <3>2 DEF Draining
  <2>6. Draining \in BOOLEAN /\ Draining' \in BOOLEAN
    BY DEF Draining
  <2>7. QED
    BY <2>4, <2>5, <2>6
<1>9. ASSUME NEW c \in Caches, Cancel(c) \/ WaitLoop(c) \/ CloseTable(c) PROVE ServerInv'
  <2>1. /\ Do("cancel", c) \/ Do("wait", c) \/ Do("close", c)
        /\ UNCHANGED <<server, serving, cut, req, via, orphans, starts>>
        /\ table' = table \/ CloseTable(c)
    BY <1>9 DEF Cancel, WaitLoop, CloseTable, Do, loopVars, serverVars, requestVars
  <2>2. Draining' = Draining
    BY <1>8, <2>1
  <2>3. Quiet' = Quiet
    BY <2>1 DEF Quiet, InFlight
  <2>4. server' \in serving' \/ Draining' \/ Quiet'
    BY <2>1, <2>2, <2>3 DEF ServerInv
  <2>5. kind = "s3" /\ CloseTable(c) => server \notin serving /\ Quiet
    <3> SUFFICES ASSUME kind = "s3", CloseTable(c) PROVE server \notin serving /\ Quiet
      OBVIOUS
    <3>1. c = "first"
      BY DEF Caches
    <3>2. 1 \in 1..Len(todo) /\ todo[1] = <<"close", "first">> /\ 1..(1 - 1) = {}
      BY <3>1, HeadFirst DEF CloseTable, Do
    <3>3. After(<<"close", "first">>, <<"drain", "">>, server \notin serving /\ Quiet)
      BY DEF StopInv
    <3>4. QED
      BY <3>2, <3>3 DEF After
  <2>6. kind = "s3" /\ table' # Caches => server \in cut' \/ (server' \notin serving' /\ Quiet')
    <3>1. CASE table' = table
      BY <2>1, <2>3, <3>1 DEF ServerInv
    <3>2. CASE CloseTable(c)
      BY <2>1, <2>3, <2>5, <3>2
    <3>3. QED
      BY <2>1, <3>1, <3>2
  <2>7. serving' \subseteq serving /\ cut \subseteq cut'
    BY <2>1
  <2>8. QED
    BY <1>3, <1>5, <2>1, <2>4, <2>6, <2>7
<1>10. ASSUME Stop \/ ParentCancel \/ \E l \in loops : Loop(l) PROVE ServerInv'
  <2>1. /\ UNCHANGED <<server, serving, cut, req, via, orphans, starts, table>>
        /\ todo' = todo \/ todo = <<>>
    BY <1>10 DEF Stop, ParentCancel, Loop, LoopRun, LoopBegin, LoopTick, LoopSwept, LoopExit,
                 LoopFrame, hostVars, loopVars, serverVars, requestVars
  <2>q. Quiet' = Quiet
    BY <2>1 DEF Quiet, InFlight
  <2>d. Draining => Draining'
    <3>1. todo = <<>> => 1..Len(todo) = {}
      OBVIOUS
    <3>2. QED
      BY <2>1, <3>1 DEF Draining
  <2>2. Quiet' = Quiet /\ (Draining => Draining')
    BY <2>q, <2>d
  <2>3. server' \in serving' \/ Draining' \/ Quiet'
    BY <2>1, <2>2 DEF ServerInv
  <2>4. kind = "s3" /\ table' # Caches => server \in cut' \/ (server' \notin serving' /\ Quiet')
    BY <2>1, <2>2 DEF ServerInv
  <2>5. serving' \subseteq serving /\ cut \subseteq cut'
    BY <2>1
  <2>6. QED
    BY <1>3, <1>5, <2>1, <2>3, <2>4, <2>5
<1>11. ASSUME NEW r \in Requests, Accept(r) \/ Store(r) PROVE ServerInv'
  <2>1. UNCHANGED <<server, serving, cut, table, starts, todo>>
    BY <1>11 DEF Accept, Store, hostVars, loopVars, serverVars
  <2>2. Draining' = Draining /\ (server \notin serving /\ Quiet => Quiet')
    BY <1>11, <2>1, QuietRequests DEF Draining
  <2>3. \A q \in Requests :
          /\ req'[q] = "new" => via'[q] = 0
          /\ q \in orphans' => req'[q] = "done"
          /\ via'[q] <= server
          /\ req'[q] = "busy" /\ via'[q] \notin {0, server} => via'[q] \in cut
    <3>1. CASE Accept(r)
      <4>1. /\ req[r] = "new" /\ req' = [req EXCEPT ![r] = "busy"] /\ orphans' = orphans
            /\ via' = via \/ \E g \in serving : via' = [via EXCEPT ![r] = g]
        BY <3>1 DEF Accept
      <4>2. \A g \in serving : g <= server /\ (g = server \/ g \in cut)
        BY DEF ServerInv
      <4>3. QED
        BY <1>1, <4>1, <4>2 DEF ServerInv, TypeOK
    <3>2. CASE Store(r)
      <4>1. /\ req' = [req EXCEPT ![r] = "done"] /\ via' = via
            /\ orphans' \subseteq orphans \cup {r}
        BY <3>2 DEF Store
      <4>2. QED
        BY <1>1, <4>1 DEF ServerInv, TypeOK
    <3>3. QED
      BY <1>11, <3>1, <3>2
  <2>4. /\ server' <= starts'["first"]
        /\ \A g \in serving' : g <= server' /\ (g = server' \/ g \in cut')
    BY <2>1 DEF ServerInv
  <2>5. server' \in serving' \/ Draining' \/ Quiet'
    <3>1. CASE server \in serving
      BY <2>1, <3>1
    <3>2. CASE server \notin serving
      BY <2>1, <2>2, <3>2 DEF ServerInv
    <3>3. QED
      BY <3>1, <3>2
  <2>6. kind = "s3" /\ table # Caches => server \in cut \/ (server' \notin serving' /\ Quiet')
    <3>1. CASE server \notin serving
      BY <2>1, <2>2, <3>1 DEF ServerInv
    <3>2. CASE server \in serving
      BY <3>2 DEF ServerInv
    <3>3. QED
      BY <3>1, <3>2
  <2>7. QED
    BY <1>0, <2>1, <2>3, <2>4, <2>5, <2>6 DEF ServerInv
<1>12. QED
  BY <1>2, <1>4, <1>6, <1>7, <1>9, <1>10, <1>11 DEF Next, HostStep

\* A loop that ends closes an open channel, unless its cache was started over.
LEMMA PanicStep ==
  ASSUME TypeOK, LoopInv, PanicsOnlyStartedOver, Next
  PROVE  PanicsOnlyStartedOver'
<1>1. over \subseteq over'
  BY DEF Next, Start, Embed, StartEviction, Stop, HostStep, Shut, Drain, Cancel, WaitLoop, CloseTable,
         Do, ParentCancel, Loop, LoopRun, LoopBegin, LoopTick, LoopSwept, LoopExit, LoopFrame,
         Accept, Store, hostVars
<1>2. CASE panicked' = panicked
  BY <1>1, <1>2 DEF PanicsOnlyStartedOver
<1>3. ASSUME NEW l \in loops, LoopExit(l) PROVE PanicsOnlyStartedOver'
  <2>1. CASE l.cache \in over
    BY <1>1, <2>1 DEF PanicsOnlyStartedOver
  <2>2. CASE l.cache \notin over
    <3>1. l.cache \in Caches \ over /\ l.at # "new"
      BY <1>3, <2>2 DEF TypeOK, LoopExit
    <3>2. <<l.cache, l.chan>> \notin closed
      BY <3>1 DEF LoopInv, Current
    <3>3. ~panicked'
      BY <1>3, <3>2 DEF LoopExit
    <3>4. QED
      BY <3>3 DEF PanicsOnlyStartedOver
  <2>3. QED
    BY <2>1, <2>2
<1>4. panicked' = panicked \/ \E l \in loops : LoopExit(l)
  BY DEF Next, Start, Embed, StartEviction, Stop, HostStep, Shut, Drain, Cancel, WaitLoop, CloseTable,
         Do, ParentCancel, Loop, LoopRun, LoopBegin, LoopTick, LoopSwept, Accept, Store, loopVars
<1>5. QED
  BY <1>2, <1>3, <1>4

\* An orphan was stored by a request of an embedding host, or of a server that was cut.
LEMMA OrphanStep ==
  ASSUME TypeOK, StopInv, LoopInv, ServerInv, TableOutlivesRequests, Next
  PROVE  TableOutlivesRequests'
<1>0. kind' = kind /\ Caches' = Caches
  BY KindStays
<1>1. cut \subseteq cut'
  BY DEF Next, Start, Embed, Stop, HostStep, Shut, Drain, Cancel, WaitLoop, CloseTable, Do,
         ParentCancel, Loop, LoopRun, LoopBegin, LoopTick, LoopSwept, LoopExit, LoopFrame,
         Accept, Store, serverVars
<1>2. CASE UNCHANGED <<orphans, via>>
  BY <1>0, <1>1, <1>2 DEF TableOutlivesRequests
<1>3. ASSUME NEW r \in Requests, Accept(r) PROVE TableOutlivesRequests'
  <2>1. /\ r \notin orphans /\ orphans' = orphans
        /\ \A q \in Requests : q # r => via'[q] = via[q]
    BY <1>3 DEF Accept, ServerInv, TypeOK
  <2>2. orphans \subseteq Requests
    BY DEF TypeOK
  <2>3. QED
    BY <1>0, <1>1, <2>1, <2>2 DEF TableOutlivesRequests
<1>4. ASSUME NEW r \in Requests, Store(r) PROVE TableOutlivesRequests'
  <2>1. PICK c \in Caches : orphans' = IF c \in table THEN orphans ELSE orphans \cup {r}
    BY <1>4 DEF Store
  <2>2. via' = via /\ req[r] = "busy" /\ cut' = cut
    BY <1>4 DEF Store, serverVars
  <2>3. CASE c \in table
    BY <1>0, <1>1, <2>1, <2>2, <2>3 DEF TableOutlivesRequests
  <2>4. CASE c \notin table
    <3>1. via[r] = 0 \/ via[r] \in cut \/ kind # "s3"
      <4>1. table # Caches
        BY <2>4
      <4>2. server \in 0..MaxStarts /\ via[r] \in 0..MaxStarts
        BY DEF TypeOK
      <4>3. CASE via[r] = server /\ kind = "s3"
        <5>1. server \in cut \/ Quiet
          BY <4>1, <4>3 DEF ServerInv
        <5>2. r \in InFlight
          BY <2>2, <4>3 DEF InFlight
        <5>3. QED
          BY <4>3, <5>1, <5>2 DEF Quiet
      <4>4. CASE via[r] \notin {0, server}
        BY <2>2, <4>4 DEF ServerInv
      <4>5. QED
        BY <4>3, <4>4
    <3>2. orphans' = orphans \cup {r}
      BY <2>1, <2>4
    <3>3. QED
      BY <1>0, <2>2, <3>1, <3>2 DEF TableOutlivesRequests
  <2>5. QED
    BY <2>3, <2>4
<1>5. UNCHANGED <<orphans, via>> \/ \E r \in Requests : Accept(r) \/ Store(r)
  BY DEF Next, Start, Embed, Stop, HostStep, Shut, Drain, Cancel, WaitLoop, CloseTable, Do,
         ParentCancel, Loop, LoopRun, LoopBegin, LoopTick, LoopSwept, LoopExit, LoopFrame,
         requestVars
<1>6. QED
  BY <1>2, <1>3, <1>4, <1>5

-----------------------------------------------------------------------------
(* Theorems *)

LEMMA NextInv == IInv /\ [Next]_vars => IInv'
<1> SUFFICES ASSUME IInv, [Next]_vars PROVE IInv'
  OBVIOUS
<1>1. CASE Next
  BY <1>1, TypeStep, StopStep, LoopStep, ServerStep, PanicStep, OrphanStep DEF IInv
<1>2. CASE UNCHANGED vars
  <2>1. UNCHANGED <<kind, todo, starts, loops, cancelled, closed, stopped, over, panicked, table,
                    server, serving, cut, req, via, orphans>>
    BY <1>2 DEF vars, hostVars, loopVars, serverVars, requestVars
  <2>2. Caches' = Caches /\ Quiet' = Quiet /\ Draining' = Draining
    BY <2>1 DEF Caches, Quiet, InFlight, Draining
  <2>3. TypeOK' /\ PanicsOnlyStartedOver' /\ TableOutlivesRequests'
    BY <2>1, <2>2 DEF IInv, TypeOK, PanicsOnlyStartedOver, TableOutlivesRequests
  <2>4. LoopInv'
    BY <2>1, <2>2 DEF IInv, LoopInv, Current
  <2>5. ServerInv'
    BY <2>1, <2>2 DEF IInv, ServerInv
  <2>6. StopInv'
    BY <2>1, <2>2 DEF IInv, StopInv, After, Current
  <2>7. QED
    BY <2>3, <2>4, <2>5, <2>6 DEF IInv
<1>3. QED
  BY <1>1, <1>2

\* Whatever the host calls, in whatever order, and whatever the loops and the requests do
\* meanwhile: Stop is in order, a loop holds the channel of its own start, and the
\* requests of a server that is gone were cut.
THEOREM InductiveInvariant == Spec => []IInv
<1>1. QED
  BY InitInv, NextInv, PTL DEF Spec

\* The program counters, channels and generations of Stop, loops and servers stay in range.
THEOREM TypeCorrect == Spec => []TypeOK
<1>1. IInv => TypeOK
  BY DEF IInv
<1>2. QED
  BY <1>1, InductiveInvariant, PTL

\* Cache.Stop leaves no loop behind that sweeps without a table, in any life of the cache,
\* unless StartEviction was called twice without a Stop.
THEOREM StopEndsLoopsAlways == Spec => []StopEndsLoops
<1>1. IInv => StopEndsLoops
  BY DEF IInv, LoopInv, StopEndsLoops
<1>2. QED
  BY <1>1, InductiveInvariant, PTL

\* evictionLoop's deferred close panics only if StartEviction was called twice without a Stop.
THEOREM PanicsOnlyStartedOverAlways == Spec => []PanicsOnlyStartedOver
<1>1. IInv => PanicsOnlyStartedOver
  BY DEF IInv
<1>2. QED
  BY <1>1, InductiveInvariant, PTL

\* Every entry the S3 server stores gets its row, unless its drain has timed out, it was
\* started again without a table, or it was replaced by a second Start without a Stop.
THEOREM TableOutlivesRequestsAlways == Spec => []TableOutlivesRequests
<1>1. IInv => TableOutlivesRequests
  BY DEF IInv
<1>2. QED
  BY <1>1, InductiveInvariant, PTL
=============================================================================
