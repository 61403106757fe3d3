---------------------------- MODULE UploadPackProofs ----------------------------
(***************************************************************************)
(* What UploadPack promises of the request parsers and of the dispatch of  *)
(* upload-pack requests, for bodies of any length.                         *)
(***************************************************************************)
EXTENDS UploadPack, TLAPS

\* A packet written is in the body, beside those that were there; the latest is one of
\* them.
LEMMA WrittenGrows ==
  ASSUME TypeOK, NEW p \in Packets, body' = Append(body, p)
  PROVE  /\ Written' = Written \cup {p}
         /\ body = <<>> <=> Written = {}
         /\ body # <<>> => Latest \in Written
<1>1. body \in Seq(Packets) BY DEF TypeOK
<1>2. DOMAIN body = 1..Len(body) /\ Len(body) \in Nat BY <1>1
<1>3. DOMAIN body' = 1..Len(body) + 1 BY <1>1
<1>4. \A i \in DOMAIN body : body'[i] = body[i] BY <1>1, <1>2
<1>5. body'[Len(body) + 1] = p BY <1>1
<1>6. Written' = Written \cup {p}
  <2>1. Written' = {body'[i] : i \in 1..Len(body) + 1} BY <1>3 DEF Written
  <2>2. Written = {body[i] : i \in 1..Len(body)} BY <1>2 DEF Written
  <2>3. 1..Len(body) + 1 = (1..Len(body)) \cup {Len(body) + 1} BY <1>2
  <2> QED BY <2>1, <2>2, <2>3, <1>2, <1>4, <1>5
<1>7. body = <<>> <=> Len(body) = 0 BY <1>1
<1>8. body # <<>> => Len(body) \in DOMAIN body BY <1>2, <1>7
<1>9. body = <<>> => Written = {} BY DEF Written
<1>10. body # <<>> => Latest \in Written BY <1>8 DEF Latest, Written
<1> QED BY <1>6, <1>9, <1>10

\* The parser keeps its type.
LEMMA ParserType ==
  ASSUME NEW r \in Requests, NEW p \in Packets
  PROVE  Parser(r, p) \in Requests
BY DEF Requests, Parser, ScanFails, Section1, ArgumentV1, ArgumentV2, Ends, Empty, Shallows

\* Does the parser read p, and as an argument?
Reads(r, p) == ~r.over /\ p # "bad"
ReadsArgument(r, p) == Reads(r, p) /\ r.phase = 2
ReadsCommand(r, p) == Reads(r, p) /\ r.phase = 1 /\ v2

\* What the parser makes of a packet, field by field.
LEMMA ParserFields ==
  ASSUME NEW r \in Requests, NEW p \in Packets, v2 \in BOOLEAN
  PROVE  /\ Parser(r, p).over <=>
              r.over \/ p = "bad" \/ (ReadsArgument(r, p) /\ (p = "have" \/ Ends(p)))
         /\ Parser(r, p).error <=> r.error \/ (~r.over /\ p = "bad")
         /\ Parser(r, p).phase = IF Reads(r, p) /\ Empty(p) THEN 2 ELSE r.phase
         /\ Parser(r, p).isShallow <=> r.isShallow \/ (ReadsArgument(r, p) /\ Shallows(p))
         /\ Parser(r, p).hasFilter <=> r.hasFilter \/ (ReadsArgument(r, p) /\ v2 /\ p = "filter")
         /\ Parser(r, p).command =
              IF ReadsCommand(r, p) /\ p = "command=fetch" THEN "fetch"
              ELSE IF ReadsCommand(r, p) /\ p = "command=ls-refs" THEN "ls-refs"
              ELSE r.command
         /\ Parser(r, p).isFreshClone <=>
              IF ReadsArgument(r, p)
              THEN Ends(p) /\ ~r.isShallow /\ (v2 => r.command = "fetch" /\ ~r.hasFilter)
              ELSE r.isFreshClone
<1> USE DEF Requests, Reads, ReadsArgument, ReadsCommand
<1>1. CASE r.over
  <2>1. Parser(r, p) = r BY <1>1 DEF Parser
  <2> QED BY <1>1, <2>1, SMT
<1>2. CASE ~r.over /\ p = "bad"
  <2>1. Parser(r, p) = [r EXCEPT !.over = TRUE, !.error = TRUE] BY <1>2 DEF Parser, ScanFails
  <2>2. /\ Parser(r, p).over /\ Parser(r, p).error
        /\ Parser(r, p).phase = r.phase /\ Parser(r, p).command = r.command
        /\ Parser(r, p).isShallow = r.isShallow /\ Parser(r, p).hasFilter = r.hasFilter
        /\ Parser(r, p).isFreshClone = r.isFreshClone
    BY <2>1
  <2> QED BY <1>2, <2>2, SMT
<1>3. CASE Reads(r, p) /\ r.phase = 1
  <2>1. Parser(r, p) = Section1(r, p) BY <1>3 DEF Parser, ScanFails
  <2> QED BY <1>3, <2>1, SMT DEF Section1, Empty
<1>4. CASE ReadsArgument(r, p) /\ v2
  <2>1. Parser(r, p) = ArgumentV2(r, p) BY <1>4 DEF Parser, ScanFails
  <2>2. /\ Parser(r, p).error = r.error /\ Parser(r, p).phase = r.phase
        /\ Parser(r, p).command = r.command
    BY <2>1 DEF ArgumentV2
  <2>3. Parser(r, p).over = (p = "have" \/ Ends(p)) BY <2>1 DEF ArgumentV2
  <2>4. Parser(r, p).isShallow = (r.isShallow \/ Shallows(p)) BY <2>1 DEF ArgumentV2
  <2>5. Parser(r, p).hasFilter = (r.hasFilter \/ p = "filter") BY <2>1 DEF ArgumentV2
  <2>6. Parser(r, p).isFreshClone = (Ends(p) /\ r.command = "fetch" /\ ~r.isShallow /\ ~r.hasFilter)
    BY <2>1 DEF ArgumentV2
  <2>7. r.over = FALSE /\ r.phase = 2 /\ p # "bad" BY <1>4
  <2>8. Reads(r, p) /\ ~ReadsCommand(r, p) BY <2>7
  <2>9. Parser(r, p).over <=>
          r.over \/ p = "bad" \/ (ReadsArgument(r, p) /\ (p = "have" \/ Ends(p)))
    BY <1>4, <2>3, <2>7
  <2>10. Parser(r, p).isShallow <=> r.isShallow \/ (ReadsArgument(r, p) /\ Shallows(p))
    BY <1>4, <2>4
  <2>11. Parser(r, p).hasFilter <=> r.hasFilter \/ (ReadsArgument(r, p) /\ v2 /\ p = "filter")
    BY <1>4, <2>5
  <2>12. Parser(r, p).phase = IF Reads(r, p) /\ Empty(p) THEN 2 ELSE r.phase BY <2>2, <2>7
  <2>13. Parser(r, p).error <=> r.error \/ (~r.over /\ p = "bad") BY <2>2, <2>7
  <2>14. Parser(r, p).isFreshClone <=>
           IF ReadsArgument(r, p)
           THEN Ends(p) /\ ~r.isShallow /\ (v2 => r.command = "fetch" /\ ~r.hasFilter)
           ELSE r.isFreshClone
    BY <1>4, <2>6
  <2> HIDE DEF Reads, ReadsArgument, ReadsCommand
  <2> QED BY <2>2, <2>8, <2>9, <2>10, <2>11, <2>12, <2>13, <2>14
<1>5. CASE ReadsArgument(r, p) /\ ~v2
  <2>1. Parser(r, p) = ArgumentV1(r, p) BY <1>5 DEF Parser, ScanFails
  <2>2. /\ Parser(r, p).error = r.error /\ Parser(r, p).phase = r.phase
        /\ Parser(r, p).command = r.command /\ Parser(r, p).hasFilter = r.hasFilter
    BY <2>1 DEF ArgumentV1
  <2>3. Parser(r, p).over = (p = "have" \/ Ends(p)) BY <2>1 DEF ArgumentV1
  <2>4. Parser(r, p).isShallow = (r.isShallow \/ Shallows(p)) BY <2>1 DEF ArgumentV1
  <2>6. Parser(r, p).isFreshClone = (Ends(p) /\ ~r.isShallow)
    BY <2>1 DEF ArgumentV1
  <2> QED BY <1>5, <2>2, <2>3, <2>4, <2>6 DEF Empty, Ends
<1> QED BY <1>1, <1>2, <1>3, <1>4, <1>5

LEMMA InitInv == Init => IInv
<1> SUFFICES ASSUME Init PROVE IInv OBVIOUS
<1>1. Written = {} BY DEF Init, Written
<1>2. TypeOK BY DEF Init, TypeOK, Requests
<1>3. GrammarInv BY <1>1 DEF GrammarInv, Has, HasAny
<1>4. PositionInv BY <1>1 DEF Init, PositionInv, Has, HasAny
<1>5. ArgumentInv BY <1>1 DEF Init, ArgumentInv, Has, HasAny
<1>6. FreshInv BY <1>1 DEF Init, FreshInv, FullClonesCached, Has, HasAny
<1> QED BY <1>2, <1>3, <1>4, <1>5, <1>6 DEF IInv

\* A packet the client writes keeps the invariant.
LEMMA WriteInv ==
  ASSUME IInv, NEW p \in Packets, Write(p)
  PROVE  IInv'
<1> USE DEF Has, HasAny
<1>1. TypeOK /\ GrammarInv /\ PositionInv /\ ArgumentInv /\ FreshInv BY DEF IInv
<1>2. v2' = v2 /\ body' = Append(body, p) /\ req' = Parser(req, p) BY DEF Write
<1>3. Written' = Written \cup {p} BY <1>1, <1>2, WrittenGrows
<1>4. body = <<>> <=> Written = {} BY <1>1, <1>2, WrittenGrows
<1>5. Latest = "have" => "have" \in Written
  BY <1>1, <1>2, WrittenGrows DEF Latest
<1>6. req \in Requests /\ v2 \in BOOLEAN BY <1>1 DEF TypeOK
<1>7. req' \in Requests BY <1>2, <1>6, ParserType
<1>8. p = "bad" \/ (v2 /\ FollowsV2(p)) \/ (~v2 /\ FollowsV1(p)) BY DEF Write
<1>9. ~Over BY DEF Write
<1>10. TypeOK'
  <2>1. body' \in Seq(Packets) BY <1>1, <1>2 DEF TypeOK
  <2> QED BY <2>1, <1>2, <1>6, <1>7 DEF TypeOK
<1>11. GrammarInv'
  BY <1>1, <1>2, <1>3, <1>4, <1>6, <1>8 DEF GrammarInv, FollowsV1, FollowsV2, Arguments
<1>18. /\ req.over \in BOOLEAN /\ req.error \in BOOLEAN /\ req.isFreshClone \in BOOLEAN
       /\ req.isShallow \in BOOLEAN /\ req.hasFilter \in BOOLEAN /\ req.phase \in {1, 2}
       /\ req'.over \in BOOLEAN /\ req'.error \in BOOLEAN /\ req'.isFreshClone \in BOOLEAN
       /\ req'.isShallow \in BOOLEAN /\ req'.hasFilter \in BOOLEAN
  BY <1>6, <1>7 DEF Requests
<1>12. /\ req'.over <=>
            req.over \/ p = "bad" \/ (req.phase = 2 /\ p \in {"have", "done", "flush", "delim"})
       /\ req'.error <=> req.error \/ (~req.over /\ p = "bad")
       /\ req'.phase = IF ~req.over /\ p \in {"flush", "delim"} THEN 2 ELSE req.phase
  BY <1>2, <1>6, ParserFields DEF Ends, Empty, Reads, ReadsArgument
<1>13. /\ p \in {"have", "done"} => "flush" \in Written \/ "delim" \in Written
       /\ p \in {"command=fetch", "command=ls-refs"} => Written = {} /\ v2
       /\ p = "delim" => v2 /\ "flush" \notin Written /\ "delim" \notin Written
       /\ p = "flush" /\ "flush" \in Written => ~v2 /\ "have" \in Written
       /\ p = "flush" /\ v2 => /\ "delim" \in Written
                               /\ \/ "command=ls-refs" \in Written \/ "done" \in Written
                                  \/ "have" \in Written
  <2>1. CASE v2
    <3>1. FollowsV2(p) \/ p = "bad" BY <1>8, <2>1
    <3>2. "flush" \notin Written BY <1>9, <2>1 DEF Over
    <3>3. "want" \in Written => "delim" \in Written BY <1>1, <2>1 DEF GrammarInv
    <3> QED BY <2>1, <3>1, <3>2, <3>3, <1>4 DEF FollowsV2, Arguments
  <2>2. CASE ~v2
    <3>1. FollowsV1(p) \/ p = "bad" BY <1>8, <2>2
    <3> QED BY <2>2, <3>1, <1>5 DEF FollowsV1
  <2> QED BY <2>1, <2>2, <1>6
<1> DEFINE Sections(W) == "flush" \in W \/ "delim" \in W
           Enough(W) == \/ "bad" \in W \/ "have" \in W \/ "done" \in W
                        \/ "command=ls-refs" \in W /\ "flush" \in W
<1>17. /\ ~req.over => req.phase = IF Sections(Written) THEN 2 ELSE 1
       /\ req.over <=> Enough(Written)
  BY <1>1 DEF PositionInv
<1>14. PositionInv'
  <2>1. ~req'.over => req'.phase = IF Sections(Written') THEN 2 ELSE 1
    <3>1. ~req'.over => ~req.over BY <1>12, <1>18
    <3>2. Sections(Written') <=> Sections(Written) \/ p \in {"flush", "delim"} BY <1>3
    <3> QED BY <3>1, <3>2, <1>12, <1>17
  <2>2. req'.error => "bad" \in Written' BY <1>1, <1>3, <1>12 DEF PositionInv
  <2>3. req'.over <=> Enough(Written')
    <3>1. CASE req.over BY <3>1, <1>3, <1>12, <1>17
    <3>2. CASE ~req.over /\ p \in {"bad", "have", "done"}
      BY <3>2, <1>3, <1>12, <1>13, <1>17
    <3>3. CASE ~req.over /\ p = "flush"
      <4>1. req'.over <=> Sections(Written) BY <3>3, <1>12, <1>17
      <4>2. Enough(Written') <=> "command=ls-refs" \in Written BY <3>3, <1>3, <1>17
      <4>3. CASE v2 BY <4>1, <4>2, <4>3, <3>3, <1>13, <1>17
      <4>4. CASE ~v2
        <5>1. "delim" \notin Written /\ "command=ls-refs" \notin Written
          BY <4>4, <1>1 DEF GrammarInv
        <5> QED BY <4>1, <4>2, <5>1, <3>3, <1>13, <1>17
      <4> QED BY <4>3, <4>4, <1>6
    <3>4. CASE ~req.over /\ p \notin {"bad", "have", "done", "flush"}
      <4>1. p = "delim" => req.phase = 1 BY <3>4, <1>13, <1>17
      <4>2. p = "command=ls-refs" => "flush" \notin Written BY <1>13
      <4> QED BY <3>4, <4>1, <4>2, <1>3, <1>12, <1>17
    <3> QED BY <3>1, <3>2, <3>3, <3>4
  <2>4. ASSUME NEW n \in {"fetch", "ls-refs"}
        PROVE  req'.command = n <=>
                 (IF n = "fetch" THEN "command=fetch" ELSE "command=ls-refs") \in Written'
    <3>1. CASE p \in {"command=fetch", "command=ls-refs"}
      BY <3>1, <1>1, <1>2, <1>3, <1>6, <1>13, ParserFields DEF PositionInv, Reads, ReadsCommand
    <3>2. CASE p \notin {"command=fetch", "command=ls-refs"}
      BY <3>2, <1>1, <1>2, <1>3, <1>6, ParserFields DEF PositionInv
    <3> QED BY <3>1, <3>2
  <2> QED BY <2>1, <2>2, <2>3, <2>4, <1>2 DEF PositionInv
<1>15. ArgumentInv'
  <2>1. /\ req'.isShallow <=> req.isShallow \/ (~req.over /\ req.phase = 2 /\ p \in {"shallow", "deepen"})
        /\ req'.hasFilter <=> req.hasFilter \/ (~req.over /\ req.phase = 2 /\ v2 /\ p = "filter")
    BY <1>2, <1>6, ParserFields DEF Reads, ReadsArgument, Shallows
  <2>2. v2 /\ p \in {"shallow", "deepen", "filter"} => "delim" \in Written
    BY <1>1, <1>8 DEF FollowsV2, GrammarInv
  <2> QED BY <2>1, <2>2, <1>1, <1>2, <1>3, <1>12 DEF ArgumentInv, PositionInv
<1>16. /\ req'.isFreshClone <=>
            IF ~req.over /\ p # "bad" /\ req.phase = 2
            THEN /\ p \in {"done", "flush", "delim"} /\ ~req.isShallow
                 /\ v2 => req.command = "fetch" /\ ~req.hasFilter
            ELSE req.isFreshClone
       /\ req'.isShallow => req.isShallow \/ p \in {"shallow", "deepen"}
       /\ req'.hasFilter => req.hasFilter \/ p = "filter"
  BY <1>2, <1>6, ParserFields DEF Ends, Empty, Shallows, Reads, ReadsArgument
<1>19. "done" \in Written => p \notin Restricting
  BY <1>6, <1>8, <1>9 DEF Over, FollowsV2, FollowsV1, Arguments, Restricting
<1>20. ASSUME ~req.over, req.phase = 2, p \in {"done", "flush", "delim"},
              v2 => req.command = "fetch"
       PROVE  p = "done"
  <2>1. Sections(Written) /\ ~Enough(Written) BY <1>17, <1>20
  <2>2. p # "delim" BY <2>1, <1>13
  <2>3. "command=ls-refs" \in Written => ~v2 BY <1>1, <1>20 DEF PositionInv
  <2>4. ~v2 => "delim" \notin Written BY <1>1 DEF GrammarInv
  <2> QED BY <2>1, <2>2, <2>3, <2>4, <1>13, <1>20
<1>21. req'.isFreshClone =>
         "done" \in Written' /\ \A q \in (IF v2 THEN Restricting ELSE {"have"}) : q \notin Written'
  <2>1. CASE ~req.over /\ p # "bad" /\ req.phase = 2
    <3> SUFFICES ASSUME req'.isFreshClone
                 PROVE  "done" \in Written' /\ \A q \in (IF v2 THEN Restricting ELSE {"have"}) : q \notin Written'
      OBVIOUS
    <3>1. p = "done" BY <1>16, <1>20, <2>1
    <3>2. "have" \notin Written BY <1>17, <2>1
    <3>3. v2 => \A q \in {"shallow", "deepen", "filter"} : q \notin Written
      BY <1>1, <1>16, <2>1 DEF ArgumentInv
    <3> QED BY <3>1, <3>2, <3>3, <1>3 DEF Restricting
  <2>2. CASE ~(~req.over /\ p # "bad" /\ req.phase = 2)
    <3>1. req'.isFreshClone <=> req.isFreshClone BY <1>16, <2>2
    <3>2. req.isFreshClone =>
            /\ "done" \in Written
            /\ \A q \in (IF v2 THEN Restricting ELSE {"have"}) : q \notin Written
      BY <1>1 DEF FreshInv
    <3> QED BY <3>1, <3>2, <1>3, <1>19 DEF Restricting
  <2> QED BY <2>1, <2>2
<1>22. (Handled = "clone")' <=>
         /\ ~req'.error /\ ~(v2 /\ req'.command = "ls-refs")
         /\ ~req'.hasFilter /\ req'.isFreshClone /\ ~req'.isShallow
  BY <1>2, <1>18 DEF Handled, Dispatch
<1>23. FullClonesCached'
  <2> SUFFICES ASSUME "done" \in Written', \A q \in Restricting : q \notin Written',
                      "bad" \notin Written'
               PROVE  (Handled = "clone")'
    BY DEF FullClonesCached, Restricting
  <2>1. p \notin Restricting /\ p # "bad" /\ \A q \in Restricting : q \notin Written
    BY <1>3
  <2>2. "bad" \notin Written /\ "have" \notin Written BY <2>1, <1>3 DEF Restricting
  <2>3. CASE "done" \in Written
    <3>1. req.over BY <2>3, <1>17
    <3>2. req' = req BY <3>1, <1>2 DEF Parser
    <3>3. Handled = "clone" BY <2>1, <2>2, <2>3, <1>1 DEF FreshInv, FullClonesCached, Restricting
    <3> QED BY <3>2, <3>3, <1>2 DEF Handled, Dispatch
  <2>4. CASE "done" \notin Written
    <3>1. p = "done" BY <2>4, <1>3
    <3>2. v2 => "delim" \in Written /\ req.command = "fetch"
      <4>1. v2 => "want" \in Written BY <3>1, <1>8 DEF FollowsV2, Arguments
      <4> QED BY <4>1, <1>1 DEF GrammarInv, PositionInv
    <3>3. "command=ls-refs" \in Written => FALSE
      BY <3>2, <1>1, <1>6 DEF GrammarInv, PositionInv
    <3>4. ~req.over BY <2>2, <2>4, <3>3, <1>17
    <3>5. req.phase = 2 BY <3>1, <3>4, <1>13, <1>17
    <3>6. ~req.isShallow /\ ~req.hasFilter BY <2>1, <1>1 DEF ArgumentInv, Restricting
    <3>7. ~req.error BY <2>2, <1>1 DEF PositionInv
    <3>8. req'.isFreshClone BY <3>1, <3>2, <3>4, <3>5, <3>6, <1>16
    <3>9. ~req'.error BY <3>1, <3>7, <1>12
    <3>10. ~req'.isShallow /\ ~req'.hasFilter BY <3>1, <3>6, <1>16
    <3>11. v2 => req'.command = "fetch"
      BY <3>1, <3>2, <1>2, <1>6, ParserFields
    <3> QED BY <3>8, <3>9, <3>10, <3>11, <1>22
  <2> QED BY <2>3, <2>4
<1>24. FreshInv'
  BY <1>21, <1>23, <1>2 DEF FreshInv
<1> QED BY <1>10, <1>11, <1>14, <1>15, <1>24 DEF IInv

LEMMA NextInv == IInv /\ [Next]_vars => IInv'
<1> SUFFICES ASSUME IInv, [Next]_vars PROVE IInv' OBVIOUS
<1>1. CASE \E p \in Packets : Write(p)
  <2>1. PICK p \in Packets : Write(p) BY <1>1
  <2> QED BY <2>1, WriteInv
<1>2. CASE UNCHANGED vars
  <2>1. v2' = v2 /\ body' = body /\ req' = req BY <1>2 DEF vars
  <2> QED BY <2>1 DEF IInv, TypeOK, GrammarInv, PositionInv, ArgumentInv, FreshInv,
                      FullClonesCached, Handled, Dispatch, Has, HasAny, Written
<1> QED BY <1>1, <1>2 DEF Next

\* The inductive invariant holds in every behaviour.
THEOREM InductiveInvariant == Spec => []IInv
<1> QED BY InitInv, NextInv, PTL DEF Spec

LEMMA IInvImplies == IInv => OnlyFullClonesCached /\ FullClonesCached
<1> SUFFICES ASSUME IInv PROVE OnlyFullClonesCached /\ FullClonesCached OBVIOUS
<1>1. Handled = "clone" => req.isFreshClone BY DEF Handled, Dispatch
<1>2. FreshInv BY DEF IInv
<1> QED BY <1>1, <1>2 DEF FreshInv, OnlyFullClonesCached

\* However long a body is, and wherever it is cut, no fetch with a have line is taken for
\* a full clone, and in v2 none that cuts the history or filters (handleUploadPack).
THEOREM OnlyFullClonesCachedAlways == Spec => []OnlyFullClonesCached
<1> QED BY InductiveInvariant, IInvImplies, PTL

\* Every full clone, with any number of wants and capabilities, is found to be one by
\* both parsers.
THEOREM FullClonesCachedAlways == Spec => []FullClonesCached
<1> QED BY InductiveInvariant, IInvImplies, PTL

LEMMA FinalStep == IInv /\ [Next]_vars => (Handled = "clone" => Handled' = "clone")
<1> SUFFICES ASSUME IInv, [Next]_vars, Handled = "clone" PROVE Handled' = "clone"
  OBVIOUS
<1>1. v2' = v2 BY DEF Next, Write, vars
<1>2. req.isFreshClone BY DEF Handled, Dispatch
<1>3. req.over BY <1>2 DEF IInv, FreshInv, PositionInv, Has, HasAny
<1>4. req' = req BY <1>3 DEF Next, Write, Parser, vars
<1> QED BY <1>1, <1>4 DEF Handled, Dispatch

\* A prefix of a body that is taken for a clone decides for all that begins with it, so
\* that cutting a body short does not change what the cache is asked.
THEOREM DecisionIsFinalAlways == Spec => DecisionIsFinal
<1> QED BY InductiveInvariant, FinalStep, PTL DEF Spec, DecisionIsFinal
=============================================================================
