-------------------------------- MODULE UploadPack --------------------------------
(***************************************************************************)
(* The git-upload-pack request of a clone or fetch: the two parsers of its *)
(* body (src/git/pktline.go) and what handleUploadPack (src/git/handler.go)*)
(* does with the result: serve it from the pack cache, answer it from the  *)
(* ls-refs cache, or forward it.                                           *)
(*                                                                         *)
(* A body is a sequence of packets, of a line only its first word counts.  *)
(* The client writes it along the grammar of git.  The parser is run along *)
(* with it: both parsers read a packet at a time and keep nothing but req, *)
(* so that req is at any time what parsing the body written so far gives,  *)
(* and a body cut anywhere (what is parsed of a compressed body is cut at  *)
(* MaxUploadPackRequestSize) is a state of its own.                        *)
(***************************************************************************)
EXTENDS Naturals, Sequences

CONSTANT MaxPackets   \* bound of the model: packets in a body

ASSUME MaxPacketsAssumption == MaxPackets \in Nat

\* flush, delim: the packets 0000 and 0001; bad: a length that is no number, or a
\* packet that ends before its length.
Lines == {"want", "have", "shallow", "deepen", "filter", "done", "capability",
          "command=fetch", "command=ls-refs"}
Packets == Lines \cup {"flush", "delim", "bad"}

VARIABLES
  v2,     \* isProtocolV2
  body,   \* what the client has written so far
  req     \* what the parser has found in it

vars == <<v2, body, req>>

\* phase and over are the position of the parser: the section of the body it is in,
\* and whether it has returned.
Requests == [phase: {1, 2}, over: BOOLEAN, error: BOOLEAN,
             command: {"none", "fetch", "ls-refs"},
             isFreshClone: BOOLEAN, isShallow: BOOLEAN, hasFilter: BOOLEAN]

TypeOK == v2 \in BOOLEAN /\ body \in Seq(Packets) /\ req \in Requests

Init ==
  /\ v2 \in BOOLEAN
  /\ body = <<>>
  /\ req = [phase |-> 1, over |-> FALSE, error |-> FALSE, command |-> "none",
            isFreshClone |-> FALSE, isShallow |-> FALSE, hasFilter |-> FALSE]

-----------------------------------------------------------------------------
(* Scanner and the two parsers: what each makes of the next packet *)

\* Line() of a flush or delimiter is empty.
Empty(p) == p \in {"flush", "delim"}
Shallows(p) == p \in {"shallow", "deepen"}
Ends(p) == p = "done" \/ Empty(p)

\* Scan fails on a bad packet, and the parser returns its error.
ScanFails(p) == p = "bad"

\* Mutation: the delimiter does not end section 1.
Section1FlushOnly(r, p) ==
  [r EXCEPT !.phase = IF p = "flush" THEN 2 ELSE 1,
            !.command = IF ~v2 THEN @
                        ELSE IF p = "command=fetch" THEN "fetch"
                        ELSE IF p = "command=ls-refs" THEN "ls-refs" ELSE @]
\* Section 1, up to the first empty line: the wants of v1, the command of v2.
Section1(r, p) ==
  [r EXCEPT !.phase = IF Empty(p) THEN 2 ELSE 1,
            !.command = IF ~v2 THEN @
                        ELSE IF p = "command=fetch" THEN "fetch"
                        ELSE IF p = "command=ls-refs" THEN "ls-refs" ELSE @]

\* Mutation: a have does not end the search.
ArgumentV1ReadsOn(r, p) ==
  [r EXCEPT !.isShallow = @ \/ Shallows(p),
            !.over = Ends(p),
            !.isFreshClone = Ends(p) /\ ~r.isShallow]

\* parseUploadPackRequest, a line after the wants: a have ends the search, so do done
\* and flush.
ArgumentV1(r, p) ==
  [r EXCEPT !.isShallow = @ \/ Shallows(p),
            !.over = p = "have" \/ Ends(p),
            !.isFreshClone = Ends(p) /\ ~r.isShallow]

\* parseV2UploadPackRequest, a line after the delimiter.
ArgumentV2(r, p) ==
  [r EXCEPT !.isShallow = @ \/ Shallows(p),
            !.hasFilter = @ \/ p = "filter",
            !.over = p = "have" \/ Ends(p),
            !.isFreshClone = /\ Ends(p) /\ r.command = "fetch"
                             /\ ~r.isShallow /\ ~r.hasFilter]

Parser(r, p) ==
  IF r.over THEN r
  ELSE IF ScanFails(p) THEN [r EXCEPT !.over = TRUE, !.error = TRUE]
  ELSE IF r.phase = 1 THEN Section1(r, p)
  ELSE IF v2 THEN ArgumentV2(r, p) ELSE ArgumentV1(r, p)

-----------------------------------------------------------------------------
(* handleUploadPack *)

\* Mutation: a clone unless the body has shown otherwise.
DispatchByDefault(tooLarge, allowed) ==
  IF tooLarge \/ req.error \/ ~allowed THEN "forward"
  ELSE IF v2 /\ req.command = "ls-refs" THEN "ls-refs"
  ELSE IF req.hasFilter \/ (req.over /\ ~req.isFreshClone) \/ req.isShallow THEN "forward"
  ELSE "clone"

\* Where the request goes.  tooLarge: longer than MaxUploadPackRequestSize, or not
\* read to its end; allowed: isAllowedHost.
Dispatch(tooLarge, allowed) ==
  IF tooLarge \/ req.error \/ ~allowed THEN "forward"
  ELSE IF v2 /\ req.command = "ls-refs" THEN "ls-refs"
  ELSE IF req.hasFilter \/ ~req.isFreshClone \/ req.isShallow THEN "forward"
  ELSE "clone"

-----------------------------------------------------------------------------
(* The body a git client writes *)

Written == {body[i] : i \in DOMAIN body}
Has(p) == p \in Written
Latest == IF body = <<>> THEN "none" ELSE body[Len(body)]
HasAny(ps) == \E p \in ps : Has(p)
Arguments == {"want", "have", "shallow", "deepen", "filter"}

\* v1: the wants, how to cut the history or the objects, a flush; haves in rounds
\* that end with a flush; done.
FollowsV1(p) ==
  \/ p = "want" /\ Latest \in {"none", "want"}
  \/ p \in {"shallow", "deepen", "filter"} /\ Has("want") /\ ~Has("flush")
  \/ p = "flush" /\ IF Has("flush") THEN Latest = "have" ELSE Has("want")
  \/ p \in {"have", "done"} /\ Has("flush")

\* v2: the command and capabilities, a delimiter, arguments in any order, done at
\* the end of them unless there are haves, a flush.
FollowsV2(p) ==
  \/ p \in {"command=fetch", "command=ls-refs"} /\ body = <<>>
  \/ p = "capability" /\ Len(body) = 1
  \/ p = "delim" /\ Len(body) \in 1..2 /\ ~Has("delim")
  \/ p \in Arguments /\ Has("command=fetch") /\ Has("delim") /\ ~Has("done")
  \/ p = "done" /\ Has("want") /\ ~Has("done")
  \/ p = "flush" /\ Has("delim") /\ (Has("command=ls-refs") \/ HasAny({"done", "have"}))

Over ==
  \/ Has("bad")
  \/ IF v2 THEN Has("flush") ELSE Has("done")

\* The client writes a packet; the last of a body may be cut.
Write(p) ==
  /\ ~Over /\ Len(body) < MaxPackets
  /\ p = "bad" \/ (v2 /\ FollowsV2(p)) \/ (~v2 /\ FollowsV1(p))
  /\ body' = Append(body, p)
  /\ req' = Parser(req, p)
  /\ UNCHANGED v2

Next == (\E p \in Packets : Write(p)) \/ UNCHANGED vars

Spec == Init /\ [][Next]_vars

-----------------------------------------------------------------------------
(* Properties *)

Handled == Dispatch(FALSE, TRUE)

\* What a request must not have to be served the pack of a full clone.
Restricting == {"have", "shallow", "deepen", "filter"}

\* No fetch is taken for a full clone that has a have line, wherever it stands; in
\* v2, none that cuts the history or filters objects either.
OnlyFullClonesCached ==
  Handled = "clone" =>
    ~HasAny(IF v2 THEN Restricting ELSE {"have"})

\* Every full clone that has been written to its end goes to the pack cache, so that
\* nothing in the framing makes a cacheable clone miss it.
FullClonesCached ==
  Has("done") /\ ~HasAny(Restricting) /\ ~Has("bad") => Handled = "clone"

\* What is cut off a body never turns a fetch into a clone: once a prefix is taken for
\* a clone so is every body that begins with it.
DecisionIsFinal == [][Handled = "clone" => Handled' = "clone"]_vars

\* What the comment on handleUploadPack says: shallow and partial clones are
\* forwarded, whatever the protocol.
ShallowClonesForwarded ==
  Handled = "clone" => ~HasAny({"shallow", "deepen", "filter"})

-----------------------------------------------------------------------------
(* The inductive invariant behind them (proved in UploadPackProofs) *)

\* What the grammar alone gives: no clone without its command and its sections.
GrammarInv ==
  /\ v2 /\ Has("want") => Has("delim") /\ Has("command=fetch")
  /\ Has("done") => Has("want")
  /\ Has("flush") => Has(IF v2 THEN "delim" ELSE "want")
  /\ ~v2 => ~HasAny({"delim", "command=fetch", "command=ls-refs"})

\* The parser is where the body is, and knows what the body holds.
PositionInv ==
  /\ ~req.over => req.phase = (IF HasAny({"flush", "delim"}) THEN 2 ELSE 1)
  /\ req.error => Has("bad")
  /\ req.over <=> HasAny({"bad", "have", "done"}) \/ (Has("command=ls-refs") /\ Has("flush"))
  /\ \A n \in {"fetch", "ls-refs"} :
       req.command = n <=> Has(IF n = "fetch" THEN "command=fetch" ELSE "command=ls-refs")

\* What it knows of the arguments: all of them until it has returned.
ArgumentInv ==
  /\ req.isShallow => HasAny({"shallow", "deepen"})
  /\ req.hasFilter => v2 /\ Has("filter")
  /\ v2 /\ ~req.over => /\ HasAny({"shallow", "deepen"}) => req.isShallow
                        /\ Has("filter") => req.hasFilter

\* A fresh clone was written to its done, which nothing but a flush follows.
FreshInv ==
  /\ req.isFreshClone =>
       Has("done") /\ ~HasAny(IF v2 THEN Restricting ELSE {"have"})
  /\ FullClonesCached

IInv == TypeOK /\ GrammarInv /\ PositionInv /\ ArgumentInv /\ FreshInv
=============================================================================
