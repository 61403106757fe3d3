------------------------------ MODULE PackageProxy ------------------------------
(***************************************************************************)
(* The handlers of the npm proxy (src/npm/npm.go) and of the apt proxy     *)
(* (src/apt/apt.go) over GetOrFetch (Coalescing): requests of several      *)
(* clients for one key, some of whom go away.  Whoever leads fetches with  *)
(* its own request: the apt proxy stops if that client leaves, the npm     *)
(* proxy does not.  The conditions and encodings that the apt proxy sends  *)
(* along are not modelled: what they make of a body is up to the leader's  *)
(* request, in whatever order the requests come.                           *)
(***************************************************************************)
EXTENDS Coalescing

CONSTANTS
  Proxies,   \* "npm", "apt" or both
  Leavers    \* bound of the model: calls whose clients may go away

ASSUME LeaversAssumption == Leavers \subseteq Calls
ASSUME ProxiesAssumption == Proxies \subseteq {"npm", "apt"}

VARIABLES
  proxy,    \* the proxy that serves the key
  left,     \* calls whose client has gone away
  refused,  \* flights the upstream or the disk failed
  author,   \* the call that fetched the file at the path, or NoCall
  from      \* per call: the author of the file it was answered with, or NoCall

aux == <<proxy, left, refused, author, from>>
allVars == <<vars, aux>>

PInit ==
  /\ Init
  /\ proxy \in Proxies
  /\ left = {} /\ refused = {} /\ author = NoCall
  /\ from = [c \in Calls |-> NoCall]

-----------------------------------------------------------------------------
(* fetchUpstream, fetchFromUpstream *)

\* Mutation: every proxy fetches with the client's context.
CancelsAny(c) == c \in left
\* http.NewRequestWithContext(origReq.Context()) against http.NewRequest.
Cancels(c) == proxy = "apt" /\ c \in left

-----------------------------------------------------------------------------
(* The handlers: every step of GetOrFetch, and what it means here *)

Answered(c) ==
  from' = IF result'[c] \in {0, Failed} \/ result'[c] = result[c] THEN from
          ELSE [from EXCEPT ![c] = author]

PLook(c) == Look(c) /\ Answered(c) /\ UNCHANGED <<proxy, left, refused, author>>
PFollow(c) == Follow(c) /\ Answered(c) /\ UNCHANGED <<proxy, left, refused, author>>

PRename(c) ==
  /\ PutRename(c) /\ author' = c
  /\ UNCHANGED <<proxy, left, refused, from>>

PFetchFails(c) ==
  /\ FetchFails(c)
  /\ \/ refused' = refused \cup {c}
     \/ Cancels(c) /\ UNCHANGED refused
  /\ UNCHANGED <<proxy, left, author, from>>

POpenOwn(c) == OpenOwn(c) /\ Answered(c) /\ UNCHANGED <<proxy, left, refused, author>>

PLead(c) ==
  \/ (Fetch(c) \/ PutRegister(c) \/ Done(c) \/ Delete(c)) /\ UNCHANGED aux
  \/ PRename(c) \/ PFetchFails(c) \/ POpenOwn(c)

\* The client closes its connection: the handler goes on, its context is cancelled.
Goes(c) ==
  /\ c \in Leavers \ left /\ pc[c] # "returned"
  /\ left' = left \cup {c}
  /\ UNCHANGED <<vars, proxy, refused, author, from>>

PNext ==
  \/ \E c \in Calls : PLook(c) \/ PFollow(c) \/ PLead(c) \/ Goes(c)
  \/ (Evict \/ Publish \/ AllReturned) /\ UNCHANGED aux

PSpec == PInit /\ [][PNext]_allVars

PFairSpec ==
  PSpec /\ \A c \in Calls : WF_allVars(PLook(c) \/ PFollow(c) \/ PLead(c))

-----------------------------------------------------------------------------
(* Properties *)

\* The flight a call led or joined.
FlightOf(c) == IF joined[c] # NoCall THEN joined[c] ELSE c

\* With nothing evicted a call fails only if the flight it led or joined was refused,
\* or if the proxy is apt and the leader's client has left.  Nobody's leaving harms a
\* client of the npm proxy, which tests cannot see with one client at a time.
LeaversHarmNobody ==
  \A c \in Calls :
    evictions = 0 /\ result[c] = Failed =>
      FlightOf(c) \in refused \/ (proxy = "apt" /\ FlightOf(c) \in left)

\* The headers the apt proxy sends with a miss (Content-Length, ETag, Last-Modified) are
\* those of the bytes it sends: a leader opens the very file it has fetched.
OwnHeaders ==
  \A c \in Calls : fetched[c] # 0 /\ result[c] \notin {0, Failed} => from[c] = c

-----------------------------------------------------------------------------
(* The inductive invariant behind them (proved in CoalescingProofs) *)

PTypeOK ==
  /\ proxy \in {"npm", "apt"}
  /\ left \subseteq Leavers /\ refused \subseteq Calls
  /\ author \in Calls \cup {NoCall} /\ from \in [Calls -> Calls \cup {NoCall}]

\* A flight that did not fail has a version, and one that did has somebody to blame.
FetchedInv ==
  \A c \in Calls :
    /\ pc[c] \in {"rename", "register", "open"} => fetched[c] # 0
    /\ pc[c] \in {"done", "delete"} \/ c \in landed => err[c] \/ fetched[c] # 0
    /\ err[c] => c \in refused \/ (proxy = "apt" /\ c \in left)

\* The author of the file fetched it, and the leader about to open it is its author.
AuthorInv ==
  /\ author # NoCall => fetched[author] # 0
  /\ file # 0 => author # NoCall /\ fetched[author] = file
  /\ \A c \in Calls : pc[c] \in {"register", "open"} /\ file # 0 => author = c

\* Nothing is lost without an eviction: no path goes stale, and what was stored is there.
KeptInv ==
  evictions = 0 =>
    /\ entry => file # 0
    /\ \A c \in Calls :
         /\ pc[c] # "stale" /\ (pc[c] = "hit" => file # 0)
         /\ Stored(c) /\ fetched[c] # 0 => file # 0

PIInv ==
  /\ IInv /\ PTypeOK /\ FetchedInv /\ AuthorInv /\ KeptInv
  /\ LeaversHarmNobody /\ OwnHeaders
=============================================================================
