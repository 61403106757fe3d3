------------------------------ MODULE SingleFlight ------------------------------
(***************************************************************************)
(* What Cache.GetOrFetch promises to the callers of one key (the comments  *)
(* at src/cache/cache.go:248 and 266): at any time at most one of them is  *)
(* fetching, every caller is answered once, and with bytes that one of the *)
(* fetches produced, or with an error.                                     *)
(***************************************************************************)
EXTENDS Integers

CONSTANTS Calls, NoCall, Versions

VARIABLES leader,    \* the call that fetches, or NoCall
          produced,  \* versions that fetches have produced so far
          answer     \* per call: 0 pending, a version, or -1 for an error

svars == <<leader, produced, answer>>

SInit == leader = NoCall /\ produced = {} /\ answer = [c \in Calls |-> 0]

Start(c) ==
  /\ leader = NoCall /\ answer[c] = 0
  /\ leader' = c
  /\ UNCHANGED <<produced, answer>>

Produce(v) ==
  /\ leader # NoCall
  /\ produced' = produced \cup {v}
  /\ UNCHANGED <<leader, answer>>

\* A call is answered; the leader gives up the flight with its answer.
Answer(c, v) ==
  /\ answer[c] = 0
  /\ v \in produced \cup {-1}
  /\ answer' = [answer EXCEPT ![c] = v]
  /\ leader' = IF leader = c THEN NoCall ELSE leader
  /\ UNCHANGED produced

SNext ==
  \/ \E c \in Calls : Start(c) \/ (\E v \in Versions \cup {-1} : Answer(c, v))
  \/ \E v \in Versions : Produce(v)

SSpec == SInit /\ [][SNext]_svars
=============================================================================
