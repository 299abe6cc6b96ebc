----------------------------- MODULE EventFeed -----------------------------
(***************************************************************************)
(* What a live stream of events promises its reader: events of what it     *)
(* follows, each at most once, in the order of their ids, and never before *)
(* they are in the log.  It does not promise all of them.                  *)
(***************************************************************************)
EXTENDS Naturals, Sequences

CONSTANTS
  Subjects,   \* what an event may be about
  Streams,    \* readers
  Wants       \* the subjects each of them follows

VARIABLES
  log,        \* the subjects of the events, indexed by event id
  got         \* the ids each reader was sent

feedVars == <<log, got>>

LastGot(s) == IF got[s] = <<>> THEN 0 ELSE got[s][Len(got[s])]

FeedInit ==
  /\ log = <<>>
  /\ got = [s \in Streams |-> <<>>]

Record(x) == log' = Append(log, x) /\ UNCHANGED got

Deliver(s, id) ==
  /\ LastGot(s) < id
  /\ log[id] \in Wants[s]
  /\ got' = [got EXCEPT ![s] = Append(@, id)]
  /\ UNCHANGED log

FeedNext ==
  \/ \E x \in Subjects : Record(x)
  \/ \E s \in Streams, id \in 1..Len(log) : Deliver(s, id)

FeedSpec == FeedInit /\ [][FeedNext]_feedVars
=============================================================================
