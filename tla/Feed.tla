------------------------------- MODULE Feed -------------------------------
(***************************************************************************)
(* What the daemon promises a live stream client about the packet ring,    *)
(* with no channel and no queue in it.                                     *)
(*                                                                         *)
(* Entries are published one by one and numbered from 1.  A connection is  *)
(* owed every entry published while it is live, in order and without a     *)
(* hole.  The daemon may cut a connection off at any entry; from then on   *)
(* it is owed exactly what was published before the cut and nothing        *)
(* later, so a client that has read what it was owed knows the number of   *)
(* the last entry it has and can ask the backlog for what follows.         *)
(* PacketRing implements this module; the refinement mapping is there.     *)
(***************************************************************************)
EXTENDS Integers

CONSTANTS
  Conns,      \* stream connections
  Backlog     \* how many entries the history is to hold

VARIABLES
  published,  \* number of the newest entry
  held,       \* how many of the newest entries the history still has
  st,         \* st[c]: "none", "live" or "cut"
  got,        \* got[c]: number of the last entry delivered to c
  due         \* due[c]: number of the last entry c is owed

feedVars == <<published, held, st, got, due>>

FeedInit ==
  /\ published = 0
  /\ held = 0
  /\ st = [c \in Conns |-> "none"]
  /\ got = [c \in Conns |-> 0]
  /\ due = [c \in Conns |-> 0]

(* A new entry: every live connection is owed it, or is cut off before it. *)
Publish ==
  \E cut \in SUBSET {c \in Conns : st[c] = "live"} :
    /\ published' = published + 1
    /\ held' = IF held < Backlog THEN held + 1 ELSE held
    /\ st' = [c \in Conns |-> IF c \in cut THEN "cut" ELSE st[c]]
    /\ due' = [c \in Conns |-> IF st[c] = "live" /\ c \notin cut
                                 THEN published + 1 ELSE due[c]]
    /\ UNCHANGED got

(* A connection joins: it is owed what comes after the newest entry. *)
Join(c) ==
  /\ st[c] = "none"
  /\ st' = [st EXCEPT ![c] = "live"]
  /\ got' = [got EXCEPT ![c] = published]
  /\ due' = [due EXCEPT ![c] = published]
  /\ UNCHANGED <<published, held>>

Deliver(c) ==
  /\ st[c] # "none"
  /\ got[c] < due[c]
  /\ got' = [got EXCEPT ![c] = @ + 1]
  /\ UNCHANGED <<published, held, st, due>>

(* The stream ends, on either side's initiative. *)
Leave(c) ==
  /\ st[c] # "none"
  /\ st' = [st EXCEPT ![c] = "none"]
  /\ due' = [due EXCEPT ![c] = got[c]]
  /\ UNCHANGED <<published, held, got>>

FeedNext ==
  \/ Publish
  \/ \E c \in Conns : Join(c) \/ Deliver(c) \/ Leave(c)

FeedSpec == FeedInit /\ [][FeedNext]_feedVars
=============================================================================
