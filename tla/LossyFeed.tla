------------------------------ MODULE LossyFeed ------------------------------
(***************************************************************************)
(* What a subscriber of the event bus is promised: from the moment it is   *)
(* connected it gets the events in order, each at most once, and misses    *)
(* one only when Window newer ones have been published: it is always given *)
(* the oldest it has not had among the newest Window events.               *)
(***************************************************************************)
EXTENDS Integers

CONSTANTS Clients, Window

VARIABLES
    published,   \* the number of events so far
    joined,      \* the connected clients
    last         \* the last event each of them was given; 0 when not connected

feedVars == <<published, joined, last>>

FeedInit ==
    /\ published = 0
    /\ joined = {}
    /\ last = [c \in Clients |-> 0]

Publish ==
    /\ \E k \in 1 .. 2 : published' = published + k
    /\ UNCHANGED <<joined, last>>

(* What happened before is the business of the replay. *)
Join(c) ==
    /\ c \notin joined
    /\ joined' = joined \cup {c}
    /\ last' = [last EXCEPT ![c] = published]
    /\ UNCHANGED published

Oldest(c) == IF last[c] + 1 > published - Window THEN last[c] + 1 ELSE published - Window + 1

Give(c) ==
    /\ c \in joined
    /\ last[c] < published
    /\ last' = [last EXCEPT ![c] = Oldest(c)]
    /\ UNCHANGED <<published, joined>>

Part(gone) ==
    /\ joined' = joined \ gone
    /\ last' = [c \in Clients |-> IF c \in gone THEN 0 ELSE last[c]]
    /\ UNCHANGED published

FeedNext ==
    \/ Publish
    \/ \E c \in Clients : Join(c) \/ Give(c) \/ Part({c})
    \/ Part(Clients)

FeedSpec == FeedInit /\ [][FeedNext]_feedVars
=============================================================================
