------------------------------ MODULE EventBus ------------------------------
(***************************************************************************)
(* core/events.py: the fan-out of events to bounded subscriber queues and  *)
(* the replay history.  An event is known by its position among all events *)
(* ever emitted, which stands for Event.id.  emit runs without an await.   *)
(* Type filters are left out: the web interface subscribes to everything,  *)
(* and a filtered subscription is the same one with fewer events.          *)
(***************************************************************************)
EXTENDS Integers, Sequences

CONSTANTS
    Clients,             \* each has at most one Subscription at a time
    QueueSize,           \* QUEUE_SIZE
    HistorySize          \* HISTORY_SIZE

ASSUME BusAssumption ==
    /\ QueueSize \in Nat \ {0}
    /\ HistorySize \in Nat \ {0}

VARIABLES
    log,                 \* what the events said, by position
    history,             \* EventBus._history
    subscribers,         \* EventBus._subscribers
    queue,               \* Subscription._queue
    dropped              \* Subscription.dropped

busVars == <<log, history, subscribers, queue, dropped>>

BusTypeOK ==
    /\ log \in Seq(STRING \X STRING)
    /\ history \in Seq(1 .. Len(log)) /\ Len(history) <= HistorySize
    /\ subscribers \subseteq Clients
    /\ queue \in [Clients -> Seq(1 .. Len(log))]
    /\ \A c \in Clients : Len(queue[c]) <= QueueSize
    /\ dropped \in [Clients -> Nat]

BusInit ==
    /\ log = <<>>
    /\ history = <<>>
    /\ subscribers = {}
    /\ queue = [c \in Clients |-> <<>>]
    /\ dropped = [c \in Clients |-> 0]

-----------------------------------------------------------------------------
(* The last k members of s, or all of them: what is left in a bounded queue *)
(* or deque that drops its oldest member to make room.                      *)
Newest(k, s) == IF Len(s) <= k THEN s ELSE SubSeq(s, Len(s) - k + 1, Len(s))

Excess(k, s) == IF Len(s) <= k THEN 0 ELSE Len(s) - k

(* Mutated form: a full queue refuses the new event. *)
OfferedAtEnd(c, events) ==
    LET q == queue[c] \o events IN IF Len(q) <= QueueSize THEN q ELSE SubSeq(q, 1, QueueSize)

(* Subscription.offer, for the events in turn. *)
Offered(c, events) == Newest(QueueSize, queue[c] \o events)

(* emit, once for each of the contents. *)
Emit(contents) ==
    LET events == [i \in 1 .. Len(contents) |-> Len(log) + i]
    IN /\ log' = log \o contents
       /\ history' = Newest(HistorySize, history \o events)
       /\ queue' = [c \in Clients |->
                       IF c \in subscribers THEN Offered(c, events) ELSE queue[c]]
       /\ dropped' = [c \in Clients |->
                       IF c \in subscribers
                       THEN dropped[c] + Excess(QueueSize, queue[c] \o events) ELSE dropped[c]]
       /\ UNCHANGED subscribers

(* subscribe: a new Subscription with an empty queue. *)
Attach(c) ==
    /\ subscribers' = subscribers \cup {c}
    /\ queue' = [queue EXCEPT ![c] = <<>>]
    /\ dropped' = [dropped EXCEPT ![c] = 0]
    /\ UNCHANGED <<log, history>>

(* unsubscribe: the object goes with what is still in its queue. *)
Detach(gone) ==
    /\ subscribers' = subscribers \ gone
    /\ queue' = [c \in Clients |-> IF c \in gone THEN <<>> ELSE queue[c]]
    /\ dropped' = [c \in Clients |-> IF c \in gone THEN 0 ELSE dropped[c]]

(* Subscription.get *)
Get(c) ==
    /\ queue[c] # <<>>
    /\ queue' = [queue EXCEPT ![c] = Tail(@)]
    /\ UNCHANGED <<log, history, subscribers, dropped>>
=============================================================================
