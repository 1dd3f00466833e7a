----------------------------- MODULE LiveUpdates -----------------------------
(***************************************************************************)
(* The event stream from the server to a browser: api/ws_events.py on the  *)
(* event bus, web/js/events.js and web/js/app.js at the other end, with    *)
(* the emergency stop and the open confirmations they are about.           *)
(*                                                                         *)
(* A step is what the server does between two awaits, or one callback of   *)
(* the browser.  A lost connection is noticed by both ends in one step:    *)
(* what the server still sends before it notices reaches nobody.           *)
(***************************************************************************)
EXTENDS EventBus

CONSTANTS
    Questions,           \* confirmations, each asked at most once
    Replay,              \* the history parameter of the connection
    Restarts,            \* may the server die and start again?
    MaxEvents            \* bound on the number of events

ASSUME UpdatesAssumption == Replay \in Nat /\ MaxEvents \in Nat /\ Restarts \in BOOLEAN

VARIABLES
    engaged,             \* EmergencyStop._engaged
    asked,               \* the confirmations: in _pending and open, or with an answer
    conn,                \* the client's connection
    since,               \* the position at which the connection subscribed
    inflight,            \* what send_text is sending
    feed,                \* what the page has from this connection, by position
    http,                \* lookups and answers under way, by client
    shown,               \* state.emergencyEngaged of the page
    dialogs              \* openPermissionDialogs of the page

serverVars == <<engaged, asked>>
socketVars == <<conn, since, inflight>>
pageVars == <<feed, http, shown, dialogs>>
vars == <<busVars, serverVars, socketVars, pageVars>>

Messages ==
    [kind : {"stop?", "questions?"}]
    \cup [kind : {"stop"}, engaged : BOOLEAN]
    \cup [kind : {"questions"}, ids : SUBSET Questions]
    \cup [kind : {"deny", "allow"}, id : Questions]

TypeOK ==
    /\ BusTypeOK
    /\ engaged \in BOOLEAN
    /\ asked \in [Questions -> {"new", "open", "answered", "gone"}]
    /\ conn \in [Clients -> {"off", "connecting", "greeting", "up"}]
    /\ since \in [Clients -> 0 .. Len(log)]
    /\ inflight \in [Clients -> Seq(1 .. Len(log))]
    /\ feed \in [Clients -> Seq(1 .. Len(log))]
    /\ http \in [Clients -> SUBSET Messages]
    /\ shown \in [Clients -> BOOLEAN]
    /\ dialogs \in [Clients -> SUBSET Questions]

Init ==
    /\ BusInit
    /\ engaged = FALSE
    /\ asked = [q \in Questions |-> "new"]
    /\ conn = [c \in Clients |-> "off"]
    /\ since = [c \in Clients |-> 0]
    /\ inflight = [c \in Clients |-> <<>>]
    /\ feed = [c \in Clients |-> <<>>]
    /\ http = [c \in Clients |-> {}]
    /\ shown = [c \in Clients |-> FALSE]
    /\ dialogs = [c \in Clients |-> {}]

-----------------------------------------------------------------------------
(* The server. *)

Announce(contents) ==
    /\ Len(log) + Len(contents) <= MaxEvents
    /\ Emit(contents)

(* cancel_all_pending *)
Withdrawn == [q \in Questions |-> IF asked[q] = "open" THEN "answered" ELSE asked[q]]

(* The button or the shortcut of a page that does not show the stop. *)
Engage ==
    /\ \E c \in Clients : conn[c] # "off" /\ ~shown[c]
    /\ engaged' = TRUE
    /\ asked' = Withdrawn
    /\ IF engaged THEN UNCHANGED busVars
                  ELSE Announce(<< <<"emergency.stop", "on">>, <<"computer.stopped", "">> >>)
    /\ UNCHANGED <<socketVars, pageVars>>

Release ==
    /\ \E c \in Clients : conn[c] # "off" /\ shown[c]
    /\ engaged' = FALSE
    /\ IF engaged THEN Announce(<< <<"emergency.stop", "off">> >>) ELSE UNCHANGED busVars
    /\ UNCHANGED <<asked, socketVars, pageVars>>

(* request_confirmation; under the stop evaluate denies and nothing is asked. *)
AskUser(q) ==
    /\ asked[q] = "new"
    /\ ~engaged
    /\ asked' = [asked EXCEPT ![q] = "open"]
    /\ Announce(<< <<"tool.awaiting_permission", q>> >>)
    /\ UNCHANGED <<engaged, socketVars, pageVars>>

(* The waiting coroutine goes on: answered, timed out or cancelled. *)
StopAsking(q) ==
    /\ asked[q] \in {"open", "answered"}
    /\ asked' = [asked EXCEPT ![q] = "gone"]
    /\ UNCHANGED <<engaged, busVars, socketVars, pageVars>>

(* Any other event, such as a piece of an answer. *)
Chatter ==
    /\ Announce(<< <<"chat.delta", "">> >>)
    /\ UNCHANGED <<serverVars, socketVars, pageVars>>

(* The process dies and starts again. *)
Restart ==
    /\ Restarts
    /\ engaged' = FALSE
    /\ asked' = [q \in Questions |-> IF asked[q] = "new" THEN "new" ELSE "gone"]
    /\ history' = <<>>
    /\ Detach(Clients)
    /\ conn' = [c \in Clients |-> IF conn[c] = "off" THEN "off" ELSE "connecting"]
    /\ inflight' = [c \in Clients |-> <<>>]
    /\ http' = [c \in Clients |-> {m \in http[c] : m.kind \in {"stop", "questions"}}]
    /\ UNCHANGED <<log, since, feed, shown, dialogs>>

-----------------------------------------------------------------------------
(* The socket: events_socket and _pump. *)

(* Mutated form: what was published last is left to the queue. *)
SubscribeBehind(c) ==
    /\ conn[c] = "connecting"
    /\ conn' = [conn EXCEPT ![c] = "greeting"]
    /\ Attach(c)
    /\ since' = [since EXCEPT ![c] = Len(log)]
    /\ inflight' = [inflight EXCEPT ![c] =
           Newest(Replay, SubSeq(history, 1, Len(history) - 1))]
    /\ UNCHANGED <<serverVars, pageVars>>

(* The connection is accepted: subscribed first, then the history is taken, *)
(* and both before anything else can happen.                                *)
Subscribe(c) ==
    /\ conn[c] = "connecting"
    /\ conn' = [conn EXCEPT ![c] = "greeting"]
    /\ Attach(c)
    /\ since' = [since EXCEPT ![c] = Len(log)]
    /\ inflight' = [inflight EXCEPT ![c] = Newest(Replay, history)]
    /\ UNCHANGED <<serverVars, pageVars>>

(* connection.ready arrives: the page's feed is replaced by the history.  No *)
(* handler of a live event sees the history.                                 *)
Greeted(c) ==
    /\ conn[c] = "greeting"
    /\ conn' = [conn EXCEPT ![c] = "up"]
    /\ feed' = [feed EXCEPT ![c] = inflight[c]]
    /\ inflight' = [inflight EXCEPT ![c] = <<>>]
    /\ UNCHANGED <<busVars, serverVars, since, http, shown, dialogs>>

(* Mutated form: the heartbeat's time limit takes an event with it. *)
PumpLosing(c) ==
    /\ conn[c] = "up"
    /\ inflight[c] = <<>>
    /\ Get(c)
    /\ inflight' \in {[inflight EXCEPT ![c] = <<Head(queue[c])>>], inflight}
    /\ UNCHANGED <<serverVars, conn, since, pageVars>>

Pump(c) ==
    /\ conn[c] = "up"
    /\ inflight[c] = <<>>
    /\ Get(c)
    /\ inflight' = [inflight EXCEPT ![c] = <<Head(queue[c])>>]
    /\ UNCHANGED <<serverVars, conn, since, pageVars>>

(* What the handlers of app.js do with an event. *)
OnAwaitingPermission(c, id) ==
    /\ dialogs' = [dialogs EXCEPT ![c] = @ \cup {id}]
    /\ UNCHANGED <<http, shown>>

(* Every open dialog is closed, which answers "deny". *)
OnEmergencyStop(c, on) ==
    /\ shown' = [shown EXCEPT ![c] = on]
    /\ dialogs' = [dialogs EXCEPT ![c] = {}]
    /\ http' = [http EXCEPT ![c] = @ \cup {[kind |-> "deny", id |-> q] : q \in dialogs[c]}]

Handle(c, content) ==
    \/ content[1] = "tool.awaiting_permission" /\ OnAwaitingPermission(c, content[2])
    \/ content[1] = "emergency.stop" /\ OnEmergencyStop(c, content[2] = "on")
    \/ /\ content[1] \notin {"tool.awaiting_permission", "emergency.stop"}
       /\ UNCHANGED <<http, shown, dialogs>>

(* An event arrives at the page. *)
Arrive(c) ==
    /\ conn[c] = "up"
    /\ inflight[c] # <<>>
    /\ feed' = [feed EXCEPT ![c] = Append(@, Head(inflight[c]))]
    /\ inflight' = [inflight EXCEPT ![c] = <<>>]
    /\ Handle(c, log[Head(inflight[c])])
    /\ UNCHANGED <<busVars, serverVars, conn, since>>

(* The connection is lost; the page tries again, for ever. *)
Lose(c) ==
    /\ conn[c] \in {"greeting", "up"}
    /\ conn' = [conn EXCEPT ![c] = "connecting"]
    /\ Detach({c})
    /\ inflight' = [inflight EXCEPT ![c] = <<>>]
    /\ UNCHANGED <<log, history, serverVars, since, pageVars>>

-----------------------------------------------------------------------------
(* The page. *)

(* boot: the stream is connected, and the stop and the open confirmations are *)
(* looked up, once.                                                           *)
OpenPage(c) ==
    /\ conn[c] = "off"
    /\ conn' = [conn EXCEPT ![c] = "connecting"]
    /\ http' = [http EXCEPT ![c] = [kind : {"stop?", "questions?"}]]
    /\ UNCHANGED <<busVars, serverVars, since, inflight, feed, shown, dialogs>>

ClosePage(c) ==
    /\ conn[c] # "off"
    /\ conn' = [conn EXCEPT ![c] = "off"]
    /\ Detach({c})
    /\ inflight' = [inflight EXCEPT ![c] = <<>>]
    /\ feed' = [feed EXCEPT ![c] = <<>>]
    /\ http' = [http EXCEPT ![c] = {}]
    /\ shown' = [shown EXCEPT ![c] = FALSE]
    /\ dialogs' = [dialogs EXCEPT ![c] = {}]
    /\ UNCHANGED <<log, history, serverVars, since>>

Listed == {q \in Questions : asked[q] \in {"open", "answered"}}

Reply(m) == IF m.kind = "stop?" THEN [kind |-> "stop", engaged |-> engaged]
                                ELSE [kind |-> "questions", ids |-> Listed]

(* The server answers a lookup. *)
Serve(c) ==
    /\ \E m \in http[c] :
          /\ m.kind \in {"stop?", "questions?"}
          /\ http' = [http EXCEPT ![c] = (@ \ {m}) \cup {Reply(m)}]
    /\ UNCHANGED <<busVars, serverVars, socketVars, feed, shown, dialogs>>

(* resolve: only an open confirmation takes an answer. *)
TakeAnswer(c) ==
    /\ \E m \in http[c] :
          /\ m.kind \in {"deny", "allow"}
          /\ http' = [http EXCEPT ![c] = @ \ {m}]
          /\ asked' = [asked EXCEPT ![m.id] = IF @ = "open" THEN "answered" ELSE @]
    /\ UNCHANGED <<engaged, busVars, socketVars, feed, shown, dialogs>>

(* checkEmergency and catchUpPermissions have their reply. *)
LookedUp(c) ==
    /\ \E m \in http[c] :
          /\ http' = [http EXCEPT ![c] = @ \ {m}]
          /\ \/ /\ m.kind = "stop"
                /\ shown' = [shown EXCEPT ![c] = m.engaged]
                /\ UNCHANGED dialogs
             \/ /\ m.kind = "questions"
                /\ dialogs' = [dialogs EXCEPT ![c] = @ \cup m.ids]
                /\ UNCHANGED shown
    /\ UNCHANGED <<busVars, serverVars, socketVars, feed>>

(* The user answers a dialog. *)
Click(c, q) ==
    /\ q \in dialogs[c]
    /\ dialogs' = [dialogs EXCEPT ![c] = @ \ {q}]
    /\ \E answer \in {"deny", "allow"} :
          http' = [http EXCEPT ![c] = @ \cup {[kind |-> answer, id |-> q]}]
    /\ UNCHANGED <<busVars, serverVars, socketVars, feed, shown>>

Socket(c) == Subscribe(c) \/ Greeted(c) \/ Pump(c) \/ Arrive(c) \/ Lose(c)

Page(c) == OpenPage(c) \/ ClosePage(c) \/ Serve(c) \/ TakeAnswer(c) \/ LookedUp(c)

Next ==
    \/ \E c \in Clients : Socket(c) \/ Page(c)
    \/ \E c \in Clients, q \in Questions : Click(c, q)
    \/ \E q \in Questions : AskUser(q) \/ StopAsking(q)
    \/ Engage \/ Release \/ Chatter \/ Restart

Spec == Init /\ [][Next]_vars

(* The event loop runs the pump, and a sent message arrives unless the *)
(* connection is lost.                                                 *)
Fairness == \A c \in Clients : WF_vars(Greeted(c)) /\ WF_vars(Pump(c)) /\ WF_vars(Arrive(c))

FairSpec == Spec /\ Fairness

-----------------------------------------------------------------------------
(* Properties. *)

Had(c) == feed[c] \o inflight[c]

Increasing(s) == \A i, j \in DOMAIN s : i < j => s[i] < s[j]

(* events_socket, _pump and offer: the history a page gets and the events that *)
(* follow it fit together.  Nothing comes twice or out of order, there is no   *)
(* gap between the two, and what is missing after that was counted as dropped. *)
NoGapNoRepeat ==
    \A c \in Clients : conn[c] = "up" =>
        LET all == Had(c) \o queue[c]
        IN /\ Increasing(all)
           /\ \E replayed \in 0 .. Len(feed[c]) :
                /\ \A i \in 1 .. replayed : all[i] = since[c] - replayed + i
                /\ \A i \in replayed + 1 .. Len(all) : all[i] > since[c]
                /\ Len(all) - replayed + dropped[c] = Len(log) - since[c]

(* The last event a subscriber was given. *)
LastGiven(c) ==
    LET given == {since[c]} \cup {Had(c)[i] : i \in 1 .. Len(Had(c))}
    IN IF c \in subscribers THEN CHOOSE p \in given : \A r \in given : r <= p ELSE 0

Feed == INSTANCE LossyFeed WITH Window <- QueueSize, published <- Len(log),
                                joined <- subscribers, last <- [c \in Clients |-> LastGiven(c)]

(* The bus with its sockets keeps the promise of LossyFeed. *)
ImplementsFeed == Feed!FeedSpec

(* _pump: an event in the queue of a connection arrives at the page, unless it *)
(* has to make room for newer ones or the connection is lost.                  *)
EventsArrive ==
    \A c \in Clients, p \in 1 .. MaxEvents :
        (\E i \in 1 .. Len(queue[c]) : queue[c][i] = p) ~>
            \/ \E i \in 1 .. Len(feed[c]) : feed[c][i] = p
            \/ dropped[c] > 0 \/ conn[c] # "up"

=============================================================================
