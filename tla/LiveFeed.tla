------------------------------- MODULE LiveFeed -------------------------------
(***************************************************************************)
(* How the panel hears of changes it did not make (src/frontend/src/api):   *)
(* WebSocketClient opens a socket, reopens it when it closes, and passes     *)
(* messages on; useWebSocketBridge stores a pushed list in the query cache    *)
(* or, when told that the list is out of date, fetches it again a little     *)
(* later, unless the change was this panel's own.                            *)
(*                                                                         *)
(* Two clients exist, one made by websocketBridge.ts and one by              *)
(* useWebSocket.ts; each has a socket of its own.  Nothing calls             *)
(* disconnect, so shouldReconnect stays true and is left out, and so are the *)
(* delays: a timer may fire at any time.  A message is an event kind and     *)
(* what the page reads of its payload.                                       *)
(***************************************************************************)
EXTENDS Naturals, Sequences, FiniteSets

CONSTANTS
    Conns,          \* the two clients
    Hears,          \* the events each of them has listeners for
    Sockets,        \* browser sockets one client has at a time
    MaxQueue        \* bound: messages on their way to one client

ASSUME FeedAssumption == MaxQueue \in Nat /\ Sockets # {} /\ 0 \notin Sockets

SocketStates == {"none", "connecting", "open", "closing"}
Alive == {"connecting", "open"}

VARIABLES
    sockets,        \* the sockets of each client, by readyState; "none" once closed
    ws,             \* this.ws, 0 for null
    isConnected,
    reconnectTimer, \* whether one is set
    wire,           \* messages sent to the open socket
    invalidateTimer,\* whether the refetch of the inbounds is waiting out its 200 ms
    recent,         \* whether a change of this panel is less than 1.5 s old
    slim,           \* the query ['inbounds', 'slim']: the list it holds
    fetch           \* and its request: whether the server has answered, what, and
                    \*   whether it is the retry

connection == <<sockets, ws, isConnected, reconnectTimer>>
query == <<invalidateTimer, recent, slim, fetch>>

NoFetch == [st |-> "none", list |-> <<>>, retry |-> FALSE]
Asked == [NoFetch EXCEPT !.st = "asked"]

-----------------------------------------------------------------------------
(* WebSocketClient.                                                         *)

Receiving(c) == {k \in Sockets : sockets[c][k] = "open"}

\* What the hub's broadcast does to the messages under way: a client without
\* an open socket gets nothing, a full queue drops the message.
Sent(event) ==
    [c \in Conns |->
        IF event.type \in Hears[c] /\ Receiving(c) # {} /\ Len(wire[c]) < MaxQueue
        THEN Append(wire[c], event) ELSE wire[c]]

\* #openSocket: the constructor returns a connecting socket, or throws.
\* Mutant: a constructor that throws is not tried again.
MutOpenSocket(c) ==
    /\ reconnectTimer' = [reconnectTimer EXCEPT ![c] = FALSE]
    /\ \/ \E k \in Sockets :
           /\ sockets[c][k] = "none"
           /\ sockets' = [sockets EXCEPT ![c][k] = "connecting"]
           /\ ws' = [ws EXCEPT ![c] = k]
       \/ UNCHANGED <<sockets, ws>>

OpenSocket(c) ==
    \/ \E k \in Sockets :
           /\ sockets[c][k] = "none"
           /\ sockets' = [sockets EXCEPT ![c][k] = "connecting"]
           /\ ws' = [ws EXCEPT ![c] = k]
           /\ reconnectTimer' = [reconnectTimer EXCEPT ![c] = FALSE]
    \/ /\ reconnectTimer' = [reconnectTimer EXCEPT ![c] = TRUE]
       /\ UNCHANGED <<sockets, ws>>

\* A page that listens is mounted.
\* Mutant: a socket that is still connecting is not counted.
MutBusy(c) == ws[c] # 0 /\ sockets[c][ws[c]] = "open"
Busy(c) == ws[c] # 0 /\ sockets[c][ws[c]] \in Alive

Connect(c) ==
    /\ ~Busy(c)
    /\ OpenSocket(c)
    /\ UNCHANGED <<isConnected, wire>> /\ UNCHANGED query

ReconnectFires(c) ==
    /\ reconnectTimer[c]
    /\ OpenSocket(c)
    /\ UNCHANGED <<isConnected, wire>> /\ UNCHANGED query

SocketOpens(c, k) ==
    /\ sockets[c][k] = "connecting"
    /\ sockets' = [sockets EXCEPT ![c][k] = "open"]
    /\ isConnected' = IF ws[c] = k THEN [isConnected EXCEPT ![c] = TRUE] ELSE isConnected
    /\ UNCHANGED <<ws, reconnectTimer, wire>> /\ UNCHANGED query

\* The other end closes: the socket is closing until its close event.
SocketCloses(c, k) ==
    /\ sockets[c][k] = "open"
    /\ sockets' = [sockets EXCEPT ![c][k] = "closing"]
    /\ wire' = [wire EXCEPT ![c] = <<>>]
    /\ UNCHANGED <<ws, isConnected, reconnectTimer>> /\ UNCHANGED query

\* The close event counts only for the socket in use.
InUse(c, k) == ws[c] = k

SocketClosed(c, k) ==
    /\ sockets[c][k] # "none"
    /\ sockets' = [sockets EXCEPT ![c][k] = "none"]
    /\ wire' = IF sockets[c][k] = "open" THEN [wire EXCEPT ![c] = <<>>] ELSE wire
    /\ IF InUse(c, k)
       THEN /\ ws' = [ws EXCEPT ![c] = 0]
            /\ isConnected' = [isConnected EXCEPT ![c] = FALSE]
            /\ reconnectTimer' = [reconnectTimer EXCEPT ![c] = TRUE]
       ELSE UNCHANGED <<ws, isConnected, reconnectTimer>>
    /\ UNCHANGED query

\* The first message under way reaches the listeners of its type.
Arrives(c, event) ==
    /\ wire[c] # <<>> /\ event = Head(wire[c])
    /\ wire' = [wire EXCEPT ![c] = Tail(wire[c])]
    /\ UNCHANGED connection

ConnectionStep ==
    \E c \in Conns :
        \/ Connect(c) \/ ReconnectFires(c)
        \/ \E k \in Sockets : SocketOpens(c, k) \/ SocketCloses(c, k) \/ SocketClosed(c, k)

-----------------------------------------------------------------------------
(* The query and the bridge.  What takes a list in hand is the page.        *)

\* onInvalidate: the timer starts over.
OnInvalidate(c) ==
    /\ \E event \in {wire[c][i] : i \in 1..Len(wire[c])} :
           event.type = "invalidate" /\ Arrives(c, event)
    /\ invalidateTimer' = TRUE
    /\ UNCHANGED <<recent, slim, fetch>>

\* invalidateQueries drops the request under way and starts another.
InvalidateFires ==
    /\ invalidateTimer
    /\ invalidateTimer' = FALSE
    /\ fetch' = IF recent THEN fetch ELSE Asked
    /\ UNCHANGED <<recent, slim, wire>> /\ UNCHANGED connection

\* markLocalInvalidate, by a change on another page; 1.5 s.
MarkLocalInvalidate ==
    /\ recent' = TRUE
    /\ UNCHANGED <<invalidateTimer, slim, fetch, wire>> /\ UNCHANGED connection

WindowEnds ==
    /\ recent
    /\ recent' = FALSE
    /\ UNCHANGED <<invalidateTimer, slim, fetch, wire>> /\ UNCHANGED connection

ServerAnswers(list) ==
    /\ fetch.st = "asked"
    /\ fetch' = [fetch EXCEPT !.st = "answered", !.list = list]
    /\ UNCHANGED <<invalidateTimer, recent, slim, wire>> /\ UNCHANGED connection

\* A failed request is tried once more; after that the query keeps its list.
FetchFails ==
    /\ fetch.st # "none"
    /\ fetch' = IF fetch.retry THEN NoFetch ELSE [Asked EXCEPT !.retry = TRUE]
    /\ UNCHANGED <<invalidateTimer, recent, slim, wire>> /\ UNCHANGED connection

QueryStep == (\E c \in Conns : OnInvalidate(c)) \/ InvalidateFires \/ WindowEnds \/ FetchFails

-----------------------------------------------------------------------------

\* The layout and the page are mounted, both clients are connected.
FeedInit(list) ==
    /\ ws = [c \in Conns |-> CHOOSE k \in Sockets : TRUE]
    /\ sockets = [c \in Conns |-> [k \in Sockets |-> IF k = ws[c] THEN "open" ELSE "none"]]
    /\ isConnected = [c \in Conns |-> TRUE]
    /\ reconnectTimer = [c \in Conns |-> FALSE]
    /\ wire = [c \in Conns |-> <<>>]
    /\ invalidateTimer = FALSE /\ recent = FALSE
    /\ slim = list /\ fetch = NoFetch

-----------------------------------------------------------------------------

\* Of the sockets a client made, at most the one it holds can still deliver:
\* a reconnection never leaves a second one behind (websocket.ts:37-44, 96-115).
SingleSocket ==
    \A c \in Conns : \A k \in Sockets : sockets[c][k] \in Alive => ws[c] = k

\* A client is never left without a socket and without the timer that makes
\* the next one, and it believes to be connected only while it holds a socket
\* (websocket.ts:109-115, 165-184).
NeverStranded ==
    \A c \in Conns :
        /\ ws[c] # 0 => sockets[c][ws[c]] # "none"
        /\ isConnected[c] => ws[c] # 0
        /\ ws[c] = 0 => reconnectTimer[c]
=============================================================================
